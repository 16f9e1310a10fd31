SPECIFICATION FairReqSpec
CONSTANTS
    Symbols = {"far"}
    RateBase = 10
    Tolerance = 0
    InitialBalance = 6
    Quantities = {2}
    Prices = {1, 2}
    SettlePrices = {0, 2}
    FeeSchedules <- MCOneSchedule
    Expiry <- MCExpiry
    ContractSize <- MCContractSize
    LastDay = 1
    MaxOrders = 3
    Workers = {"w1", "w2"}
    Kinds = {"buy", "snapshot"}
INVARIANTS QuantityConserved NeverLosesMoney ReportNeverShort
PROPERTY Responds
