SPECIFICATION Spec
CONSTANTS
    Symbols = {"near", "far"}
    RateBase = 10
    Tolerance = 1
    InitialBalance = 12
    Quantities = {0, 2}
    Prices = {1, 3}
    SettlePrices = {0, 2}
    FeeSchedules <- MCFeeSchedules
    Expiry <- MCExpiry
    ContractSize <- MCContractSize
    LastDay = 1
    MaxOrders = 3
INVARIANTS Reconciled RecordedIsUpperBound QuantityConserved CostCountedOnce
PROPERTIES UnknownStaysUnknown ExpiredOnlySettled LedgerSpec
