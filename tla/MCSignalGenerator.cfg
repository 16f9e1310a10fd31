SPECIFICATION Spec
CONSTANTS
    Thresholds <- MCThresholds
    Limits <- MCLimits
    FeePct = 2
    PerOrder = 1
    Symbols <- MCSymbols
    Strategies <- MCStrategies
    Batches <- MCBatches
    Contracts <- MCContracts
    Histories <- MCHistories
    Markets <- MCMarkets
    MinConfidence = 2
    DedupeWindow = 2
    BookTtl = 2
    MaxClock = 3
    MaxFaults = 2
CHECK_DEADLOCK FALSE
INVARIANTS EmittedIsTradable StructuresWhole
PROPERTY RepeatsSpaced
