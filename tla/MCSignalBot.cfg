SPECIFICATION Spec
CONSTANTS
    s1 = s1
    Strategies = {"directional", "neutral"}
    DroughtWarning = 2
    DroughtCritical = 4
    DataWarning = 1
    DataCritical = 2
    StrategyThreshold = 1
    Cooldown = 2
    PeriodLength <- MCPeriodLength
    Signals <- MCSignals
    Updates <- MCUpdates
    Console = FALSE
    BatchLimit = 2
    NapsPerPass = 1
    Budgets <- MCBudgets
INVARIANTS AlertedRecently NoAlertFlood ReportsSpaced CaughtUp AnswersCounted
PROPERTY UpdatesHandled
