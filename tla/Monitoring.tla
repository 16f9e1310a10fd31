------------------------------ MODULE Monitoring ------------------------------
(***************************************************************************)
(* What the bot looks at to judge its own health, and what keeps its       *)
(* warnings from being repeated: monitoring/health.py and the calendar of  *)
(* monitoring/periodic_report.py.  Times are numbers of ticks.             *)
(***************************************************************************)
EXTENDS Integers, FiniteSets

CONSTANTS
    Strategies,                            \* names of the strategies
    DroughtWarning, DroughtCritical,       \* ticks without a signal
    DataWarning, DataCritical,             \* consecutive failed passes
    StrategyThreshold,                     \* errors of one strategy
    Cooldown,                              \* ticks between two equal alerts
    PeriodLength                           \* ticks of each report period

Never == -1                                \* no such moment

ASSUME MonitoringAssumption ==
    /\ Cooldown \in Nat
    /\ \A c \in {DroughtWarning, DroughtCritical, DataWarning, DataCritical,
                 StrategyThreshold} : c \in Nat
    /\ DOMAIN PeriodLength = {"daily", "weekly"}
    /\ \A p \in DOMAIN PeriodLength : PeriodLength[p] \in Nat

Keys == {"signal_drought", "data_source", "strategy_errors", "stale_quotes"}
Periods == {"daily", "weekly"}

Severity(status) ==
    CASE status = "ok" -> 0 [] status = "warning" -> 1 [] status = "critical" -> 2

IsAlert(status) == status # "ok"

-----------------------------------------------------------------------------
(* The four checks.                                                        *)

Grade(n, warning, critical) ==
    IF n >= critical THEN "critical" ELSE IF n >= warning THEN "warning" ELSE "ok"

CheckSignalDrought(lastSignalAt, now) ==
    IF lastSignalAt = Never
    THEN "warning"
    ELSE Grade(now - lastSignalAt, DroughtWarning, DroughtCritical)

CheckDataSource(consecutiveFailures) ==
    Grade(consecutiveFailures, DataWarning, DataCritical)

CheckStrategyErrors(errors) ==
    LET broken == {s \in Strategies : errors[s] >= StrategyThreshold}
    IN  Grade(Cardinality(broken), 1, 2)

\* main.py gives no ratio of missing quotes, and without one all is well.
CheckStaleQuotes == "ok"

\* HealthMonitor.run: all checks at one moment, in the order they are listed.
RunChecks(lastSignalAt, failures, errors, now) ==
    << [key |-> "signal_drought", status |-> CheckSignalDrought(lastSignalAt, now)],
       [key |-> "data_source", status |-> CheckDataSource(failures)],
       [key |-> "strategy_errors", status |-> CheckStrategyErrors(errors)],
       [key |-> "stale_quotes", status |-> CheckStaleQuotes] >>

-----------------------------------------------------------------------------
(* AlertThrottle: for each key, the status and the moment last sent.       *)

NotSent == [status |-> "ok", at |-> Never]

\* Variant: a worse state waits for the cooldown too.
ShouldSendLater(previous, status, now) ==
    /\ IsAlert(status)
    /\ previous = NotSent \/ now - previous.at >= Cooldown

\* Variant: an equal state counts as a worse one.
ShouldSendEqual(previous, status, now) ==
    /\ IsAlert(status)
    /\ \/ previous = NotSent
       \/ Severity(status) >= Severity(previous.status)
       \/ now - previous.at >= Cooldown

ShouldSend(previous, status, now) ==
    /\ IsAlert(status)
    /\ \/ previous = NotSent
       \/ Severity(status) > Severity(previous.status)
       \/ now - previous.at >= Cooldown

\* ReportSchedule.is_due, for a period that was marked before.
IsDue(previous, period, now) == now - previous >= PeriodLength[period]
=============================================================================
