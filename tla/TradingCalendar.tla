---------------------------- MODULE TradingCalendar ---------------------------
(***************************************************************************)
(* The calendar that learns the market's holidays from its history:        *)
(* market/trading_calendar.py, and build_trading_calendar of bootstrap.py. *)
(* A day is a number; a calendar is the record of the object's fields, with*)
(* the history its learner will get (<<>>: no learner).                    *)
(***************************************************************************)
EXTENDS Integers, Sequences, FiniteSets

CONSTANT FixedHolidays   \* days the Jalali table calls holidays

NoDay == -1

is_weekend(day) == day % 7 \in {3, 4}
is_fixed_holiday(day) == day \in FixedHolidays

First(days) == CHOOSE d \in days : \A e \in days : d <= e
Last(days) == CHOOSE d \in days : \A e \in days : d >= e

\* What is kept on disk.
NoCache == [holidays |-> {}, observed_from |-> NoDay, observed_to |-> NoDay]
save(cal) == [holidays |-> cal.holidays, observed_from |-> cal.observed_from,
              observed_to |-> cal.observed_to]

\* A file that cannot be parsed, such as one whose write was cut off, counts as
\* none (_load_cache).
Loadable(cache) == {cache, NoCache}

\* The holidays of the settings and of the file, and a learner for later.
build_trading_calendar(extra, cache, history) ==
    [holidays |-> extra \cup cache.holidays, observed_from |-> cache.observed_from,
     observed_to |-> cache.observed_to, learner |-> history]

\* Variant: every day of the observed range without a candle is a holiday.
learn_over_range(cal, days) ==
    LET from == IF cal.observed_from = NoDay THEN First(days) ELSE First({cal.observed_from, First(days)})
        to == Last({cal.observed_to, Last(days)})
    IN  IF Cardinality(days) < 2 THEN cal
        ELSE [cal EXCEPT !.holidays = @ \cup {d \in from..to : ~is_weekend(d) /\ d \notin days},
                         !.observed_from = from, !.observed_to = to]

\* A working day between the first and the last day of trade that had no
\* trade was a holiday.
learn_from_history(cal, days) ==
    LET first == First(days)
        last == Last(days)
    IN  IF Cardinality(days) < 2 THEN cal
        ELSE [cal EXCEPT
                 !.holidays = @ \cup {d \in first..last : ~is_weekend(d) /\ d \notin days},
                 !.observed_from = IF @ = NoDay THEN first ELSE First({@, first}),
                 !.observed_to = Last({@, last})]

\* Learning happens once, at the first question about a working day; what it
\* found is saved if it found a holiday.
learn_if_needed(cal) ==
    IF cal.learner = <<>> THEN cal
    ELSE learn_from_history([cal EXCEPT !.learner = <<>>], cal.learner[1])

Saved(before, after, cache) == IF after.holidays # before.holidays THEN save(after) ELSE cache

\* The table speaks only after the last day that was seen.
is_holiday(cal, day) ==
    \/ is_weekend(day)
    \/ day \in cal.holidays
    \/ /\ cal.observed_to = NoDay \/ day > cal.observed_to
       /\ is_fixed_holiday(day)

is_trading_day(cal, day) == ~is_holiday(cal, day)

\* The first trading day after a day, within sixty.
next_trading_day(cal, day) ==
    First({d \in (day + 1)..(day + 60) : is_trading_day(cal, d)})

trading_days_between(cal, start, end) ==
    Cardinality({d \in start..end : is_trading_day(cal, d)})
=============================================================================
