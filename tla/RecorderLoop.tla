---------------------------- MODULE RecorderLoop ----------------------------
(***************************************************************************)
(* When --loop attempts: _loop_forever of scripts/record_market.py and the *)
(* functions of market/schedule.py, under a wall clock that runs on while  *)
(* the loop plans, sleeps, asks the calendar and records.  A machine that  *)
(* sleeps, a long attempt or a slow answer of the calendar are steps of    *)
(* the clock between two steps of the loop.  A clock that is set back is   *)
(* not modelled.                                                           *)
(*                                                                         *)
(* Abstraction.  Time is counted from the midnight of day 0 in units of    *)
(* one step of the sleep; of an attempt only its moments are kept.         *)
(***************************************************************************)
EXTENDS Integers, Sequences

CONSTANTS
  DayLength,           \* units of one day
  Interval,            \* interval_seconds
  WindowStart, WindowEnd, Grace,   \* RecordingWindow, units after midnight
  TradingDays,         \* days the calendar calls trading days
  UnknownDays,         \* days on which the calendar raises
  Horizon              \* bound: last moment of the clock

ASSUME ScheduleAssumption ==
  /\ Interval \in Nat \ {0} /\ DayLength \in Nat \ {0} /\ Grace \in Nat
  /\ WindowStart < WindowEnd
  /\ WindowStart \in 0 .. DayLength - 1 /\ WindowEnd \in 0 .. DayLength - 1

VARIABLES
  now,        \* the wall clock
  pc,         \* "plan", "sleep", "decide", "record", "attempt", "ended"
  target,     \* the tick the loop sleeps for
  moment,     \* when it woke, as decide sees it
  attempts    \* history: [moment, requested_at] of each attempt

vars == <<now, pc, target, moment, attempts>>

-----------------------------------------------------------------------------
(* market/schedule.py *)

Day(t) == t \div DayLength
Midnight(t) == Day(t) * DayLength

\* Faulty: the slot at hand is due again.
TickNotAfter(t) == Midnight(t) + ((t - Midnight(t)) \div Interval) * Interval

\* Faulty: one slot too far.
TickAfterNext(t) == Midnight(t) + ((t - Midnight(t)) \div Interval + 2) * Interval

\* The first moment after t that is aligned with t's own midnight.
next_tick(t) == Midnight(t) + ((t - Midnight(t)) \div Interval + 1) * Interval

contains(t) == Midnight(t) + WindowStart <= t /\ t <= Midnight(t) + WindowEnd + Grace

\* A calendar that does not answer does not stop the recording.
is_trading_day(t) == Day(t) \in TradingDays \cup UnknownDays

decide(t) == is_trading_day(t) /\ contains(t)

-----------------------------------------------------------------------------
Init ==
  /\ now \in 0 .. DayLength - 1
  /\ pc = "plan"
  /\ target = now /\ moment = now
  /\ attempts = << >>

Plan ==
  /\ pc = "plan"
  /\ target' = next_tick(now)
  /\ pc' = "sleep"
  /\ UNCHANGED <<now, moment, attempts>>

\* _sleep_until returned: missed ticks are logged and forgotten.
Wake ==
  /\ pc = "sleep"
  /\ now >= target
  /\ moment' = now
  /\ pc' = "decide"
  /\ UNCHANGED <<now, target, attempts>>

\* Waiting is not a failure and leaves no trace.
Skip ==
  /\ pc = "decide"
  /\ ~decide(moment)
  /\ pc' = "plan"
  /\ UNCHANGED <<now, target, moment, attempts>>

Go ==
  /\ pc = "decide"
  /\ decide(moment)
  /\ pc' = "record"
  /\ UNCHANGED <<now, target, moment, attempts>>

\* _record_once: requested_at is taken from the clock again.
Attempt ==
  /\ pc = "record"
  /\ attempts' = Append(attempts, [moment |-> moment, requested_at |-> now])
  /\ pc' = "attempt"
  /\ UNCHANGED <<now, target, moment>>

\* EXIT_OK and EXIT_FAILED alike: the next tick is planned.
GoOn ==
  /\ pc = "attempt"
  /\ pc' = "plan"
  /\ UNCHANGED <<now, target, moment, attempts>>

\* EXIT_MISUSE, Ctrl+C, or an error that no handler names.
End ==
  /\ pc # "ended"
  /\ pc' = "ended"
  /\ UNCHANGED <<now, target, moment, attempts>>

Tick ==
  /\ now < Horizon
  /\ now' = now + 1
  /\ UNCHANGED <<pc, target, moment, attempts>>

Next == Plan \/ Wake \/ Skip \/ Go \/ Attempt \/ GoOn \/ End \/ Tick

Spec == Init /\ [][Next]_vars

-----------------------------------------------------------------------------
Slot(t) == <<Day(t), (t - Midnight(t)) \div Interval>>

\* However late the loop wakes and however long an attempt takes, no slot is
\* attempted twice and no earlier one is made up for (schedule.py: no overlap,
\* no backlog).
OnePerSlot ==
  \A i, j \in DOMAIN attempts :
    i < j => /\ Slot(attempts[i].moment) # Slot(attempts[j].moment)
             /\ attempts[i].requested_at < attempts[j].moment

\* The loop never sleeps past the start of a slot that is still ahead of it,
\* however the last sleep or attempt ended.  Only a midnight may be slept
\* over, when the interval does not divide the day and the slots start anew.
NoSlotSleptThrough ==
  pc = "sleep" =>
    \A t \in now + 1 .. target - 1 :
      (t - Midnight(t)) % Interval = 0 => t = Midnight(t)
=============================================================================
