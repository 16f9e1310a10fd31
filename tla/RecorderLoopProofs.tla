------------------------ MODULE RecorderLoopProofs ------------------------
(***************************************************************************)
(* The loop's promises about slots, for every day length, interval and     *)
(* recording window: an interval that does not divide the day, a sleep or  *)
(* an attempt of any length and a wake-up at any later moment included.    *)
(***************************************************************************)
EXTENDS RecorderLoop, TLAPS

(* Division *)

LEMMA Quotient ==
    ASSUME NEW a \in Nat, NEW b \in Nat \ {0}
    PROVE  /\ a \div b \in Nat
           /\ (a \div b) * b \in Nat
           /\ (a \div b) * b <= a
           /\ a < (a \div b) * b + b
<1>1. a \div b \in Nat
  OBVIOUS
<1>2. /\ (a \div b) * b <= a
      /\ a < (a \div b) * b + b
  OBVIOUS
<1>. QED
  BY <1>1, <1>2

LEMMA NextMultiple == \A q, r, b \in Nat : q < r => q * b + b <= r * b
OBVIOUS

\* The quotient is settled by its bounds.
LEMMA QuotientIs ==
    ASSUME NEW a \in Nat, NEW b \in Nat \ {0}, NEW q \in Nat, q * b <= a, a < q * b + b
    PROVE  a \div b = q
<1>. DEFINE r == a \div b
<1>1. r \in Nat /\ r * b \in Nat /\ r * b <= a /\ a < r * b + b
  BY Quotient
<1>2. q * b \in Nat
  OBVIOUS
<1>. HIDE DEF r
<1>3. ~ (q < r)
  BY <1>1, <1>2, NextMultiple
<1>4. ~ (r < q)
  BY <1>1, <1>2, NextMultiple
<1>5. r = q
  BY <1>1, <1>3, <1>4
<1>. QED
  BY <1>5 DEF r

LEMMA QuotientMonotone ==
    ASSUME NEW a \in Nat, NEW c \in Nat, a <= c, NEW b \in Nat \ {0}
    PROVE  a \div b <= c \div b
<1>. DEFINE q == a \div b
            r == c \div b
<1>1. /\ q \in Nat /\ q * b \in Nat /\ q * b <= a
      /\ r \in Nat /\ r * b \in Nat /\ c < r * b + b
  BY Quotient
<1>. HIDE DEF q, r
<1>2. ~ (r < q)
  BY <1>1, NextMultiple
<1>3. q <= r
  BY <1>1, <1>2
<1>. QED
  BY <1>3 DEF q, r

-----------------------------------------------------------------------------
(* market/schedule.py *)

\* The slot of t within its day, and the parts of the clock.
Place(t) == (t - Midnight(t)) \div Interval

LEMMA DayParts ==
    ASSUME NEW t \in Nat
    PROVE  /\ Day(t) \in Nat /\ Midnight(t) \in Nat
           /\ Midnight(t) <= t /\ t < Midnight(t) + DayLength
           /\ t - Midnight(t) \in Nat
<1>1. DayLength \in Nat \ {0}
  BY ScheduleAssumption
<1>2. t \div DayLength \in Nat /\ (t \div DayLength) * DayLength \in Nat
      /\ (t \div DayLength) * DayLength <= t
      /\ t < (t \div DayLength) * DayLength + DayLength
  BY <1>1, Quotient
<1>. QED
  BY <1>1, <1>2 DEF Day, Midnight

LEMMA SlotParts ==
    ASSUME NEW t \in Nat
    PROVE  /\ Place(t) \in Nat /\ Place(t) * Interval \in Nat
           /\ Midnight(t) + Place(t) * Interval <= t
           /\ t < Midnight(t) + Place(t) * Interval + Interval
           /\ next_tick(t) = Midnight(t) + Place(t) * Interval + Interval
           /\ next_tick(t) \in Nat /\ t < next_tick(t) /\ next_tick(t) <= t + Interval
<1>. DEFINE q == Place(t)
<1>1. Interval \in Nat \ {0}
  BY ScheduleAssumption
<1>2. t - Midnight(t) \in Nat /\ Midnight(t) \in Nat
  BY DayParts
<1>3. /\ q \in Nat /\ q * Interval \in Nat
      /\ q * Interval <= t - Midnight(t)
      /\ t - Midnight(t) < q * Interval + Interval
  BY <1>1, <1>2, Quotient DEF Place
<1>4. next_tick(t) = Midnight(t) + (q + 1) * Interval
  BY DEF next_tick, Place
<1>. HIDE DEF q
<1>5. (q + 1) * Interval = q * Interval + Interval
  BY <1>1, <1>3
<1>6. /\ q \in Nat /\ q * Interval \in Nat
      /\ Midnight(t) + q * Interval <= t
      /\ t < Midnight(t) + q * Interval + Interval
      /\ next_tick(t) = Midnight(t) + q * Interval + Interval
      /\ next_tick(t) \in Nat /\ t < next_tick(t) /\ next_tick(t) <= t + Interval
  BY <1>1, <1>2, <1>3, <1>4, <1>5
<1>. QED
  BY <1>6 DEF q

\* Days and, within a day, places only grow.
LEMMA DayGrows ==
    ASSUME NEW t \in Nat, NEW u \in Nat, t <= u
    PROVE  /\ Day(t) <= Day(u)
           /\ Day(t) = Day(u) => Midnight(t) = Midnight(u) /\ Place(t) <= Place(u)
           /\ Day(t) # Day(u) => t < Midnight(u)
<1>1. DayLength \in Nat \ {0} /\ Interval \in Nat \ {0}
  BY ScheduleAssumption
<1>2. Day(t) <= Day(u)
  BY <1>1, QuotientMonotone DEF Day
<1>3. /\ Day(t) \in Nat /\ Midnight(t) \in Nat /\ t < Midnight(t) + DayLength
      /\ Day(u) \in Nat /\ Midnight(u) \in Nat
      /\ t - Midnight(t) \in Nat /\ u - Midnight(u) \in Nat
  BY DayParts
<1>4. ASSUME Day(t) = Day(u)
      PROVE  Midnight(t) = Midnight(u) /\ Place(t) <= Place(u)
  <2>1. Midnight(t) = Midnight(u)
    BY <1>4 DEF Midnight
  <2>2. t - Midnight(t) <= u - Midnight(u)
    BY <1>3, <2>1
  <2>. QED
    BY <1>1, <1>3, <2>1, <2>2, QuotientMonotone DEF Place
<1>5. ASSUME Day(t) # Day(u)
      PROVE  t < Midnight(u)
  <2>1. Day(t) < Day(u)
    <3>1. \A a, b \in Nat : a <= b /\ a # b => a < b
      OBVIOUS
    <3>. QED
      BY <1>2, <1>3, <1>5, <3>1
  <2>2. Day(t) * DayLength + DayLength <= Day(u) * DayLength
    BY <1>1, <1>3, <2>1, NextMultiple
  <2>. QED
    BY <1>1, <1>3, <2>2 DEF Midnight
<1>. QED
  BY <1>2, <1>4, <1>5

\* A moment at or after the next tick of p is in a later slot than any moment
\* up to p.
LEMMA LaterSlot ==
    ASSUME NEW t \in Nat, NEW p \in Nat, NEW u \in Nat, t <= p, next_tick(p) <= u
    PROVE  Slot(t) # Slot(u)
<1>1. SUFFICES ASSUME Day(t) = Day(u), Place(t) = Place(u) PROVE FALSE
  BY DEF Slot, Place
<1>2. p < next_tick(p) /\ next_tick(p) \in Nat
  BY SlotParts
<1>3. p <= u
  BY <1>2
<1>4. Day(t) <= Day(p) /\ Day(p) <= Day(u) /\ Day(t) \in Nat /\ Day(p) \in Nat
  BY <1>3, DayGrows, DayParts
<1>5. Day(p) = Day(t)
  BY <1>1, <1>4
<1>6. /\ Midnight(p) = Midnight(u) /\ Midnight(p) \in Nat
      /\ Place(t) <= Place(p) /\ Place(p) <= Place(u)
      /\ Place(t) \in Nat /\ Place(p) \in Nat
  BY <1>1, <1>3, <1>5, DayGrows, SlotParts, DayParts
<1>7. Place(p) = Place(u)
  BY <1>1, <1>6
<1>8. /\ u < Midnight(u) + Place(u) * Interval + Interval
      /\ next_tick(p) = Midnight(p) + Place(p) * Interval + Interval
  BY SlotParts
<1>9. next_tick(p) = Midnight(u) + Place(u) * Interval + Interval
  BY <1>6, <1>7, <1>8
<1>10. Place(u) * Interval \in Nat /\ Interval \in Nat /\ Midnight(u) \in Nat
  BY ScheduleAssumption, SlotParts, DayParts
<1>. QED
  BY <1>8, <1>9, <1>10

\* Between p and its next tick no slot starts, midnights apart.
LEMMA NoTickBetween ==
    ASSUME NEW p \in Nat, NEW t \in Nat, p < t, t < next_tick(p),
           (t - Midnight(t)) % Interval = 0
    PROVE  t = Midnight(t)
<1>. DEFINE a == t - Midnight(t)
<1>1. Interval \in Nat \ {0}
  BY ScheduleAssumption
<1>2. a \in Nat /\ Midnight(t) \in Nat
  BY DayParts
<1>3. a = (a \div Interval) * Interval
  <2>1. \A x \in Nat, y \in Nat \ {0} : x % y = 0 => x = (x \div y) * y
    OBVIOUS
  <2>. QED
    BY <1>1, <1>2, <2>1
<1>4. t = Midnight(t) + Place(t) * Interval
  BY <1>2, <1>3 DEF Place
<1>5. /\ Place(t) \in Nat /\ Place(t) * Interval \in Nat
      /\ Place(p) \in Nat /\ Place(p) * Interval \in Nat
      /\ Midnight(p) \in Nat /\ Midnight(p) + Place(p) * Interval <= p
      /\ next_tick(p) = Midnight(p) + Place(p) * Interval + Interval
      /\ next_tick(p) <= p + Interval
  BY SlotParts, DayParts
<1>6. CASE Day(p) = Day(t)
  <2>1. Midnight(p) = Midnight(t) /\ Place(p) <= Place(t)
    BY <1>6, DayGrows
  <2>2. Place(p) # Place(t)
    BY <1>4, <1>5, <2>1
  <2>3. Place(p) < Place(t)
    BY <1>5, <2>1, <2>2
  <2>4. Place(p) * Interval + Interval <= Place(t) * Interval
    BY <1>1, <1>5, <2>3, NextMultiple
  <2>. QED
    BY <1>1, <1>2, <1>4, <1>5, <2>1, <2>4
<1>7. CASE Day(p) # Day(t)
  <2>1. p < Midnight(t)
    BY <1>7, DayGrows
  <2>2. Place(t) * Interval < Interval
    BY <1>1, <1>2, <1>4, <1>5, <2>1
  <2>3. Place(t) = 0
    <3>1. 0 * Interval = 0
      BY <1>1
    <3>2. ~ (0 < Place(t))
      BY <1>1, <1>5, <2>2, <3>1, NextMultiple
    <3>. QED
      BY <1>5, <3>2
  <2>4. Place(t) * Interval = 0
    BY <1>1, <2>3
  <2>. QED
    BY <1>2, <1>4, <2>4
<1>. QED
  BY <1>6, <1>7

-----------------------------------------------------------------------------
(* The loop *)

Moments == [moment : Nat, requested_at : Nat]

TypeOK ==
    /\ now \in Nat /\ target \in Nat /\ moment \in Nat
    /\ pc \in {"plan", "sleep", "decide", "record", "attempt", "ended"}
    /\ attempts \in Seq(Moments)

\* p is a moment at which the loop planned: after every attempt so far.
PlannedAt(p) == \A i \in DOMAIN attempts : attempts[i].requested_at <= p

\* The loop sleeps for the tick after a moment it planned at, and what it
\* decides on is at or after such a tick: the inductive invariant.
LoopInv ==
    /\ TypeOK
    /\ \A i \in DOMAIN attempts : /\ attempts[i].moment <= attempts[i].requested_at
                                  /\ attempts[i].requested_at <= now
    /\ pc = "sleep" => \E p \in Nat : p <= now /\ PlannedAt(p) /\ target = next_tick(p)
    /\ pc \in {"decide", "record"} =>
         /\ moment <= now
         /\ \E p \in Nat : PlannedAt(p) /\ next_tick(p) <= moment
    /\ OnePerSlot

LEMMA InitLoop == Init => LoopInv
BY ScheduleAssumption DEF Init, LoopInv, TypeOK, OnePerSlot

LEMMA AttemptKeeps ==
    ASSUME LoopInv, Attempt
    PROVE  LoopInv'
<1>. DEFINE n == Len(attempts)
            a == [moment |-> moment, requested_at |-> now]
<1>1. /\ attempts \in Seq(Moments) /\ a \in Moments /\ n \in Nat
      /\ DOMAIN attempts = 1 .. n
      /\ moment \in Nat /\ now \in Nat /\ moment <= now
  BY DEF LoopInv, TypeOK, Attempt, Moments
<1>2. /\ attempts' = Append(attempts, a) /\ attempts' \in Seq(Moments)
      /\ DOMAIN attempts' = 1 .. n + 1
      /\ attempts'[n + 1] = a
      /\ \A i \in 1 .. n : attempts'[i] = attempts[i]
  BY <1>1 DEF Attempt
<1>3. a.moment = moment /\ a.requested_at = now
  OBVIOUS
<1>. HIDE DEF n, a
<1>4. PICK p \in Nat : PlannedAt(p) /\ next_tick(p) <= moment
  BY DEF LoopInv, Attempt
<1>5. p < next_tick(p) /\ next_tick(p) \in Nat
  BY SlotParts
<1>6. ASSUME NEW i \in 1 .. n
      PROVE  /\ attempts[i].moment \in Nat /\ attempts[i].requested_at \in Nat
             /\ attempts[i].moment <= attempts[i].requested_at
             /\ attempts[i].requested_at <= p
  <2>1. attempts[i] \in Moments
    BY <1>1
  <2>. QED
    BY <1>1, <1>4, <2>1 DEF LoopInv, PlannedAt, Moments
<1>7. ASSUME NEW i \in 1 .. n
      PROVE  /\ Slot(attempts[i].moment) # Slot(moment)
             /\ attempts[i].requested_at < moment
  <2>1. attempts[i].moment <= p
    BY <1>6
  <2>. QED
    BY <1>1, <1>4, <1>5, <1>6, <2>1, LaterSlot, SMTT(30)
<1>8. OnePerSlot'
  <2>. SUFFICES ASSUME NEW i \in 1 .. n + 1, NEW j \in 1 .. n + 1, i < j
                PROVE  /\ Slot(attempts'[i].moment) # Slot(attempts'[j].moment)
                       /\ attempts'[i].requested_at < attempts'[j].moment
    BY <1>2 DEF OnePerSlot, Slot, Day, Midnight
  <2>1. i \in 1 .. n /\ attempts'[i] = attempts[i]
    BY <1>1, <1>2
  <2>2. CASE j = n + 1
    BY <1>2, <1>3, <1>7, <2>1, <2>2
  <2>3. CASE j # n + 1
    <3>1. j \in 1 .. n /\ attempts'[j] = attempts[j]
      BY <1>1, <1>2, <2>3
    <3>. QED
      BY <1>1, <2>1, <3>1 DEF LoopInv, OnePerSlot
  <2>. QED
    BY <2>2, <2>3
<1>9. \A i \in DOMAIN attempts' : /\ attempts'[i].moment <= attempts'[i].requested_at
                                  /\ attempts'[i].requested_at <= now'
  <2>. SUFFICES ASSUME NEW i \in 1 .. n + 1
                PROVE  /\ attempts'[i].moment <= attempts'[i].requested_at
                       /\ attempts'[i].requested_at <= now
    BY <1>2 DEF Attempt
  <2>1. CASE i = n + 1
    BY <1>1, <1>2, <1>3, <2>1
  <2>2. CASE i # n + 1
    BY <1>1, <1>2, <2>2, SMTT(30) DEF LoopInv
  <2>. QED
    BY <2>1, <2>2
<1>10. TypeOK'
  BY <1>2 DEF LoopInv, TypeOK, Attempt
<1>11. pc' = "attempt"
  BY DEF Attempt
<1>. QED
  BY <1>8, <1>9, <1>10, <1>11 DEF LoopInv

LEMMA PlanKeeps == ASSUME LoopInv, Plan PROVE LoopInv'
<1>1. now \in Nat /\ next_tick(now) \in Nat
  BY SlotParts DEF LoopInv, TypeOK
<1>2. PlannedAt(now)
  BY DEF LoopInv, PlannedAt
<1>3. /\ target' = next_tick(now) /\ pc' = "sleep" /\ now' = now /\ moment' = moment
      /\ attempts' = attempts
  BY DEF Plan
<1>4. OnePerSlot'
  BY <1>3 DEF LoopInv, OnePerSlot, Slot, Day, Midnight
<1>5. \E p \in Nat : p <= now' /\ PlannedAt(p)' /\ target' = next_tick(p)
  <2>1. PlannedAt(now)'
    BY <1>2, <1>3 DEF PlannedAt
  <2>. QED
    BY <1>1, <1>3, <2>1
<1>. QED
  BY <1>1, <1>3, <1>4, <1>5 DEF LoopInv, TypeOK, next_tick, Day, Midnight

LEMMA WakeKeeps == ASSUME LoopInv, Wake PROVE LoopInv'
<1>1. PICK p \in Nat : p <= now /\ PlannedAt(p) /\ target = next_tick(p)
  BY DEF LoopInv, Wake
<1>2. /\ now >= target /\ moment' = now /\ pc' = "decide"
      /\ now' = now /\ target' = target /\ attempts' = attempts
  BY DEF Wake
<1>3. OnePerSlot'
  BY <1>2 DEF LoopInv, OnePerSlot, Slot, Day, Midnight
<1>4. PlannedAt(p)' /\ next_tick(p) <= moment'
  BY <1>1, <1>2, SlotParts DEF PlannedAt, LoopInv, TypeOK
<1>. QED
  BY <1>2, <1>3, <1>4 DEF LoopInv, TypeOK, next_tick, Day, Midnight

LEMMA NextLoop == LoopInv /\ [Next]_vars => LoopInv'
<1>. SUFFICES ASSUME LoopInv, [Next]_vars PROVE LoopInv'
  OBVIOUS
<1>1. ASSUME attempts' = attempts, target' = target, moment' = moment,
             now' \in Nat, now <= now',
             \/ pc' = pc
             \/ pc' = "record" /\ pc = "decide"
             \/ pc' \in {"plan", "ended"}
      PROVE  LoopInv'
  <2>1. OnePerSlot' /\ \A p : PlannedAt(p)' = PlannedAt(p)
    BY <1>1 DEF LoopInv, OnePerSlot, PlannedAt, Slot, Day, Midnight
  <2>2. TypeOK'
    BY <1>1 DEF LoopInv, TypeOK
  <2>3. \A i \in DOMAIN attempts : attempts[i].requested_at \in Nat
    <3>1. ASSUME NEW i \in DOMAIN attempts
          PROVE  attempts[i] \in Moments
      BY DEF LoopInv, TypeOK
    <3>. QED
      BY <3>1 DEF Moments
  <2>4. \A i \in DOMAIN attempts' : /\ attempts'[i].moment <= attempts'[i].requested_at
                                    /\ attempts'[i].requested_at <= now'
    BY <1>1, <2>3 DEF LoopInv, TypeOK
  <2>5. pc' = "sleep" => \E p \in Nat : p <= now' /\ PlannedAt(p)' /\ target' = next_tick(p)
    BY <1>1, <2>1 DEF LoopInv, TypeOK
  <2>6. pc' \in {"decide", "record"} =>
          /\ moment' <= now'
          /\ \E p \in Nat : PlannedAt(p)' /\ next_tick(p) <= moment'
    BY <1>1, <2>1 DEF LoopInv, TypeOK
  <2>. QED
    BY <2>1, <2>2, <2>4, <2>5, <2>6 DEF LoopInv, next_tick, Day, Midnight
<1>2. CASE Plan
  BY <1>2, PlanKeeps
<1>3. CASE Wake
  BY <1>3, WakeKeeps
<1>4. CASE Skip \/ Go \/ GoOn \/ End \/ Tick \/ UNCHANGED vars
  BY <1>1, <1>4 DEF LoopInv, TypeOK, Skip, Go, GoOn, End, Tick, vars
<1>5. CASE Attempt
  BY <1>5, AttemptKeeps
<1>. QED
  BY <1>2, <1>3, <1>4, <1>5 DEF Next

\* However late the loop wakes and however long an attempt takes, no slot is
\* attempted twice, and an attempt belongs to a moment after the request of
\* the one before: attempts never overlap and no backlog is worked off.
THEOREM NoSlotTwice == Spec => []OnePerSlot
<1>1. LoopInv => OnePerSlot
  BY DEF LoopInv
<1>. QED
  BY <1>1, InitLoop, NextLoop, PTL DEF Spec

\* The loop never plans past the start of a slot that is still ahead, whatever
\* the interval; only a midnight may be slept over, when the slots start anew.
THEOREM NoSlotMissedAsleep == Spec => []NoSlotSleptThrough
<1>1. LoopInv => NoSlotSleptThrough
  <2>. SUFFICES ASSUME LoopInv, pc = "sleep", NEW t \in now + 1 .. target - 1,
                       (t - Midnight(t)) % Interval = 0
                PROVE  t = Midnight(t)
    BY DEF NoSlotSleptThrough
  <2>1. PICK p \in Nat : p <= now /\ target = next_tick(p)
    BY DEF LoopInv
  <2>2. now \in Nat /\ target \in Nat
    BY DEF LoopInv, TypeOK
  <2>3. t \in Nat /\ p < t /\ t < next_tick(p)
    BY <2>1, <2>2
  <2>. QED
    BY <2>1, <2>3, NoTickBetween
<1>. QED
  BY <1>1, InitLoop, NextLoop, PTL DEF Spec
=============================================================================
