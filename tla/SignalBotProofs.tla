--------------------------- MODULE SignalBotProofs ---------------------------
(***************************************************************************)
(* The bot's promises about alerts, reports, the chat and its answers, for *)
(* every cooldown, period, batch limit and budget of stops and faults.     *)
(***************************************************************************)
EXTENDS SignalBot, TLAPS, FiniteSetTheorems, WellFoundedInduction

Checks == [key : Keys, status : {"ok", "warning", "critical"}]

Places == {"down", "cycle", "send", "save", "count", "check", "record",
           "reports", "mark", "poll", "handle", "nap"}

\* Where the process is says what its list of things to do holds.
Control ==
    /\ clock \in Nat
    /\ pc \in Places
    /\ pc \in {"check", "record"} => todo \in Seq(Checks) /\ todo # <<>>
    /\ pc = "record" => Head(todo).status \in Alerts
    /\ pc \in {"reports", "mark"} => todo \in Seq(Periods) /\ todo # <<>>

LEMMA ChecksTyped ==
    ASSUME NEW at, NEW f, NEW e, NEW now
    PROVE  /\ RunChecks(at, f, e, now) \in Seq(Checks)
           /\ RunChecks(at, f, e, now) # <<>>
<1>1. \A n, w, c : Grade(n, w, c) \in {"ok", "warning", "critical"}
  BY DEF Grade
<1>2. /\ CheckSignalDrought(at, now) \in {"ok", "warning", "critical"}
      /\ CheckDataSource(f) \in {"ok", "warning", "critical"}
      /\ CheckStrategyErrors(e) \in {"ok", "warning", "critical"}
      /\ CheckStaleQuotes \in {"ok", "warning", "critical"}
  BY <1>1 DEF CheckSignalDrought, CheckDataSource, CheckStrategyErrors, CheckStaleQuotes
<1>. QED
  BY <1>2 DEF RunChecks, Checks, Keys

LEMMA PeriodsTyped == <<"daily", "weekly">> \in Seq(Periods) /\ <<"daily", "weekly">> # <<>>
BY DEF Periods

LEMMA TailTyped ==
    ASSUME NEW S, NEW q \in Seq(S), Len(q) > 1
    PROVE  Tail(q) \in Seq(S) /\ Tail(q) # <<>>
<1>1. Len(q) \in Nat /\ q # <<>>
  OBVIOUS
<1>2. Tail(q) \in Seq(S) /\ Len(Tail(q)) = Len(q) - 1
  BY <1>1
<1>3. Len(Tail(q)) # 0
  BY <1>1, <1>2
<1>4. ASSUME Tail(q) = <<>> PROVE FALSE
  <2>1. Len(<<>>) = 0
    OBVIOUS
  <2>. QED
    BY <1>3, <1>4, <2>1, Zenon
<1>. QED
  BY <1>2, <1>4

LEMMA HeadTyped ==
    ASSUME NEW S, NEW q \in Seq(S), q # <<>>
    PROVE  Head(q) \in S
OBVIOUS

LEMMA InitControl == Init => Control
BY DEF Init, Control, Places

LEMMA NextCheckTyped ==
    ASSUME todo \in Seq(Checks), NextCheck
    PROVE  \/ pc' = "check" /\ todo' \in Seq(Checks) /\ todo' # <<>>
           \/ pc' = "reports" /\ todo' \in Seq(Periods) /\ todo' # <<>>
BY TailTyped, PeriodsTyped DEF NextCheck

LEMMA NextPeriodTyped ==
    ASSUME todo \in Seq(Periods), NextPeriod
    PROVE  \/ pc' = "reports" /\ todo' \in Seq(Periods) /\ todo' # <<>>
           \/ pc' = "poll"
BY TailTyped DEF NextPeriod

LEMMA NextControl == Control /\ [Next]_vars => Control'
<1>. SUFFICES ASSUME Control, [Next]_vars PROVE Control'
  OBVIOUS
<1>1. CASE Start \/ Stop \/ StopInWrite \/ SaveRaises
  BY <1>1 DEF Start, Stop, StopInWrite, SaveRaises, Die, Elapse, Control, Places
<1>2. CASE SkipCycle \/ RunCycle \/ SendSignal \/ SaveSignal
  BY <1>2, PeriodsTyped DEF SkipCycle, RunCycle, SendSignal, SaveSignal, Control, Places
<1>3. CASE CountAndCheck
  <2>1. todo' \in Seq(Checks) /\ todo' # <<>> /\ pc' = "check" /\ clock' = clock
    BY <1>3, ChecksTyped DEF CountAndCheck
  <2>. QED
    BY <2>1 DEF Control, Places
<1>4. CASE Announce
  <2>1. /\ pc = "check" /\ pc' = "record" /\ clock' = clock /\ todo' = todo
        /\ IsAlert(Head(todo).status)
    BY <1>4 DEF Announce, ShouldSend, procVars
  <2>2. Head(todo) \in Checks
    BY <2>1, HeadTyped DEF Control
  <2>3. Head(todo).status \in Alerts
    BY <2>1, <2>2 DEF Checks, IsAlert, Alerts
  <2>. QED
    BY <2>1, <2>3 DEF Control, Places
<1>5. CASE RecordAlert \/ ClearAlert \/ Suppress
  <2>1. pc \in {"check", "record"} /\ NextCheck /\ clock' = clock
    BY <1>5 DEF RecordAlert, ClearAlert, Suppress
  <2>. QED
    BY <2>1, NextCheckTyped DEF Control, Places
<1>6. CASE FirstMark \/ NoReport \/ MarkSent
  <2>1. pc \in {"reports", "mark"} /\ NextPeriod /\ clock' = clock
    BY <1>6 DEF FirstMark, NoReport, MarkSent
  <2>. QED
    BY <2>1, NextPeriodTyped DEF Control, Places
<1>7. CASE SendReport
  BY <1>7 DEF SendReport, Control, Places, procVars
<1>8. CASE Arrive \/ Fetch \/ FetchFails \/ Handle \/ SaveOffset
  <2>1. clock' = clock /\ pc' \in {"poll", "handle", "nap"}
    BY <1>8 DEF Arrive, Fetch, FetchFails, Handle, HandleOther, HandleMute, HandleAck,
                Consume, SaveOffset
  <2>. QED
    BY <2>1 DEF Control, Places
<1>9. CASE Nap
  BY <1>9 DEF Nap, Elapse, Control, Places
<1>10. CASE UNCHANGED vars
  BY <1>10 DEF vars, procVars, Control
<1>. QED
  BY <1>1, <1>2, <1>3, <1>4, <1>5, <1>6, <1>7, <1>8, <1>9, <1>10 DEF Next, Step

-----------------------------------------------------------------------------
(* Alerts *)

Moment == Nat \cup {Never}
Record == [status : Alerts, at : Nat]

\* What the throttle remembers of key k, a record about to be written counted.
Latest(k) == IF pc = "record" /\ k = Head(todo).key
             THEN [status |-> Head(todo).status, at |-> clock]
             ELSE sent[k]

\* A record never claims more than was sent.
Backed(f) == \A k \in Keys : f[k] # NotSent => f[k].at <= alertedAt[k][f[k].status]

\* The record r of key k answers for the last alert of status s: it is as new,
\* and it is as severe or was made a cooldown later.
Covers(r, k, s) ==
    \/ <<k, s>> \in excused
    \/ alertedAt[k][s] = Never
    \/ /\ r # NotSent
       /\ alertedAt[k][s] <= r.at
       /\ Severity(s) <= Severity(r.status) \/ r.at - alertedAt[k][s] >= Cooldown

AlertTypes ==
    /\ sent \in [Keys -> Record \cup {NotSent}]
    /\ sentFile \in [Keys -> Record \cup {NotSent}]
    /\ alertedAt \in [Keys -> [Alerts -> Moment]]

\* The inductive invariant behind AlertedRecently and NoAlertFlood.
AlertInv ==
    /\ AlertTypes
    /\ \A k \in Keys, s \in Alerts : alertedAt[k][s] <= clock
    /\ Backed(sent) /\ Backed(sentFile)
    /\ \A k \in Keys, s \in Alerts : Covers(Latest(k), k, s)
    /\ pc = "record" => alertedAt[Head(todo).key][Head(todo).status] = clock
    /\ pc = "down" => \A k \in Keys : sent[k] = sentFile[k] \/ {k} \X Alerts \subseteq excused

LEMMA InitAlerts == Init => AlertInv
BY DEF Init, AlertInv, AlertTypes, Moment, Never, Backed, Covers, Latest, NoAlerts

\* A file without records claims nothing.
LEMMA EmptyAlerts == /\ NoAlerts \in [Keys -> Record \cup {NotSent}]
                     /\ \A k \in Keys : NoAlerts[k] = NotSent
BY DEF NoAlerts

LEMMA SeverityNat == \A s \in Alerts : Severity(s) \in Nat
BY DEF Alerts, Severity

LEMMA RecordParts == ASSUME NEW r \in Record \cup {NotSent}, r # NotSent
                     PROVE  r \in Record /\ r.status \in Alerts /\ r.at \in Nat
BY DEF Record

\* Steps that leave the throttle and its history alone.
LEMMA QuietAlerts ==
    ASSUME Control, AlertInv, UNCHANGED alertVars, pc # "record", pc' # "record",
           pc' = "down" => pc = "down", clock' \in Nat, clock <= clock'
    PROVE  AlertInv'
<1>1. UNCHANGED <<sent, sentFile, alertedAt, excused>>
  BY DEF alertVars
<1>2. AlertTypes' /\ Backed(sent)' /\ Backed(sentFile)'
  BY <1>1 DEF AlertInv, AlertTypes, Backed
<1>3. \A k \in Keys, s \in Alerts : Covers(Latest(k), k, s)'
  BY <1>1 DEF AlertInv, Covers, Latest
<1>4. ASSUME NEW k \in Keys, NEW s \in Alerts
      PROVE  alertedAt'[k][s] <= clock'
  <2>1. alertedAt[k][s] \in Int /\ alertedAt[k][s] <= clock /\ clock \in Nat
    BY DEF AlertInv, AlertTypes, Moment, Never, Control
  <2>. QED
    BY <1>1, <2>1
<1>5. pc' = "down" => \A k \in Keys : sent'[k] = sentFile'[k] \/ {k} \X Alerts \subseteq excused'
  BY <1>1 DEF AlertInv
<1>. QED
  BY <1>2, <1>3, <1>4, <1>5 DEF AlertInv

\* A stop loses what the file does not hold, and only that.
LEMMA DieAlerts ==
    ASSUME Control, AlertInv, Die, sentFile' \in {sentFile, NoAlerts}
    PROVE  AlertInv'
<1>. DEFINE L == {k \in Keys : \/ sentFile'[k] # sent[k]
                               \/ pc = "record" /\ k = Head(todo).key}
<1>1. /\ UNCHANGED <<sent, alertedAt, clock>> /\ pc' = "down"
      /\ excused' = excused \cup (L \X Alerts)
  BY DEF Die
<1>2. AlertTypes' /\ Backed(sent)' /\ Backed(sentFile)'
  BY <1>1, EmptyAlerts DEF AlertInv, AlertTypes, Backed
<1>3. ASSUME NEW k \in Keys, NEW s \in Alerts
      PROVE  Covers(Latest(k), k, s)'
  <2>1. Latest(k)' = sent[k]
    BY <1>1 DEF Latest
  <2>2. CASE k \in L
    BY <1>1, <2>2 DEF Covers
  <2>3. CASE k \notin L
    <3>1. Latest(k) = sent[k]
      BY <2>3 DEF Latest
    <3>2. Covers(sent[k], k, s)
      BY <3>1 DEF AlertInv
    <3>. QED
      BY <1>1, <2>1, <3>2 DEF Covers
  <2>. QED
    BY <2>2, <2>3
<1>4. \A k \in Keys : sent'[k] = sentFile'[k] \/ {k} \X Alerts \subseteq excused'
  BY <1>1
<1>. QED
  BY <1>1, <1>2, <1>3, <1>4 DEF AlertInv

LEMMA StartAlerts == ASSUME Control, AlertInv, Start PROVE AlertInv'
<1>1. /\ pc = "down" /\ pc' = "cycle" /\ sent' = sentFile
      /\ UNCHANGED <<sentFile, alertedAt, excused>>
      /\ clock' \in Nat /\ clock <= clock'
  BY DEF Start, Elapse, Control
<1>2. AlertTypes' /\ Backed(sent)' /\ Backed(sentFile)'
  BY <1>1 DEF AlertInv, AlertTypes, Backed
<1>3. ASSUME NEW k \in Keys, NEW s \in Alerts
      PROVE  Covers(Latest(k), k, s)'
  <2>1. Latest(k)' = sentFile[k] /\ Latest(k) = sent[k]
    BY <1>1 DEF Latest
  <2>2. Covers(sent[k], k, s)
    BY <2>1 DEF AlertInv
  <2>3. sent[k] = sentFile[k] \/ <<k, s>> \in excused
    BY <1>1 DEF AlertInv
  <2>. QED
    BY <1>1, <2>1, <2>2, <2>3 DEF Covers
<1>4. ASSUME NEW k \in Keys, NEW s \in Alerts
      PROVE  alertedAt'[k][s] <= clock'
  <2>1. alertedAt[k][s] \in Int /\ alertedAt[k][s] <= clock /\ clock \in Nat
    BY DEF AlertInv, AlertTypes, Moment, Never, Control
  <2>. QED
    BY <1>1, <2>1
<1>. QED
  BY <1>1, <1>2, <1>3, <1>4 DEF AlertInv

LEMMA AnnounceAlerts == ASSUME Control, AlertInv, Announce PROVE AlertInv'
<1>. DEFINE c == Head(todo)
            q == c.key
            st == c.status
<1>1. /\ pc = "check" /\ pc' = "record" /\ todo' = todo /\ clock' = clock
      /\ sent' = sent /\ sentFile' = sentFile
      /\ ShouldSend(sent[q], st, clock)
      /\ alertedAt' = [alertedAt EXCEPT ![q][st] = clock]
      /\ excused' = excused \ {<<q, st>>}
  BY DEF Announce, procVars
<1>2. c \in Checks /\ clock \in Nat
  BY <1>1, HeadTyped DEF Control
<1>3. q \in Keys /\ st \in Alerts
  BY <1>1, <1>2 DEF Checks, ShouldSend, IsAlert, Alerts
<1>. HIDE DEF c, q, st
<1>4. /\ sent \in [Keys -> Record \cup {NotSent}]
      /\ sentFile \in [Keys -> Record \cup {NotSent}]
      /\ alertedAt \in [Keys -> [Alerts -> Moment]]
  BY DEF AlertInv, AlertTypes
<1>5. alertedAt' \in [Keys -> [Alerts -> Moment]]
  BY <1>1, <1>2, <1>3, <1>4 DEF Moment
<1>6. /\ alertedAt'[q][st] = clock
      /\ \A k \in Keys, s \in Alerts : <<k, s>> # <<q, st>> => alertedAt'[k][s] = alertedAt[k][s]
  BY <1>1, <1>3, <1>4
<1>7. \A k \in Keys, s \in Alerts : alertedAt[k][s] \in Int /\ alertedAt[k][s] <= clock
  BY <1>4 DEF AlertInv, Moment, Never
<1>8. \A k \in Keys, s \in Alerts : /\ alertedAt[k][s] <= alertedAt'[k][s]
                                    /\ alertedAt'[k][s] <= clock
                                    /\ alertedAt'[k][s] \in Int
  BY <1>2, <1>6, <1>7
<1>9. ASSUME NEW f \in [Keys -> Record \cup {NotSent}], Backed(f), NEW k \in Keys,
             f[k] # NotSent
      PROVE  f[k].at <= alertedAt'[k][f[k].status]
  <2>1. f[k].status \in Alerts /\ f[k].at \in Nat
    BY <1>9, RecordParts
  <2>2. f[k].at <= alertedAt[k][f[k].status]
    BY <1>9 DEF Backed
  <2>. QED
    BY <1>7, <1>8, <2>1, <2>2
<1>10. Backed(sent)' /\ Backed(sentFile)'
  <2>1. Backed(sent) /\ Backed(sentFile)
    BY DEF AlertInv
  <2>2. /\ \A k \in Keys : sent[k] # NotSent => sent[k].at <= alertedAt'[k][sent[k].status]
        /\ \A k \in Keys : sentFile[k] # NotSent =>
                             sentFile[k].at <= alertedAt'[k][sentFile[k].status]
    BY <1>4, <1>9, <2>1
  <2>. QED
    BY <1>1, <2>2 DEF Backed
<1>11. ASSUME NEW k \in Keys, NEW s \in Alerts
       PROVE  Covers(Latest(k), k, s)'
  <2>1. Latest(k) = sent[k]
    BY <1>1 DEF Latest
  <2>2. Covers(sent[k], k, s)
    BY <2>1 DEF AlertInv
  <2>3. CASE k # q
    <3>1. Latest(k)' = sent[k]
      BY <1>1, <2>3 DEF Latest, q, c
    <3>. QED
      BY <1>1, <1>6, <2>2, <2>3, <3>1 DEF Covers
  <2>4. CASE k = q
    <3>. DEFINE r == [status |-> st, at |-> clock]
    <3>1. Latest(k)' = r /\ r # NotSent
      BY <1>1, <1>2, <2>4 DEF Latest, q, st, c, NotSent, Never
    <3>2. r.at = clock /\ r.status = st
      OBVIOUS
    <3>3. CASE s = st
      <4>1. alertedAt'[k][s] = clock /\ Severity(s) <= Severity(r.status)
        BY <1>6, <2>4, <3>2, <3>3, SeverityNat
      <4>. QED
        BY <1>2, <3>1, <3>2, <4>1 DEF Covers
    <3>4. CASE s # st
      <4>1. alertedAt'[k][s] = alertedAt[k][s] /\ alertedAt[k][s] \in Int
            /\ alertedAt[k][s] <= clock
        BY <1>6, <1>7, <2>4, <3>4
      <4>2. CASE <<k, s>> \in excused
        BY <1>1, <3>4, <4>2 DEF Covers
      <4>3. CASE alertedAt[k][s] = Never
        BY <4>1, <4>3 DEF Covers
      <4>4. CASE /\ sent[k] # NotSent
                 /\ alertedAt[k][s] <= sent[k].at
                 /\ \/ Severity(s) <= Severity(sent[k].status)
                    \/ sent[k].at - alertedAt[k][s] >= Cooldown
        <5>1. sent[k].at \in Nat /\ sent[k].status \in Alerts
          BY <1>4, <4>4, RecordParts
        <5>2. sent[k].at <= clock
          BY <1>7, <1>2, <4>4, <5>1 DEF AlertInv, Backed
        <5>3. \/ Severity(st) > Severity(sent[k].status)
              \/ clock - sent[k].at >= Cooldown
          BY <1>1, <2>4, <4>4 DEF ShouldSend
        <5>4. /\ Severity(s) \in Nat /\ Severity(st) \in Nat
              /\ Severity(sent[k].status) \in Nat /\ Cooldown \in Nat
          BY <1>3, <5>1, SeverityNat, MonitoringAssumption
        <5>5. Severity(s) <= Severity(st) \/ clock - alertedAt[k][s] >= Cooldown
          BY <1>2, <4>1, <4>4, <5>1, <5>2, <5>3, <5>4
        <5>. QED
          BY <3>1, <3>2, <4>1, <5>5, <1>1 DEF Covers
      <4>. QED
        BY <2>2, <4>2, <4>3, <4>4 DEF Covers
    <3>. QED
      BY <3>3, <3>4
  <2>. QED
    BY <2>3, <2>4
<1>12. alertedAt'[Head(todo').key][Head(todo').status] = clock'
  BY <1>1, <1>6 DEF q, st, c
<1>. QED
  BY <1>1, <1>4, <1>5, <1>8, <1>10, <1>11, <1>12 DEF AlertInv, AlertTypes

LEMMA RecordAlerts == ASSUME Control, AlertInv, RecordAlert PROVE AlertInv'
<1>. DEFINE c == Head(todo)
            q == c.key
            r == [status |-> c.status, at |-> clock]
<1>1. /\ pc = "record" /\ pc' \in {"check", "reports"} /\ clock' = clock
      /\ sent' = [sent EXCEPT ![q] = r]
      /\ sentFile' \in {sentFile, sent', NoAlerts}
      /\ UNCHANGED <<alertedAt, excused>>
  BY DEF RecordAlert, Written, NextCheck
<1>2. c \in Checks /\ clock \in Nat /\ c.status \in Alerts
  BY <1>1, HeadTyped DEF Control
<1>3. q \in Keys /\ r \in Record /\ r.status = c.status /\ r.at = clock
  BY <1>2 DEF Checks, Record
<1>4. AlertTypes
  BY DEF AlertInv
<1>5. alertedAt[q][r.status] = clock
  BY <1>1, <1>3 DEF AlertInv
<1>6. \A k \in Keys : Latest(k) = sent'[k]
  BY <1>1, <1>3, <1>4 DEF Latest, AlertTypes
<1>. HIDE DEF c, q, r
<1>7. AlertTypes'
  BY <1>1, <1>3, <1>4, EmptyAlerts DEF AlertTypes
<1>8. Backed(sent)' /\ Backed(sentFile)'
  <2>1. ASSUME NEW k \in Keys, sent'[k] # NotSent
        PROVE  sent'[k].at <= alertedAt[k][sent'[k].status]
    <3>1. CASE k = q
      <4>1. sent'[k] = r
        BY <1>1, <1>4, <3>1 DEF AlertTypes
      <4>. QED
        BY <1>2, <1>3, <1>5, <3>1, <4>1
    <3>2. CASE k # q
      <4>1. sent'[k] = sent[k]
        BY <1>1, <1>4, <3>2 DEF AlertTypes
      <4>. QED
        BY <2>1, <4>1 DEF AlertInv, Backed
    <3>. QED
      BY <3>1, <3>2
  <2>2. Backed(sent)'
    BY <1>1, <2>1 DEF Backed
  <2>3. CASE sentFile' = sent'
    BY <2>2, <2>3 DEF Backed
  <2>4. CASE sentFile' = sentFile
    BY <1>1, <2>2, <2>4 DEF AlertInv, Backed
  <2>5. CASE sentFile' = NoAlerts
    BY <2>2, <2>5, EmptyAlerts DEF Backed
  <2>. QED
    BY <1>1, <2>2, <2>3, <2>4, <2>5
<1>9. \A k \in Keys, s \in Alerts : Covers(Latest(k), k, s)'
  <2>1. \A k \in Keys : Latest(k)' = sent'[k]
    BY <1>1 DEF Latest
  <2>2. \A k \in Keys, s \in Alerts : Covers(sent'[k], k, s)
    BY <1>6 DEF AlertInv
  <2>. QED
    BY <1>1, <2>1, <2>2 DEF Covers
<1>. QED
  BY <1>1, <1>7, <1>8, <1>9 DEF AlertInv

LEMMA ClearAlerts == ASSUME Control, AlertInv, ClearAlert PROVE AlertInv'
<1>. DEFINE q == Head(todo).key
<1>1. /\ pc = "check" /\ pc' \in {"check", "reports"} /\ clock' = clock
      /\ sent' = [sent EXCEPT ![q] = NotSent]
      /\ sentFile' \in {sentFile, sent', NoAlerts}
      /\ alertedAt' = alertedAt /\ excused' = excused \cup ({q} \X Alerts)
  BY DEF ClearAlert, Written, NextCheck
<1>2. AlertTypes
  BY DEF AlertInv
<1>. HIDE DEF q
<1>3. AlertTypes'
  BY <1>1, <1>2, EmptyAlerts DEF AlertTypes
<1>4. Backed(sent)' /\ Backed(sentFile)'
  BY <1>1, <1>2, EmptyAlerts DEF AlertInv, AlertTypes, Backed
<1>5. ASSUME NEW k \in Keys, NEW s \in Alerts
      PROVE  Covers(Latest(k), k, s)'
  <2>1. Latest(k)' = sent'[k] /\ Latest(k) = sent[k]
    BY <1>1 DEF Latest
  <2>2. Covers(sent[k], k, s)
    BY <2>1 DEF AlertInv
  <2>3. k # q => sent'[k] = sent[k]
    BY <1>1, <1>2 DEF AlertTypes
  <2>. QED
    BY <1>1, <2>1, <2>2, <2>3 DEF Covers
<1>. QED
  BY <1>1, <1>3, <1>4, <1>5 DEF AlertInv

LEMMA NextAlerts == Control /\ AlertInv /\ [Next]_vars => AlertInv'
<1>. SUFFICES ASSUME Control, AlertInv, [Next]_vars PROVE AlertInv'
  OBVIOUS
<1>0. clock \in Nat
  BY DEF Control
<1>1. CASE Start
  BY <1>1, StartAlerts
<1>2. CASE Stop \/ StopInWrite \/ SaveRaises
  BY <1>2, DieAlerts DEF Stop, StopInWrite, SaveRaises, stateFiles
<1>3. CASE Announce
  BY <1>3, AnnounceAlerts
<1>4. CASE RecordAlert
  BY <1>4, RecordAlerts
<1>5. CASE ClearAlert
  BY <1>5, ClearAlerts
<1>6. CASE SkipCycle \/ SendSignal \/ SaveSignal \/ CountAndCheck \/ Suppress
  <2>1. /\ UNCHANGED alertVars /\ clock' = clock /\ pc # "record"
        /\ pc' \in {"reports", "save", "count", "send", "check"}
    BY <1>6 DEF SkipCycle, SendSignal, SaveSignal, CountAndCheck, Suppress, NextCheck
  <2>. QED
    BY <1>0, <2>1, QuietAlerts
<1>7. CASE RunCycle
  <2>1. /\ UNCHANGED alertVars /\ clock' = clock /\ pc # "record"
        /\ pc' \in {"count", "send"}
    BY <1>7 DEF RunCycle
  <2>. QED
    BY <1>0, <2>1, QuietAlerts
<1>8. CASE FirstMark \/ NoReport \/ SendReport \/ MarkSent
  <2>1. /\ UNCHANGED alertVars /\ clock' = clock /\ pc # "record"
        /\ pc' \in {"reports", "poll", "mark"}
    BY <1>8 DEF FirstMark, NoReport, SendReport, MarkSent, NextPeriod
  <2>. QED
    BY <1>0, <2>1, QuietAlerts
<1>9. CASE Arrive \/ Fetch \/ FetchFails \/ Handle \/ SaveOffset
  <2>1. /\ UNCHANGED alertVars /\ clock' = clock /\ pc # "record"
        /\ pc' \in {"poll", "handle", "nap"}
    BY <1>9 DEF Arrive, Fetch, FetchFails, Handle, HandleOther, HandleMute, HandleAck,
                Consume, SaveOffset
  <2>. QED
    BY <1>0, <2>1, QuietAlerts
<1>10. CASE Nap
  <2>1. /\ UNCHANGED alertVars /\ clock' \in {clock, clock + 1} /\ pc # "record"
        /\ pc' \in {"poll", "cycle"}
    BY <1>10 DEF Nap, Elapse
  <2>. QED
    BY <1>0, <2>1, QuietAlerts
<1>11. CASE UNCHANGED vars
  <2>1. /\ UNCHANGED <<sent, sentFile, alertedAt, excused>>
        /\ UNCHANGED <<pc, clock, todo>>
    BY <1>11 DEF vars, alertVars, procVars
  <2>. QED
    BY <2>1 DEF AlertInv, AlertTypes, Backed, Covers, Latest
<1>. QED
  BY <1>1, <1>2, <1>3, <1>4, <1>5, <1>6, <1>7, <1>8, <1>9, <1>10, <1>11 DEF Next, Step

\* A check that finds a problem is silent only within a cooldown of an alert of
\* the same key that was at least as severe, whatever was stopped or refused.
THEOREM SilenceIsEarned == Spec => []AlertedRecently
<1>1. Control /\ AlertInv => AlertedRecently
  <2>. DEFINE c == Head(todo)
              r == sent[c.key]
  <2>. SUFFICES ASSUME Control, AlertInv, pc = "check", IsAlert(c.status),
                       ~ ShouldSend(r, c.status, clock)
                PROVE  \E s \in Alerts : /\ Severity(s) >= Severity(c.status)
                                         /\ alertedAt[c.key][s] # Never
                                         /\ clock - alertedAt[c.key][s] < Cooldown
    BY DEF AlertedRecently
  <2>1. c \in Checks /\ clock \in Nat
    BY HeadTyped DEF Control
  <2>2. c.key \in Keys /\ c.status \in Alerts
    BY <2>1 DEF Checks, IsAlert, Alerts
  <2>3. /\ r # NotSent /\ ~ (Severity(c.status) > Severity(r.status))
        /\ ~ (clock - r.at >= Cooldown)
    BY DEF ShouldSend
  <2>4. r.status \in Alerts /\ r.at \in Nat
    BY <2>2, <2>3, RecordParts DEF AlertInv, AlertTypes
  <2>5. /\ r.at <= alertedAt[c.key][r.status]
        /\ alertedAt[c.key][r.status] \in Int
    BY <2>2, <2>3, <2>4 DEF AlertInv, AlertTypes, Backed, Moment, Never
  <2>6. /\ Severity(r.status) \in Nat /\ Severity(c.status) \in Nat /\ Cooldown \in Nat
    BY <2>2, <2>4, SeverityNat, MonitoringAssumption
  <2>. HIDE DEF c, r
  <2>7. /\ Severity(r.status) >= Severity(c.status)
        /\ alertedAt[c.key][r.status] # Never
        /\ clock - alertedAt[c.key][r.status] < Cooldown
    BY <2>1, <2>3, <2>4, <2>5, <2>6 DEF Never
  <2>. QED
    BY <2>4, <2>7
<1>. QED
  BY <1>1, InitControl, NextControl, InitAlerts, NextAlerts, PTL DEF Spec

\* Within a cooldown of an alert no alert of its key that is not worse goes
\* out, restarts included, unless the problem was solved since or the process
\* ended while the file, cut off in a write of any key, did not hold the record.
THEOREM NoFlood == Spec => []NoAlertFlood
<1>1. Control /\ AlertInv => NoAlertFlood
  <2>. DEFINE c == Head(todo)
              r == sent[c.key]
  <2>. SUFFICES ASSUME Control, AlertInv, pc = "check", ShouldSend(r, c.status, clock),
                       NEW s \in Alerts, ~ (Severity(s) < Severity(c.status)),
                       <<c.key, s>> \notin excused, alertedAt[c.key][s] # Never
                PROVE  clock - alertedAt[c.key][s] >= Cooldown
    BY DEF NoAlertFlood
  <2>1. c \in Checks /\ clock \in Nat
    BY HeadTyped DEF Control
  <2>2. c.key \in Keys /\ c.status \in Alerts
    BY <2>1 DEF Checks, ShouldSend, IsAlert, Alerts
  <2>3. Latest(c.key) = r
    BY DEF Latest
  <2>4. Covers(r, c.key, s)
    BY <2>2, <2>3 DEF AlertInv
  <2>5. /\ r # NotSent /\ alertedAt[c.key][s] <= r.at
        /\ Severity(s) <= Severity(r.status) \/ r.at - alertedAt[c.key][s] >= Cooldown
    BY <2>4 DEF Covers
  <2>6. r.status \in Alerts /\ r.at \in Nat
    BY <2>2, <2>5, RecordParts DEF AlertInv, AlertTypes
  <2>7. r.at <= clock
    <3>1. /\ r.at <= alertedAt[c.key][r.status] /\ alertedAt[c.key][r.status] <= clock
          /\ alertedAt[c.key][r.status] \in Int
      BY <2>2, <2>5, <2>6 DEF AlertInv, AlertTypes, Backed, Moment, Never
    <3>. QED
      BY <2>1, <2>6, <3>1
  <2>8. /\ Severity(r.status) \in Nat /\ Severity(c.status) \in Nat /\ Severity(s) \in Nat
        /\ Cooldown \in Nat /\ alertedAt[c.key][s] \in Int
    BY <2>2, <2>6, SeverityNat, MonitoringAssumption DEF AlertInv, AlertTypes, Moment, Never
  <2>9. Severity(c.status) > Severity(r.status) \/ clock - r.at >= Cooldown
    BY <2>5 DEF ShouldSend
  <2>. HIDE DEF c, r
  <2>. QED
    BY <2>1, <2>5, <2>6, <2>7, <2>8, <2>9
<1>. QED
  BY <1>1, InitControl, NextControl, InitAlerts, NextAlerts, PTL DEF Spec

-----------------------------------------------------------------------------
(* Reports *)

\* What the schedule remembers of period p, a mark about to be set counted.
LatestMark(p) == IF pc = "down" THEN markedFile[p]
                 ELSE IF pc = "mark" /\ p = Head(todo) THEN clock
                 ELSE marked[p]

ReportTypes ==
    /\ marked \in [Periods -> Moment]
    /\ markedFile \in [Periods -> Moment]
    /\ reportedAt \in [Periods -> Moment]

\* The inductive invariant behind ReportsSpaced: a mark is as new as the last
\* report, unless it was lost.
ReportInv ==
    /\ ReportTypes
    /\ \A p \in Periods : /\ marked[p] <= clock /\ markedFile[p] <= clock
                          /\ reportedAt[p] <= clock
    /\ \A p \in Periods \ unmarked : LatestMark(p) = Never \/ reportedAt[p] <= LatestMark(p)

LEMMA InitReports == Init => ReportInv
BY DEF Init, ReportInv, ReportTypes, Moment, Never, LatestMark, NoMarks

LEMMA EmptyMarks == /\ NoMarks \in [Periods -> Moment]
                    /\ \A p \in Periods : NoMarks[p] = Never
BY DEF NoMarks, Moment

\* Steps that leave the schedule and its history alone.
LEMMA QuietReports ==
    ASSUME Control, ReportInv, UNCHANGED reportVars, pc \notin {"mark", "down"},
           pc' \notin {"mark", "down"}, clock' \in Nat, clock <= clock'
    PROVE  ReportInv'
<1>1. UNCHANGED <<marked, markedFile, reportedAt, unmarked>>
  BY DEF reportVars
<1>2. ReportTypes'
  BY <1>1 DEF ReportInv, ReportTypes
<1>3. \A p \in Periods \ unmarked' : LatestMark(p)' = Never \/ reportedAt'[p] <= LatestMark(p)'
  BY <1>1 DEF ReportInv, LatestMark
<1>4. ASSUME NEW p \in Periods
      PROVE  marked'[p] <= clock' /\ markedFile'[p] <= clock' /\ reportedAt'[p] <= clock'
  <2>1. /\ marked[p] \in Int /\ markedFile[p] \in Int /\ reportedAt[p] \in Int /\ clock \in Nat
        /\ marked[p] <= clock /\ markedFile[p] <= clock /\ reportedAt[p] <= clock
    BY DEF ReportInv, ReportTypes, Moment, Never, Control
  <2>. QED
    BY <1>1, <2>1
<1>. QED
  BY <1>1, <1>2, <1>3, <1>4 DEF ReportInv

\* A stop loses the marks that the file does not hold.  A file without any mark
\* only makes the next start mark the periods again.
LEMMA DieReports ==
    ASSUME Control, ReportInv, pc # "down", Die, markedFile' \in {markedFile, NoMarks}
    PROVE  ReportInv'
<1>1. /\ UNCHANGED <<marked, reportedAt, clock>> /\ pc' = "down"
      /\ unmarked' = unmarked \cup {p \in Periods :
                                     /\ markedFile'[p] # Never
                                     /\ \/ markedFile'[p] # marked[p]
                                        \/ pc = "mark" /\ p = Head(todo)}
  BY DEF Die
<1>2. ReportTypes'
  BY <1>1, EmptyMarks DEF ReportInv, ReportTypes
<1>3. \A p \in Periods : markedFile'[p] <= clock
  <2>1. \A p \in Periods : Never <= clock
    BY DEF Control, Never
  <2>. QED
    BY <2>1, EmptyMarks DEF ReportInv
<1>4. ASSUME NEW p \in Periods \ unmarked'
      PROVE  LatestMark(p)' = Never \/ reportedAt'[p] <= LatestMark(p)'
  <2>1. p \notin unmarked /\ LatestMark(p)' = markedFile'[p]
    BY <1>1 DEF LatestMark
  <2>2. CASE markedFile'[p] = Never
    BY <2>1, <2>2
  <2>3. CASE markedFile'[p] # Never
    <3>1. LatestMark(p) = marked[p] /\ markedFile'[p] = marked[p]
      BY <1>1, <2>3 DEF LatestMark
    <3>. QED
      BY <1>1, <2>1, <3>1 DEF ReportInv
  <2>. QED
    BY <2>2, <2>3
<1>. QED
  BY <1>1, <1>2, <1>3, <1>4 DEF ReportInv

LEMMA StartReports == ASSUME Control, ReportInv, Start PROVE ReportInv'
<1>1. /\ pc = "down" /\ pc' = "cycle" /\ marked' = markedFile
      /\ UNCHANGED <<markedFile, reportedAt, unmarked>>
      /\ clock' \in Nat /\ clock <= clock' /\ clock \in Nat
  BY DEF Start, Elapse, Control
<1>2. ReportTypes'
  BY <1>1 DEF ReportInv, ReportTypes
<1>3. \A p \in Periods \ unmarked' : LatestMark(p)' = Never \/ reportedAt'[p] <= LatestMark(p)'
  BY <1>1 DEF ReportInv, LatestMark
<1>4. ASSUME NEW p \in Periods
      PROVE  marked'[p] <= clock' /\ markedFile'[p] <= clock' /\ reportedAt'[p] <= clock'
  <2>1. /\ markedFile[p] \in Int /\ reportedAt[p] \in Int
        /\ markedFile[p] <= clock /\ reportedAt[p] <= clock
    BY DEF ReportInv, ReportTypes, Moment, Never
  <2>. QED
    BY <1>1, <2>1
<1>. QED
  BY <1>1, <1>2, <1>3, <1>4 DEF ReportInv

LEMMA SendReports == ASSUME Control, ReportInv, SendReport PROVE ReportInv'
<1>. DEFINE q == Head(todo)
<1>1. /\ pc = "reports" /\ pc' = "mark" /\ todo' = todo /\ clock' = clock
      /\ marked' = marked /\ markedFile' = markedFile
      /\ reportedAt' = [reportedAt EXCEPT ![q] = clock]
      /\ unmarked' = unmarked \ {q}
  BY DEF SendReport, procVars
<1>2. q \in Periods /\ clock \in Nat
  BY <1>1, HeadTyped DEF Control
<1>3. ReportTypes
  BY DEF ReportInv
<1>4. \A p \in Periods : LatestMark(p)' = IF p = q THEN clock ELSE LatestMark(p)
  BY <1>1 DEF LatestMark
<1>. HIDE DEF q
<1>5. ReportTypes'
  BY <1>1, <1>2, <1>3 DEF ReportTypes, Moment
<1>6. /\ reportedAt'[q] = clock
      /\ \A p \in Periods \ {q} : reportedAt'[p] = reportedAt[p]
  BY <1>1, <1>2, <1>3 DEF ReportTypes
<1>7. ASSUME NEW p \in Periods \ unmarked'
      PROVE  LatestMark(p)' = Never \/ reportedAt'[p] <= LatestMark(p)'
  <2>1. CASE p = q
    <3>1. reportedAt'[p] = clock /\ LatestMark(p)' = clock
      BY <1>2, <1>4, <1>6, <2>1
    <3>. QED
      BY <1>2, <3>1
  <2>2. CASE p # q
    <3>1. p \in Periods \ unmarked /\ p \in Periods \ {q}
      BY <1>1, <2>2
    <3>2. LatestMark(p) = Never \/ reportedAt[p] <= LatestMark(p)
      BY <3>1 DEF ReportInv
    <3>. QED
      BY <1>4, <1>6, <2>2, <3>1, <3>2
  <2>. QED
    BY <2>1, <2>2
<1>8. \A p \in Periods : reportedAt'[p] <= clock
  BY <1>2, <1>6 DEF ReportInv
<1>. QED
  BY <1>1, <1>5, <1>7, <1>8 DEF ReportInv

\* A mark is set, and reaches the file or not.
LEMMA MarkReports ==
    ASSUME Control, ReportInv, FirstMark \/ MarkSent
    PROVE  ReportInv'
<1>. DEFINE q == Head(todo)
<1>1. /\ pc \in {"reports", "mark"} /\ pc' \in {"reports", "poll"} /\ clock' = clock
      /\ marked' = [marked EXCEPT ![q] = clock]
      /\ markedFile' \in {markedFile, marked', NoMarks}
      /\ reportedAt' = reportedAt /\ unmarked' = unmarked
  BY DEF FirstMark, MarkSent, Written, NextPeriod
<1>2. q \in Periods /\ clock \in Nat
  BY <1>1, HeadTyped DEF Control
<1>3. ReportTypes
  BY DEF ReportInv
<1>4. \A p \in Periods \ {q} : LatestMark(p) = marked[p]
  BY <1>1 DEF LatestMark
<1>5. \A p \in Periods : LatestMark(p)' = marked'[p]
  BY <1>1 DEF LatestMark
<1>. HIDE DEF q
<1>6. /\ marked'[q] = clock
      /\ \A p \in Periods \ {q} : marked'[p] = marked[p]
      /\ marked' \in [Periods -> Moment]
  BY <1>1, <1>2, <1>3 DEF ReportTypes, Moment
<1>7. ReportTypes'
  BY <1>1, <1>3, <1>6, EmptyMarks DEF ReportTypes
<1>8. \A p \in Periods \ unmarked' : LatestMark(p)' = Never \/ reportedAt'[p] <= LatestMark(p)'
  BY <1>1, <1>2, <1>4, <1>5, <1>6 DEF ReportInv
<1>9. \A p \in Periods : marked'[p] <= clock
  BY <1>2, <1>6 DEF ReportInv
<1>10. \A p \in Periods : markedFile'[p] <= clock
  <2>1. \A p \in Periods : Never <= clock
    BY <1>2 DEF Never
  <2>. QED
    BY <1>1, <1>9, <2>1, EmptyMarks DEF ReportInv
<1>. QED
  BY <1>1, <1>7, <1>8, <1>9, <1>10 DEF ReportInv

LEMMA NextReports == Control /\ ReportInv /\ [Next]_vars => ReportInv'
<1>. SUFFICES ASSUME Control, ReportInv, [Next]_vars PROVE ReportInv'
  OBVIOUS
<1>0. clock \in Nat
  BY DEF Control
<1>1. CASE Start
  BY <1>1, StartReports
<1>2. CASE Stop \/ StopInWrite \/ SaveRaises
  BY <1>2, DieReports DEF Stop, StopInWrite, SaveRaises, stateFiles
<1>3. CASE SkipCycle \/ SendSignal \/ SaveSignal \/ CountAndCheck
  <2>1. /\ UNCHANGED reportVars /\ clock' = clock /\ pc \notin {"mark", "down"}
        /\ pc' \in {"reports", "save", "count", "send", "check"}
    BY <1>3 DEF SkipCycle, SendSignal, SaveSignal, CountAndCheck
  <2>. QED
    BY <1>0, <2>1, QuietReports
<1>4. CASE RunCycle
  <2>1. /\ UNCHANGED reportVars /\ clock' = clock /\ pc \notin {"mark", "down"}
        /\ pc' \in {"count", "send"}
    BY <1>4 DEF RunCycle
  <2>. QED
    BY <1>0, <2>1, QuietReports
<1>5. CASE Announce \/ RecordAlert \/ ClearAlert \/ Suppress
  <2>1. /\ UNCHANGED reportVars /\ clock' = clock /\ pc \notin {"mark", "down"}
        /\ pc' \in {"record", "check", "reports"}
    BY <1>5 DEF Announce, RecordAlert, ClearAlert, Suppress, NextCheck
  <2>. QED
    BY <1>0, <2>1, QuietReports
<1>6. CASE FirstMark \/ MarkSent
  BY <1>6, MarkReports
<1>7. CASE NoReport
  <2>1. /\ UNCHANGED reportVars /\ clock' = clock /\ pc \notin {"mark", "down"}
        /\ pc' \in {"reports", "poll"}
    BY <1>7 DEF NoReport, NextPeriod
  <2>. QED
    BY <1>0, <2>1, QuietReports
<1>8. CASE SendReport
  BY <1>8, SendReports
<1>9. CASE Arrive \/ Fetch \/ FetchFails \/ Handle \/ SaveOffset
  <2>1. /\ UNCHANGED reportVars /\ clock' = clock /\ pc \notin {"mark", "down"}
        /\ pc' \in {"poll", "handle", "nap"}
    BY <1>9 DEF Arrive, Fetch, FetchFails, Handle, HandleOther, HandleMute, HandleAck,
                Consume, SaveOffset
  <2>. QED
    BY <1>0, <2>1, QuietReports
<1>10. CASE Nap
  <2>1. /\ UNCHANGED reportVars /\ clock' \in {clock, clock + 1} /\ pc \notin {"mark", "down"}
        /\ pc' \in {"poll", "cycle"}
    BY <1>10 DEF Nap, Elapse
  <2>. QED
    BY <1>0, <2>1, QuietReports
<1>11. CASE UNCHANGED vars
  <2>1. /\ UNCHANGED <<marked, markedFile, reportedAt, unmarked>>
        /\ UNCHANGED <<pc, clock, todo>>
    BY <1>11 DEF vars, reportVars, procVars
  <2>. QED
    BY <2>1 DEF ReportInv, ReportTypes, LatestMark
<1>. QED
  BY <1>1, <1>2, <1>3, <1>4, <1>5, <1>6, <1>7, <1>8, <1>9, <1>10, <1>11 DEF Next, Step

\* Two reports of one period are at least that period apart, restarts included,
\* unless the process ended while the file held an older mark.
THEOREM ReportsApart == Spec => []ReportsSpaced
<1>1. Control /\ ReportInv => ReportsSpaced
  <2>. DEFINE p == Head(todo)
  <2>. SUFFICES ASSUME Control, ReportInv, pc = "reports", IsDue(marked[p], p, clock),
                       p \notin unmarked, marked[p] # Never
                PROVE  clock - reportedAt[p] >= PeriodLength[p]
    BY DEF ReportsSpaced
  <2>1. p \in Periods /\ clock \in Nat
    BY HeadTyped DEF Control
  <2>2. reportedAt[p] <= marked[p]
    BY <2>1 DEF ReportInv, LatestMark
  <2>3. marked[p] \in Int /\ reportedAt[p] \in Int /\ PeriodLength[p] \in Nat
    BY <2>1, MonitoringAssumption DEF ReportInv, ReportTypes, Moment, Never, Periods
  <2>. QED
    BY <2>1, <2>2, <2>3 DEF IsDue
<1>. QED
  BY <1>1, InitControl, NextControl, InitReports, NextReports, PTL DEF Spec

-----------------------------------------------------------------------------
(* The chat *)

Allowed(i, K) == queue[i].chat = "allowed" /\ queue[i].kind \in K

\* The updates below n that answer signal s, and the switches of the mute.
About(s, n) == {i \in DOMAIN queue : i < n /\ Allowed(i, {"ack"}) /\ queue[i].signal = s}
Mutes(n) == {i \in DOMAIN queue : i < n /\ Allowed(i, {"mute", "unmute"})}

\* What the updates below n decide.
Decision(s, n) == IF About(s, n) = {} THEN "none" ELSE queue[Max(About(s, n))].action
Switch(n) == Mutes(n) # {} /\ queue[Max(Mutes(n))].kind = "mute"

\* The first update not consumed, the first Telegram keeps, and the first one
\* beyond what any answer since the last confirmation can have held.
Reached == Larger(1, Larger(offset, confirmed))
FirstKept == Larger(1, confirmed)
Limit == Smaller(FirstKept + BatchLimit, Len(queue) + 1)

\* Every decision that was not lost is the one of a prefix of the updates that
\* holds all consumed ones, and no more than the batch at hand: updates that
\* are executed again after a stop are all of that batch.
AcksCurrent == \A s \in Signals \ lost : \E n \in Reached .. Limit : acks[s] = Decision(s, n)
Settled == mutedFile = muted /\ \E n \in Reached .. Limit : muted = Switch(n)
\* A stop within the write of the mute file leaves the switch to an update that
\* is executed again.
Pending == \E i \in Reached .. Limit : i < Limit /\ Allowed(i, {"mute", "unmute"})
MuteCurrent == "mute" \notin lost => Pending \/ Settled
BatchAhead == pc = "handle" =>
                /\ batch \in Seq(Nat)
                /\ Len(batch) = Limit - Reached
                /\ \A i \in 1 .. Len(batch) : batch[i] = Reached + i - 1

ChatTypes ==
    /\ queue \in Seq(Updates)
    /\ offset \in Nat /\ offsetFile \in Nat /\ confirmed \in Nat
    /\ acks = [s \in Signals |-> acks[s]]
    /\ muted \in BOOLEAN /\ mutedFile \in BOOLEAN

\* The inductive invariant behind CaughtUp.
ChatInv ==
    /\ ChatTypes
    /\ offsetFile <= Reached
    /\ Reached <= Limit
    /\ AcksCurrent
    /\ MuteCurrent
    /\ BatchAhead

LEMMA InitChat == Init => ChatInv
<1>. SUFFICES ASSUME Init PROVE ChatInv
  OBVIOUS
<1>1. /\ queue = <<>> /\ offset = 0 /\ offsetFile = 0 /\ confirmed = 0 /\ pc = "down"
      /\ muted = FALSE /\ mutedFile = FALSE /\ acks = [s \in Signals |-> "none"]
  BY DEF Init
<1>2. Reached = 1 /\ Limit = 1
  BY <1>1, BotAssumption DEF Reached, Limit, FirstKept, Larger, Smaller
<1>3. \A s : About(s, 1) = {}
  BY <1>1 DEF About
<1>4. Mutes(1) = {}
  BY <1>1 DEF Mutes
<1>5. AcksCurrent
  BY <1>1, <1>2, <1>3 DEF AcksCurrent, Decision
<1>6. MuteCurrent
  <2>1. Switch(1) = FALSE
    BY <1>4 DEF Switch
  <2>2. muted = Switch(1) /\ mutedFile = muted
    BY <1>1, <2>1
  <2>3. 1 \in Reached .. Limit
    BY <1>2
  <2>. QED
    BY <2>2, <2>3 DEF MuteCurrent, Settled
<1>7. ChatTypes
  <2>1. muted \in BOOLEAN /\ mutedFile \in BOOLEAN
    BY <1>1
  <2>2. acks = [s \in Signals |-> acks[s]]
    BY <1>1
  <2>. QED
    BY <1>1, <2>1, <2>2 DEF ChatTypes
<1>. QED
  BY <1>1, <1>2, <1>5, <1>6, <1>7 DEF ChatInv, BatchAhead

LEMMA MaxIs ==
    ASSUME NEW S \in SUBSET Int, NEW x \in S, \A y \in S : x >= y
    PROVE  Max(S) = x
<1>. DEFINE m == Max(S)
<1>1. m \in S /\ \A y \in S : m >= y
  BY DEF Max
<1>. HIDE DEF m
<1>2. m = x
  BY <1>1
<1>. QED
  BY <1>2 DEF m

\* A nonempty set of numbers up to n has a largest one.
LEMMA MaxExists ==
    ASSUME NEW n \in Nat, NEW S \in SUBSET (1 .. n), S # {}
    PROVE  Max(S) \in S
<1>. DEFINE B == {m \in Nat : \A y \in S : m >= y}
<1>1. B \subseteq Nat /\ n \in B
  OBVIOUS
<1>2. PICK m \in B : \A x \in B : <<x, m>> \notin OpToRel(<, Nat)
  <2>. HIDE DEF B
  <2>. QED
    BY <1>1, NatLessThanWellFounded, WFMin
<1>3. m \in Nat /\ \A y \in S : m >= y
  OBVIOUS
<1>4. \A x \in B : ~ (x < m)
  BY <1>1, <1>2, <1>3 DEF OpToRel
<1>5. m \in S
  <2>1. SUFFICES ASSUME m \notin S PROVE FALSE
    OBVIOUS
  <2>2. PICK z \in S : TRUE
    OBVIOUS
  <2>3. z \in Nat /\ z >= 1 /\ m >= z
    BY <1>3
  <2>4. m - 1 \in Nat /\ m - 1 < m
    BY <1>3, <2>3
  <2>5. \A y \in S : m - 1 >= y
    BY <1>3, <2>1
  <2>. QED
    BY <1>4, <2>4, <2>5
<1>6. S \in SUBSET Int
  OBVIOUS
<1>7. Max(S) = m
  BY <1>3, <1>5, <1>6, MaxIs
<1>. QED
  BY <1>5, <1>7

LEMMA Bounds ==
    ASSUME ChatTypes
    PROVE  /\ Len(queue) \in Nat /\ DOMAIN queue = 1 .. Len(queue)
           /\ Reached \in Nat /\ FirstKept \in Nat /\ Limit \in Int
           /\ 1 <= Reached /\ FirstKept <= Reached /\ 1 <= FirstKept
           /\ Limit <= Len(queue) + 1
           /\ offset <= Reached /\ confirmed <= Reached
BY BotAssumption DEF ChatTypes, Reached, FirstKept, Limit, Larger, Smaller

\* Steps that leave the chat alone.
LEMMA QuietChat ==
    ASSUME ChatInv, UNCHANGED chatVars, acks' = acks,
           pc' = "handle" => pc = "handle" /\ batch' = batch
    PROVE  ChatInv'
<1>1. /\ UNCHANGED <<offset, offsetFile, muted, mutedFile, queue, confirmed, lost, acks>>
  BY DEF chatVars
<1>2. Reached' = Reached /\ Limit' = Limit
  BY <1>1 DEF Reached, Limit, FirstKept, Larger, Smaller
<1>3. /\ \A s, n : Decision(s, n)' = Decision(s, n)
      /\ \A n : Switch(n)' = Switch(n)
  BY <1>1 DEF Decision, Switch, About, Mutes, Allowed
<1>4. AcksCurrent'
  BY <1>1, <1>2, <1>3 DEF ChatInv, AcksCurrent
<1>5. MuteCurrent'
  <2>1. Pending' <=> Pending
    BY <1>1, <1>2 DEF Pending, Allowed
  <2>. QED
    BY <1>1, <1>2, <1>3, <2>1 DEF ChatInv, MuteCurrent, Settled
<1>6. BatchAhead'
  BY <1>2 DEF ChatInv, BatchAhead
<1>. QED
  BY <1>1, <1>2, <1>4, <1>5, <1>6 DEF ChatInv, ChatTypes

LEMMA StartChat == ASSUME ChatInv, Start PROVE ChatInv'
<1>1. /\ UNCHANGED <<offsetFile, mutedFile, queue, confirmed, lost, acks>>
      /\ offset' = offsetFile /\ muted' = mutedFile /\ pc' = "cycle"
  BY DEF Start, dbVars
<1>2. Limit' = Limit /\ Limit \in Int /\ Reached \in Nat
  BY <1>1, Bounds DEF Limit, FirstKept, Larger, Smaller, ChatInv
<1>3. Reached' <= Reached /\ Reached' \in Nat /\ offsetFile' <= Reached'
  BY <1>1 DEF ChatInv, ChatTypes, Reached, Larger
<1>4. /\ \A s, n : Decision(s, n)' = Decision(s, n)
      /\ \A n : Switch(n)' = Switch(n)
  BY <1>1 DEF Decision, Switch, About, Mutes, Allowed
<1>5. \A n \in Reached .. Limit : n \in Reached' .. Limit'
  BY <1>2, <1>3
<1>6. AcksCurrent'
  BY <1>1, <1>4, <1>5 DEF ChatInv, AcksCurrent
<1>7. MuteCurrent'
  <2>1. Pending => Pending'
    <3>1. \A i \in Reached .. Limit : i \in Reached' .. Limit'
      BY <1>2, <1>3
    <3>. QED
      BY <1>1, <1>2, <3>1 DEF Pending, Allowed
  <2>. QED
    BY <1>1, <1>4, <1>5, <2>1 DEF ChatInv, MuteCurrent, Settled
<1>8. Reached' <= Limit'
  BY <1>2, <1>3 DEF ChatInv
<1>. QED
  BY <1>1, <1>3, <1>6, <1>7, <1>8 DEF ChatInv, ChatTypes, BatchAhead

\* A new update is beyond every prefix that was decided on.
LEMMA ArriveChat == ASSUME ChatInv, Arrive PROVE ChatInv'
<1>1. PICK u \in Updates : queue' = Append(queue, u)
  BY DEF Arrive
<1>2. /\ UNCHANGED <<offset, offsetFile, muted, mutedFile, confirmed, lost, acks>>
      /\ pc' = "poll"
  BY DEF Arrive, dbVars
<1>3. queue \in Seq(Updates) /\ ChatTypes
  BY DEF ChatInv, ChatTypes
<1>4. /\ queue' \in Seq(Updates) /\ Len(queue') = Len(queue) + 1 /\ Len(queue) \in Nat
      /\ DOMAIN queue' = 1 .. Len(queue) + 1 /\ DOMAIN queue = 1 .. Len(queue)
      /\ \A i \in 1 .. Len(queue) : queue'[i] = queue[i]
  BY <1>1, <1>3
<1>5. /\ Reached' = Reached /\ FirstKept' = FirstKept
      /\ Reached \in Nat /\ FirstKept \in Nat /\ Limit \in Int /\ Limit <= Len(queue) + 1
  BY <1>2, <1>3, Bounds DEF Reached, FirstKept, Larger
<1>6. Limit <= Limit' /\ Limit' \in Int
  BY <1>4, <1>5, BotAssumption DEF Limit, Smaller
<1>7. ASSUME NEW n \in Reached .. Limit
      PROVE  /\ \A s : Decision(s, n)' = Decision(s, n)
             /\ Switch(n)' = Switch(n)
  <2>1. \A i : i \in DOMAIN queue' /\ i < n <=> i \in DOMAIN queue /\ i < n
    BY <1>4, <1>5
  <2>2. \A i \in DOMAIN queue : queue'[i] = queue[i]
    BY <1>4
  <2>3. ASSUME NEW s PROVE About(s, n)' = About(s, n)
    BY <2>1, <2>2 DEF About, Allowed
  <2>4. Mutes(n)' = Mutes(n)
    BY <2>1, <2>2 DEF Mutes, Allowed
  <2>5. ASSUME NEW s PROVE Decision(s, n)' = Decision(s, n)
    <3>1. CASE About(s, n) = {}
      BY <2>3, <3>1 DEF Decision
    <3>2. CASE About(s, n) # {}
      <4>1. About(s, n) \in SUBSET (1 .. Len(queue))
        BY <1>4 DEF About
      <4>2. Max(About(s, n)) \in DOMAIN queue
        BY <1>4, <3>2, <4>1, MaxExists
      <4>. QED
        BY <2>2, <2>3, <3>2, <4>2 DEF Decision
    <3>. QED
      BY <3>1, <3>2
  <2>6. Switch(n)' = Switch(n)
    <3>1. CASE Mutes(n) = {}
      BY <2>4, <3>1 DEF Switch
    <3>2. CASE Mutes(n) # {}
      <4>1. Mutes(n) \in SUBSET (1 .. Len(queue))
        BY <1>4 DEF Mutes
      <4>2. Max(Mutes(n)) \in DOMAIN queue
        BY <1>4, <3>2, <4>1, MaxExists
      <4>. QED
        BY <2>2, <2>4, <3>2, <4>2 DEF Switch
    <3>. QED
      BY <3>1, <3>2
  <2>. QED
    BY <2>5, <2>6
<1>8. \A n \in Reached .. Limit : n \in Reached' .. Limit'
  BY <1>5, <1>6
<1>9. AcksCurrent'
  BY <1>2, <1>7, <1>8 DEF ChatInv, AcksCurrent
<1>10. MuteCurrent'
  <2>1. Pending => Pending'
    <3>1. ASSUME NEW i \in Reached .. Limit, i < Limit
          PROVE  i \in Reached' .. Limit' /\ i < Limit' /\ queue'[i] = queue[i]
      <4>1. i \in Int /\ 1 <= i /\ i <= Len(queue)
        BY <1>3, <1>5, <3>1, Bounds
      <4>. QED
        BY <1>4, <1>5, <1>6, <1>8, <3>1, <4>1
    <3>. QED
      BY <3>1 DEF Pending, Allowed
  <2>2. Settled => Settled'
    BY <1>2, <1>7, <1>8 DEF Settled
  <2>. QED
    BY <1>2, <2>1, <2>2 DEF ChatInv, MuteCurrent
<1>11. Reached' <= Limit' /\ offsetFile' <= Reached'
  BY <1>2, <1>5, <1>6 DEF ChatInv
<1>12. ChatTypes'
  BY <1>2, <1>3, <1>4 DEF ChatTypes
<1>. QED
  BY <1>2, <1>9, <1>10, <1>11, <1>12 DEF ChatInv, BatchAhead

\* An answer of Telegram starts where the bot is, and holds at least what the
\* answers before it held from there.
LEMMA FetchChat == ASSUME ChatInv, Fetch PROVE ChatInv'
<1>. DEFINE k == Smaller(BatchLimit, Len(queue) + 1 - Larger(1, confirmed'))
<1>1. /\ confirmed' = Larger(confirmed, offset)
      /\ batch' = [n \in 1 .. k |-> Larger(1, confirmed') + n - 1]
      /\ pc' = "handle"
      /\ UNCHANGED <<offset, offsetFile, muted, mutedFile, queue, lost, acks>>
  BY DEF Fetch, dbVars
<1>2. ChatTypes /\ Reached <= Limit
  BY DEF ChatInv
<1>3. /\ Len(queue) \in Nat /\ Reached \in Nat /\ FirstKept \in Nat /\ Limit \in Int
      /\ FirstKept <= Reached /\ Limit <= Len(queue) + 1
  BY <1>2, Bounds
<1>4. Reached' = Reached /\ Larger(1, confirmed') = Reached /\ FirstKept' = Reached
  BY <1>1, <1>2 DEF ChatTypes, Reached, FirstKept, Larger
<1>5. Limit' = Smaller(Reached + BatchLimit, Len(queue) + 1)
  BY <1>1, <1>4 DEF Limit
<1>6. Limit <= Limit' /\ Limit' \in Int
  BY <1>3, <1>5, BotAssumption DEF Limit, Smaller
<1>7. k = Limit' - Reached /\ k \in Nat
  BY <1>2, <1>3, <1>4, <1>5, BotAssumption DEF Smaller
<1>. HIDE DEF k
<1>8. BatchAhead'
  <2>1. batch' = [n \in 1 .. k |-> Reached + n - 1]
    BY <1>1, <1>4
  <2>2. \A n \in 1 .. k : Reached + n - 1 \in Nat
    BY <1>3, <1>7
  <2>3. batch' \in Seq(Nat) /\ Len(batch') = k
        /\ \A i \in 1 .. k : batch'[i] = Reached + i - 1
    BY <1>7, <2>1, <2>2
  <2>. QED
    BY <1>4, <1>7, <2>3 DEF BatchAhead
<1>9. /\ \A s, n : Decision(s, n)' = Decision(s, n)
      /\ \A n : Switch(n)' = Switch(n)
  BY <1>1 DEF Decision, Switch, About, Mutes, Allowed
<1>10. \A n \in Reached .. Limit : n \in Reached' .. Limit'
  BY <1>3, <1>4, <1>6
<1>11. AcksCurrent'
  BY <1>1, <1>9, <1>10 DEF ChatInv, AcksCurrent
<1>12. MuteCurrent'
  <2>1. Pending => Pending'
    <3>1. \A i \in Reached .. Limit : i < Limit => i < Limit'
      BY <1>3, <1>6
    <3>. QED
      BY <1>1, <1>10, <3>1 DEF Pending, Allowed
  <2>. QED
    BY <1>1, <1>9, <1>10, <2>1 DEF ChatInv, MuteCurrent, Settled
<1>13. Reached' <= Limit' /\ offsetFile' <= Reached'
  BY <1>1, <1>2, <1>3, <1>4, <1>6 DEF ChatInv
<1>14. ChatTypes'
  <2>1. confirmed' \in Nat
    BY <1>1, <1>2 DEF ChatTypes, Larger
  <2>. QED
    BY <1>1, <1>2, <2>1 DEF ChatTypes
<1>. QED
  BY <1>8, <1>11, <1>12, <1>13, <1>14 DEF ChatInv

\* What consuming update j adds to the decisions.
LEMMA DecisionStep ==
    ASSUME ChatTypes, NEW j \in DOMAIN queue, NEW s
    PROVE  /\ Allowed(j, {"ack"}) /\ queue[j].signal = s
                => Decision(s, j + 1) = queue[j].action
           /\ ~ (Allowed(j, {"ack"}) /\ queue[j].signal = s)
                => Decision(s, j + 1) = Decision(s, j)
<1>1. DOMAIN queue \subseteq Nat /\ j \in Nat
  BY Bounds
<1>2. ASSUME Allowed(j, {"ack"}), queue[j].signal = s
      PROVE  Decision(s, j + 1) = queue[j].action
  <2>1. j \in About(s, j + 1)
    BY <1>1, <1>2 DEF About
  <2>2. About(s, j + 1) \in SUBSET Int /\ \A y \in About(s, j + 1) : j >= y
    BY <1>1 DEF About
  <2>3. Max(About(s, j + 1)) = j
    BY <2>1, <2>2, MaxIs
  <2>. QED
    BY <2>1, <2>3 DEF Decision
<1>3. ASSUME ~ (Allowed(j, {"ack"}) /\ queue[j].signal = s)
      PROVE  Decision(s, j + 1) = Decision(s, j)
  <2>1. \A i \in DOMAIN queue : i < j + 1 <=> i < j \/ i = j
    BY <1>1
  <2>2. About(s, j + 1) = About(s, j)
    BY <1>1, <1>3, <2>1 DEF About
  <2>. QED
    BY <2>2 DEF Decision
<1>. QED
  BY <1>2, <1>3

LEMMA SwitchStep ==
    ASSUME ChatTypes, NEW j \in DOMAIN queue
    PROVE  /\ Allowed(j, {"mute", "unmute"}) => Switch(j + 1) = (queue[j].kind = "mute")
           /\ ~ Allowed(j, {"mute", "unmute"}) => Switch(j + 1) = Switch(j)
<1>1. DOMAIN queue \subseteq Nat /\ j \in Nat
  BY Bounds
<1>2. ASSUME Allowed(j, {"mute", "unmute"})
      PROVE  Switch(j + 1) = (queue[j].kind = "mute")
  <2>1. j \in Mutes(j + 1)
    BY <1>1, <1>2 DEF Mutes
  <2>2. Mutes(j + 1) \in SUBSET Int /\ \A y \in Mutes(j + 1) : j >= y
    BY <1>1 DEF Mutes
  <2>3. Max(Mutes(j + 1)) = j
    BY <2>1, <2>2, MaxIs
  <2>. QED
    BY <2>1, <2>3 DEF Switch
<1>3. ASSUME ~ Allowed(j, {"mute", "unmute"})
      PROVE  Switch(j + 1) = Switch(j)
  <2>1. \A i \in DOMAIN queue : i < j + 1 <=> i < j \/ i = j
    BY <1>1
  <2>2. Mutes(j + 1) = Mutes(j)
    BY <1>1, <1>3, <2>1 DEF Mutes
  <2>. QED
    BY <2>2 DEF Switch
<1>. QED
  BY <1>2, <1>3

\* The head of the batch is the first update not consumed.
LEMMA BatchHead ==
    ASSUME ChatInv, pc = "handle", batch # <<>>
    PROVE  Head(batch) = Reached /\ Reached < Limit /\ Reached \in Reached .. Limit
<1>1. ChatTypes /\ BatchAhead
  BY DEF ChatInv
<1>2. Reached \in Nat /\ Limit \in Int
  BY <1>1, Bounds
<1>3. /\ batch \in Seq(Nat) /\ Len(batch) = Limit - Reached
      /\ \A i \in 1 .. Len(batch) : batch[i] = Reached + i - 1
  BY <1>1 DEF BatchAhead
<1>4. Len(batch) \in Nat /\ Len(batch) >= 1 /\ Head(batch) = batch[1]
  BY <1>3
<1>5. batch[1] = Reached + 1 - 1
  BY <1>3, <1>4
<1>. QED
  BY <1>2, <1>3, <1>4, <1>5

LEMMA ConsumeFacts ==
    ASSUME ChatInv, Consume
    PROVE  /\ Head(batch) = Reached /\ Reached \in DOMAIN queue
           /\ Reached \in Nat /\ Limit \in Int /\ Reached + 1 <= Limit
           /\ Reached' = Reached + 1 /\ Limit' = Limit /\ offset' \in Nat
           /\ BatchAhead'
           /\ \A s, n : Decision(s, n)' = Decision(s, n)
           /\ \A n : Switch(n)' = Switch(n)
           /\ UNCHANGED <<offsetFile, queue, confirmed>>
<1>1. /\ pc = "handle" /\ batch # <<>> /\ offset' = Larger(offset, Head(batch) + 1)
      /\ batch' = Tail(batch) /\ pc' = pc
      /\ UNCHANGED <<offsetFile, queue, confirmed>>
  BY DEF Consume
<1>2. ChatTypes
  BY DEF ChatInv
<1>3. /\ Len(queue) \in Nat /\ DOMAIN queue = 1 .. Len(queue)
      /\ Reached \in Nat /\ Limit \in Int /\ 1 <= Reached
      /\ Limit <= Len(queue) + 1 /\ offset <= Reached /\ confirmed <= Reached
      /\ offset \in Nat /\ confirmed \in Nat
  BY <1>2, Bounds DEF ChatTypes
<1>4. /\ batch \in Seq(Nat) /\ Len(batch) = Limit - Reached
      /\ \A i \in 1 .. Len(batch) : batch[i] = Reached + i - 1
  BY <1>1 DEF ChatInv, BatchAhead
<1>5. Len(batch) \in Nat /\ Len(batch) >= 1
  BY <1>1, <1>4
<1>6. Head(batch) = Reached
  <2>1. Head(batch) = batch[1]
    BY <1>1, <1>4
  <2>2. 1 \in 1 .. Len(batch)
    BY <1>5
  <2>3. batch[1] = Reached + 1 - 1
    BY <1>4, <2>2
  <2>. QED
    BY <1>3, <2>1, <2>3
<1>7. Reached + 1 <= Limit /\ Reached \in DOMAIN queue
  BY <1>3, <1>4, <1>5
<1>8. offset' = Reached + 1
  BY <1>1, <1>3, <1>6 DEF Larger
<1>9. Reached' = Reached + 1
  BY <1>1, <1>3, <1>8 DEF Reached, Larger
<1>10. Limit' = Limit
  BY <1>1 DEF Limit, FirstKept, Larger, Smaller
<1>11. BatchAhead'
  <2>1. /\ batch' \in Seq(Nat) /\ Len(batch') = Len(batch) - 1
        /\ \A i \in 1 .. Len(batch) - 1 : batch'[i] = batch[i + 1]
    BY <1>1, <1>4, <1>5
  <2>2. ASSUME NEW i \in 1 .. Len(batch) - 1
        PROVE  batch'[i] = Reached + (i + 1) - 1
    <3>1. i + 1 \in 1 .. Len(batch)
      BY <1>5
    <3>. QED
      BY <1>4, <2>1, <3>1
  <2>3. Len(batch') = Limit' - Reached'
    BY <1>3, <1>4, <1>9, <1>10, <2>1
  <2>4. \A i \in 1 .. Len(batch') : batch'[i] = Reached' + i - 1
    BY <1>3, <1>5, <1>9, <2>1, <2>2
  <2>. QED
    BY <2>1, <2>3, <2>4 DEF BatchAhead
<1>12. /\ \A s, n : Decision(s, n)' = Decision(s, n)
       /\ \A n : Switch(n)' = Switch(n)
  BY <1>1 DEF Decision, Switch, About, Mutes, Allowed
<1>. QED
  BY <1>1, <1>3, <1>6, <1>7, <1>8, <1>9, <1>10, <1>11, <1>12

\* A prefix that decided before decides the same with the next update added,
\* if that update is about something else.
LEMMA AckAdvances ==
    ASSUME ChatInv, Consume, NEW s \in Signals \ lost,
           ~ (Allowed(Reached, {"ack"}) /\ queue[Reached].signal = s)
    PROVE  \E n \in Reached' .. Limit' : acks[s] = Decision(s, n)'
<1>1. PICK n \in Reached .. Limit : acks[s] = Decision(s, n)
  BY DEF ChatInv, AcksCurrent
<1>2. /\ Reached \in DOMAIN queue /\ Reached \in Nat /\ Limit \in Int /\ Reached + 1 <= Limit
      /\ Reached' = Reached + 1 /\ Limit' = Limit
      /\ \A m : Decision(s, m)' = Decision(s, m)
  BY ConsumeFacts
<1>3. Decision(s, Reached + 1) = Decision(s, Reached)
  BY <1>2, DecisionStep DEF ChatInv
<1>4. CASE n = Reached
  <2>1. Reached + 1 \in Reached' .. Limit' /\ acks[s] = Decision(s, Reached + 1)
    BY <1>1, <1>2, <1>3, <1>4
  <2>. QED
    BY <1>2, <2>1
<1>5. CASE n # Reached
  <2>1. n \in Reached' .. Limit'
    BY <1>2, <1>5
  <2>. QED
    BY <1>1, <1>2, <2>1
<1>. QED
  BY <1>4, <1>5

LEMMA SwitchAdvances ==
    ASSUME ChatInv, Consume, ~ Allowed(Reached, {"mute", "unmute"}),
           muted' = muted, mutedFile' = mutedFile
    PROVE  /\ Pending => Pending'
           /\ Settled => Settled'
<1>1. /\ Reached \in DOMAIN queue /\ Reached \in Nat /\ Limit \in Int /\ Reached + 1 <= Limit
      /\ Reached' = Reached + 1 /\ Limit' = Limit /\ queue' = queue
      /\ \A m : Switch(m)' = Switch(m)
  BY ConsumeFacts
<1>2. ASSUME Pending PROVE Pending'
  <2>1. PICK i \in Reached .. Limit : i < Limit /\ Allowed(i, {"mute", "unmute"})
    BY <1>2 DEF Pending
  <2>2. i \in Reached' .. Limit' /\ i < Limit'
    <3>1. i # Reached
      BY <2>1
    <3>. QED
      BY <1>1, <2>1, <3>1
  <2>. QED
    BY <1>1, <2>1, <2>2 DEF Pending, Allowed
<1>3. ASSUME Settled PROVE Settled'
  <2>1. PICK n \in Reached .. Limit : muted = Switch(n)
    BY <1>3 DEF Settled
  <2>2. Switch(Reached + 1) = Switch(Reached)
    BY <1>1, SwitchStep DEF ChatInv
  <2>3. \E m \in Reached' .. Limit' : muted = Switch(m)
    <3>1. CASE n = Reached
      <4>1. Reached + 1 \in Reached' .. Limit' /\ muted = Switch(Reached + 1)
        BY <1>1, <2>1, <2>2, <3>1
      <4>. QED
        BY <4>1
    <3>2. CASE n # Reached
      <4>1. n \in Reached' .. Limit'
        BY <1>1, <3>2
      <4>. QED
        BY <2>1, <4>1
    <3>. QED
      BY <3>1, <3>2
  <2>. QED
    BY <1>1, <1>3, <2>3 DEF Settled
<1>. QED
  BY <1>2, <1>3

LEMMA HandleChat == ASSUME ChatInv, Handle PROVE ChatInv'
<1>. DEFINE j == Reached
            u == queue[Head(batch)]
<1>1. Consume
  BY DEF Handle, HandleOther, HandleMute, HandleAck
<1>2. /\ Head(batch) = j /\ j \in DOMAIN queue
      /\ j \in Nat /\ Limit \in Int /\ j + 1 <= Limit
      /\ Reached' = j + 1 /\ Limit' = Limit /\ offset' \in Nat
      /\ BatchAhead'
      /\ \A s, n : Decision(s, n)' = Decision(s, n)
      /\ \A n : Switch(n)' = Switch(n)
      /\ UNCHANGED <<offsetFile, queue, confirmed>>
  BY <1>1, ConsumeFacts
<1>3. u = queue[j]
  BY <1>2
<1>4. ChatTypes
  BY DEF ChatInv
<1>5. offsetFile' <= Reached' /\ Reached' <= Limit'
  <2>1. offsetFile \in Nat /\ offsetFile <= Reached
    BY <1>4 DEF ChatInv, ChatTypes
  <2>. QED
    BY <1>2, <2>1
<1>6. j + 1 \in Reached' .. Limit'
  BY <1>2
<1>7. ASSUME acks' = acks, Signals \ lost' \subseteq Signals \ lost, ~ Allowed(j, {"ack"})
      PROVE  AcksCurrent'
  BY <1>1, <1>7, AckAdvances DEF AcksCurrent
<1>8. ASSUME muted' = muted, mutedFile' = mutedFile, "mute" \notin lost' => "mute" \notin lost,
             ~ Allowed(j, {"mute", "unmute"})
      PROVE  MuteCurrent'
  BY <1>1, <1>8, SwitchAdvances DEF ChatInv, MuteCurrent
<1>9. CASE HandleOther
  <2>1. /\ UNCHANGED <<muted, mutedFile, acks, lost>>
        /\ u.chat # "allowed" \/ u.kind = "read"
    BY <1>9 DEF HandleOther
  <2>2. ~ Allowed(j, {"ack"}) /\ ~ Allowed(j, {"mute", "unmute"})
    BY <1>3, <2>1 DEF Allowed
  <2>3. AcksCurrent'
    BY <1>7, <2>1, <2>2
  <2>4. MuteCurrent'
    BY <1>8, <2>1, <2>2
  <2>5. ChatTypes'
    BY <1>2, <1>4, <2>1 DEF ChatTypes
  <2>. QED
    BY <1>2, <1>5, <2>3, <2>4, <2>5 DEF ChatInv
<1>10. CASE HandleMute
  <2>1. /\ u.chat = "allowed" /\ u.kind \in {"mute", "unmute"}
        /\ muted' = (u.kind = "mute") /\ acks' = acks
        /\ \/ mutedFile' = muted' /\ lost' = lost \ {"mute"}
           \/ lost' = lost \cup {"mute"} /\ mutedFile' \in {mutedFile, FALSE}
    BY <1>10 DEF HandleMute
  <2>2. Allowed(j, {"mute", "unmute"}) /\ ~ Allowed(j, {"ack"})
    BY <1>3, <2>1 DEF Allowed
  <2>3. AcksCurrent'
    <3>1. Signals \ lost' \subseteq Signals \ lost
      BY <2>1, BotAssumption
    <3>. QED
      BY <1>7, <2>1, <2>2, <3>1
  <2>4. muted' = Switch(j + 1)
    <3>1. Switch(j + 1) = (queue[j].kind = "mute")
      BY <1>2, <1>4, <2>2, SwitchStep
    <3>. QED
      BY <1>3, <2>1, <3>1
  <2>5. MuteCurrent'
    <3>1. \E n \in Reached' .. Limit' : muted' = Switch(n)'
      <4>1. \A n : n = j + 1 => muted' = Switch(n)'
        BY <1>2, <2>4
      <4>. QED
        BY <1>6, <4>1
    <3>2. "mute" \notin lost' => mutedFile' = muted'
      BY <2>1
    <3>. QED
      BY <3>1, <3>2 DEF MuteCurrent, Settled
  <2>6. ChatTypes'
    <3>1. muted' \in BOOLEAN
      BY <2>1
    <3>2. mutedFile' \in BOOLEAN
      BY <1>4, <2>1, <3>1 DEF ChatTypes
    <3>. QED
      BY <1>2, <1>4, <2>1, <3>1, <3>2 DEF ChatTypes
  <2>. QED
    BY <1>2, <1>5, <2>3, <2>5, <2>6 DEF ChatInv
<1>11. CASE HandleAck
  <2>1. /\ u.chat = "allowed" /\ u.kind = "ack"
        /\ UNCHANGED <<muted, mutedFile>>
        /\ \/ acks' = [acks EXCEPT ![u.signal] = u.action] /\ lost' = lost
           \/ lost' = lost \cup {u.signal} /\ acks' = acks
    BY <1>11 DEF HandleAck
  <2>2. ~ Allowed(j, {"mute", "unmute"}) /\ Allowed(j, {"ack"})
    BY <1>3, <2>1 DEF Allowed
  <2>3. MuteCurrent'
    BY <1>8, <2>1, <2>2
  <2>4. ASSUME NEW s \in Signals \ lost'
        PROVE  \E n \in Reached' .. Limit' : acks'[s] = Decision(s, n)'
    <3>1. s \in Signals \ lost
      BY <2>1
    <3>2. CASE s = u.signal
      <4>1. acks' = [acks EXCEPT ![s] = u.action]
        BY <2>1, <3>2
      <4>2. acks'[s] = u.action
        BY <1>4, <4>1 DEF ChatTypes
      <4>3. Decision(s, j + 1) = queue[j].action
        BY <1>2, <1>3, <1>4, <2>2, <3>2, DecisionStep
      <4>4. \A n : n = j + 1 => acks'[s] = Decision(s, n)'
        BY <1>2, <1>3, <4>2, <4>3
      <4>. QED
        BY <1>6, <4>4
    <3>3. CASE s # u.signal
      <4>1. acks'[s] = acks[s]
        BY <1>4, <2>1, <3>3 DEF ChatTypes
      <4>2. ~ (Allowed(j, {"ack"}) /\ queue[j].signal = s)
        BY <1>3, <3>3
      <4>. QED
        BY <1>1, <3>1, <4>1, <4>2, AckAdvances
    <3>. QED
      BY <3>2, <3>3
  <2>5. AcksCurrent'
    BY <2>4 DEF AcksCurrent
  <2>6. ChatTypes'
    <3>1. acks' = [s \in Signals |-> acks'[s]]
      BY <1>4, <2>1 DEF ChatTypes
    <3>. QED
      BY <1>2, <1>4, <2>1, <3>1 DEF ChatTypes
  <2>. QED
    BY <1>2, <1>5, <2>3, <2>5, <2>6 DEF ChatInv
<1>. QED
  BY <1>9, <1>10, <1>11 DEF Handle

LEMMA SaveOffsetChat == ASSUME ChatInv, SaveOffset PROVE ChatInv'
<1>1. /\ offsetFile' \in {offset, offsetFile, 0} /\ pc' = "nap"
      /\ UNCHANGED <<offset, muted, mutedFile, queue, confirmed, lost, acks>>
  BY DEF SaveOffset, Written, dbVars
<1>2. Reached' = Reached /\ Limit' = Limit
  BY <1>1 DEF Reached, Limit, FirstKept, Larger, Smaller
<1>3. offsetFile' <= Reached' /\ offsetFile' \in Nat
  BY <1>1, <1>2, Bounds DEF ChatInv, ChatTypes
<1>4. /\ \A s, n : Decision(s, n)' = Decision(s, n)
      /\ \A n : Switch(n)' = Switch(n)
  BY <1>1 DEF Decision, Switch, About, Mutes, Allowed
<1>5. AcksCurrent'
  BY <1>1, <1>2, <1>4 DEF ChatInv, AcksCurrent
<1>6. MuteCurrent'
  <2>1. Pending' <=> Pending
    BY <1>1, <1>2 DEF Pending, Allowed
  <2>. QED
    BY <1>1, <1>2, <1>4, <2>1 DEF ChatInv, MuteCurrent, Settled
<1>. QED
  BY <1>1, <1>2, <1>3, <1>5, <1>6 DEF ChatInv, ChatTypes, BatchAhead

\* A stop within a write.  An update whose command was being executed comes again.
LEMMA StopInWriteChat == ASSUME ChatInv, StopInWrite PROVE ChatInv'
<1>1. /\ UNCHANGED <<offset, muted, queue, confirmed, lost, acks>> /\ pc' = "down"
      /\ offsetFile' \in {offsetFile, 0}
      /\ \/ mutedFile' = mutedFile
         \/ /\ mutedFile' = FALSE /\ pc = "handle" /\ batch # <<>>
            /\ Allowed(Head(batch), {"mute", "unmute"})
  BY DEF StopInWrite, Die, Allowed
<1>2. Reached' = Reached /\ Limit' = Limit
  BY <1>1 DEF Reached, Limit, FirstKept, Larger, Smaller
<1>3. offsetFile' <= Reached' /\ offsetFile' \in Nat
  BY <1>1, <1>2, Bounds DEF ChatInv, ChatTypes
<1>4. /\ \A s, n : Decision(s, n)' = Decision(s, n)
      /\ \A n : Switch(n)' = Switch(n)
  BY <1>1 DEF Decision, Switch, About, Mutes, Allowed
<1>5. AcksCurrent'
  BY <1>1, <1>2, <1>4 DEF ChatInv, AcksCurrent
<1>6. MuteCurrent'
  <2>1. Pending' <=> Pending
    BY <1>1, <1>2 DEF Pending, Allowed
  <2>2. CASE mutedFile' = mutedFile
    BY <1>1, <1>2, <1>4, <2>1, <2>2 DEF ChatInv, MuteCurrent, Settled
  <2>3. CASE /\ pc = "handle" /\ batch # <<>>
             /\ Allowed(Head(batch), {"mute", "unmute"})
    <3>1. Head(batch) \in Reached .. Limit /\ Head(batch) < Limit
      BY <2>3, BatchHead
    <3>2. Pending
      BY <2>3, <3>1 DEF Pending
    <3>. QED
      BY <2>1, <3>2 DEF MuteCurrent
  <2>. QED
    BY <1>1, <2>2, <2>3
<1>. QED
  BY <1>1, <1>2, <1>3, <1>5, <1>6 DEF ChatInv, ChatTypes, BatchAhead

LEMMA NextChat == ChatInv /\ [Next]_vars => ChatInv'
<1>. SUFFICES ASSUME ChatInv, [Next]_vars PROVE ChatInv'
  OBVIOUS
<1>1. CASE Start
  BY <1>1, StartChat
<1>2. CASE Stop \/ SaveRaises
  <2>1. UNCHANGED chatVars /\ acks' = acks /\ pc' = "down"
    BY <1>2 DEF Stop, SaveRaises, Die, stateFiles, chatVars
  <2>. QED
    BY <2>1, QuietChat
<1>3. CASE SkipCycle \/ SendSignal \/ SaveSignal \/ CountAndCheck
  <2>1. UNCHANGED chatVars /\ acks' = acks /\ pc' # "handle"
    BY <1>3 DEF SkipCycle, SendSignal, SaveSignal, CountAndCheck, dbVars
  <2>. QED
    BY <2>1, QuietChat
<1>4. CASE RunCycle
  <2>1. UNCHANGED chatVars /\ acks' = acks /\ pc' # "handle"
    BY <1>4 DEF RunCycle, dbVars
  <2>. QED
    BY <2>1, QuietChat
<1>5. CASE Announce \/ RecordAlert \/ ClearAlert \/ Suppress
  <2>1. UNCHANGED chatVars /\ acks' = acks /\ pc' # "handle"
    BY <1>5 DEF Announce, RecordAlert, ClearAlert, Suppress, NextCheck, dbVars
  <2>. QED
    BY <2>1, QuietChat
<1>6. CASE FirstMark \/ NoReport \/ SendReport \/ MarkSent
  <2>1. UNCHANGED chatVars /\ acks' = acks /\ pc' # "handle"
    BY <1>6 DEF FirstMark, NoReport, SendReport, MarkSent, NextPeriod, dbVars
  <2>. QED
    BY <2>1, QuietChat
<1>7. CASE Arrive
  BY <1>7, ArriveChat
<1>8. CASE Fetch
  BY <1>8, FetchChat
<1>9. CASE Handle
  BY <1>9, HandleChat
<1>10. CASE SaveOffset
  BY <1>10, SaveOffsetChat
<1>11. CASE FetchFails \/ Nap
  <2>1. UNCHANGED chatVars /\ acks' = acks /\ pc' # "handle"
    BY <1>11 DEF FetchFails, Nap, dbVars
  <2>. QED
    BY <2>1, QuietChat
<1>12. CASE UNCHANGED vars
  <2>1. UNCHANGED chatVars /\ acks' = acks /\ pc' = pc /\ batch' = batch
    BY <1>12 DEF vars, dbVars, procVars
  <2>. QED
    BY <2>1, QuietChat
<1>13. CASE StopInWrite
  BY <1>13, StopInWriteChat
<1>. QED
  BY <1>1, <1>2, <1>3, <1>4, <1>5, <1>6, <1>7, <1>8, <1>9, <1>10, <1>11, <1>12, <1>13
  DEF Next, Step

\* When a batch is done every button and every /mute that was consumed stands,
\* in the order the user sent them, although a stop in the middle of a batch
\* executes its first updates again: re-execution never goes back beyond the
\* batch that is executed again as a whole.
THEOREM DecisionsStand == Spec => []CaughtUp
<1>1. ChatInv => CaughtUp
  <2>. SUFFICES ASSUME ChatInv, pc = "handle", batch = <<>> PROVE CaughtUp
    BY DEF CaughtUp
  <2>. DEFINE m == Larger(offset, confirmed)
  <2>1. /\ DOMAIN queue = 1 .. Len(queue) /\ Len(queue) \in Nat
        /\ Reached \in Nat /\ Limit \in Int
    BY Bounds DEF ChatInv
  <2>2. Reached = Limit
    <3>1. Len(batch) = 0
      OBVIOUS
    <3>. QED
      BY <2>1, <3>1 DEF ChatInv, BatchAhead
  <2>3. \A n \in Reached .. Limit : n = Reached
    BY <2>1, <2>2
  <2>4. \A i \in DOMAIN queue : i < m <=> i < Reached
    BY <2>1 DEF Reached, Larger, ChatInv, ChatTypes
  <2>. HIDE DEF m
  <2>5. ASSUME NEW s \in Signals
        PROVE  About(s, Reached)
                 = {i \in {i \in DOMAIN queue : /\ i < m
                                                /\ queue[i].chat = "allowed"
                                                /\ queue[i].kind \in {"ack"}} :
                      queue[i].signal = s}
    BY <2>4 DEF About, Allowed
  <2>6. Mutes(Reached) = {i \in DOMAIN queue : /\ i < m
                                               /\ queue[i].chat = "allowed"
                                               /\ queue[i].kind \in {"mute", "unmute"}}
    BY <2>4 DEF Mutes, Allowed
  <2>7. \A s \in Signals \ lost : acks[s] = Decision(s, Reached)
    BY <2>3 DEF ChatInv, AcksCurrent
  <2>8. "mute" \notin lost => muted = Switch(Reached)
    <3>1. ~ Pending
      BY <2>1, <2>2 DEF Pending
    <3>. QED
      BY <2>3, <3>1 DEF ChatInv, MuteCurrent, Settled
  <2>. QED
    BY <2>5, <2>6, <2>7, <2>8 DEF CaughtUp, Decision, Switch, m
<1>. QED
  BY <1>1, InitChat, NextChat, PTL DEF Spec

-----------------------------------------------------------------------------
(* The answers the figures count *)

\* What is still to be dispatched was answered by nobody and can be saved.
Outgoing ==
    /\ outbox \in Seq(Signals)
    /\ pc \in {"send", "save"} <=> outbox # <<>>
    /\ \A i \in 1 .. Len(outbox) : outbox[i] \notin unlogged /\ acks[outbox[i]] = "none"

\* The inductive invariant behind AnswersCounted: a button exists only under a
\* signal on the phone, whose row is written, is being written, or never will be.
AnswerInv ==
    /\ Outgoing
    /\ logged = [s \in Signals |-> logged[s]]
    /\ \A s \in Signals : acks[s] # "none" => s \in received
    /\ \A i \in DOMAIN queue : queue[i].kind = "ack" => queue[i].signal \in received
    /\ unlogged \subseteq received
    /\ \A s \in Signals : s \in unlogged => logged[s] = Absent
    /\ \A s \in Signals : s \in received => \/ logged[s] # Absent
                                            \/ s \in unlogged
                                            \/ pc = "save" /\ s = Head(outbox)

LEMMA InitAnswers == Init => AnswerInv
<1>. SUFFICES ASSUME Init PROVE AnswerInv
  OBVIOUS
<1>1. outbox \in Seq(Signals) /\ Len(outbox) = 0 /\ DOMAIN queue = {}
  BY DEF Init
<1>2. \A i \in 1 .. Len(outbox) : FALSE
  BY <1>1
<1>3. Outgoing
  BY <1>1, <1>2 DEF Outgoing, Init
<1>. QED
  BY <1>1, <1>3 DEF AnswerInv, Init

\* Steps that leave the signals and their answers alone.
LEMMA QuietAnswers ==
    ASSUME AnswerInv, UNCHANGED dbVars, queue' = queue, outbox' = outbox,
           pc \in {"send", "save"} <=> pc' \in {"send", "save"}, pc = "save" => pc' = "save"
    PROVE  AnswerInv'
<1>1. UNCHANGED <<logged, acks, received, unlogged>>
  BY DEF dbVars
<1>2. Outgoing'
  BY <1>1 DEF AnswerInv, Outgoing
<1>. QED
  BY <1>1, <1>2 DEF AnswerInv

\* The row of a signal that was being saved is never written.
LEMMA DieAnswers == ASSUME AnswerInv, Die PROVE AnswerInv'
<1>1. /\ outbox' = <<>> /\ pc' = "down" /\ UNCHANGED <<logged, acks, received, queue>>
      /\ unlogged' = unlogged \cup {s \in received : /\ pc = "save" /\ s = Head(outbox)
                                                     /\ logged[s] = Absent}
  BY DEF Die
<1>2. Outgoing'
  <2>1. outbox' \in Seq(Signals) /\ Len(outbox') = 0
    BY <1>1
  <2>2. \A i \in 1 .. Len(outbox') : FALSE
    BY <2>1
  <2>. QED
    BY <1>1, <2>1, <2>2 DEF Outgoing
<1>. QED
  BY <1>1, <1>2 DEF AnswerInv

LEMMA RunAnswers == ASSUME AnswerInv, RunCycle PROVE AnswerInv'
<1>1. /\ UNCHANGED <<logged, acks, received, unlogged, queue>> /\ pc = "cycle"
  BY DEF RunCycle, dbVars, chatVars
<1>2. PICK n \in 0 .. Cardinality(Signals) :
           /\ outbox' \in Injection(1 .. n, Fresh)
           /\ pc' = IF n = 0 THEN "count" ELSE "send"
  BY DEF RunCycle
<1>3. n \in Nat
  BY <1>2
<1>4. outbox' \in [1 .. n -> Fresh]
  BY <1>2 DEF Injection, IsInjective
<1>5. Fresh \subseteq Signals \ received
  BY DEF Fresh
<1>6. outbox' \in Seq(Signals) /\ Len(outbox') = n
  BY <1>3, <1>4, <1>5
<1>7. outbox' # <<>> <=> n # 0
  <2>1. Len(<<>>) = 0
    OBVIOUS
  <2>. QED
    BY <1>3, <1>6, <2>1
<1>8. ASSUME NEW i \in 1 .. Len(outbox')
      PROVE  outbox'[i] \notin unlogged /\ acks[outbox'[i]] = "none"
  <2>1. outbox'[i] \in Signals \ received
    BY <1>4, <1>5, <1>6
  <2>. QED
    BY <2>1 DEF AnswerInv
<1>9. Outgoing'
  BY <1>1, <1>2, <1>6, <1>7, <1>8 DEF Outgoing
<1>. QED
  BY <1>1, <1>2, <1>9 DEF AnswerInv

LEMMA SendAnswers == ASSUME AnswerInv, SendSignal PROVE AnswerInv'
<1>1. /\ pc = "send" /\ pc' = "save" /\ received' \in {received, received \cup {Head(outbox)}}
      /\ UNCHANGED <<outbox, logged, acks, unlogged, queue>>
  BY DEF SendSignal, chatVars
<1>2. Outgoing'
  BY <1>1 DEF AnswerInv, Outgoing
<1>. QED
  BY <1>1, <1>2 DEF AnswerInv

LEMMA SaveAnswers == ASSUME Control, AnswerInv, SaveSignal PROVE AnswerInv'
<1>. DEFINE h == Head(outbox)
<1>1. /\ pc = "save" /\ outbox' = Tail(outbox)
      /\ pc' = IF outbox' = <<>> THEN "count" ELSE "send"
      /\ logged' = [logged EXCEPT ![h] = [status |-> pass.status, at |-> clock]]
      /\ UNCHANGED <<acks, received, unlogged, queue>>
  BY DEF SaveSignal, chatVars
<1>2. Outgoing /\ outbox \in Seq(Signals) /\ outbox # <<>>
  BY <1>1 DEF AnswerInv, Outgoing
<1>3. /\ outbox' \in Seq(Signals) /\ Len(outbox') = Len(outbox) - 1
      /\ Len(outbox) \in Nat /\ Len(outbox) >= 1 /\ h = outbox[1] /\ h \in Signals
      /\ \A i \in 1 .. Len(outbox) - 1 : outbox'[i] = outbox[i + 1]
  BY <1>1, <1>2
<1>4. Outgoing'
  <2>1. ASSUME NEW i \in 1 .. Len(outbox')
        PROVE  outbox'[i] \notin unlogged /\ acks[outbox'[i]] = "none"
    <3>1. i + 1 \in 1 .. Len(outbox) /\ outbox'[i] = outbox[i + 1]
      BY <1>3
    <3>. QED
      BY <1>2, <3>1 DEF Outgoing
  <2>. QED
    BY <1>1, <1>3, <2>1 DEF Outgoing
<1>5. h \notin unlogged
  <2>1. 1 \in 1 .. Len(outbox)
    BY <1>3
  <2>. QED
    BY <1>2, <1>3, <2>1 DEF Outgoing
<1>. HIDE DEF h
<1>6. [status |-> pass.status, at |-> clock] # Absent
  <2>1. clock # Never
    BY DEF Control, Never
  <2>. QED
    BY <2>1 DEF Absent
<1>7. /\ logged' = [s \in Signals |-> logged'[s]]
      /\ logged'[h] # Absent
      /\ \A s \in Signals : s # h => logged'[s] = logged[s]
  BY <1>1, <1>3, <1>6 DEF AnswerInv
<1>8. ASSUME NEW s \in Signals, s \in received
      PROVE  logged'[s] # Absent \/ s \in unlogged
  BY <1>1, <1>7, <1>8 DEF AnswerInv, h
<1>9. \A s \in Signals : s \in unlogged => logged'[s] = Absent
  BY <1>5, <1>7 DEF AnswerInv
<1>. QED
  BY <1>1, <1>4, <1>7, <1>8, <1>9 DEF AnswerInv

LEMMA ArriveAnswers == ASSUME ChatInv, AnswerInv, Arrive PROVE AnswerInv'
<1>1. /\ pc = "poll" /\ pc' = "poll" /\ outbox' = outbox
      /\ UNCHANGED <<logged, acks, received, unlogged>>
  BY DEF Arrive, procVars, dbVars
<1>2. PICK u \in Updates : /\ u.kind = "ack" => u.signal \in received
                           /\ queue' = Append(queue, u)
  BY DEF Arrive
<1>3. queue \in Seq(Updates)
  BY DEF ChatInv, ChatTypes
<1>4. \A i \in DOMAIN queue' : \/ i \in DOMAIN queue /\ queue'[i] = queue[i]
                               \/ queue'[i] = u
  BY <1>2, <1>3
<1>5. \A i \in DOMAIN queue' : queue'[i].kind = "ack" => queue'[i].signal \in received
  BY <1>2, <1>4 DEF AnswerInv
<1>6. Outgoing'
  BY <1>1 DEF AnswerInv, Outgoing
<1>. QED
  BY <1>1, <1>5, <1>6 DEF AnswerInv

LEMMA HandleAnswers == ASSUME ChatInv, AnswerInv, Handle PROVE AnswerInv'
<1>1. Consume
  BY DEF Handle, HandleOther, HandleMute, HandleAck
<1>2. /\ pc = "handle" /\ pc' = "handle"
      /\ UNCHANGED <<outbox, logged, received, unlogged, queue>>
  BY <1>1 DEF Consume
<1>3. outbox = <<>> /\ Outgoing /\ outbox \in Seq(Signals)
  BY <1>2 DEF AnswerInv, Outgoing
<1>4. Outgoing'
  <2>1. \A i \in 1 .. Len(outbox') : FALSE
    BY <1>2, <1>3
  <2>. QED
    BY <1>2, <1>3, <2>1 DEF Outgoing
<1>5. ASSUME NEW s \in Signals, acks'[s] # "none"
      PROVE  s \in received
  <2>1. CASE acks' = acks
    BY <1>5, <2>1 DEF AnswerInv
  <2>2. CASE acks' # acks
    <3>. DEFINE u == queue[Head(batch)]
    <3>1. u.kind = "ack" /\ acks' = [acks EXCEPT ![u.signal] = u.action]
      BY <2>2 DEF Handle, HandleOther, HandleMute, HandleAck
    <3>2. Head(batch) \in DOMAIN queue
      BY <1>1, ConsumeFacts
    <3>3. u.signal \in received
      BY <3>1, <3>2 DEF AnswerInv
    <3>4. s # u.signal => acks'[s] = acks[s]
      BY <3>1 DEF ChatInv, ChatTypes
    <3>. QED
      BY <1>5, <3>3, <3>4 DEF AnswerInv
  <2>. QED
    BY <2>1, <2>2
<1>. QED
  BY <1>2, <1>4, <1>5 DEF AnswerInv

LEMMA NextAnswers == Control /\ ChatInv /\ AnswerInv /\ [Next]_vars => AnswerInv'
<1>. SUFFICES ASSUME Control, ChatInv, AnswerInv, [Next]_vars PROVE AnswerInv'
  OBVIOUS
<1>1. CASE Stop \/ StopInWrite \/ SaveRaises
  BY <1>1, DieAnswers DEF Stop, StopInWrite, SaveRaises
<1>2. CASE RunCycle
  BY <1>2, RunAnswers
<1>3. CASE SendSignal
  BY <1>3, SendAnswers
<1>4. CASE SaveSignal
  BY <1>4, SaveAnswers
<1>5. CASE Arrive
  BY <1>5, ArriveAnswers
<1>6. CASE Handle
  BY <1>6, HandleAnswers
<1>7. CASE Start \/ SkipCycle \/ CountAndCheck
  <2>1. /\ UNCHANGED dbVars /\ queue' = queue /\ outbox' = outbox
        /\ pc \notin {"send", "save"} /\ pc' \notin {"send", "save"}
    BY <1>7 DEF Start, SkipCycle, CountAndCheck, chatVars
  <2>. QED
    BY <2>1, QuietAnswers
<1>8. CASE Announce \/ RecordAlert \/ ClearAlert \/ Suppress
  <2>1. /\ UNCHANGED dbVars /\ queue' = queue /\ outbox' = outbox
        /\ pc \notin {"send", "save"} /\ pc' \notin {"send", "save"}
    BY <1>8 DEF Announce, RecordAlert, ClearAlert, Suppress, NextCheck, chatVars, procVars
  <2>. QED
    BY <2>1, QuietAnswers
<1>9. CASE FirstMark \/ NoReport \/ SendReport \/ MarkSent
  <2>1. /\ UNCHANGED dbVars /\ queue' = queue /\ outbox' = outbox
        /\ pc \notin {"send", "save"} /\ pc' \notin {"send", "save"}
    BY <1>9 DEF FirstMark, NoReport, SendReport, MarkSent, NextPeriod, chatVars, procVars
  <2>. QED
    BY <2>1, QuietAnswers
<1>10. CASE Fetch \/ FetchFails \/ SaveOffset \/ Nap
  <2>1. /\ UNCHANGED dbVars /\ queue' = queue /\ outbox' = outbox
        /\ pc \notin {"send", "save"} /\ pc' \notin {"send", "save"}
    BY <1>10 DEF Fetch, FetchFails, SaveOffset, Nap, chatVars, procVars
  <2>. QED
    BY <2>1, QuietAnswers
<1>11. CASE UNCHANGED vars
  <2>1. UNCHANGED dbVars /\ queue' = queue /\ outbox' = outbox /\ pc' = pc
    BY <1>11 DEF vars, chatVars, procVars
  <2>. QED
    BY <2>1, QuietAnswers
<1>. QED
  BY <1>1, <1>2, <1>3, <1>4, <1>5, <1>6, <1>7, <1>8, <1>9, <1>10, <1>11 DEF Next, Step

\* The report's figures leave out only answers about signals that the bot sent
\* and, stopped or stopping on an error of the database, never saved: no other
\* stop, fault or replay of an update loses an answer from the count.
THEOREM AnswersStand == Spec => []AnswersCounted
<1>1. AnswerInv => AnswersCounted
  <2>. SUFFICES ASSUME AnswerInv PROVE AnswersCounted
    OBVIOUS
  <2>. DEFINE counted == {s \in {s \in Signals : logged[s] # Absent} : acks[s] # "none"}
  <2>1. ASSUME NEW s \in Signals, acks[s] # "none"
        PROVE  logged[s] # Absent <=> s \notin unlogged
    <3>1. s \in received
      BY <2>1 DEF AnswerInv
    <3>2. ~ (pc = "save" /\ s = Head(outbox))
      <4>1. SUFFICES ASSUME pc = "save", s = Head(outbox) PROVE FALSE
        OBVIOUS
      <4>2. outbox \in Seq(Signals) /\ outbox # <<>>
        BY <4>1 DEF AnswerInv, Outgoing
      <4>3. Head(outbox) = outbox[1] /\ 1 \in 1 .. Len(outbox)
        BY <4>2
      <4>. QED
        BY <2>1, <4>1, <4>3 DEF AnswerInv, Outgoing
    <3>. QED
      BY <3>1, <3>2 DEF AnswerInv
  <2>2. counted = {s \in Signals \ unlogged : acks[s] # "none"}
    BY <2>1
  <2>3. Stats.acknowledged = Cardinality(counted)
    BY DEF Stats
  <2>. QED
    BY <2>2, <2>3 DEF AnswersCounted
<1>. QED
  BY <1>1, InitControl, NextControl, InitChat, NextChat, InitAnswers, NextAnswers, PTL DEF Spec
=============================================================================
