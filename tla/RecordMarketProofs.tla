------------------------- MODULE RecordMarketProofs -------------------------
(***************************************************************************)
(* What the recording programs do to one database file, proved for any     *)
(* number of programs, attempts, payloads and specs: statement by          *)
(* statement they implement the archive, their fetches never overlap, and  *)
(* a spec version carries the time it was first seen.                      *)
(***************************************************************************)
EXTENDS RecordMarket, FiniteSetTheorems, TLAPS

Points == {"off", "lock", "connect", "validate", "ddl", "stamp"} \cup OpenPoints

\* Where an attempt is at hand, and where its transaction is open.
Working == OpenPoints \ {"opened"}
Writing == {"rows", "final", "commit"}
Recording == {"select", "insert"} \cup Writing

Job == [mode: Modes \cup {Unset}, kind: Archive!Kinds \cup {Unset}, id: Nat,
        requested_at: Nat, content: Contents \cup {Unset}, todo: SUBSET Specs]

\* What is known of a program by where it is: one that writes holds the
\* ProcessLock, and its attempt has an id and times of its own.
AtPoint(p) ==
  /\ pc[p] # "off" => job[p].kind \in Archive!Kinds /\ job[p].mode \in Modes
  /\ pc[p] \notin {"off", "lock"} /\ job[p].mode # "status" => lock = p
  /\ pc[p] \in Working =>
       job[p].mode # "status" /\ job[p].id \in 1 .. issued /\ job[p].requested_at <= clock
  /\ pc[p] \notin Working => job[p].content = Unset
  /\ pc[p] = "fetch" => clock < issued /\ job[p].content = Unset
  /\ pc[p] \in Recording => job[p].content # Unset
  /\ job[p].content # Unset =>
       /\ job[p].content.requested_at = job[p].requested_at
       /\ job[p].requested_at < job[p].content.received_at
       /\ job[p].content.received_at <= clock

Control ==
  /\ pc \in [Procs -> Points] /\ job \in [Procs -> Job]
  /\ clock \in Nat /\ issued \in Nat /\ clock <= issued /\ issued <= MaxAttempts
  /\ \A p \in Procs : AtPoint(p)

-----------------------------------------------------------------------------
(* One program works at a time. *)

\* Only the holder of the ProcessLock has an attempt at hand.
LEMMA Alone ==
  ASSUME Control, NEW p \in Procs, NEW q \in Procs, pc[p] \in Working, pc[q] \in Working
  PROVE  p = q
<1>1. AtPoint(p) /\ AtPoint(q)
  BY DEF Control
<1> QED
  BY <1>1 DEF AtPoint, Working, OpenPoints

\* A step of p that moves the time or draws an id is a step of the holder.
LEMMA ControlStep ==
  ASSUME Control, NEW p \in Procs, NEW x \in Points, NEW j \in Job,
         pc' = [pc EXCEPT ![p] = x], job' = [job EXCEPT ![p] = j],
         clock' \in Nat, issued' \in Nat, clock' <= issued', issued' <= MaxAttempts,
         AtPoint(p)',
         \A q \in Procs \ {p} : lock = q => lock' = q,
         UNCHANGED <<clock, issued>> \/ pc[p] \in Working \/ lock = p
  PROVE  Control'
<1>1. pc \in [Procs -> Points] /\ job \in [Procs -> Job]
  BY DEF Control
<1>2. pc' \in [Procs -> Points] /\ job' \in [Procs -> Job]
  BY <1>1
<1>3. ASSUME NEW q \in Procs, q # p PROVE AtPoint(q)'
  <2>1. pc'[q] = pc[q] /\ job'[q] = job[q] /\ AtPoint(q) /\ AtPoint(p)
    BY <1>1, <1>3 DEF Control
  <2>2. lock = q => lock' = q
    BY <1>3
  <2>3. CASE UNCHANGED <<clock, issued>>
    BY <2>1, <2>2, <2>3 DEF AtPoint
  <2>4. CASE pc[p] \in Working \/ lock = p
    <3>1. pc[q] \notin Working
      BY <2>1, <2>4, <1>3 DEF AtPoint, Working, OpenPoints
    <3> QED
      BY <3>1, <2>1, <2>2 DEF AtPoint, Working, Recording, Writing, OpenPoints
  <2> QED
    BY <2>3, <2>4
<1> QED
  BY <1>2, <1>3 DEF Control

LEMMA InitControl == Init => Control
<1> SUFFICES ASSUME Init PROVE Control
  OBVIOUS
<1>1. NoJob \in Job
  BY DEF NoJob, Job
<1>2. /\ pc = [p \in Procs |-> "off"] /\ job = [p \in Procs |-> NoJob]
      /\ clock = 0 /\ issued = 0
  BY DEF Init
<1>3. \A p \in Procs : AtPoint(p)
  BY <1>2 DEF AtPoint, NoJob, Working, Recording, Writing, OpenPoints
<1> QED
  BY <1>1, <1>2, <1>3, ProgramAssumption DEF Control, Points

LEMMA ExitControl ==
  ASSUME Control, NEW p \in Procs, Exit(p)
  PROVE  Control'
<1>1. NoJob \in Job
  BY DEF NoJob, Job
<1>2. /\ pc' = [pc EXCEPT ![p] = "off"] /\ job' = [job EXCEPT ![p] = NoJob]
      /\ UNCHANGED <<clock, issued>>
      /\ \A q \in Procs \ {p} : lock = q => lock' = q
  BY DEF Exit, Goto
<1>3. pc'[p] = "off" /\ job'[p] = NoJob
  BY <1>2 DEF Control
<1>4. AtPoint(p)'
  BY <1>3 DEF AtPoint, NoJob, Working, Recording, Writing, OpenPoints
<1> QED
  BY <1>1, <1>2, <1>4, ControlStep DEF Control, Points

\* Steps that leave the job as it is.
LEMMA MoveControl ==
  ASSUME Control, NEW p \in Procs, NEW x \in Points,
         Goto(p, x), UNCHANGED <<job, clock, issued>>,
         \/ /\ pc[p] # "off"
            /\ pc[p] \notin Working /\ x \notin Working \cup {"off"}
            /\ \/ pc[p] # "lock" /\ lock' = lock
               \/ lock = Unset /\ lock' = p
         \/ /\ pc[p] \in Working /\ x \in Working \ {"fetch"}
            /\ x \in Recording => pc[p] \in Recording
            /\ lock' = lock
  PROVE  Control'
<1>1. pc' = [pc EXCEPT ![p] = x] /\ job' = [job EXCEPT ![p] = job[p]] /\ job[p] \in Job
  BY DEF Goto, Control
<1>2. pc'[p] = x /\ job'[p] = job[p] /\ AtPoint(p)
  BY <1>1 DEF Control
<1>3. AtPoint(p)'
  BY <1>2 DEF AtPoint, Working, Recording, Writing, OpenPoints
<1>4. \A q \in Procs \ {p} : lock = q => lock' = q
  BY ProgramAssumption
<1> QED
  BY <1>1, <1>3, <1>4, ControlStep DEF Control

LEMMA StepControl ==
  ASSUME Control, NEW p \in Procs, Begin(p) \/ Step(p) \/ Raise(p) \/ Stop(p)
  PROVE  Control'
<1>p. /\ {"off", "lock", "connect", "validate", "ddl", "stamp", "opened"} \cup Working = Points
      /\ Working = {"fetch", "return", "note"} \cup Recording
      /\ Recording = {"select", "insert", "rows", "final", "commit"}
  BY DEF Points, Working, Recording, Writing, OpenPoints
<1>0. /\ pc[p] \in Points /\ job[p] \in Job /\ AtPoint(p) /\ clock \in Nat /\ issued \in Nat
      /\ clock <= issued /\ issued <= MaxAttempts
  BY DEF Control
<1>1. ASSUME NEW mode \in Modes, NEW kind \in Archive!Kinds, Start(p, mode, kind)
      PROVE  Control'
  <2> DEFINE x == IF mode = "status" THEN "connect" ELSE "lock"
             j == [NoJob EXCEPT !.mode = mode, !.kind = kind]
  <2>1. /\ pc' = [pc EXCEPT ![p] = x] /\ job' = [job EXCEPT ![p] = j]
        /\ UNCHANGED <<clock, issued, lock>>
    BY <1>1 DEF Start, Goto
  <2>2. /\ j \in Job /\ x \in Points
        /\ j.mode = mode /\ j.kind = kind /\ j.content = Unset
    BY <1>p DEF NoJob, Job
  <2>3. pc'[p] = x /\ job'[p] = j
    BY <2>1 DEF Control
  <2>4. AtPoint(p)'
    BY <1>p, <2>2, <2>3 DEF AtPoint
  <2> HIDE DEF x, j
  <2> QED
    BY <2>1, <2>2, <2>4, <1>0, ControlStep
<1>2. CASE Acquire(p)
  BY <1>2, <1>p, MoveControl DEF Acquire
<1>3. CASE Connect(p) \/ Validate(p) \/ CreateTables(p) \/ StampMeta(p)
  BY <1>3, <1>p, MoveControl DEF Connect, Validate, CreateTables, StampMeta
<1>4. CASE Request(p)
  <2> DEFINE j == [job[p] EXCEPT !.id = issued + 1, !.requested_at = clock]
  <2>1. /\ pc[p] = "opened" /\ job[p].mode # "status" /\ issued < MaxAttempts
        /\ pc' = [pc EXCEPT ![p] = "fetch"] /\ job' = [job EXCEPT ![p] = j]
        /\ issued' = issued + 1 /\ UNCHANGED <<clock, lock>>
    BY <1>4 DEF Request, Goto, Control
  <2>2. /\ j \in Job /\ j.id = issued + 1 /\ j.requested_at = clock
        /\ j.mode = job[p].mode /\ j.kind = job[p].kind /\ j.content = job[p].content
    <3>1. issued + 1 \in Nat
      BY <1>0
    <3> QED
      BY <3>1, <1>0 DEF Job
  <2>3. pc'[p] = "fetch" /\ job'[p] = j
    BY <2>1 DEF Control
  <2> HIDE DEF j
  <2>4. lock = p /\ job[p].content = Unset /\ issued' \in Nat /\ clock <= issued'
    BY <1>p, <1>0, <2>1 DEF AtPoint
  <2>5. AtPoint(p)'
    BY <1>p, <1>0, <2>1, <2>2, <2>3, <2>4 DEF AtPoint
  <2> QED
    <3>1. /\ clock' \in Nat /\ issued' \in Nat /\ clock' <= issued' /\ issued' <= MaxAttempts
      BY <1>0, <2>1, ProgramAssumption
    <3>2. "fetch" \in Points
      BY <1>p
    <3> QED
      BY <2>1, <2>2, <2>4, <2>5, <3>1, <3>2, ControlStep
<1>5. ASSUME NEW payload \in Payloads, Answer(p, payload) PROVE Control'
  <2> DEFINE c == [payload |-> payload, requested_at |-> job[p].requested_at, received_at |-> clock + 1]
             j == [job[p] EXCEPT !.content = c]
  <2>1. /\ pc[p] = "fetch" /\ pc' = [pc EXCEPT ![p] = "select"] /\ job' = [job EXCEPT ![p] = j]
        /\ clock' = clock + 1 /\ UNCHANGED <<issued, lock>>
    BY <1>5 DEF Answer, Goto, Control
  <2>2. job[p].requested_at <= clock /\ clock < issued /\ job[p].requested_at \in Nat
    BY <2>1, <1>0, <1>p DEF AtPoint, Job
  <2>3. c \in Contents
    BY <1>p, <1>0, <2>2, ProgramAssumption DEF Contents, Times
  <2>4. c # Unset /\ c.requested_at = job[p].requested_at /\ c.received_at = clock + 1
    BY <2>3, ProgramAssumption
  <2> HIDE DEF c
  <2>5. /\ j \in Job /\ j.content = c /\ j.id = job[p].id /\ j.requested_at = job[p].requested_at
        /\ j.mode = job[p].mode /\ j.kind = job[p].kind
    BY <1>p, <1>0, <2>3 DEF Job
  <2>6. pc'[p] = "select" /\ job'[p] = j
    BY <2>1 DEF Control
  <2> HIDE DEF j
  <2>7. AtPoint(p)'
    BY <1>p, <1>0, <2>1, <2>2, <2>4, <2>5, <2>6 DEF AtPoint
  <2> QED
    <3>1. /\ clock' \in Nat /\ issued' \in Nat /\ clock' <= issued' /\ issued' <= MaxAttempts
      BY <1>0, <2>1, <2>2
    <3>2. "select" \in Points /\ pc[p] \in Working
      BY <1>p, <2>1
    <3> QED
      BY <2>1, <2>5, <2>7, <3>1, <3>2, ControlStep
<1>6. CASE NoAnswer(p)
  <2>1. /\ pc[p] = "fetch" /\ pc' = [pc EXCEPT ![p] = "note"] /\ job' = [job EXCEPT ![p] = job[p]]
        /\ clock' = clock + 1 /\ UNCHANGED <<issued, lock>>
    BY <1>6 DEF NoAnswer, Goto, Control
  <2>2. pc'[p] = "note" /\ job'[p] = job[p]
    BY <2>1 DEF Control
  <2>3. job[p].requested_at <= clock /\ clock < issued /\ job[p].requested_at \in Nat
    BY <2>1, <1>0, <1>p DEF AtPoint, Job
  <2>4. AtPoint(p)'
    BY <1>p, <1>0, <2>1, <2>2, <2>3 DEF AtPoint
  <2> QED
    <3>1. /\ clock' \in Nat /\ issued' \in Nat /\ clock' <= issued' /\ issued' <= MaxAttempts
      BY <1>0, <2>1, <2>3
    <3>2. "note" \in Points /\ pc[p] \in Working
      BY <1>p, <2>1
    <3> QED
      BY <1>0, <2>1, <2>4, <3>1, <3>2, ControlStep
<1>7. CASE SelectExisting(p)
  BY <1>7, <1>p, MoveControl DEF SelectExisting
<1>8. ASSUME NEW x \in Points, NEW t \in SUBSET Specs,
             pc[p] \in Recording, x \in Recording \cup {"note"},
             Goto(p, x), job' = [job EXCEPT ![p].todo = t], UNCHANGED <<lock, clock, issued>>
      PROVE  Control'
  <2> DEFINE j == [job[p] EXCEPT !.todo = t]
  <2>1. /\ pc' = [pc EXCEPT ![p] = x] /\ job' = [job EXCEPT ![p] = j]
    BY <1>8 DEF Goto, Control
  <2>2. /\ j \in Job /\ j.content = job[p].content /\ j.id = job[p].id
        /\ j.requested_at = job[p].requested_at
        /\ j.mode = job[p].mode /\ j.kind = job[p].kind
    BY <1>p, <1>0 DEF Job
  <2>3. pc'[p] = x /\ job'[p] = j
    BY <2>1 DEF Control
  <2> HIDE DEF j
  <2>4. AtPoint(p)'
    BY <1>p, <1>0, <1>8, <2>2, <2>3 DEF AtPoint
  <2> QED
    BY <1>p, <1>0, <1>8, <2>1, <2>2, <2>4, ControlStep
<1>9. CASE InsertSnapshot(p)
  <2>1. job[p].content \in Contents
    BY <1>p, <1>0, <1>9 DEF InsertSnapshot, AtPoint, Job
  <2>2. Quoted[job[p].content.payload] \in SUBSET Specs
    BY <2>1, ProgramAssumption DEF Contents
  <2> QED
    BY <1>p, <1>8, <1>9, <2>2 DEF InsertSnapshot
<1>10. ASSUME NEW s \in Specs, WriteQuote(p, s) PROVE Control'
  <2>1. job[p].todo \ {s} \in SUBSET Specs
    BY <1>p, <1>0 DEF Job
  <2>2. job' = [job EXCEPT ![p].todo = job[p].todo \ {s}]
    BY <1>10 DEF WriteQuote, Control
  <2>3. Goto(p, "final") \/ Goto(p, "rows")
    BY <1>10 DEF WriteQuote
  <2>4. pc[p] = "rows" /\ UNCHANGED <<lock, clock, issued>>
    BY <1>10 DEF WriteQuote
  <2> QED
    BY <1>p, <1>8, <2>1, <2>2, <2>3, <2>4
<1>11. CASE UpdateStatus(p) \/ Commit(p) \/ NoteFailure(p) \/ NoteFails(p)
  BY <1>11, <1>p, MoveControl DEF UpdateStatus, Commit, NoteFailure, NoteFails
<1>12. CASE SqliteError(p)
  <2>1. /\ {} \in SUBSET Specs /\ "note" \in Points /\ pc[p] \in Recording
        /\ Goto(p, "note") /\ job' = [job EXCEPT ![p].todo = {}] /\ UNCHANGED <<lock, clock, issued>>
    BY <1>p, <1>12 DEF SqliteError
  <2> QED
    BY <1>8, <2>1
<1>13. CASE GoOn(p)
  <2> DEFINE j == [NoJob EXCEPT !.mode = "loop", !.kind = job[p].kind]
  <2>1. /\ pc[p] = "return" /\ pc' = [pc EXCEPT ![p] = "opened"] /\ job' = [job EXCEPT ![p] = j]
        /\ UNCHANGED <<clock, issued, lock>>
    BY <1>13 DEF GoOn, Goto
  <2>2. /\ j \in Job /\ j.mode = "loop" /\ j.kind = job[p].kind /\ j.content = Unset
    BY <1>p, <1>0 DEF NoJob, Job, Modes
  <2>3. pc'[p] = "opened" /\ job'[p] = j
    BY <2>1 DEF Control
  <2> HIDE DEF j
  <2>4. AtPoint(p)'
    BY <1>p, <1>0, <2>1, <2>2, <2>3 DEF AtPoint, Modes
  <2> QED
    BY <1>p, <1>0, <2>1, <2>2, <2>4, ControlStep
<1>14. CASE Exit(p)
  BY <1>14, ExitControl
<1> QED
  BY <1>1, <1>2, <1>3, <1>4, <1>5, <1>6, <1>7, <1>9, <1>10, <1>11, <1>12, <1>13, <1>14
     DEF Begin, Step, Raise, Stop, LockUnavailable, Mismatch, AlreadyStamped, Status, Overflow,
         Return, Exhausted, OpenFails

LEMMA StutterControl == Control /\ UNCHANGED vars => Control'
BY DEF vars, Control, AtPoint

-----------------------------------------------------------------------------
(* The committed tables, and what an open transaction holds. *)

SpecRow == [spec: Specs, first_seen_at: Nat]

\* contract_specs: one row for each version.
SpecTable(table) ==
  /\ table \in Seq(SpecRow)
  /\ \A i, j \in DOMAIN table : table[i].spec = table[j].spec => i = j

\* The rows of quotes that one snapshot has for the specs S.
RowsFor(id, table, S) ==
  {[snapshot_id |-> id, spec_id |-> i] : i \in {j \in DOMAIN table : table[j].spec \in S}}

\* The row of an attempt at hand.
RowOf(p) ==
  [status |-> IF pc[p] = "commit" THEN Archive!FinalStatus(job[p].content) ELSE PARTIAL,
   is_live |-> is_live(p), content |-> job[p].content]

\* The specs it has written a quote for.
Written(p) == Quoted[job[p].content.payload] \ job[p].todo

\* New versions only follow the committed ones, with the time of the answer.
SpecsExtended(old, new, c, S) ==
  /\ SpecTable(new)
  /\ Len(old) <= Len(new)
  /\ \A i \in DOMAIN old : new[i] = old[i]
  /\ \A i \in DOMAIN new \ DOMAIN old : new[i].first_seen_at = c.received_at /\ new[i].spec \in S
  /\ \A s \in S : \E i \in DOMAIN new : new[i].spec = s

Draft(p) ==
  /\ writer = p
  /\ pending = [snapshots |-> Archive!With(snapshots, job[p].id, RowOf(p)),
                specs |-> pending.specs,
                quotes |-> quotes \cup RowsFor(job[p].id, pending.specs, Written(p))]
  /\ SpecsExtended(specs, pending.specs, job[p].content, Written(p))
  /\ job[p].todo \subseteq Quoted[job[p].content.payload]
  /\ pc[p] # "rows" => job[p].todo = {}

Drafts ==
  \A p \in Procs : (pc[p] \in Writing => Draft(p)) /\ (writer = p => pc[p] \in Writing)

\* An id names nothing on the disk until its attempt ends.
FreshIds ==
  /\ DOMAIN snapshots \subseteq 1 .. issued
  /\ \A p \in Procs : pc[p] \in Working \ {"return"} => job[p].id \notin DOMAIN snapshots

Stored ==
  /\ SpecTable(specs)
  /\ \A id \in Recorded :
       /\ snapshots[id].content \in Contents
       /\ \A s \in Quoted[snapshots[id].content.payload] : \E i \in DOMAIN specs : specs[i].spec = s

Tables == Drafts /\ FreshIds /\ Stored

LEMMA InitTables == Init => Tables
<1> SUFFICES ASSUME Init PROVE Tables
  OBVIOUS
<1>1. /\ pc = [p \in Procs |-> "off"] /\ writer = Unset
      /\ snapshots = << >> /\ specs = << >> /\ DOMAIN snapshots = {}
  BY DEF Init
<1>2. Recorded = {}
  BY <1>1 DEF Recorded
<1>3. SpecTable(specs)
  BY <1>1 DEF SpecTable
<1>4. Drafts
  BY <1>1, ProgramAssumption DEF Drafts, Writing
<1>5. FreshIds
  BY <1>1 DEF FreshIds, Working, OpenPoints
<1> QED
  BY <1>2, <1>3, <1>4, <1>5 DEF Tables, Stored

\* What an open transaction holds depends on these alone.
LEMMA DraftKept ==
  ASSUME NEW q \in Procs, Draft(q), pc'[q] = pc[q], job'[q] = job[q],
         UNCHANGED <<snapshots, specs, quotes, pending, writer>>
  PROVE  Draft(q)'
BY DEF Draft, RowOf, Written, is_live

\* A step that writes nothing, or gives up what was written.
LEMMA QuietTables ==
  ASSUME Control, Tables, NEW p \in Procs,
         pc' \in [Procs -> Points], \A q \in Procs \ {p} : pc'[q] = pc[q] /\ job'[q] = job[q],
         UNCHANGED <<snapshots, specs, quotes>>,
         pc'[p] \notin Writing,
         \/ pc[p] \notin Writing /\ UNCHANGED <<pending, writer>>
         \/ pc[p] \in Writing /\ writer' = Unset,
         issued \in Nat, issued' \in Nat, issued <= issued',
         pc'[p] \in Working \ {"return"} => job'[p].id \notin DOMAIN snapshots
  PROVE  Tables'
<1>1. Drafts'
  <2>1. CASE pc[p] \notin Writing /\ UNCHANGED <<pending, writer>>
    <3>1. ASSUME NEW q \in Procs, pc'[q] \in Writing PROVE Draft(q)'
      <4>1. q # p /\ pc'[q] = pc[q] /\ job'[q] = job[q]
        BY <3>1
      <4>2. Draft(q)
        BY <3>1, <4>1 DEF Tables, Drafts
      <4> QED
        BY <2>1, <4>1, <4>2, DraftKept
    <3>2. ASSUME NEW q \in Procs, writer' = q PROVE pc'[q] \in Writing
      <4>1. pc[q] \in Writing
        BY <2>1, <3>2 DEF Tables, Drafts
      <4> QED
        BY <2>1, <4>1
    <3> QED
      BY <3>1, <3>2 DEF Drafts
  <2>2. CASE pc[p] \in Writing /\ writer' = Unset
    <3>1. \A q \in Procs : pc'[q] \notin Writing
      BY <2>2, Alone DEF Writing, Working, OpenPoints
    <3> QED
      BY <2>2, <3>1, ProgramAssumption DEF Drafts
  <2> QED
    BY <2>1, <2>2
<1>2. FreshIds'
  <2>1. DOMAIN snapshots' \subseteq 1 .. issued'
    BY DEF Tables, FreshIds
  <2>2. ASSUME NEW q \in Procs, pc'[q] \in Working \ {"return"}
        PROVE  job'[q].id \notin DOMAIN snapshots'
    BY <2>2 DEF Tables, FreshIds
  <2> QED
    BY <2>1, <2>2 DEF FreshIds
<1>3. Stored'
  BY DEF Tables, Stored, Recorded
<1> QED
  BY <1>1, <1>2, <1>3 DEF Tables

\* _spec_id finds the one row of a known version or adds one for a new version.
AfterKey(table, spec, t) ==
  IF SpecKey(table, spec) \in DOMAIN table THEN table
  ELSE Append(table, [spec |-> spec, first_seen_at |-> t])

LEMMA SpecKeyIs ==
  ASSUME NEW table, SpecTable(table), NEW spec \in Specs, NEW t \in Nat
  PROVE  LET key == SpecKey(table, spec)
             new == AfterKey(table, spec, t)
         IN /\ SpecTable(new) /\ Len(table) <= Len(new)
            /\ \A i \in DOMAIN table : new[i] = table[i]
            /\ \A i \in DOMAIN new : new[i].spec = spec <=> i = key
            /\ key \in DOMAIN new
            /\ \A i \in DOMAIN new \ DOMAIN table : i = key /\ new[i].first_seen_at = t
<1> DEFINE known == {i \in DOMAIN table : table[i].spec = spec}
           key == SpecKey(table, spec)
           new == AfterKey(table, spec, t)
<1>1. table \in Seq(SpecRow) /\ DOMAIN table = 1 .. Len(table) /\ Len(table) \in Nat
  BY DEF SpecTable
<1>2. CASE known = {}
  <2> DEFINE row == [spec |-> spec, first_seen_at |-> t]
  <2>1. key = Len(table) + 1
    BY <1>2 DEF SpecKey
  <2>2. new = Append(table, row)
    BY <1>1, <2>1 DEF AfterKey
  <2>3. row \in SpecRow /\ row.spec = spec /\ row.first_seen_at = t
    BY DEF SpecRow
  <2> HIDE DEF row, new, key
  <2>4. /\ new \in Seq(SpecRow) /\ Len(new) = Len(table) + 1 /\ DOMAIN new = DOMAIN table \cup {key}
        /\ new[key] = row /\ \A i \in DOMAIN table : new[i] = table[i]
        /\ key \notin DOMAIN table
    BY <1>1, <2>1, <2>2, <2>3
  <2>5. \A i \in DOMAIN table : new[i].spec # spec
    BY <1>2, <2>4
  <2>6. SpecTable(new)
    BY <2>3, <2>4, <2>5 DEF SpecTable
  <2> QED
    BY <1>1, <2>3, <2>4, <2>5, <2>6 DEF key, new
<1>3. CASE known # {}
  <2>1. key \in known
    BY <1>3 DEF SpecKey
  <2>2. new = table
    BY <2>1 DEF AfterKey
  <2> QED
    BY <1>1, <2>1, <2>2 DEF SpecTable
<1> QED
  BY <1>2, <1>3

\* One quote more in the transaction.
LEMMA WriteDraft ==
  ASSUME Control, NEW p \in Procs, Draft(p), NEW s \in Specs, WriteQuote(p, s)
  PROVE  Draft(p)'
<1> DEFINE table == pending.specs
           c == job[p].content
           key == SpecKey(table, s)
           new == AfterKey(table, s, c.received_at)
           W == Written(p)
<1>1. /\ pc[p] = "rows" /\ s \in job[p].todo /\ writer' = writer
      /\ pc' = [pc EXCEPT ![p] = IF job[p].todo = {s} THEN "final" ELSE "rows"]
      /\ job' = [job EXCEPT ![p].todo = job[p].todo \ {s}]
      /\ UNCHANGED <<snapshots, specs, quotes>>
  BY DEF WriteQuote, Goto, Disk, Control
<1>2. pending' = [pending EXCEPT !.specs = new,
                                 !.quotes = pending.quotes \cup {[snapshot_id |-> job[p].id, spec_id |-> key]}]
  BY DEF WriteQuote, Draft, AfterKey
<1>3. /\ pending'.specs = new /\ pending'.snapshots = pending.snapshots
      /\ pending'.quotes = pending.quotes \cup {[snapshot_id |-> job[p].id, spec_id |-> key]}
      /\ pending' = [snapshots |-> pending'.snapshots, specs |-> pending'.specs, quotes |-> pending'.quotes]
  BY <1>2 DEF Draft
<1>4. job[p] \in Job /\ pc[p] \in Points /\ c # Unset
  BY <1>1 DEF Control, AtPoint, Recording, Writing
<1>5. c \in Contents /\ c.received_at \in Nat
  BY <1>4 DEF Job, Contents, Times
<1>6. /\ job'[p].todo = job[p].todo \ {s} /\ job'[p].content = c /\ job'[p].id = job[p].id
      /\ job'[p].kind = job[p].kind
      /\ pc'[p] = IF job[p].todo = {s} THEN "final" ELSE "rows"
  BY <1>1, <1>4 DEF Control, Job
<1>7. RowOf(p)' = RowOf(p)
  BY <1>1, <1>6 DEF RowOf, is_live
<1>8. Written(p)' = W \cup {s} /\ s \in Quoted[c.payload]
  BY <1>1, <1>6 DEF Written, Draft
<1>9. /\ SpecTable(new) /\ Len(table) <= Len(new)
      /\ \A i \in DOMAIN table : new[i] = table[i]
      /\ \A i \in DOMAIN new : new[i].spec = s <=> i = key
      /\ key \in DOMAIN new
      /\ \A i \in DOMAIN new \ DOMAIN table : i = key /\ new[i].first_seen_at = c.received_at
  <2>1. SpecTable(table)
    BY DEF Draft, SpecsExtended
  <2> QED
    BY <2>1, <1>5, SpecKeyIs
<1>10. SpecsExtended(specs, table, c, W)
  BY DEF Draft
<1> HIDE DEF table, c, key, new, W
<1>11. DOMAIN table \subseteq DOMAIN new /\ DOMAIN specs \subseteq DOMAIN table /\ Len(specs) <= Len(new)
  BY <1>9, <1>10 DEF SpecsExtended, SpecTable
<1>12. SpecsExtended(specs, new, c, W \cup {s})
  <2>1. \A i \in DOMAIN specs : new[i] = specs[i]
    BY <1>9, <1>10, <1>11 DEF SpecsExtended
  <2>2. ASSUME NEW i \in DOMAIN new \ DOMAIN specs
        PROVE  new[i].first_seen_at = c.received_at /\ new[i].spec \in W \cup {s}
    <3>1. CASE i \in DOMAIN table
      BY <3>1, <1>9, <1>10 DEF SpecsExtended
    <3>2. CASE i \notin DOMAIN table
      BY <3>2, <1>9
    <3> QED
      BY <3>1, <3>2
  <2>3. ASSUME NEW w \in W \cup {s} PROVE \E i \in DOMAIN new : new[i].spec = w
    <3>1. CASE w = s
      BY <3>1, <1>9
    <3>2. CASE w \in W
      <4>1. PICK i \in DOMAIN table : table[i].spec = w
        BY <3>2, <1>10 DEF SpecsExtended
      <4> QED
        BY <4>1, <1>9, <1>11
    <3> QED
      BY <3>1, <3>2
  <2> QED
    BY <2>1, <2>2, <2>3, <1>9, <1>11 DEF SpecsExtended
<1>13. ASSUME NEW id
       PROVE  RowsFor(id, new, W \cup {s}) = RowsFor(id, table, W) \cup {[snapshot_id |-> id, spec_id |-> key]}
  <2>1. ASSUME NEW i PROVE i \in DOMAIN new /\ new[i].spec \in W \cup {s}
                             <=> (i \in DOMAIN table /\ table[i].spec \in W) \/ i = key
    BY <1>9, <1>11
  <2> QED
    BY <2>1 DEF RowsFor
<1>14. pending'.quotes = quotes \cup RowsFor(job[p].id, new, W \cup {s})
  <2>1. pending.quotes = quotes \cup RowsFor(job[p].id, table, W)
    BY DEF Draft, table, W
  <2> QED
    BY <2>1, <1>3, <1>13
<1>15. pending'.snapshots = Archive!With(snapshots, job[p].id, RowOf(p))
  BY <1>3 DEF Draft
<1> QED
  BY <1>1, <1>3, <1>6, <1>7, <1>8, <1>12, <1>14, <1>15 DEF Draft, c

\* The first statement of the transaction, and its last before the commit.
LEMMA InsertDraft ==
  ASSUME Control, Stored, NEW p \in Procs, InsertSnapshot(p)
  PROVE  Draft(p)'
<1> DEFINE c == job[p].content
           j == [job[p] EXCEPT !.todo = Quoted[c.payload]]
<1>1. /\ pc[p] = "insert" /\ pc' = [pc EXCEPT ![p] = "rows"] /\ job' = [job EXCEPT ![p] = j]
      /\ writer' = p /\ UNCHANGED <<snapshots, specs, quotes>>
      /\ pending' = [snapshots |-> Archive!With(snapshots, job[p].id,
                        [status |-> PARTIAL, is_live |-> is_live(p), content |-> c]),
                     specs |-> specs, quotes |-> quotes]
  BY DEF InsertSnapshot, Goto, Disk, Control
<1>2. job[p] \in Job
  BY DEF Control
<1>3. /\ pc'[p] = "rows" /\ job'[p].todo = Quoted[c.payload] /\ job'[p].content = c
      /\ job'[p].id = job[p].id /\ job'[p].kind = job[p].kind
  BY <1>1, <1>2 DEF Control, Job
<1>4. Written(p)' = {}
  BY <1>3 DEF Written
<1>5. RowOf(p)' = [status |-> PARTIAL, is_live |-> is_live(p), content |-> c]
  BY <1>3 DEF RowOf, is_live
<1>6. RowsFor(job[p].id, specs, {}) = {}
  BY DEF RowsFor
<1>7. SpecsExtended(specs, specs, c, {})
  BY DEF Stored, SpecsExtended, SpecTable
<1> HIDE DEF c, j
<1> QED
  BY <1>1, <1>3, <1>4, <1>5, <1>6, <1>7 DEF Draft

LEMMA UpdateDraft ==
  ASSUME Control, NEW p \in Procs, Draft(p), UpdateStatus(p)
  PROVE  Draft(p)'
<1> DEFINE id == job[p].id
           final == Archive!FinalStatus(job[p].content)
<1>1. /\ pc[p] = "final" /\ pc' = [pc EXCEPT ![p] = "commit"]
      /\ UNCHANGED <<snapshots, specs, quotes, writer, job>>
      /\ pending' = [pending EXCEPT !.snapshots[id].status = final]
  BY DEF UpdateStatus, Goto, Disk
<1>2. pc'[p] = "commit"
  BY <1>1 DEF Control
<1>3. /\ RowOf(p) = [status |-> PARTIAL, is_live |-> is_live(p), content |-> job[p].content]
      /\ RowOf(p)' = [status |-> final, is_live |-> is_live(p), content |-> job[p].content]
  BY <1>1, <1>2 DEF RowOf, is_live
<1>4. pending.snapshots = Archive!With(snapshots, id, RowOf(p))
  BY DEF Draft
<1>5. [pending.snapshots EXCEPT ![id].status = final] = Archive!With(snapshots, id, RowOf(p)')
  <2> DEFINE f == pending.snapshots
             g == [f EXCEPT ![id].status = final]
             h == Archive!With(snapshots, id, RowOf(p)')
  <2>1. DOMAIN f = DOMAIN snapshots \cup {id} /\ f[id] = RowOf(p)
        /\ \A x \in DOMAIN snapshots \ {id} : f[x] = snapshots[x]
    BY <1>4 DEF Archive!With
  <2>2. DOMAIN h = DOMAIN snapshots \cup {id} /\ h[id] = RowOf(p)'
        /\ \A x \in DOMAIN snapshots \ {id} : h[x] = snapshots[x]
    BY DEF Archive!With
  <2>3. g[id] = [RowOf(p) EXCEPT !.status = final]
    BY <2>1
  <2>4. [RowOf(p) EXCEPT !.status = final] = RowOf(p)'
    BY <1>3
  <2>5. DOMAIN g = DOMAIN f /\ \A x \in DOMAIN f \ {id} : g[x] = f[x]
    OBVIOUS
  <2>6. \A x \in DOMAIN g : g[x] = h[x]
    BY <2>1, <2>2, <2>3, <2>4, <2>5
  <2>7. g = [x \in DOMAIN g |-> g[x]] /\ h = [x \in DOMAIN h |-> h[x]]
    BY DEF Archive!With
  <2> HIDE DEF g, h
  <2>8. g = h
    BY <2>1, <2>2, <2>5, <2>6, <2>7
  <2> QED
    BY <2>8 DEF g, h
<1>6. /\ pending'.snapshots = [pending.snapshots EXCEPT ![id].status = final]
      /\ pending'.specs = pending.specs /\ pending'.quotes = pending.quotes
      /\ pending' = [snapshots |-> pending'.snapshots, specs |-> pending'.specs, quotes |-> pending'.quotes]
  BY <1>1 DEF Draft
<1>7. Written(p)' = Written(p)
  BY <1>1 DEF Written
<1>8. /\ job[p].todo = {} /\ writer = p
      /\ pending.quotes = quotes \cup RowsFor(job[p].id, pending.specs, Written(p))
      /\ SpecsExtended(specs, pending.specs, job[p].content, Written(p))
  BY <1>1 DEF Draft
<1>9. pending' = [snapshots |-> Archive!With(snapshots, job[p].id, RowOf(p)'),
                  specs |-> pending'.specs,
                  quotes |-> quotes \cup RowsFor(job[p].id, pending'.specs, Written(p)')]
  BY <1>5, <1>6, <1>7, <1>8
<1> HIDE DEF id, final
<1>10. SpecsExtended(specs, pending'.specs, job[p].content, Written(p)')
  BY <1>6, <1>7, <1>8
<1> QED
  BY <1>1, <1>8, <1>9, <1>10 DEF Draft

\* What a commit puts on the disk.
LEMMA CommitWrites ==
  ASSUME Control, Tables, NEW p \in Procs, Commit(p)
  PROVE  LET c == job[p].content
             row == Archive!RecordedRow(c, is_live(p))
         IN /\ pc[p] = "commit" /\ c \in Contents /\ c # Unset
            /\ job[p].id \notin DOMAIN snapshots /\ job[p].id \in 1 .. issued
            /\ snapshots' = Archive!With(snapshots, job[p].id, row)
            /\ row.status \in Archive!USABLE_STATUSES /\ row.content = c
            /\ SpecsExtended(specs, specs', c, Quoted[c.payload])
            /\ quotes' = quotes \cup RowsFor(job[p].id, specs', Quoted[c.payload])
<1>1. /\ pc[p] = "commit" /\ snapshots' = pending.snapshots /\ specs' = pending.specs
      /\ quotes' = pending.quotes
  BY DEF Commit
<1>2. Draft(p) /\ AtPoint(p) /\ job[p] \in Job
  BY <1>1 DEF Tables, Drafts, Writing, Control
<1>3. job[p].content # Unset /\ job[p].id \in 1 .. issued
  BY <1>1, <1>2 DEF AtPoint, Recording, Writing, Working, OpenPoints
<1>4. job[p].content \in Contents
  BY <1>2, <1>3 DEF Job
<1>5. Written(p) = Quoted[job[p].content.payload]
  BY <1>1, <1>2 DEF Draft, Written
<1>6. RowOf(p) = Archive!RecordedRow(job[p].content, is_live(p))
  BY <1>1 DEF RowOf, Archive!RecordedRow
<1>7. job[p].id \notin DOMAIN snapshots
  BY <1>1 DEF Tables, FreshIds, Working, OpenPoints
<1>8. /\ pending.snapshots = Archive!With(snapshots, job[p].id, RowOf(p))
      /\ pending.quotes = quotes \cup RowsFor(job[p].id, pending.specs, Written(p))
      /\ SpecsExtended(specs, pending.specs, job[p].content, Written(p))
  BY <1>2 DEF Draft
<1>9. LET row == Archive!RecordedRow(job[p].content, is_live(p))
      IN row.status \in Archive!USABLE_STATUSES /\ row.content = job[p].content
  BY DEF Archive!RecordedRow, Archive!FinalStatus, Archive!USABLE_STATUSES
<1> QED
  BY <1>1, <1>3, <1>4, <1>5, <1>6, <1>7, <1>8, <1>9

\* A commit adds its snapshot to the recorded ones, a noted failure none.
LEMMA CommitRecords ==
  ASSUME Control, Tables, NEW p \in Procs, Commit(p)
  PROVE  /\ Recorded' = Recorded \cup {job[p].id} /\ job[p].id \notin Recorded
         /\ snapshots'[job[p].id].content = job[p].content
         /\ \A id \in Recorded : snapshots'[id] = snapshots[id]
         /\ DOMAIN snapshots' = DOMAIN snapshots \cup {job[p].id}
<1> DEFINE n == job[p].id
           row == Archive!RecordedRow(job[p].content, is_live(p))
<1>1. /\ n \notin DOMAIN snapshots /\ snapshots' = Archive!With(snapshots, n, row)
      /\ row.status \in Archive!USABLE_STATUSES /\ row.content = job[p].content
  BY CommitWrites
<1> HIDE DEF n, row
<1>2. /\ DOMAIN snapshots' = DOMAIN snapshots \cup {n} /\ snapshots'[n] = row
      /\ \A id \in DOMAIN snapshots : snapshots'[id] = snapshots[id]
  BY <1>1 DEF Archive!With
<1>3. Recorded' = Recorded \cup {n}
  BY <1>1, <1>2 DEF Recorded, Archive!Usable
<1> QED
  BY <1>1, <1>2, <1>3 DEF n, Recorded

LEMMA NoteRecords ==
  ASSUME Control, Tables, NEW p \in Procs, NoteFailure(p)
  PROVE  /\ Recorded' = Recorded
         /\ \A id \in Recorded : snapshots'[id] = snapshots[id]
         /\ DOMAIN snapshots' = DOMAIN snapshots \cup {job[p].id}
         /\ job[p].id \in 1 .. issued /\ job[p].id \notin DOMAIN snapshots
<1> DEFINE n == job[p].id
           row == Archive!FailedRow(is_live(p))
<1>1. pc[p] = "note" /\ snapshots' = Archive!With(snapshots, n, row)
  BY DEF NoteFailure
<1>2. row.status \notin Archive!USABLE_STATUSES
  BY DEF Archive!FailedRow, Archive!USABLE_STATUSES, Archive!FAILED, Archive!COMPLETE,
         Archive!COMPLETE_WITH_ISSUES
<1>3. n \notin DOMAIN snapshots /\ n \in 1 .. issued
  BY <1>1 DEF Tables, FreshIds, Control, AtPoint, Working, OpenPoints
<1> HIDE DEF n, row
<1>4. /\ DOMAIN snapshots' = DOMAIN snapshots \cup {n} /\ snapshots'[n] = row
      /\ \A id \in DOMAIN snapshots : snapshots'[id] = snapshots[id]
  BY <1>1, <1>3 DEF Archive!With
<1>5. Recorded' = Recorded
  BY <1>2, <1>3, <1>4 DEF Recorded, Archive!Usable
<1> QED
  BY <1>3, <1>4, <1>5 DEF n, Recorded

\* The end of an attempt leaves no transaction and no work.
LEMMA EndTables ==
  ASSUME Control, Tables, NEW p \in Procs, pc[p] \in Working, Goto(p, "return"), job' = job,
         writer' = Unset, issued' = issued,
         DOMAIN snapshots' = DOMAIN snapshots \cup {job[p].id}
  PROVE  Drafts' /\ FreshIds'
<1>1. pc'[p] = "return" /\ \A q \in Procs \ {p} : pc'[q] = pc[q] /\ pc[q] \notin Working
  <2>1. \A q \in Procs \ {p} : pc[q] \notin Working
    BY Alone
  <2> QED
    BY <2>1 DEF Goto, Control
<1>2. \A q \in Procs : pc'[q] \notin Writing /\ pc'[q] \notin Working \ {"return"}
  BY <1>1 DEF Working, Writing, OpenPoints
<1>3. Drafts'
  BY <1>2, ProgramAssumption DEF Drafts
<1>4. job[p].id \in 1 .. issued
  BY DEF Control, AtPoint
<1> QED
  BY <1>2, <1>3, <1>4 DEF Tables, FreshIds

LEMMA CommitTables ==
  ASSUME Control, Tables, NEW p \in Procs, Commit(p)
  PROVE  Tables'
<1> DEFINE c == job[p].content
           n == job[p].id
<1>1. /\ pc[p] \in Working /\ Goto(p, "return") /\ writer' = Unset
      /\ UNCHANGED <<job, issued>>
  BY DEF Commit, Working, OpenPoints
<1>2. Drafts' /\ FreshIds'
  BY <1>1, CommitRecords, EndTables
<1>3. /\ Recorded' = Recorded \cup {n} /\ snapshots'[n].content = c
      /\ \A id \in Recorded : snapshots'[id] = snapshots[id]
  BY CommitRecords
<1>4. c \in Contents /\ SpecsExtended(specs, specs', c, Quoted[c.payload])
  BY CommitWrites
<1> HIDE DEF c, n
<1>5. DOMAIN specs \subseteq DOMAIN specs'
  BY <1>4 DEF SpecsExtended, SpecTable, Tables, Stored
<1>6. ASSUME NEW id \in Recorded'
      PROVE  /\ snapshots'[id].content \in Contents
             /\ \A s \in Quoted[snapshots'[id].content.payload] : \E i \in DOMAIN specs' : specs'[i].spec = s
  <2>1. CASE id = n
    BY <2>1, <1>3, <1>4 DEF SpecsExtended
  <2>2. CASE id \in Recorded
    <3>1. /\ snapshots[id].content \in Contents
          /\ \A s \in Quoted[snapshots[id].content.payload] : \E i \in DOMAIN specs : specs[i].spec = s
      BY <2>2 DEF Tables, Stored
    <3> QED
      BY <2>2, <3>1, <1>3, <1>4, <1>5 DEF SpecsExtended
  <2> QED
    BY <2>1, <2>2, <1>3
<1>7. Stored'
  BY <1>4, <1>6 DEF Stored, SpecsExtended
<1> QED
  BY <1>2, <1>7 DEF Tables

LEMMA NoteTables ==
  ASSUME Control, Tables, NEW p \in Procs, NoteFailure(p)
  PROVE  Tables'
<1>1. /\ pc[p] \in Working /\ Goto(p, "return") /\ writer' = Unset
      /\ UNCHANGED <<job, issued, specs>>
  BY DEF NoteFailure, Working, OpenPoints
<1>2. Drafts' /\ FreshIds'
  BY <1>1, NoteRecords, EndTables
<1>3. Recorded' = Recorded /\ \A id \in Recorded : snapshots'[id] = snapshots[id]
  BY NoteRecords
<1>4. Stored'
  BY <1>1, <1>3 DEF Tables, Stored
<1> QED
  BY <1>2, <1>4 DEF Tables

\* A statement inside the transaction leaves the disk alone.
LEMMA DraftTables ==
  ASSUME Control, Tables, NEW p \in Procs, pc[p] \in Working \ {"return"},
         pc' \in [Procs -> Points], \A q \in Procs \ {p} : pc'[q] = pc[q] /\ job'[q] = job[q],
         UNCHANGED <<snapshots, specs, quotes, issued>>,
         pc'[p] \in Writing, Draft(p)', job'[p].id = job[p].id
  PROVE  Tables'
<1>1. \A q \in Procs \ {p} : pc'[q] \notin Working
  BY Alone
<1>2. Drafts'
  <2>1. writer' = p
    BY DEF Draft
  <2> QED
    BY <1>1, <2>1 DEF Drafts, Writing, Working, OpenPoints
<1>3. FreshIds'
  BY <1>1 DEF Tables, FreshIds
<1>4. Stored'
  BY DEF Tables, Stored, Recorded
<1> QED
  BY <1>2, <1>3, <1>4 DEF Tables

LEMMA ExitTables ==
  ASSUME Control, Tables, NEW p \in Procs, Exit(p)
  PROVE  Tables'
<1>1. /\ pc' = [pc EXCEPT ![p] = "off"] /\ job' = [job EXCEPT ![p] = NoJob]
      /\ UNCHANGED <<snapshots, specs, quotes, issued>>
      /\ IF writer = p THEN writer' = Unset ELSE UNCHANGED <<pending, writer>>
  BY DEF Exit, Goto, Disk
<1>2. /\ pc'[p] = "off" /\ pc' \in [Procs -> Points]
      /\ \A q \in Procs \ {p} : pc'[q] = pc[q] /\ job'[q] = job[q]
  BY <1>1 DEF Control, Points
<1>3. pc[p] \in Writing <=> writer = p
  BY DEF Tables, Drafts, Draft
<1>4. "off" \notin Writing /\ "off" \notin Working /\ issued \in Nat
  BY DEF Working, Writing, OpenPoints, Control
<1> QED
  BY <1>1, <1>2, <1>3, <1>4, QuietTables

LEMMA StepTables ==
  ASSUME Control, Control', Tables, NEW p \in Procs, Begin(p) \/ Step(p) \/ Raise(p) \/ Stop(p)
  PROVE  Tables'
<1>p. /\ Working = {"fetch", "select", "insert", "rows", "final", "commit", "return", "note"}
      /\ Writing = {"rows", "final", "commit"}
  BY DEF Working, Writing, OpenPoints
<1>0. /\ pc' \in [Procs -> Points] /\ issued \in Nat /\ issued' \in Nat
      /\ pc \in [Procs -> Points] /\ job \in [Procs -> Job]
      /\ pc[p] \in Working \ {"return"} => job[p].id \notin DOMAIN snapshots
  BY DEF Control, Tables, FreshIds
<1>1. ASSUME NEW x, pc' = [pc EXCEPT ![p] = x], NEW j, job' = [job EXCEPT ![p] = j]
      PROVE  /\ pc'[p] = x /\ job'[p] = j
             /\ \A q \in Procs \ {p} : pc'[q] = pc[q] /\ job'[q] = job[q]
  BY <1>0, <1>1
\* Steps that write nothing.
<1>2. ASSUME pc[p] \notin Writing, UNCHANGED <<snapshots, specs, quotes, pending, writer>>,
             NEW x, Goto(p, x), NEW j, job' = [job EXCEPT ![p] = j], x \notin Writing,
             issued <= issued', x \in Working \ {"return"} => j.id \notin DOMAIN snapshots
      PROVE  Tables'
  <2>1. /\ pc'[p] = x /\ job'[p] = j
        /\ \A q \in Procs \ {p} : pc'[q] = pc[q] /\ job'[q] = job[q]
    BY <1>1, <1>2 DEF Goto
  <2> QED
    BY <1>0, <1>2, <2>1, QuietTables
<1>3. job' = job => job' = [job EXCEPT ![p] = job[p]]
  BY <1>0
<1>4. ASSUME NEW mode \in Modes, NEW kind \in Archive!Kinds, Start(p, mode, kind)
      PROVE  Tables'
  <2> DEFINE j == [NoJob EXCEPT !.mode = mode, !.kind = kind]
             x == IF mode = "status" THEN "connect" ELSE "lock"
  <2>1. /\ job' = [job EXCEPT ![p] = j] /\ issued' = issued /\ pc[p] = "off"
        /\ Goto(p, x) /\ UNCHANGED <<snapshots, specs, quotes, pending, writer>>
    BY <1>4 DEF Start, Disk
  <2>2. pc[p] \notin Writing /\ x \notin Writing /\ x \notin Working /\ issued <= issued'
    BY <1>0, <1>p, <2>1
  <2> HIDE DEF j, x
  <2> QED
    BY <1>2, <2>1, <2>2
<1>5. CASE Acquire(p) \/ Connect(p) \/ Validate(p) \/ CreateTables(p) \/ StampMeta(p)
  BY <1>0, <1>2, <1>3, <1>5, <1>p
     DEF Acquire, Connect, Validate, CreateTables, StampMeta, Disk
<1>6. CASE Request(p)
  <2> DEFINE j == [job[p] EXCEPT !.id = issued + 1, !.requested_at = clock]
  <2>1. /\ job' = [job EXCEPT ![p] = j] /\ issued' = issued + 1 /\ pc[p] = "opened"
        /\ Goto(p, "fetch") /\ UNCHANGED <<snapshots, specs, quotes, pending, writer>>
    BY <1>0, <1>6 DEF Request, Disk
  <2>2. j.id = issued + 1
    BY <1>0 DEF Job
  <2>3. j.id \notin DOMAIN snapshots
    BY <1>0, <2>2 DEF Tables, FreshIds
  <2> HIDE DEF j
  <2> QED
    <3>1. pc[p] \notin Writing /\ "fetch" \notin Writing /\ issued <= issued'
      BY <1>0, <1>p, <2>1
    <3> QED
      BY <1>2, <2>1, <2>3, <3>1
<1>7. ASSUME NEW payload \in Payloads, Answer(p, payload) PROVE Tables'
  <2> DEFINE c == [payload |-> payload, requested_at |-> job[p].requested_at, received_at |-> clock + 1]
             j == [job[p] EXCEPT !.content = c]
  <2>1. /\ job' = [job EXCEPT ![p] = j] /\ issued' = issued /\ pc[p] = "fetch"
        /\ Goto(p, "select") /\ UNCHANGED <<snapshots, specs, quotes, pending, writer>>
    BY <1>0, <1>7 DEF Answer, Disk
  <2>2. j.id = job[p].id
    BY <1>0 DEF Job
  <2> HIDE DEF j
  <2> QED
    <3>1. /\ pc[p] \notin Writing /\ "select" \notin Writing /\ issued <= issued'
          /\ job[p].id \notin DOMAIN snapshots
      BY <1>0, <1>p, <2>1
    <3> QED
      BY <1>2, <2>1, <2>2, <3>1
<1>8. CASE NoAnswer(p) \/ SelectExisting(p) \/ NoteFails(p)
  BY <1>0, <1>2, <1>3, <1>8, <1>p DEF NoAnswer, SelectExisting, NoteFails, Disk
<1>9. CASE GoOn(p)
  <2> DEFINE j == [NoJob EXCEPT !.mode = "loop", !.kind = job[p].kind]
  <2>1. /\ job' = [job EXCEPT ![p] = j] /\ issued' = issued /\ pc[p] = "return"
        /\ Goto(p, "opened") /\ UNCHANGED <<snapshots, specs, quotes, pending, writer>>
    BY <1>9 DEF GoOn, Disk
  <2>2. pc[p] \notin Writing /\ "opened" \notin Writing /\ "opened" \notin Working /\ issued <= issued'
    BY <1>0, <1>p, <2>1
  <2> HIDE DEF j
  <2> QED
    BY <1>2, <2>1, <2>2
<1>10. CASE SqliteError(p)
  <2> DEFINE j == [job[p] EXCEPT !.todo = {}]
  <2>1. /\ job' = [job EXCEPT ![p] = j] /\ issued' = issued
        /\ pc[p] \in {"insert", "rows", "final", "commit"}
        /\ pc' = [pc EXCEPT ![p] = "note"] /\ UNCHANGED <<snapshots, specs, quotes>>
        /\ IF writer = p THEN writer' = Unset ELSE UNCHANGED <<pending, writer>>
    BY <1>0, <1>10 DEF SqliteError, Disk, Goto
  <2>2. j.id = job[p].id
    BY <1>0 DEF Job
  <2>3. pc[p] \in Writing <=> writer = p
    BY DEF Tables, Drafts, Draft
  <2> HIDE DEF j
  <2>4. /\ pc'[p] = "note" /\ job'[p] = j
        /\ \A q \in Procs \ {p} : pc'[q] = pc[q] /\ job'[q] = job[q]
    BY <1>1, <2>1
  <2>5. "note" \notin Writing /\ job[p].id \notin DOMAIN snapshots
    BY <1>0, <1>p, <2>1
  <2> QED
    BY <1>0, <2>1, <2>2, <2>3, <2>4, <2>5, QuietTables
\* Statements of the transaction.
<1>11. ASSUME pc[p] \in Working \ {"return"}, NEW x \in Writing, pc' = [pc EXCEPT ![p] = x],
              NEW j, job' = [job EXCEPT ![p] = j], j.id = job[p].id,
              UNCHANGED <<snapshots, specs, quotes, issued>>, Draft(p)'
       PROVE  Tables'
  <2>1. /\ pc'[p] = x /\ job'[p] = j
        /\ \A q \in Procs \ {p} : pc'[q] = pc[q] /\ job'[q] = job[q]
    BY <1>1, <1>11
  <2> QED
    BY <1>0, <1>11, <2>1, DraftTables
<1>12. CASE InsertSnapshot(p)
  <2> DEFINE j == [job[p] EXCEPT !.todo = Quoted[job[p].content.payload]]
  <2>1. /\ job' = [job EXCEPT ![p] = j] /\ pc[p] = "insert" /\ pc' = [pc EXCEPT ![p] = "rows"]
        /\ UNCHANGED <<snapshots, specs, quotes, issued>>
    BY <1>0, <1>12 DEF InsertSnapshot, Goto, Disk
  <2>2. j.id = job[p].id
    BY <1>0 DEF Job
  <2>3. Draft(p)'
    BY <1>12, InsertDraft DEF Tables
  <2> HIDE DEF j
  <2> QED
    BY <1>11, <1>p, <2>1, <2>2, <2>3
<1>13. ASSUME NEW s \in Specs, WriteQuote(p, s) PROVE Tables'
  <2> DEFINE j == [job[p] EXCEPT !.todo = job[p].todo \ {s}]
             x == IF job[p].todo = {s} THEN "final" ELSE "rows"
  <2>1. /\ job' = [job EXCEPT ![p] = j] /\ pc[p] = "rows" /\ pc' = [pc EXCEPT ![p] = x]
        /\ UNCHANGED <<snapshots, specs, quotes, issued>>
    BY <1>0, <1>13 DEF WriteQuote, Goto, Disk
  <2>2. j.id = job[p].id
    BY <1>0 DEF Job
  <2>3. Draft(p)
    BY <2>1, <1>p DEF Tables, Drafts
  <2>4. Draft(p)'
    BY <1>13, <2>3, WriteDraft
  <2>5. x \in Writing
    BY <1>p
  <2> HIDE DEF j, x
  <2> QED
    BY <1>11, <1>p, <2>1, <2>2, <2>4, <2>5
<1>14. CASE UpdateStatus(p)
  <2>1. /\ job' = [job EXCEPT ![p] = job[p]] /\ pc[p] = "final" /\ pc' = [pc EXCEPT ![p] = "commit"]
        /\ UNCHANGED <<snapshots, specs, quotes, issued>>
    BY <1>0, <1>14 DEF UpdateStatus, Goto, Disk
  <2>2. Draft(p)
    BY <2>1, <1>p DEF Tables, Drafts
  <2>3. Draft(p)'
    BY <1>14, <2>2, UpdateDraft
  <2> QED
    BY <1>11, <1>p, <2>1, <2>3
<1>15. CASE Commit(p) \/ NoteFailure(p) \/ Exit(p)
  BY <1>15, CommitTables, NoteTables, ExitTables
<1> QED
  BY <1>4, <1>5, <1>6, <1>7, <1>8, <1>9, <1>10, <1>12, <1>13, <1>14, <1>15
     DEF Begin, Step, Raise, Stop, LockUnavailable, Mismatch, AlreadyStamped, Status, Overflow,
         Return, Exhausted, OpenFails

LEMMA StutterTables == Tables /\ UNCHANGED vars => Tables'
BY ZenonT(60) DEF vars, Disk, Tables, Drafts, Draft, FreshIds, Stored, Recorded, RowOf, Written, is_live

-----------------------------------------------------------------------------
(* Each step is a call of the archive with its whole effect, or none. *)

Connections == [p \in Procs |-> Opened(p)]

LEMMA ConnectionsMove ==
  ASSUME Control, NEW p \in Procs, NEW x, pc' = [pc EXCEPT ![p] = x],
         NEW j, job' = [job EXCEPT ![p] = j]
  PROVE  /\ Connections' = [Connections EXCEPT ![p] = IF x \in OpenPoints THEN j.kind ELSE Unset]
         /\ Connections[p] = IF pc[p] \in OpenPoints THEN job[p].kind ELSE Unset
<1>1. pc'[p] = x /\ job'[p] = j
  BY DEF Control
<1>2. \A q \in Procs \ {p} : pc'[q] = pc[q] /\ job'[q] = job[q]
  BY DEF Control
<1>3. Opened(p)' = IF x \in OpenPoints THEN j.kind ELSE Unset
  BY <1>1 DEF Opened
<1>4. \A q \in Procs \ {p} : Opened(q)' = Opened(q)
  BY <1>2 DEF Opened
<1>5. Connections' = [q \in Procs |-> IF q = p THEN Opened(p)' ELSE Connections[q]]
  BY <1>4 DEF Connections
<1> QED
  BY <1>3, <1>5 DEF Connections, Opened

\* A step that changes neither a table nor a connection.
LEMMA Invisible ==
  ASSUME Connections' = Connections, UNCHANGED <<meta, snapshots, specs, quotes, acks>>
  PROVE  UNCHANGED Archive!vars
BY DEF Archive!vars, Connections

\* The keys of contract_specs suffice: versions are distinct.
LEMMA KeysSuffice ==
  ASSUME NEW table, SpecTable(table)
  PROVE  DOMAIN table \subseteq 1 .. Cardinality(Specs)
<1> DEFINE f == [i \in 1 .. Len(table) |-> table[i].spec]
<1>1. Len(table) \in Nat /\ DOMAIN table = 1 .. Len(table)
  BY DEF SpecTable
<1>2. f \in Injection(1 .. Len(table), Specs)
  <2>1. \A i \in 1 .. Len(table) : table[i] \in SpecRow
    BY DEF SpecTable
  <2>2. f \in [1 .. Len(table) -> Specs]
    BY <2>1 DEF SpecRow
  <2>3. \A a, b \in 1 .. Len(table) : f[a] = f[b] => a = b
    BY <1>1 DEF SpecTable
  <2> QED
    BY <2>2, <2>3 DEF Injection, IsInjective
<1>3. Cardinality(1 .. Len(table)) <= Cardinality(Specs) /\ Cardinality(Specs) \in Nat
  <2> HIDE DEF f
  <2> QED
    BY <1>2, ProgramAssumption, FS_Injection, FS_CardinalityType
<1>4. Cardinality(1 .. Len(table)) = Len(table)
  <2>1. 1 \in Int /\ Len(table) \in Int
    BY <1>1
  <2>2. Cardinality(1 .. Len(table)) = IF 1 > Len(table) THEN 0 ELSE Len(table) - 1 + 1
    BY <2>1, FS_Interval
  <2> QED
    BY <1>1, <2>2
<1> QED
  BY <1>1, <1>3, <1>4

\* The rows a transaction added are those AddSpecs adds, for some fresh keys.
LEMMA ExtendedIsAdded ==
  ASSUME NEW old, NEW new, NEW c, SpecTable(old), SpecsExtended(old, new, c, Quoted[c.payload])
  PROVE  \E fresh \in [Archive!Unseen(old, c) -> (1 .. Cardinality(Specs)) \ DOMAIN old] :
           /\ \A s, t \in DOMAIN fresh : fresh[s] = fresh[t] => s = t
           /\ new = Archive!AddSpecs(old, fresh, c)
<1> DEFINE U == Archive!Unseen(old, c)
           fresh == [s \in U |-> CHOOSE i \in DOMAIN new : new[i].spec = s]
<1>1. /\ SpecTable(new) /\ new \in Seq(SpecRow) /\ DOMAIN old \subseteq DOMAIN new
      /\ \A i, j \in DOMAIN new : new[i].spec = new[j].spec => i = j
      /\ \A i \in DOMAIN old : new[i] = old[i]
      /\ \A i \in DOMAIN new \ DOMAIN old :
           new[i].first_seen_at = c.received_at /\ new[i].spec \in Quoted[c.payload]
      /\ \A s \in Quoted[c.payload] : \E i \in DOMAIN new : new[i].spec = s
  BY DEF SpecsExtended, SpecTable
<1>2. ASSUME NEW s \in U
      PROVE  fresh[s] \in DOMAIN new /\ new[fresh[s]].spec = s /\ fresh[s] \notin DOMAIN old
  <2>1. s \in Quoted[c.payload] /\ \A i \in DOMAIN old : old[i].spec # s
    BY DEF Archive!Unseen
  <2>2. PICK i \in DOMAIN new : new[i].spec = s
    BY <1>1, <2>1
  <2>3. fresh[s] = (CHOOSE k \in DOMAIN new : new[k].spec = s)
    OBVIOUS
  <2> HIDE DEF fresh
  <2>4. fresh[s] \in DOMAIN new /\ new[fresh[s]].spec = s
    BY <2>2, <2>3
  <2> QED
    BY <1>1, <2>1, <2>4
<1>3. DOMAIN new \subseteq 1 .. Cardinality(Specs)
  BY <1>1, KeysSuffice
<1>4. fresh \in [U -> (1 .. Cardinality(Specs)) \ DOMAIN old]
  BY <1>2, <1>3
<1>5. DOMAIN fresh = U
  OBVIOUS
<1> HIDE DEF fresh
<1>6. ASSUME NEW i \in DOMAIN new \ DOMAIN old
      PROVE  new[i].spec \in U /\ fresh[new[i].spec] = i
  <2>1. \A k \in DOMAIN old : old[k].spec # new[i].spec
    BY <1>1
  <2>2. new[i].spec \in U
    BY <1>1, <2>1 DEF Archive!Unseen
  <2> QED
    BY <1>1, <1>2, <2>2
<1> HIDE DEF U
<1>7. \A s, t \in DOMAIN fresh : fresh[s] = fresh[t] => s = t
  BY <1>2, <1>5
<1> DEFINE added == Archive!AddSpecs(old, fresh, c)
<1>8. /\ DOMAIN added = DOMAIN old \cup {fresh[s] : s \in U}
      /\ added = [i \in DOMAIN added |-> added[i]]
      /\ \A i \in DOMAIN added :
           added[i] = IF i \in DOMAIN old THEN old[i]
                      ELSE [spec |-> CHOOSE s \in U : fresh[s] = i, first_seen_at |-> c.received_at]
  BY <1>5 DEF Archive!AddSpecs
<1> HIDE DEF added
<1>9. DOMAIN added = DOMAIN new
  <2>1. \A i \in DOMAIN new : i \in DOMAIN added
    BY <1>6, <1>8
  <2>2. \A i \in DOMAIN added : i \in DOMAIN new
    BY <1>1, <1>2, <1>8
  <2> QED
    BY <2>1, <2>2
<1>10. ASSUME NEW i \in DOMAIN new PROVE added[i] = new[i]
  <2>1. CASE i \in DOMAIN old
    BY <2>1, <1>1, <1>8, <1>9
  <2>2. CASE i \notin DOMAIN old
    <3>1. (CHOOSE s \in U : fresh[s] = i) = new[i].spec
      <4>1. \A s \in U : fresh[s] = i => s = new[i].spec
        BY <1>2
      <4> QED
        BY <2>2, <4>1, <1>6
    <3>2. new[i] \in SpecRow /\ new[i].first_seen_at = c.received_at
      BY <2>2, <1>1
    <3>3. new[i] = [spec |-> new[i].spec, first_seen_at |-> new[i].first_seen_at]
      BY <3>2 DEF SpecRow
    <3> QED
      BY <2>2, <3>1, <3>2, <3>3, <1>8, <1>9
  <2> QED
    BY <2>1, <2>2
<1>11. new = added
  <2>1. new = [i \in DOMAIN new |-> new[i]]
    BY <1>1
  <2> QED
    BY <2>1, <1>8, <1>9, <1>10
<1> QED
  BY <1>4, <1>7, <1>11 DEF added, U

LEMMA CommitRecorded ==
  ASSUME Control, Tables, NEW p \in Procs, Commit(p)
  PROVE  Archive!Next
<1> DEFINE c == job[p].content
           n == job[p].id
           live == is_live(p)
<1>1. /\ pc[p] = "commit" /\ c \in Contents /\ n \notin DOMAIN snapshots /\ n \in 1 .. issued
      /\ snapshots' = Archive!With(snapshots, n, Archive!RecordedRow(c, live))
      /\ SpecsExtended(specs, specs', c, Quoted[c.payload])
      /\ quotes' = quotes \cup RowsFor(n, specs', Quoted[c.payload])
  BY CommitWrites
<1>2. /\ pc' = [pc EXCEPT ![p] = "return"] /\ job' = [job EXCEPT ![p] = job[p]]
      /\ acks' = acks \cup {[id |-> n, content |-> c]} /\ meta' = meta
  BY DEF Commit, Goto, Control
<1>3. Connections[p] = job[p].kind /\ Connections' = Connections
  <2>1. "return" \in OpenPoints /\ pc[p] \in OpenPoints
    BY <1>1 DEF OpenPoints
  <2>2. Connections' = [Connections EXCEPT ![p] = job[p].kind] /\ Connections[p] = job[p].kind
    BY <1>2, <2>1, ConnectionsMove
  <2> QED
    BY <2>2 DEF Connections
<1>4. job[p].kind \in Archive!Kinds
  BY <1>1 DEF Control, AtPoint
<1>5. Archive!guard_kind(Connections[p], live) /\ live \in BOOLEAN
  BY <1>3, <1>4 DEF Archive!guard_kind, Archive!Kinds, is_live
<1>6. n \in Ids
  <2>1. n \in 1 .. issued /\ issued \in Nat /\ issued <= MaxAttempts /\ MaxAttempts \in Nat
    BY <1>1, ProgramAssumption DEF Control
  <2> HIDE DEF n
  <2> QED
    BY <2>1 DEF Ids
<1>7. \E fresh \in [Archive!Unseen(specs, c) -> (1 .. Cardinality(Specs)) \ DOMAIN specs] :
        /\ \A s, t \in DOMAIN fresh : fresh[s] = fresh[t] => s = t
        /\ specs' = Archive!AddSpecs(specs, fresh, c)
  <2>1. SpecTable(specs)
    BY DEF Tables, Stored
  <2> HIDE DEF c
  <2> QED
    BY <2>1, <1>1, ExtendedIsAdded
<1>8. quotes' = quotes \cup Archive!QuoteRows(specs', n, c)
  BY <1>1 DEF RowsFor, Archive!QuoteRows
<1> HIDE DEF c, n, live
<1>9. Archive!record(p, n, c, live)
  BY <1>1, <1>2, <1>3, <1>5, <1>7, <1>8 DEF Archive!record, Archive!Ack, Connections
<1> QED
  BY <1>1, <1>5, <1>6, <1>9 DEF Archive!Next

LEMMA NoteRecorded ==
  ASSUME Control, Tables, NEW p \in Procs, NoteFailure(p)
  PROVE  Archive!Next
<1> DEFINE n == job[p].id
           live == is_live(p)
<1>1. /\ pc[p] = "note" /\ ~Archive!Usable(snapshots, n)
      /\ snapshots' = Archive!With(snapshots, n, Archive!FailedRow(live))
      /\ UNCHANGED <<meta, specs, quotes, acks>>
      /\ pc' = [pc EXCEPT ![p] = "return"] /\ job' = [job EXCEPT ![p] = job[p]]
  BY DEF NoteFailure, Goto, Control
<1>2. Connections[p] = job[p].kind /\ Connections' = Connections
  <2>1. "return" \in OpenPoints /\ pc[p] \in OpenPoints
    BY <1>1 DEF OpenPoints
  <2>2. Connections' = [Connections EXCEPT ![p] = job[p].kind] /\ Connections[p] = job[p].kind
    BY <1>1, <2>1, ConnectionsMove
  <2> QED
    BY <2>2 DEF Connections
<1>3. job[p].kind \in Archive!Kinds /\ n \in 1 .. issued
  BY <1>1, NoteRecords DEF Control, AtPoint
<1>4. Archive!guard_kind(Connections[p], live) /\ live \in BOOLEAN
  BY <1>2, <1>3 DEF Archive!guard_kind, Archive!Kinds, is_live
<1>5. n \in Ids
  <2>1. n \in 1 .. issued /\ issued \in Nat /\ issued <= MaxAttempts /\ MaxAttempts \in Nat
    BY <1>3, ProgramAssumption DEF Control
  <2> HIDE DEF n
  <2> QED
    BY <2>1 DEF Ids
<1> HIDE DEF n, live
<1>6. Archive!record_failure(p, n, live)
  BY <1>1, <1>2, <1>4 DEF Archive!record_failure, Connections
<1> QED
  BY <1>4, <1>5, <1>6 DEF Archive!Next

LEMMA ExitCloses ==
  ASSUME Control, NEW p \in Procs, Exit(p)
  PROVE  Archive!Next \/ UNCHANGED Archive!vars
<1>1. /\ pc' = [pc EXCEPT ![p] = "off"] /\ job' = [job EXCEPT ![p] = NoJob]
      /\ UNCHANGED <<meta, snapshots, specs, quotes, acks>>
  BY DEF Exit, Goto, Disk
<1>2. "off" \notin OpenPoints /\ pc[p] \in Points /\ AtPoint(p)
  BY DEF OpenPoints, Control
<1>3. Connections' = [Connections EXCEPT ![p] = Unset]
  BY <1>1, <1>2, ConnectionsMove
<1>4. Connections[p] = IF pc[p] \in OpenPoints THEN job[p].kind ELSE Unset
  BY <1>1, ConnectionsMove
<1>5. CASE pc[p] \in OpenPoints
  <2>1. Connections[p] # Unset
    BY <1>2, <1>4, <1>5, ProgramAssumption DEF AtPoint
  <2>2. Archive!Close(p)
    BY <1>1, <1>3, <2>1 DEF Archive!Close, Connections
  <2> QED
    BY <2>2 DEF Archive!Next
<1>6. CASE pc[p] \notin OpenPoints
  <2>1. Connections' = Connections
    BY <1>3, <1>4, <1>6 DEF Connections
  <2> QED
    BY <1>1, <2>1, Invisible
<1> QED
  BY <1>5, <1>6

LEMMA StepImplements ==
  ASSUME Control, Tables, NEW p \in Procs, Begin(p) \/ Step(p) \/ Raise(p) \/ Stop(p)
  PROVE  Archive!Next \/ UNCHANGED Archive!vars
<1>0. /\ pc[p] \in Points /\ job[p] \in Job /\ AtPoint(p)
      /\ job' = job => job' = [job EXCEPT ![p] = job[p]]
  BY DEF Control
\* Before the file is open, and between the statements of an attempt.
<1>1. ASSUME UNCHANGED <<meta, snapshots, specs, quotes, acks>>,
             NEW x, Goto(p, x), NEW j, job' = [job EXCEPT ![p] = j],
             \/ pc[p] \notin OpenPoints /\ x \notin OpenPoints
             \/ pc[p] \in OpenPoints /\ x \in OpenPoints /\ j.kind = job[p].kind
      PROVE  UNCHANGED Archive!vars
  <2>1. /\ Connections' = [Connections EXCEPT ![p] = IF x \in OpenPoints THEN j.kind ELSE Unset]
        /\ Connections[p] = IF pc[p] \in OpenPoints THEN job[p].kind ELSE Unset
    BY <1>1, ConnectionsMove DEF Goto
  <2>2. Connections' = Connections
    BY <1>1, <2>1 DEF Connections
  <2> QED
    BY <1>1, <2>2, Invisible
<1>2. ASSUME NEW mode \in Modes, NEW kind \in Archive!Kinds, Start(p, mode, kind)
      PROVE  UNCHANGED Archive!vars
  <2> DEFINE j == [NoJob EXCEPT !.mode = mode, !.kind = kind]
             x == IF mode = "status" THEN "connect" ELSE "lock"
  <2>1. /\ job' = [job EXCEPT ![p] = j] /\ Goto(p, x)
        /\ UNCHANGED <<meta, snapshots, specs, quotes, acks>>
        /\ pc[p] \notin OpenPoints /\ x \notin OpenPoints
    BY <1>2 DEF Start, Disk, OpenPoints
  <2> HIDE DEF j, x
  <2> QED
    BY <1>1, <2>1
<1>3. CASE Acquire(p) \/ Connect(p) \/ CreateTables(p)
  <2>1. PICK x \in {"connect", "validate", "ddl", "stamp"} : Goto(p, x)
    BY <1>3 DEF Acquire, Connect, CreateTables
  <2>2. /\ job' = job /\ UNCHANGED <<meta, snapshots, specs, quotes, acks>>
        /\ pc[p] \in {"lock", "connect", "ddl"}
    BY <1>3 DEF Acquire, Connect, CreateTables, Disk
  <2>3. pc[p] \notin OpenPoints /\ x \notin OpenPoints
    BY <2>2 DEF OpenPoints
  <2> QED
    BY <1>0, <1>1, <2>1, <2>2, <2>3
<1>4. CASE Validate(p) \/ StampMeta(p)
  <2>1. /\ pc[p] \in {"validate", "stamp"} /\ Goto(p, "opened") /\ job' = [job EXCEPT ![p] = job[p]]
        /\ UNCHANGED <<snapshots, specs, quotes, acks>>
    BY <1>0, <1>4 DEF Validate, StampMeta, Disk
  <2>2. "opened" \in OpenPoints /\ pc[p] \notin OpenPoints /\ job[p].kind \in Archive!Kinds
    BY <1>0, <2>1 DEF OpenPoints, AtPoint
  <2>3. Connections' = [Connections EXCEPT ![p] = job[p].kind] /\ Connections[p] = Unset
    BY <2>1, <2>2, ConnectionsMove DEF Goto
  <2>4. CASE Validate(p)
    <3>1. meta' = meta /\ meta # Unset /\ Archive!validate_existing(meta, job[p].kind)
      BY <2>4 DEF Validate, Validates, Disk
    <3>2. Archive!Open(p, job[p].kind)
      BY <2>1, <2>3, <3>1 DEF Archive!Open, Connections
    <3> QED
      BY <2>2, <3>2 DEF Archive!Next
  <2>5. CASE StampMeta(p)
    <3>1. meta = Unset /\ meta' = Archive!Stamp(job[p].kind)
      BY <2>5 DEF StampMeta
    <3>2. Archive!Create(p, job[p].kind)
      BY <2>1, <2>3, <3>1 DEF Archive!Create, Connections
    <3> QED
      BY <2>2, <3>2 DEF Archive!Next
  <2> QED
    BY <1>4, <2>4, <2>5
<1>5. CASE Request(p)
  <2> DEFINE j == [job[p] EXCEPT !.id = issued + 1, !.requested_at = clock]
  <2>1. /\ job' = [job EXCEPT ![p] = j] /\ Goto(p, "fetch") /\ pc[p] = "opened"
        /\ UNCHANGED <<meta, snapshots, specs, quotes, acks>>
    BY <1>5 DEF Request, Disk, Control
  <2>2. j.kind = job[p].kind /\ "fetch" \in OpenPoints /\ pc[p] \in OpenPoints
    BY <1>0, <2>1 DEF Job, OpenPoints
  <2> HIDE DEF j
  <2> QED
    BY <1>1, <2>1, <2>2
<1>6. ASSUME NEW payload \in Payloads, Answer(p, payload) PROVE UNCHANGED Archive!vars
  <2> DEFINE c == [payload |-> payload, requested_at |-> job[p].requested_at, received_at |-> clock + 1]
             j == [job[p] EXCEPT !.content = c]
  <2>1. /\ job' = [job EXCEPT ![p] = j] /\ Goto(p, "select") /\ pc[p] = "fetch"
        /\ UNCHANGED <<meta, snapshots, specs, quotes, acks>>
    BY <1>6 DEF Answer, Disk, Control
  <2> HIDE DEF c
  <2>2. j.kind = job[p].kind /\ "select" \in OpenPoints /\ pc[p] \in OpenPoints
    BY <1>0, <2>1 DEF Job, OpenPoints
  <2> HIDE DEF j
  <2> QED
    BY <1>1, <2>1, <2>2
<1>7. CASE NoAnswer(p) \/ SelectExisting(p) \/ UpdateStatus(p) \/ NoteFails(p)
  <2>1. PICK x \in {"note", "insert", "commit", "return"} : Goto(p, x)
    BY <1>7 DEF NoAnswer, SelectExisting, UpdateStatus, NoteFails
  <2>2. /\ job' = job /\ UNCHANGED <<meta, snapshots, specs, quotes, acks>>
        /\ pc[p] \in {"fetch", "select", "final", "note"}
    BY <1>7 DEF NoAnswer, SelectExisting, UpdateStatus, NoteFails, Disk
  <2>3. pc[p] \in OpenPoints /\ x \in OpenPoints
    BY <2>2 DEF OpenPoints
  <2> QED
    BY <1>0, <1>1, <2>1, <2>2, <2>3
<1>8. ASSUME UNCHANGED <<meta, snapshots, specs, quotes, acks>>,
             pc[p] \in {"insert", "rows", "final", "commit"},
             NEW x \in {"rows", "final", "note"}, Goto(p, x),
             NEW t, job' = [job EXCEPT ![p].todo = t]
      PROVE  UNCHANGED Archive!vars
  <2> DEFINE j == [job[p] EXCEPT !.todo = t]
  <2>1. job' = [job EXCEPT ![p] = j]
    BY <1>8 DEF Control
  <2>2. j.kind = job[p].kind /\ x \in OpenPoints /\ pc[p] \in OpenPoints
    BY <1>0, <1>8 DEF Job, OpenPoints
  <2> HIDE DEF j
  <2> QED
    BY <1>1, <1>8, <2>1, <2>2
<1>9. CASE InsertSnapshot(p)
  BY <1>8, <1>9 DEF InsertSnapshot, Disk
<1>10. ASSUME NEW s \in Specs, WriteQuote(p, s) PROVE UNCHANGED Archive!vars
  <2>1. /\ pc[p] = "rows" /\ UNCHANGED <<meta, snapshots, specs, quotes, acks>>
        /\ job' = [job EXCEPT ![p].todo = job[p].todo \ {s}]
        /\ Goto(p, "final") \/ Goto(p, "rows")
    BY <1>10 DEF WriteQuote, Disk, Control
  <2> QED
    BY <1>8, <2>1
<1>11. CASE SqliteError(p)
  BY <1>8, <1>11 DEF SqliteError, Disk
<1>12. CASE GoOn(p)
  <2> DEFINE j == [NoJob EXCEPT !.mode = "loop", !.kind = job[p].kind]
  <2>1. /\ job' = [job EXCEPT ![p] = j] /\ Goto(p, "opened") /\ pc[p] = "return"
        /\ UNCHANGED <<meta, snapshots, specs, quotes, acks>>
    BY <1>12 DEF GoOn, Disk
  <2>2. j.kind = job[p].kind /\ "opened" \in OpenPoints /\ pc[p] \in OpenPoints
    BY <2>1 DEF NoJob, OpenPoints
  <2> HIDE DEF j
  <2> QED
    BY <1>1, <2>1, <2>2
<1>13. CASE Commit(p) \/ NoteFailure(p) \/ Exit(p)
  BY <1>13, CommitRecorded, NoteRecorded, ExitCloses
<1> QED
  BY <1>2, <1>3, <1>4, <1>5, <1>6, <1>7, <1>9, <1>10, <1>11, <1>12, <1>13
     DEF Begin, Step, Raise, Stop, LockUnavailable, Mismatch, AlreadyStamped, Status, Overflow,
         Return, Exhausted, OpenFails

LEMMA InitImplements == Init => Archive!Init
<1> SUFFICES ASSUME Init PROVE Archive!Init
  OBVIOUS
<1>1. pc = [p \in Procs |-> "off"]
  BY DEF Init
<1>2. [p \in Procs |-> Opened(p)] = [p \in Procs |-> Unset]
  BY <1>1 DEF Opened, OpenPoints
<1> QED
  BY <1>2 DEF Init, Archive!Init

LEMMA NextControl == Control /\ [Next]_vars => Control'
BY StepControl, StutterControl DEF Next

LEMMA NextTables == Control /\ Control' /\ Tables /\ [Next]_vars => Tables'
BY StepTables, StutterTables DEF Next

LEMMA NextImplements == Control /\ Tables /\ [Next]_vars => [Archive!Next]_(Archive!vars)
<1>1. ASSUME Control, Tables, UNCHANGED vars PROVE UNCHANGED Archive!vars
  BY <1>1 DEF vars, Disk, Archive!vars, Opened
<1> QED
  BY <1>1, StepImplements DEF Next

\* The recording programs, interleaved statement by statement with errors and
\* kills, implement the archive of MarketRecorder.
THEOREM ImplementsArchive == Spec => ArchiveSpec
BY InitControl, InitTables, NextControl, NextTables, InitImplements, NextImplements, PTL
   DEF Spec, ArchiveSpec, Archive!Spec

-----------------------------------------------------------------------------
(* The order of the fetches. *)

Apart(c, d) == c.received_at <= d.requested_at \/ d.received_at <= c.requested_at

\* A recorded answer is older than the request of any attempt at hand, unless
\* it is the attempt's own.
Order ==
  /\ \A id \in Recorded :
       snapshots[id].content.requested_at < snapshots[id].content.received_at
         /\ snapshots[id].content.received_at <= clock
  /\ \A id, n \in Recorded : id # n => Apart(snapshots[id].content, snapshots[n].content)
  /\ \A p \in Procs, id \in Recorded :
       pc[p] \in Working =>
         \/ snapshots[id].content.received_at <= job[p].requested_at
         \/ pc[p] = "return" /\ snapshots[id].content = job[p].content

InOrder == Order /\ FirstSeenIsFirst

\* A step that records nothing and moves one program.
LEMMA MoveOrder ==
  ASSUME Control, Tables, Order, FirstSeenIsFirst, NEW p \in Procs, NEW x, NEW j,
         pc' = [pc EXCEPT ![p] = x], job' = [job EXCEPT ![p] = j],
         Recorded' = Recorded, \A id \in Recorded : snapshots'[id] = snapshots[id],
         specs' = specs, clock' \in Nat, clock <= clock',
         \/ x \notin Working
         \/ j.requested_at = clock
         \/ pc[p] \in Working \ {"return"} /\ j.requested_at = job[p].requested_at
  PROVE  InOrder'
<1>1. /\ pc'[p] = x /\ job'[p] = j
      /\ \A q \in Procs \ {p} : pc'[q] = pc[q] /\ job'[q] = job[q]
  BY DEF Control
<1>2. \A id \in Recorded : snapshots[id].content.received_at \in Nat
  BY ProgramAssumption DEF Tables, Stored, Contents, Times
<1>3. ASSUME NEW id \in Recorded'
      PROVE  /\ snapshots'[id].content.requested_at < snapshots'[id].content.received_at
             /\ snapshots'[id].content.received_at <= clock'
  <2>1. /\ id \in Recorded /\ snapshots'[id] = snapshots[id] /\ clock \in Nat
        /\ snapshots[id].content.requested_at < snapshots[id].content.received_at
        /\ snapshots[id].content.received_at <= clock
    BY <1>3 DEF Order, Control
  <2> QED
    BY <1>2, <2>1
<1>4. \A id, n \in Recorded' : id # n => Apart(snapshots'[id].content, snapshots'[n].content)
  BY DEF Order
<1>5. ASSUME NEW q \in Procs, NEW id \in Recorded', pc'[q] \in Working
      PROVE  \/ snapshots'[id].content.received_at <= job'[q].requested_at
             \/ pc'[q] = "return" /\ snapshots'[id].content = job'[q].content
  <2>1. id \in Recorded /\ snapshots'[id] = snapshots[id] /\ snapshots[id].content.received_at <= clock
    BY <1>5 DEF Order
  <2>2. CASE q # p
    BY <1>1, <1>5, <2>1, <2>2 DEF Order
  <2>3. CASE q = p
    BY <1>1, <1>5, <2>1, <2>3 DEF Order
  <2> QED
    BY <2>2, <2>3
<1>6. Order'
  BY <1>3, <1>4, <1>5 DEF Order
<1>7. FirstSeenIsFirst'
  <2>1. \A i : {id \in Recorded' : specs'[i].spec \in Quoted[snapshots'[id].content.payload]}
               = {id \in Recorded : specs[i].spec \in Quoted[snapshots[id].content.payload]}
    OBVIOUS
  <2> QED
    BY <2>1 DEF FirstSeenIsFirst
<1> QED
  BY <1>6, <1>7 DEF InOrder

\* A commit records an answer that was requested after every recorded one was
\* received: a spec it brings was in none of them.
LEMMA CommitOrder ==
  ASSUME Control, Tables, Order, FirstSeenIsFirst, NEW p \in Procs, Commit(p)
  PROVE  InOrder'
<1> DEFINE c == job[p].content
           n == job[p].id
<1>1. /\ pc[p] = "commit" /\ c \in Contents /\ c # Unset
      /\ SpecsExtended(specs, specs', c, Quoted[c.payload])
  BY CommitWrites
<1>2. /\ Recorded' = Recorded \cup {n} /\ n \notin Recorded
      /\ snapshots'[n].content = c /\ \A id \in Recorded : snapshots'[id] = snapshots[id]
  BY CommitRecords
<1>3. /\ pc' = [pc EXCEPT ![p] = "return"] /\ job' = job /\ clock' = clock
  BY DEF Commit, Goto
<1>4. /\ c.requested_at = job[p].requested_at /\ c.requested_at < c.received_at
      /\ c.received_at <= clock /\ clock \in Nat
  BY <1>1 DEF Control, AtPoint
<1>5. c.requested_at \in Nat /\ c.received_at \in Nat /\ c.payload \in Payloads
  BY <1>1, ProgramAssumption DEF Contents, Times
<1>6. \A id \in Recorded : snapshots[id].content.received_at <= c.requested_at
  BY <1>1, <1>4 DEF Order, Working, OpenPoints
<1>7. \A id \in Recorded : snapshots[id].content.received_at \in Nat
  BY ProgramAssumption DEF Tables, Stored, Contents, Times
<1>8. pc'[p] = "return" /\ \A q \in Procs \ {p} : pc'[q] = pc[q] /\ pc[q] \notin Working
  <2>1. pc[p] \in Working
    BY <1>1 DEF Working, OpenPoints
  <2>2. \A q \in Procs \ {p} : pc[q] \notin Working
    BY <2>1, Alone
  <2> QED
    BY <1>3, <2>2 DEF Control
<1>9. Order'
  <2>1. \A id \in Recorded' :
          /\ snapshots'[id].content.requested_at < snapshots'[id].content.received_at
          /\ snapshots'[id].content.received_at <= clock'
    BY <1>2, <1>3, <1>4 DEF Order
  <2>2. \A id, m \in Recorded' : id # m => Apart(snapshots'[id].content, snapshots'[m].content)
    BY <1>2, <1>6 DEF Order, Apart
  <2>3. ASSUME NEW q \in Procs, NEW id \in Recorded', pc'[q] \in Working
        PROVE  \/ snapshots'[id].content.received_at <= job'[q].requested_at
               \/ pc'[q] = "return" /\ snapshots'[id].content = job'[q].content
    <3>1. q = p
      BY <1>8, <2>3
    <3> QED
      BY <3>1, <1>2, <1>3, <1>4, <1>6, <1>8
  <2> QED
    BY <2>1, <2>2, <2>3 DEF Order
<1>10. ASSUME NEW i \in DOMAIN specs'
       PROVE  LET quoting == {id \in Recorded' : specs'[i].spec \in Quoted[snapshots'[id].content.payload]}
              IN /\ \E id \in quoting : snapshots'[id].content.received_at = specs'[i].first_seen_at
                 /\ \A id \in quoting : snapshots'[id].content.received_at >= specs'[i].first_seen_at
  <2> DEFINE old == {id \in Recorded : specs'[i].spec \in Quoted[snapshots[id].content.payload]}
             new == {id \in Recorded' : specs'[i].spec \in Quoted[snapshots'[id].content.payload]}
  <2>1. /\ SpecTable(specs') /\ DOMAIN specs \subseteq DOMAIN specs'
        /\ \A k \in DOMAIN specs : specs'[k] = specs[k]
        /\ \A k \in DOMAIN specs' \ DOMAIN specs :
             specs'[k].first_seen_at = c.received_at /\ specs'[k].spec \in Quoted[c.payload]
    BY <1>1 DEF SpecsExtended, SpecTable
  <2>2. /\ \A id \in old : id \in new /\ id \in Recorded /\ snapshots'[id] = snapshots[id]
        /\ \A id \in new : id \in old \/ id = n
    BY <1>2
  <2>3. CASE i \in DOMAIN specs
    <3>1. specs'[i] = specs[i]
      BY <2>1, <2>3
    <3>2. PICK m \in old : snapshots[m].content.received_at = specs[i].first_seen_at
      BY <2>3, <3>1 DEF FirstSeenIsFirst
    <3>3. \A id \in old : snapshots[id].content.received_at >= specs[i].first_seen_at
      BY <2>3, <3>1 DEF FirstSeenIsFirst
    <3>4. c.received_at >= specs[i].first_seen_at
      BY <1>4, <1>5, <1>6, <1>7, <2>2, <3>2
    <3>5. \E id \in new : snapshots'[id].content.received_at = specs'[i].first_seen_at
      BY <2>2, <3>1, <3>2
    <3>6. \A id \in new : snapshots'[id].content.received_at >= specs'[i].first_seen_at
      BY <1>2, <2>2, <3>1, <3>3, <3>4
    <3> QED
      BY <3>5, <3>6
  <2>4. CASE i \notin DOMAIN specs
    <3>1. specs'[i].first_seen_at = c.received_at /\ specs'[i].spec \in Quoted[c.payload]
      BY <2>1, <2>4
    <3>2. ASSUME NEW id \in old PROVE FALSE
      <4>1. PICK k \in DOMAIN specs : specs[k].spec = specs'[i].spec
        BY <2>2 DEF Tables, Stored
      <4>2. k \in DOMAIN specs' /\ specs'[k].spec = specs'[i].spec
        BY <2>1, <4>1
      <4> QED
        BY <2>1, <2>4, <4>1, <4>2 DEF SpecTable
    <3>3. n \in new
      BY <1>2, <3>1
    <3>4. \A id \in new : id = n
      BY <2>2, <3>2
    <3> HIDE DEF new
    <3>5. \A id \in new : snapshots'[id].content.received_at >= specs'[i].first_seen_at
      BY <1>2, <1>5, <3>1, <3>4
    <3>6. \E id \in new : snapshots'[id].content.received_at = specs'[i].first_seen_at
      BY <1>2, <3>1, <3>3
    <3> QED
      BY <3>5, <3>6 DEF new
  <2> QED
    BY <2>3, <2>4
<1>11. FirstSeenIsFirst'
  BY <1>10 DEF FirstSeenIsFirst
<1> QED
  BY <1>9, <1>11 DEF InOrder

LEMMA StepOrder ==
  ASSUME Control, Tables, Order, FirstSeenIsFirst, NEW p \in Procs,
         Begin(p) \/ Step(p) \/ Raise(p) \/ Stop(p)
  PROVE  InOrder'
<1>p. /\ Working = {"fetch", "select", "insert", "rows", "final", "commit", "return", "note"}
      /\ pc[p] \in Points /\ job[p] \in Job /\ clock \in Nat
      /\ job' = job => job' = [job EXCEPT ![p] = job[p]]
  BY DEF Working, OpenPoints, Control
<1>q. snapshots' = snapshots =>
        Recorded' = Recorded /\ \A id \in Recorded : snapshots'[id] = snapshots[id]
  BY DEF Recorded
<1>m. ASSUME NEW x, NEW j, pc' = [pc EXCEPT ![p] = x], job' = [job EXCEPT ![p] = j],
             snapshots' = snapshots, specs' = specs, clock' \in {clock, clock + 1},
             \/ x \notin Working
             \/ j.requested_at = clock
             \/ pc[p] \in Working \ {"return"} /\ j.requested_at = job[p].requested_at
      PROVE  InOrder'
  <2>1. clock' \in Nat /\ clock <= clock'
    BY <1>p, <1>m
  <2> QED
    BY <1>q, <1>m, <2>1, MoveOrder
<1>1. CASE Exit(p)
  <2>1. /\ pc' = [pc EXCEPT ![p] = "off"] /\ job' = [job EXCEPT ![p] = NoJob]
        /\ snapshots' = snapshots /\ specs' = specs /\ clock' = clock
    BY <1>1 DEF Exit, Goto, Disk
  <2>2. "off" \notin Working
    BY <1>p
  <2> QED
    BY <1>m, <2>1, <2>2
<1>2. ASSUME NEW mode \in Modes, NEW kind \in Archive!Kinds, Start(p, mode, kind)
      PROVE  InOrder'
  <2> DEFINE j == [NoJob EXCEPT !.mode = mode, !.kind = kind]
             x == IF mode = "status" THEN "connect" ELSE "lock"
  <2>1. /\ pc' = [pc EXCEPT ![p] = x] /\ job' = [job EXCEPT ![p] = j]
        /\ snapshots' = snapshots /\ specs' = specs /\ clock' = clock
    BY <1>2 DEF Start, Goto, Disk
  <2>2. x \notin Working
    BY <1>p
  <2> HIDE DEF j, x
  <2> QED
    BY <1>m, <2>1, <2>2
<1>3. CASE \/ Acquire(p) \/ Connect(p) \/ CreateTables(p) \/ Validate(p) \/ StampMeta(p)
  <2>1. PICK x \in {"connect", "validate", "ddl", "stamp", "opened"} : pc' = [pc EXCEPT ![p] = x]
    BY <1>3 DEF Acquire, Connect, CreateTables, Validate, StampMeta, Goto
  <2>2. job' = job /\ snapshots' = snapshots /\ specs' = specs /\ clock' = clock
    BY <1>3 DEF Acquire, Connect, CreateTables, Validate, StampMeta, Disk
  <2>3. x \notin Working
    BY <1>p
  <2> QED
    BY <1>p, <1>m, <2>1, <2>2, <2>3
<1>4. CASE Request(p)
  <2> DEFINE j == [job[p] EXCEPT !.id = issued + 1, !.requested_at = clock]
  <2>1. /\ pc' = [pc EXCEPT ![p] = "fetch"] /\ job' = [job EXCEPT ![p] = j]
        /\ snapshots' = snapshots /\ specs' = specs /\ clock' = clock
    BY <1>4 DEF Request, Goto, Disk, Control
  <2>2. j.requested_at = clock
    BY <1>p DEF Job
  <2> HIDE DEF j
  <2> QED
    BY <1>m, <2>1, <2>2
<1>5. ASSUME NEW payload \in Payloads, Answer(p, payload) PROVE InOrder'
  <2> DEFINE c == [payload |-> payload, requested_at |-> job[p].requested_at, received_at |-> clock + 1]
             j == [job[p] EXCEPT !.content = c]
  <2>1. /\ pc' = [pc EXCEPT ![p] = "select"] /\ job' = [job EXCEPT ![p] = j] /\ pc[p] = "fetch"
        /\ snapshots' = snapshots /\ specs' = specs /\ clock' = clock + 1
    BY <1>5 DEF Answer, Goto, Disk, Control
  <2> HIDE DEF c
  <2>2. j.requested_at = job[p].requested_at
    BY <1>p DEF Job
  <2> HIDE DEF j
  <2> QED
    BY <1>p, <1>m, <2>1, <2>2
<1>6. CASE NoAnswer(p) \/ SelectExisting(p) \/ UpdateStatus(p) \/ NoteFails(p)
  <2>1. PICK x \in {"note", "insert", "commit", "return"} : pc' = [pc EXCEPT ![p] = x]
    BY <1>6 DEF NoAnswer, SelectExisting, UpdateStatus, NoteFails, Goto
  <2>2. /\ job' = job /\ snapshots' = snapshots /\ specs' = specs /\ clock' \in {clock, clock + 1}
        /\ pc[p] \in {"fetch", "select", "final", "note"}
    BY <1>6 DEF NoAnswer, SelectExisting, UpdateStatus, NoteFails, Disk
  <2> QED
    BY <1>p, <1>m, <2>1, <2>2
<1>7. ASSUME NEW x, NEW t, Goto(p, x), job' = [job EXCEPT ![p].todo = t],
             pc[p] \in {"insert", "rows", "final", "commit"}, UNCHANGED <<snapshots, specs, clock>>
      PROVE  InOrder'
  <2> DEFINE j == [job[p] EXCEPT !.todo = t]
  <2>1. job' = [job EXCEPT ![p] = j] /\ pc' = [pc EXCEPT ![p] = x]
    BY <1>7 DEF Control, Goto
  <2>2. j.requested_at = job[p].requested_at
    BY <1>p DEF Job
  <2> HIDE DEF j
  <2> QED
    BY <1>p, <1>m, <1>7, <2>1, <2>2
<1>8. CASE InsertSnapshot(p)
  BY <1>7, <1>8 DEF InsertSnapshot, Disk
<1>9. ASSUME NEW s \in Specs, WriteQuote(p, s) PROVE InOrder'
  <2>1. /\ pc[p] = "rows" /\ UNCHANGED <<snapshots, specs, clock>>
        /\ job' = [job EXCEPT ![p].todo = job[p].todo \ {s}]
        /\ Goto(p, "final") \/ Goto(p, "rows")
    BY <1>9 DEF WriteQuote, Disk, Control
  <2> QED
    BY <1>7, <2>1
<1>10. CASE SqliteError(p)
  BY <1>7, <1>10 DEF SqliteError, Disk
<1>11. CASE GoOn(p)
  <2> DEFINE j == [NoJob EXCEPT !.mode = "loop", !.kind = job[p].kind]
  <2>1. /\ pc' = [pc EXCEPT ![p] = "opened"] /\ job' = [job EXCEPT ![p] = j]
        /\ snapshots' = snapshots /\ specs' = specs /\ clock' = clock
    BY <1>11 DEF GoOn, Goto, Disk
  <2>2. "opened" \notin Working
    BY <1>p
  <2> HIDE DEF j
  <2> QED
    BY <1>m, <2>1, <2>2
<1>12. CASE NoteFailure(p)
  <2>1. /\ pc' = [pc EXCEPT ![p] = "return"] /\ job' = job /\ pc[p] = "note"
        /\ specs' = specs /\ clock' = clock
    BY <1>12 DEF NoteFailure, Goto
  <2>2. Recorded' = Recorded /\ \A id \in Recorded : snapshots'[id] = snapshots[id]
    BY <1>12, NoteRecords
  <2>3. clock' \in Nat /\ clock <= clock'
    BY <1>p, <2>1
  <2> QED
    BY <1>p, <2>1, <2>2, <2>3, MoveOrder
<1>13. CASE Commit(p)
  BY <1>13, CommitOrder
<1> QED
  BY <1>1, <1>2, <1>3, <1>4, <1>5, <1>6, <1>8, <1>9, <1>10, <1>11, <1>12, <1>13
     DEF Begin, Step, Raise, Stop, LockUnavailable, Mismatch, AlreadyStamped, Status, Overflow,
         Return, Exhausted, OpenFails

LEMMA InitOrder == Init => InOrder
<1> SUFFICES ASSUME Init PROVE InOrder
  OBVIOUS
<1>1. Recorded = {} /\ DOMAIN specs = {}
  BY DEF Init, Recorded
<1> QED
  BY <1>1 DEF InOrder, Order, FirstSeenIsFirst

LEMMA NextOrder == Control /\ Tables /\ InOrder /\ [Next]_vars => InOrder'
<1>1. ASSUME InOrder, UNCHANGED vars PROVE InOrder'
  BY <1>1 DEF vars, Disk, InOrder, Order, FirstSeenIsFirst, Recorded
<1> QED
  BY <1>1, StepOrder DEF Next, InOrder

LEMMA DisjointWhenOrdered == Control /\ Order => FetchesDisjoint
<1> SUFFICES ASSUME Control, Order, NEW c \in Answers, NEW d \in Answers, c # d
             PROVE  c.received_at <= d.requested_at \/ d.received_at <= c.requested_at
  BY DEF FetchesDisjoint
<1>1. \A q \in Procs : job[q].content # Unset =>
        pc[q] \in Working /\ job[q].content.requested_at = job[q].requested_at
  BY DEF Control, AtPoint
<1>2. ASSUME NEW id \in Recorded, NEW q \in Procs, job[q].content # Unset
      PROVE  \/ snapshots[id].content.received_at <= job[q].content.requested_at
             \/ snapshots[id].content = job[q].content
  BY <1>1, <1>2 DEF Order
<1>3. \A q, r \in Procs : job[q].content # Unset /\ job[r].content # Unset => q = r
  BY <1>1, Alone
<1>4. /\ (\E id \in Recorded : c = snapshots[id].content)
           \/ (\E q \in Procs : c = job[q].content /\ job[q].content # Unset)
      /\ (\E id \in Recorded : d = snapshots[id].content)
           \/ (\E q \in Procs : d = job[q].content /\ job[q].content # Unset)
  BY DEF Answers
<1>5. \A id, n \in Recorded : id # n => Apart(snapshots[id].content, snapshots[n].content)
  BY DEF Order
<1> QED
  BY <1>2, <1>3, <1>4, <1>5 DEF Apart

\* No two answers, on the disk or in the hands of the programs, come from
\* fetches that overlap: the ProcessLock is held from before the request
\* until the answer is recorded or given up.
THEOREM FetchesNeverOverlap == Spec => []FetchesDisjoint
<1>1. InOrder => Order
  BY DEF InOrder
<1> QED
  BY <1>1, InitControl, InitTables, InitOrder, NextControl, NextTables, NextOrder,
     DisjointWhenOrdered, PTL DEF Spec

\* first_seen_at of a spec version is the time of the earliest recorded
\* snapshot that quotes it, whatever interrupts the programs.
THEOREM FirstSeenStands == Spec => []FirstSeenIsFirst
<1>1. InOrder => FirstSeenIsFirst
  BY DEF InOrder
<1> QED
  BY <1>1, InitControl, InitTables, InitOrder, NextControl, NextTables, NextOrder, PTL DEF Spec
=============================================================================
