---------------------------- MODULE RecordMarket ----------------------------
(***************************************************************************)
(* scripts/record_market.py over storage/market_recorder.py: programs that *)
(* a user or a scheduler starts, at any time and more than one at a time,  *)
(* on one database file, SQLite statement by SQLite statement.  Any of     *)
(* them may be killed or interrupted between two statements, any statement *)
(* may raise sqlite3.Error, and an answer of the market may hold a number  *)
(* SQLite cannot store.                                                    *)
(*                                                                         *)
(*   --once     one attempt, under the ProcessLock                         *)
(*   --loop     attempts until it is stopped, under the ProcessLock        *)
(*   --status   opens the file without the lock and reads it               *)
(*                                                                         *)
(* Abstraction.  Time is a counter that moves with every fetch; snapshot   *)
(* ids are numbered in the order uuid4 draws them, so an id is never drawn *)
(* twice and the retry paths of record stay with MarketRecorder.  When the *)
(* loop attempts is RecorderLoop's subject.                                *)
(***************************************************************************)
EXTENDS Naturals, Sequences, FiniteSets

CONSTANTS
  Procs,           \* programs that may run at the same time
  Payloads,        \* answers with at least one contract
  Specs, Quoted, Clean, LegacyVersions, Unset,   \* as in MarketRecorder
  Oversized,       \* the payloads that hold an integer beyond 64 bits
  MaxAttempts      \* bound: snapshot ids drawn

Modes == {"once", "loop", "status"}
PARTIAL == "partial"

VARIABLES
  file,      \* the database file exists
  tables,    \* the DDL of the schema was executed
  meta, snapshots, specs, quotes,   \* committed tables; specs by their key
  pending,   \* the tables as the open transaction sees them
  writer,    \* the program that holds SQLite's write lock, or Unset
  lock,      \* the program that holds the ProcessLock, or Unset
  pc,        \* where each program is
  job,       \* its mode, kind and attempt at hand
  clock,     \* time of the fetches
  issued,    \* snapshot ids drawn
  acks       \* history: contents whose transaction committed

Disk == <<file, tables, meta, snapshots, specs, quotes>>
vars == <<Disk, pending, writer, lock, pc, job, clock, issued, acks>>

Ids == 1 .. MaxAttempts
Times == 0 .. MaxAttempts
Contents == [payload: Payloads, requested_at: Times, received_at: Times]

NoJob == [mode |-> Unset, kind |-> Unset, id |-> 0, requested_at |-> 0, content |-> Unset, todo |-> {}]
NoPending == [snapshots |-> << >>, specs |-> << >>, quotes |-> {}]

\* Programs whose MarketRecorder is constructed.
OpenPoints == {"opened", "fetch", "select", "insert", "rows", "final", "commit", "return", "note"}
Opened(p) == IF pc[p] \in OpenPoints THEN job[p].kind ELSE Unset

Archive == INSTANCE MarketRecorder WITH
  Callers <- Procs, SpecIds <- 1 .. Cardinality(Specs), conns <- [p \in Procs |-> Opened(p)]

is_live(p) == job[p].kind = Archive!LIVE

ASSUME ProgramAssumption ==
  /\ Oversized \subseteq Payloads
  /\ MaxAttempts \in Nat \ {0}
  /\ IsFiniteSet(Specs)
  /\ Unset \notin Procs \cup Archive!Kinds \cup Contents
  /\ Archive!DB_SCHEMA_VERSION \notin LegacyVersions
  /\ \A x \in Payloads : Quoted[x] \subseteq Specs /\ Quoted[x] # {} /\ Clean[x] \in BOOLEAN

-----------------------------------------------------------------------------
Init ==
  /\ \/ file = FALSE /\ tables = FALSE /\ meta = Unset
     \/ file = TRUE /\ tables = TRUE /\ meta \in [kind: Archive!Kinds, version: LegacyVersions]
  /\ snapshots = << >> /\ specs = << >> /\ quotes = {}
  /\ pending = NoPending /\ writer = Unset /\ lock = Unset
  /\ pc = [p \in Procs |-> "off"]
  /\ job = [p \in Procs |-> NoJob]
  /\ clock = 0 /\ issued = 0 /\ acks = {}

Goto(p, point) == pc' = [pc EXCEPT ![p] = point]

\* Ends the program: the connection closes, which rolls back, and the
\* operating system frees the ProcessLock whether or not __exit__ ran.
Exit(p) ==
  /\ Goto(p, "off")
  /\ job' = [job EXCEPT ![p] = NoJob]
  /\ lock' = IF lock = p THEN Unset ELSE lock
  /\ IF writer = p THEN writer' = Unset /\ pending' = NoPending ELSE UNCHANGED <<writer, pending>>
  /\ UNCHANGED <<Disk, clock, issued, acks>>

\* main and _guard_kind_combination: the two writing modes take live data
\* into a live file and fixtures into a test file only, so `is_live` follows
\* the kind; --status stops where there is no file.
Start(p, mode, kind) ==
  /\ pc[p] = "off"
  /\ mode = "status" => file
  /\ job' = [job EXCEPT ![p] = [NoJob EXCEPT !.mode = mode, !.kind = kind]]
  /\ Goto(p, IF mode = "status" THEN "connect" ELSE "lock")
  /\ UNCHANGED <<Disk, pending, writer, lock, clock, issued, acks>>

\* Faulty: the lock file is only looked at.
AcquireAnyway(p) ==
  /\ pc[p] = "lock"
  /\ lock' = p
  /\ Goto(p, "connect")
  /\ UNCHANGED <<Disk, pending, writer, job, clock, issued, acks>>

\* ProcessLock: never waits.
Acquire(p) ==
  /\ pc[p] = "lock"
  /\ lock = Unset
  /\ lock' = p
  /\ Goto(p, "connect")
  /\ UNCHANGED <<Disk, pending, writer, job, clock, issued, acks>>

LockUnavailable(p) == pc[p] = "lock" /\ lock # Unset /\ Exit(p)

\* sqlite3.connect creates the file; _is_established looks for table meta.
Connect(p) ==
  /\ pc[p] = "connect"
  /\ file' = TRUE
  /\ Goto(p, IF tables THEN "validate" ELSE "ddl")
  /\ UNCHANGED <<tables, meta, snapshots, specs, quotes, pending, writer, lock, job,
                 clock, issued, acks>>

\* A file without a stamp counts as version 1.
Validates(p) == meta # Unset /\ Archive!validate_existing(meta, job[p].kind)

Validate(p) ==
  /\ pc[p] = "validate"
  /\ Validates(p)
  /\ Goto(p, "opened")
  /\ UNCHANGED <<Disk, pending, writer, lock, job, clock, issued, acks>>

Mismatch(p) == pc[p] = "validate" /\ ~Validates(p) /\ Exit(p)

\* executescript commits what it executes.
CreateTables(p) ==
  /\ pc[p] = "ddl"
  /\ writer = Unset
  /\ tables' = TRUE
  /\ Goto(p, "stamp")
  /\ UNCHANGED <<file, meta, snapshots, specs, quotes, pending, writer, lock, job,
                 clock, issued, acks>>

\* Faulty: an existing stamp is replaced.
StampMetaOver(p) ==
  /\ pc[p] = "stamp"
  /\ writer = Unset
  /\ meta' = Archive!Stamp(job[p].kind)
  /\ Goto(p, "opened")
  /\ UNCHANGED <<file, tables, snapshots, specs, quotes, pending, writer, lock, job,
                 clock, issued, acks>>

\* The INSERT into meta, which another program may have stamped meanwhile:
\* the primary key then raises IntegrityError.
StampMeta(p) ==
  /\ pc[p] = "stamp"
  /\ writer = Unset
  /\ meta = Unset
  /\ meta' = Archive!Stamp(job[p].kind)
  /\ Goto(p, "opened")
  /\ UNCHANGED <<file, tables, snapshots, specs, quotes, pending, writer, lock, job,
                 clock, issued, acks>>

AlreadyStamped(p) == pc[p] = "stamp" /\ meta # Unset /\ Exit(p)

\* status only reads; the program then ends.
Status(p) == pc[p] = "opened" /\ job[p].mode = "status" /\ Exit(p)

-----------------------------------------------------------------------------
(* _record_once. *)

\* new_snapshot_id and requested_at.
Request(p) ==
  /\ pc[p] = "opened"
  /\ job[p].mode # "status"
  /\ issued < MaxAttempts
  /\ issued' = issued + 1
  /\ job' = [job EXCEPT ![p] = [@ EXCEPT !.id = issued + 1, !.requested_at = clock]]
  /\ Goto(p, "fetch")
  /\ UNCHANGED <<Disk, pending, writer, lock, clock, acks>>

Answer(p, payload) ==
  /\ pc[p] = "fetch"
  /\ clock' = clock + 1
  /\ job' = [job EXCEPT ![p].content =
       [payload |-> payload, requested_at |-> job[p].requested_at, received_at |-> clock + 1]]
  /\ Goto(p, "select")
  /\ UNCHANGED <<Disk, pending, writer, lock, issued, acks>>

\* The fetch raised, the answer had another structure, or no contract in it
\* could be recorded.
NoAnswer(p) ==
  /\ pc[p] = "fetch"
  /\ clock' = clock + 1
  /\ Goto(p, "note")
  /\ UNCHANGED <<Disk, pending, writer, lock, job, issued, acks>>

\* record: the kind guard and the look for the fingerprint of the id.
SelectExisting(p) ==
  /\ pc[p] = "select"
  /\ Archive!guard_kind(job[p].kind, is_live(p))
  /\ job[p].id \notin DOMAIN snapshots
  /\ Goto(p, "insert")
  /\ UNCHANGED <<Disk, pending, writer, lock, job, clock, issued, acks>>

\* The first INSERT opens the transaction and takes the write lock.
InsertSnapshot(p) ==
  /\ pc[p] = "insert"
  /\ writer = Unset
  /\ writer' = p
  /\ pending' = [snapshots |-> Archive!With(snapshots, job[p].id,
                   [status |-> PARTIAL, is_live |-> is_live(p), content |-> job[p].content]),
                 specs |-> specs, quotes |-> quotes]
  /\ job' = [job EXCEPT ![p].todo = Quoted[job[p].content.payload]]
  /\ Goto(p, "rows")
  /\ UNCHANGED <<Disk, lock, clock, issued, acks>>

\* _spec_id and the INSERT of one quote.
SpecKey(table, spec) ==
  LET known == {i \in DOMAIN table : table[i].spec = spec}
  IN IF known = {} THEN Len(table) + 1 ELSE CHOOSE i \in known : TRUE

\* Faulty: a known version is stamped with the time of every answer.
WriteQuoteRestamps(p, spec) ==
  LET key == SpecKey(pending.specs, spec) IN
  /\ pc[p] = "rows"
  /\ job[p].content.payload \notin Oversized
  /\ spec \in job[p].todo
  /\ pending' = [pending EXCEPT
       !.specs = [i \in DOMAIN @ \cup {key} |->
                    IF i = key THEN [spec |-> spec, first_seen_at |-> job[p].content.received_at]
                    ELSE @[i]],
       !.quotes = @ \cup {[snapshot_id |-> job[p].id, spec_id |-> key]}]
  /\ job' = [job EXCEPT ![p].todo = @ \ {spec}]
  /\ Goto(p, IF job[p].todo = {spec} THEN "final" ELSE "rows")
  /\ UNCHANGED <<Disk, writer, lock, clock, issued, acks>>

WriteQuote(p, spec) ==
  LET key == SpecKey(pending.specs, spec) IN
  /\ pc[p] = "rows"
  /\ job[p].content.payload \notin Oversized
  /\ spec \in job[p].todo
  /\ pending' = [pending EXCEPT
       !.specs = IF key \in DOMAIN @ THEN @
                 ELSE Append(@, [spec |-> spec, first_seen_at |-> job[p].content.received_at]),
       !.quotes = @ \cup {[snapshot_id |-> job[p].id, spec_id |-> key]}]
  /\ job' = [job EXCEPT ![p].todo = @ \ {spec}]
  /\ Goto(p, IF job[p].todo = {spec} THEN "final" ELSE "rows")
  /\ UNCHANGED <<Disk, writer, lock, clock, issued, acks>>

\* An integer that SQLite cannot hold raises OverflowError, which no handler
\* of record, _record_once or _loop_forever names: the program ends.
Overflow(p) ==
  /\ pc[p] = "rows"
  /\ job[p].content.payload \in Oversized
  /\ Exit(p)

\* The number of rows agrees: the status becomes final.
UpdateStatus(p) ==
  /\ pc[p] = "final"
  /\ pending' = [pending EXCEPT !.snapshots[job[p].id].status = Archive!FinalStatus(job[p].content)]
  /\ Goto(p, "commit")
  /\ UNCHANGED <<Disk, writer, lock, job, clock, issued, acks>>

Commit(p) ==
  /\ pc[p] = "commit"
  /\ snapshots' = pending.snapshots /\ specs' = pending.specs /\ quotes' = pending.quotes
  /\ pending' = NoPending /\ writer' = Unset
  /\ acks' = acks \cup {[id |-> job[p].id, content |-> job[p].content]}
  /\ Goto(p, "return")
  /\ UNCHANGED <<file, tables, meta, lock, job, clock, issued>>

\* Faulty: the whole transaction is tried again, as often as it fails.
SqliteErrorRetries(p) ==
  /\ pc[p] \in {"insert", "rows", "final", "commit"}
  /\ IF writer = p THEN writer' = Unset /\ pending' = NoPending ELSE UNCHANGED <<writer, pending>>
  /\ Goto(p, "insert")
  /\ job' = [job EXCEPT ![p].todo = {}]
  /\ UNCHANGED <<Disk, lock, clock, issued, acks>>

\* Any statement of the transaction may raise sqlite3.Error: rollback, then
\* the failure itself is noted.
SqliteError(p) ==
  /\ pc[p] \in {"insert", "rows", "final", "commit"}
  /\ IF writer = p THEN writer' = Unset /\ pending' = NoPending ELSE UNCHANGED <<writer, pending>>
  /\ Goto(p, "note")
  /\ job' = [job EXCEPT ![p].todo = {}]
  /\ UNCHANGED <<Disk, lock, clock, issued, acks>>

\* The end of an attempt: --once closes and ends, --loop goes on.
GoOn(p) ==
  /\ pc[p] = "return"
  /\ job[p].mode = "loop"
  /\ Goto(p, "opened")
  /\ job' = [job EXCEPT ![p] = [NoJob EXCEPT !.mode = "loop", !.kind = job[p].kind]]
  /\ UNCHANGED <<Disk, pending, writer, lock, clock, issued, acks>>

Return(p) == pc[p] = "return" /\ job[p].mode = "once" /\ Exit(p)

\* _note_failure: the failed row, or only a line on stderr.
NoteFailure(p) ==
  /\ pc[p] = "note"
  /\ writer = Unset
  /\ ~Archive!Usable(snapshots, job[p].id)
  /\ snapshots' = Archive!With(snapshots, job[p].id, Archive!FailedRow(is_live(p)))
  /\ Goto(p, "return")
  /\ UNCHANGED <<file, tables, meta, specs, quotes, pending, writer, lock, job, clock, issued, acks>>

NoteFails(p) ==
  /\ pc[p] = "note"
  /\ Goto(p, "return")
  /\ UNCHANGED <<Disk, pending, writer, lock, job, clock, issued, acks>>

\* sqlite3.Error while the file is opened.
OpenFails(p) == pc[p] \in {"connect", "validate", "ddl", "stamp"} /\ Exit(p)

\* Bound: no id is left, the program is stopped.
Exhausted(p) ==
  /\ pc[p] = "opened"
  /\ job[p].mode # "status"
  /\ issued = MaxAttempts
  /\ Exit(p)

\* Ctrl+C, a kill or a power failure.
Stop(p) == pc[p] # "off" /\ Exit(p)

Step(p) ==
  \/ Acquire(p) \/ LockUnavailable(p) \/ Connect(p) \/ Validate(p) \/ Mismatch(p)
  \/ CreateTables(p) \/ StampMeta(p) \/ AlreadyStamped(p) \/ Status(p)
  \/ Request(p) \/ (\E x \in Payloads : Answer(p, x)) \/ NoAnswer(p)
  \/ SelectExisting(p) \/ InsertSnapshot(p)
  \/ (\E s \in Specs : WriteQuote(p, s)) \/ Overflow(p)
  \/ UpdateStatus(p) \/ Commit(p) \/ GoOn(p) \/ Return(p) \/ NoteFailure(p) \/ Exhausted(p)

Raise(p) == SqliteError(p) \/ NoteFails(p) \/ OpenFails(p)

Begin(p) == \E mode \in Modes, kind \in Archive!Kinds : Start(p, mode, kind)

Next ==
  \E p \in Procs :
    Begin(p) \/ Step(p) \/ Raise(p) \/ Stop(p)

\* A running program keeps running: it executes its next statement, or that
\* statement raises when SQLite gives up waiting for a lock.
Spec == Init /\ [][Next]_vars /\ \A p \in Procs : WF_vars(Step(p) \/ Raise(p))

-----------------------------------------------------------------------------
\* Every interleaving of programs, errors and kills is a sequence of calls of
\* the archive, each with its whole effect or none: no half-written snapshot
\* is ever on the disk.
ArchiveSpec == Archive!Spec

Recorded == {id \in DOMAIN snapshots : Archive!Usable(snapshots, id)}

\* The answers on the disk and in the hands of the programs.
Answers == {snapshots[id].content : id \in Recorded}
             \cup {job[p].content : p \in {q \in Procs : job[q].content # Unset}}

\* No two answers, recorded or about to be, come from overlapping fetches
\* ("two writers on one file make parallel snapshots of one moment",
\* process_lock.py).
FetchesDisjoint ==
  \A c, d \in Answers :
    c # d => c.received_at <= d.requested_at \/ d.received_at <= c.requested_at

\* A spec version was first seen when the earliest recorded snapshot that
\* quotes it was received: no program commits an older answer later.
FirstSeenIsFirst ==
  \A i \in DOMAIN specs :
    LET quoting == {id \in Recorded : specs[i].spec \in Quoted[snapshots[id].content.payload]}
    IN /\ \E id \in quoting : snapshots[id].content.received_at = specs[i].first_seen_at
       /\ \A id \in quoting : snapshots[id].content.received_at >= specs[i].first_seen_at

\* Whoever holds a lock, and whatever raises, --once and --status end.
ProgramsEnd ==
  \A p \in Procs : (pc[p] # "off" /\ job[p].mode # "loop") ~> (pc[p] = "off")
=============================================================================
