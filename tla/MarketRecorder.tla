--------------------------- MODULE MarketRecorder ---------------------------
(***************************************************************************)
(* The archive of market snapshots (storage/market_recorder.py), one call  *)
(* of its interface after the other.  Every call is one transaction: it    *)
(* has its whole effect or, when it raises, none.  RecordMarket shows the  *)
(* same calls statement by statement.                                      *)
(*                                                                         *)
(* Abstraction.  A content is everything the fingerprint covers: the raw   *)
(* payload, when it was requested and when it was received.  What extract  *)
(* makes of a payload is a constant: the contract specs it quotes and      *)
(* whether it is clean.  Underlyings, rejected rows, conflicts and invalid *)
(* fields are written and read with the payload and stay a part of it.     *)
(***************************************************************************)
EXTENDS Naturals, FiniteSets

CONSTANTS
  Callers,         \* programs that may have the file open
  Ids,             \* snapshot ids
  Contents,        \* what one fetch can yield: [payload, requested_at, received_at]
  Specs,           \* contract specs: <<ins_code, all the rest of it>>
  Quoted,          \* payload -> the specs it quotes
  Clean,           \* payload -> ExtractionResult.is_clean
  SpecIds,         \* values of the AUTOINCREMENT key
  LegacyVersions,  \* versions of files written by older programs
  Unset            \* NULL, or a table or a file that does not exist

LIVE == "live"
TEST == "test"
Kinds == {LIVE, TEST}
DB_SCHEMA_VERSION == 3
COMPLETE == "complete"
COMPLETE_WITH_ISSUES == "complete_with_issues"
FAILED == "failed"
USABLE_STATUSES == {COMPLETE, COMPLETE_WITH_ISSUES}

ASSUME RecorderAssumption ==
  /\ DB_SCHEMA_VERSION \notin LegacyVersions
  /\ \A c \in Contents : Quoted[c.payload] \subseteq Specs /\ Clean[c.payload] \in BOOLEAN
  /\ Unset \notin Contents /\ Unset \notin Kinds
  /\ Unset \notin [kind: Kinds, version: LegacyVersions \cup {DB_SCHEMA_VERSION}]

VARIABLES
  meta,       \* table meta: the stamp [kind, version], or Unset
  snapshots,  \* table snapshots: id -> [status, is_live, content]
  specs,      \* table contract_specs: spec_id -> [spec, first_seen_at]
  quotes,     \* table quotes: rows [snapshot_id, spec_id]
  conns,      \* caller -> kind its MarketRecorder was opened with, or Unset
  acks        \* history: calls of record that returned, [id, content]

vars == <<meta, snapshots, specs, quotes, conns, acks>>

Stamp(kind) == [kind |-> kind, version |-> DB_SCHEMA_VERSION]

With(f, k, v) == [x \in DOMAIN f \cup {k} |-> IF x = k THEN v ELSE f[x]]

-----------------------------------------------------------------------------
(* What the calls read and write, on the tables they are given. *)

\* Faulty: the version of an existing file is not looked at.
ValidatesKind(m, kind) == m.kind = kind

\* An established file is opened only with its own kind and version.
validate_existing(m, kind) == m.kind = kind /\ m.version = DB_SCHEMA_VERSION

\* Faulty: a connection writes what it is given.
GuardNothing(kind, is_live) == kind # Unset

guard_kind(kind, is_live) == kind = IF is_live THEN LIVE ELSE TEST

FinalStatus(content) == IF Clean[content.payload] THEN COMPLETE ELSE COMPLETE_WITH_ISSUES

RecordedRow(content, is_live) ==
  [status |-> FinalStatus(content), is_live |-> is_live, content |-> content]

FailedRow(is_live) == [status |-> FAILED, is_live |-> is_live, content |-> Unset]

\* Faulty: whatever is stored under the id counts as this content.
SameIfUsable(table, id, content) == table[id].status \in USABLE_STATUSES

\* The fingerprint of a failed row is NULL and equals none.
same_fingerprint(table, id, content) == table[id].content = content

Usable(table, id) == id \in DOMAIN table /\ table[id].status \in USABLE_STATUSES

\* Faulty: a contract whose code is known is not looked at again.
UnseenCodes(table, content) ==
  {s \in Quoted[content.payload] : \A i \in DOMAIN table : table[i].spec[1] # s[1]}

\* The specs of a payload that no stored version equals.
Unseen(table, content) == {s \in Quoted[content.payload] : \A i \in DOMAIN table : table[i].spec # s}

\* contract_specs after _spec_id was called for every quote: the unseen specs
\* get fresh keys and the observation's own time.
AddSpecs(table, fresh, content) ==
  [i \in DOMAIN table \cup {fresh[s] : s \in DOMAIN fresh} |->
     IF i \in DOMAIN table THEN table[i]
     ELSE [spec |-> CHOOSE s \in DOMAIN fresh : fresh[s] = i,
           first_seen_at |-> content.received_at]]

\* The rows of quotes for one snapshot, each with the version it was seen in.
QuoteRows(table, id, content) ==
  {[snapshot_id |-> id, spec_id |-> i] :
     i \in {j \in DOMAIN table : table[j].spec \in Quoted[content.payload]}}

-----------------------------------------------------------------------------
Init ==
  /\ meta \in {Unset} \cup [kind: Kinds, version: LegacyVersions]
  /\ snapshots = << >> /\ specs = << >> /\ quotes = {}
  /\ conns = [c \in Callers |-> Unset]
  /\ acks = {}

\* MarketRecorder(path, kind): stamps a new file, validates an existing one.
Create(c, kind) ==
  /\ conns[c] = Unset
  /\ meta = Unset
  /\ meta' = Stamp(kind)
  /\ conns' = [conns EXCEPT ![c] = kind]
  /\ UNCHANGED <<snapshots, specs, quotes, acks>>

Open(c, kind) ==
  /\ conns[c] = Unset
  /\ meta # Unset
  /\ validate_existing(meta, kind)
  /\ conns' = [conns EXCEPT ![c] = kind]
  /\ UNCHANGED <<meta, snapshots, specs, quotes, acks>>

Close(c) ==
  /\ conns[c] # Unset
  /\ conns' = [conns EXCEPT ![c] = Unset]
  /\ UNCHANGED <<meta, snapshots, specs, quotes, acks>>

Ack(id, content) == acks' = acks \cup {[id |-> id, content |-> content]}

\* Faulty: an attempt noted as failed may be recorded later.
RecordOverFailed(c, id, content, is_live) ==
  /\ guard_kind(conns[c], is_live)
  /\ ~Usable(snapshots, id)
  /\ \E fresh \in [Unseen(specs, content) -> SpecIds \ DOMAIN specs] :
       /\ \A s, t \in DOMAIN fresh : fresh[s] = fresh[t] => s = t
       /\ specs' = AddSpecs(specs, fresh, content)
  /\ snapshots' = With(snapshots, id, RecordedRow(content, is_live))
  /\ quotes' = quotes \cup QuoteRows(specs', id, content)
  /\ Ack(id, content)
  /\ UNCHANGED <<meta, conns>>

\* record of an id that is not taken.
record(c, id, content, is_live) ==
  /\ guard_kind(conns[c], is_live)
  /\ id \notin DOMAIN snapshots
  /\ \E fresh \in [Unseen(specs, content) -> SpecIds \ DOMAIN specs] :
       /\ \A s, t \in DOMAIN fresh : fresh[s] = fresh[t] => s = t
       /\ specs' = AddSpecs(specs, fresh, content)
  /\ snapshots' = With(snapshots, id, RecordedRow(content, is_live))
  /\ quotes' = quotes \cup QuoteRows(specs', id, content)
  /\ Ack(id, content)
  /\ UNCHANGED <<meta, conns>>

\* record of the very content stored under the id: a retry, nothing is
\* written.  Any other content raises SnapshotConflict.
record_again(c, id, content, is_live) ==
  /\ guard_kind(conns[c], is_live)
  /\ id \in DOMAIN snapshots
  /\ same_fingerprint(snapshots, id, content)
  /\ Ack(id, content)
  /\ UNCHANGED <<meta, snapshots, specs, quotes, conns>>

\* A failed attempt replaces an earlier failed one, never a recorded one.
record_failure(c, id, is_live) ==
  /\ guard_kind(conns[c], is_live)
  /\ ~Usable(snapshots, id)
  /\ snapshots' = With(snapshots, id, FailedRow(is_live))
  /\ UNCHANGED <<meta, specs, quotes, conns, acks>>

Next ==
  \E c \in Callers :
    \/ \E kind \in Kinds : Create(c, kind) \/ Open(c, kind)
    \/ Close(c)
    \/ \E id \in Ids, is_live \in BOOLEAN :
         \/ \E content \in Contents :
              record(c, id, content, is_live) \/ record_again(c, id, content, is_live)
         \/ record_failure(c, id, is_live)

Spec == Init /\ [][Next]_vars

-----------------------------------------------------------------------------
TypeOK ==
  /\ meta \in {Unset} \cup [kind: Kinds, version: LegacyVersions \cup {DB_SCHEMA_VERSION}]
  /\ DOMAIN snapshots \subseteq Ids
  /\ \A id \in DOMAIN snapshots :
       snapshots[id] \in [status: USABLE_STATUSES, is_live: BOOLEAN, content: Contents]
                           \cup {FailedRow(b) : b \in BOOLEAN}
  /\ DOMAIN specs \subseteq SpecIds
  /\ \A i \in DOMAIN specs : specs[i].spec \in Specs
  /\ quotes \subseteq [snapshot_id: DOMAIN snapshots, spec_id: DOMAIN specs]
  /\ conns \in [Callers -> Kinds \cup {Unset}]
  /\ acks \subseteq [id: Ids, content: Contents]

\* What a reader of one snapshot gets from the quotes: its specs.
ReadBack(id) == {specs[q.spec_id].spec : q \in {r \in quotes : r.snapshot_id = id}}

\* A recorded snapshot reads back exactly the specs its payload quoted, each
\* from one row, whatever versions were added since; a failed one has no rows.
ReadsBackWhatWasSeen ==
  \A id \in DOMAIN snapshots :
    /\ ReadBack(id) = IF Usable(snapshots, id) THEN Quoted[snapshots[id].content.payload] ELSE {}
    /\ \A q, r \in quotes :
         q.snapshot_id = r.snapshot_id /\ specs[q.spec_id].spec = specs[r.spec_id].spec => q = r

\* Live and fixture data never meet in one file, whoever opened it when
\* (module doc, "تفکیک زنده و آزمایشی").
KindsNeverMixed ==
  \A id \in DOMAIN snapshots : meta # Unset /\ (snapshots[id].is_live <=> meta.kind = LIVE)

\* A content whose record call returned is stored under its id, with the
\* status its extraction calls for: a retry after a lost answer is safe and a
\* return never hides another content.
AckedIsStored ==
  \A a \in acks :
    /\ Usable(snapshots, a.id)
    /\ snapshots[a.id].content = a.content
    /\ snapshots[a.id].status = FinalStatus(a.content)

\* What is recorded under an id never changes and never disappears, and what
\* is read back from it stays the same; a failed id never becomes usable.
RecordedImmutable ==
  [][\A id \in DOMAIN snapshots :
       /\ id \in DOMAIN snapshots'
       /\ Usable(snapshots, id) =>
            snapshots'[id] = snapshots[id] /\ ReadBack(id)' = ReadBack(id)
       /\ Usable(snapshots', id) => Usable(snapshots, id)]_vars

\* A file of an older program is left exactly as it was found ("پایگاه قدیمی
\* دست‌نخورده می‌ماند").
LegacyUntouched ==
  [][meta # Unset /\ meta.version # DB_SCHEMA_VERSION =>
       UNCHANGED <<meta, snapshots, specs, quotes>>]_vars
=============================================================================
