------------------------ MODULE MarketRecorderProofs ------------------------
(***************************************************************************)
(* Proofs about the snapshot archive, for every set of callers, ids,       *)
(* contents and specs.                                                     *)
(***************************************************************************)
EXTENDS MarketRecorder, TLAPS

\* Whoever has the file open opened it with the kind it is stamped with.
OpenedAsStamped ==
  \A c \in Callers : conns[c] # Unset =>
    meta # Unset /\ conns[c] = meta.kind /\ meta.version = DB_SCHEMA_VERSION

\* No two rows of contract_specs hold the same spec.
SpecsUnique == \A i, j \in DOMAIN specs : specs[i].spec = specs[j].spec => i = j

\* The status of a recorded row is the one its content calls for.
StatusFits ==
  \A id \in DOMAIN snapshots :
    Usable(snapshots, id) => snapshots[id].status = FinalStatus(snapshots[id].content)

RecorderInv ==
  /\ TypeOK
  /\ StatusFits
  /\ OpenedAsStamped
  /\ SpecsUnique
  /\ ReadsBackWhatWasSeen
  /\ KindsNeverMixed
  /\ AckedIsStored

-----------------------------------------------------------------------------
(* What AddSpecs returns. *)

\* Table T keeps the rows of an older one, holds every spec of the content and
\* holds none twice.
Extends(T, table, content) ==
  /\ DOMAIN table \subseteq DOMAIN T /\ DOMAIN T \subseteq SpecIds
  /\ \A i \in DOMAIN table : T[i] = table[i]
  /\ \A i \in DOMAIN T : T[i].spec \in Specs
  /\ \A s \in Quoted[content.payload] : \E i \in DOMAIN T : T[i].spec = s
  /\ \A i, j \in DOMAIN T : T[i].spec = T[j].spec => i = j

\* The table of specs after the quotes of one payload extends the one before.
LEMMA SpecsAdded ==
  ASSUME RecorderInv, NEW content \in Contents,
         NEW fresh \in [Unseen(specs, content) -> SpecIds \ DOMAIN specs],
         \A s, t \in DOMAIN fresh : fresh[s] = fresh[t] => s = t
  PROVE  \A T : T = AddSpecs(specs, fresh, content) => Extends(T, specs, content)
<1> SUFFICES ASSUME NEW T, T = AddSpecs(specs, fresh, content)
             PROVE  Extends(T, specs, content)
  OBVIOUS
<1> DEFINE New == Unseen(specs, content)
<1>1. DOMAIN fresh = New /\ New \subseteq Quoted[content.payload]
  BY DEF Unseen
<1>2. Quoted[content.payload] \subseteq Specs
  BY RecorderAssumption
<1>3. DOMAIN T = DOMAIN specs \cup {fresh[s] : s \in New}
  BY <1>1 DEF AddSpecs
<1>4. \A i \in DOMAIN specs : T[i] = specs[i]
  BY <1>3 DEF AddSpecs
<1>5. \A s \in New : fresh[s] \in SpecIds /\ fresh[s] \notin DOMAIN specs
  BY <1>1
<1>6. \A s \in New : T[fresh[s]].spec = s
  <2> TAKE s \in New
  <2>1. fresh[s] \in DOMAIN T /\ fresh[s] \notin DOMAIN specs
    BY <1>3, <1>5
  <2>2. T[fresh[s]].spec = CHOOSE t \in DOMAIN fresh : fresh[t] = fresh[s]
    BY <2>1, <1>1, <1>3 DEF AddSpecs
  <2>3. \E t \in DOMAIN fresh : fresh[t] = fresh[s]
    BY <1>1
  <2>4. (CHOOSE t \in DOMAIN fresh : fresh[t] = fresh[s]) = s
    BY <2>3, <1>1
  <2> QED
    BY <2>2, <2>4
<1>7. \A i \in DOMAIN specs : specs[i].spec \in Specs /\ i \in SpecIds
  BY DEF RecorderInv, TypeOK
<1>8. \A s \in New : \A i \in DOMAIN specs : specs[i].spec # s
  BY DEF Unseen
<1>9. \A s \in Quoted[content.payload] : s \in New \/ \E i \in DOMAIN specs : specs[i].spec = s
  BY DEF Unseen
<1>10. \A i, j \in DOMAIN T : T[i].spec = T[j].spec => i = j
  <2> SUFFICES ASSUME NEW i \in DOMAIN T, NEW j \in DOMAIN T, T[i].spec = T[j].spec
               PROVE  i = j
    OBVIOUS
  <2>1. CASE i \in DOMAIN specs /\ j \in DOMAIN specs
    BY <2>1, <1>4 DEF RecorderInv, SpecsUnique
  <2>2. CASE i \in DOMAIN specs /\ j \notin DOMAIN specs
    BY <2>2, <1>3, <1>4, <1>6, <1>8
  <2>3. CASE i \notin DOMAIN specs /\ j \in DOMAIN specs
    BY <2>3, <1>3, <1>4, <1>6, <1>8
  <2>4. CASE i \notin DOMAIN specs /\ j \notin DOMAIN specs
    <3>1. PICK s \in New : i = fresh[s]
      BY <2>4, <1>3
    <3>2. PICK t \in New : j = fresh[t]
      BY <2>4, <1>3
    <3> QED
      BY <3>1, <3>2, <1>6
  <2> QED
    BY <2>1, <2>2, <2>3, <2>4
<1>11. \A i \in DOMAIN T : T[i].spec \in Specs
  BY <1>3, <1>4, <1>6, <1>7, <1>1, <1>2
<1>12. \A s \in Quoted[content.payload] : \E i \in DOMAIN T : T[i].spec = s
  BY <1>3, <1>4, <1>6, <1>9
<1>13. DOMAIN specs \subseteq DOMAIN T /\ DOMAIN T \subseteq SpecIds
  BY <1>3, <1>5, <1>7
<1> QED
  BY <1>4, <1>10, <1>11, <1>12, <1>13 DEF Extends

-----------------------------------------------------------------------------
(* The calls that write rows. *)

\* record keeps everything that was recorded, and adds one snapshot that reads
\* back its own payload.
LEMMA RecordPreserves ==
  ASSUME RecorderInv, NEW c \in Callers, NEW id \in Ids, NEW content \in Contents,
         NEW is_live \in BOOLEAN, record(c, id, content, is_live)
  PROVE  /\ RecorderInv'
         /\ \A x \in DOMAIN snapshots :
              x \in DOMAIN snapshots' /\ snapshots'[x] = snapshots[x]
                /\ ReadBack(x)' = ReadBack(x)
<1>1. PICK fresh \in [Unseen(specs, content) -> SpecIds \ DOMAIN specs] :
        /\ \A s, t \in DOMAIN fresh : fresh[s] = fresh[t] => s = t
        /\ specs' = AddSpecs(specs, fresh, content)
  BY DEF record
<1>2. /\ DOMAIN specs \subseteq DOMAIN specs' /\ DOMAIN specs' \subseteq SpecIds
      /\ \A i \in DOMAIN specs : specs'[i] = specs[i]
      /\ \A i \in DOMAIN specs' : specs'[i].spec \in Specs
      /\ \A s \in Quoted[content.payload] : \E i \in DOMAIN specs' : specs'[i].spec = s
      /\ \A i, j \in DOMAIN specs' : specs'[i].spec = specs'[j].spec => i = j
  <2>1. Extends(specs', specs, content)
    BY <1>1, SpecsAdded
  <2> QED
    BY <2>1 DEF Extends
<1>3. /\ id \notin DOMAIN snapshots
      /\ DOMAIN snapshots' = DOMAIN snapshots \cup {id}
      /\ snapshots'[id] = RecordedRow(content, is_live)
      /\ \A x \in DOMAIN snapshots : snapshots'[x] = snapshots[x]
  <2>1. id \notin DOMAIN snapshots /\ snapshots' = With(snapshots, id, RecordedRow(content, is_live))
    BY DEF record
  <2> QED
    BY <2>1 DEF With
<1>4. quotes' = quotes \cup QuoteRows(specs', id, content)
  BY DEF record
<1>5. UNCHANGED <<meta, conns>> /\ acks' = acks \cup {[id |-> id, content |-> content]}
  BY DEF record, Ack
<1>6. /\ quotes \subseteq [snapshot_id: DOMAIN snapshots, spec_id: DOMAIN specs]
      /\ \A q \in quotes : q.snapshot_id \in DOMAIN snapshots /\ q.spec_id \in DOMAIN specs
                           /\ q.snapshot_id # id
  BY <1>3 DEF RecorderInv, TypeOK
<1>7. \A q \in QuoteRows(specs', id, content) :
        q.snapshot_id = id /\ q.spec_id \in DOMAIN specs'
          /\ specs'[q.spec_id].spec \in Quoted[content.payload]
  BY DEF QuoteRows
<1>8. QuoteRows(specs', id, content) \subseteq [snapshot_id: {id}, spec_id: DOMAIN specs']
  BY DEF QuoteRows
<1>9. RecordedRow(content, is_live) \in [status: USABLE_STATUSES, is_live: BOOLEAN, content: Contents]
  BY DEF RecordedRow, FinalStatus, USABLE_STATUSES
<1>10. TypeOK'
  <2>1. quotes' \subseteq [snapshot_id: DOMAIN snapshots', spec_id: DOMAIN specs']
    <3> SUFFICES ASSUME NEW q \in quotes'
                 PROVE  q \in [snapshot_id: DOMAIN snapshots', spec_id: DOMAIN specs']
      OBVIOUS
    <3>1. CASE q \in quotes
      <4>1. q \in [snapshot_id: DOMAIN snapshots, spec_id: DOMAIN specs]
        BY <3>1, <1>6
      <4> QED
        BY <4>1, <1>2, <1>3
    <3>2. CASE q \in QuoteRows(specs', id, content)
      <4>1. q \in [snapshot_id: {id}, spec_id: DOMAIN specs']
        BY <3>2, <1>8
      <4> QED
        BY <4>1, <1>3
    <3> QED
      BY <3>1, <3>2, <1>4
  <2>2. \A x \in DOMAIN snapshots' :
          snapshots'[x] \in [status: USABLE_STATUSES, is_live: BOOLEAN, content: Contents]
                              \cup {FailedRow(b) : b \in BOOLEAN}
    BY <1>3, <1>9 DEF RecorderInv, TypeOK
  <2>3. acks' \subseteq [id: Ids, content: Contents]
    BY <1>5 DEF RecorderInv, TypeOK
  <2>4. DOMAIN snapshots' \subseteq Ids
    BY <1>3 DEF RecorderInv, TypeOK
  <2>5. /\ meta' \in {Unset} \cup [kind: Kinds, version: LegacyVersions \cup {DB_SCHEMA_VERSION}]
        /\ conns' \in [Callers -> Kinds \cup {Unset}]
    BY <1>5 DEF RecorderInv, TypeOK
  <2> QED
    BY <2>1, <2>2, <2>3, <2>4, <2>5, <1>2 DEF TypeOK
<1>11. OpenedAsStamped'
  BY <1>5 DEF RecorderInv, OpenedAsStamped
<1>12. SpecsUnique'
  BY <1>2 DEF SpecsUnique
<1>13. \A x \in DOMAIN snapshots : ReadBack(x)' = ReadBack(x)
  <2> TAKE x \in DOMAIN snapshots
  <2>1. \A q : (q \in quotes' /\ q.snapshot_id = x) <=> (q \in quotes /\ q.snapshot_id = x)
    BY <1>3, <1>4, <1>7
  <2>2. \A q \in quotes : specs'[q.spec_id].spec = specs[q.spec_id].spec
    BY <1>2, <1>6
  <2> QED
    BY <2>1, <2>2 DEF ReadBack
<1>14. ReadBack(id)' = Quoted[content.payload]
  <2>1. \A q : (q \in quotes' /\ q.snapshot_id = id) <=> q \in QuoteRows(specs', id, content)
    BY <1>4, <1>6, <1>7
  <2>2. ReadBack(id)' = {specs'[q.spec_id].spec : q \in QuoteRows(specs', id, content)}
    BY <2>1 DEF ReadBack
  <2>3. \A s \in Quoted[content.payload] :
          \E q \in QuoteRows(specs', id, content) : specs'[q.spec_id].spec = s
    <3> TAKE s \in Quoted[content.payload]
    <3>1. PICK i \in DOMAIN specs' : specs'[i].spec = s
      BY <1>2
    <3>2. [snapshot_id |-> id, spec_id |-> i] \in QuoteRows(specs', id, content)
      BY <3>1 DEF QuoteRows
    <3> QED
      BY <3>1, <3>2
  <2> QED
    BY <2>2, <2>3, <1>7
<1>15. ReadsBackWhatWasSeen'
  <2>1. \A x \in DOMAIN snapshots' :
          ReadBack(x)' = IF Usable(snapshots', x) THEN Quoted[snapshots'[x].content.payload] ELSE {}
    <3> TAKE x \in DOMAIN snapshots'
    <3>1. CASE x = id
      BY <3>1, <1>3, <1>14 DEF Usable, RecordedRow, FinalStatus, USABLE_STATUSES
    <3>2. CASE x # id
      BY <3>2, <1>3, <1>13 DEF RecorderInv, ReadsBackWhatWasSeen, Usable
    <3> QED
      BY <3>1, <3>2
  <2>2. \A q, r \in quotes' :
          q.snapshot_id = r.snapshot_id /\ specs'[q.spec_id].spec = specs'[r.spec_id].spec => q = r
    <3> SUFFICES ASSUME NEW q \in quotes', NEW r \in quotes', q.snapshot_id = r.snapshot_id,
                        specs'[q.spec_id].spec = specs'[r.spec_id].spec
                 PROVE  q = r
      OBVIOUS
    <3>1. /\ q \in [snapshot_id: DOMAIN snapshots', spec_id: DOMAIN specs']
          /\ r \in [snapshot_id: DOMAIN snapshots', spec_id: DOMAIN specs']
      BY <1>10 DEF TypeOK
    <3>2. q.spec_id = r.spec_id
      BY <3>1, <1>2
    <3> QED
      BY <3>1, <3>2
  <2> QED
    BY <2>1, <2>2 DEF ReadsBackWhatWasSeen
<1>16. KindsNeverMixed'
  <2>1. conns[c] = (IF is_live THEN LIVE ELSE TEST) /\ conns[c] # Unset
    BY RecorderAssumption DEF record, guard_kind, Kinds
  <2>2. meta # Unset /\ (is_live <=> meta.kind = LIVE)
    BY <2>1 DEF RecorderInv, OpenedAsStamped, LIVE, TEST
  <2> QED
    BY <2>2, <1>3, <1>5 DEF RecorderInv, KindsNeverMixed, RecordedRow
<1>17. AckedIsStored'
  <2> SUFFICES ASSUME NEW a \in acks'
               PROVE  /\ Usable(snapshots', a.id)
                      /\ snapshots'[a.id].content = a.content
                      /\ snapshots'[a.id].status = FinalStatus(a.content)
    BY DEF AckedIsStored
  <2>1. CASE a \in acks
    BY <2>1, <1>3 DEF RecorderInv, AckedIsStored, Usable
  <2>2. CASE a = [id |-> id, content |-> content]
    BY <2>2, <1>3 DEF Usable, RecordedRow, FinalStatus, USABLE_STATUSES
  <2> QED
    BY <2>1, <2>2, <1>5
<1>18. StatusFits'
  BY <1>3 DEF RecorderInv, StatusFits, Usable, RecordedRow
<1> QED
  BY <1>3, <1>10, <1>11, <1>12, <1>13, <1>15, <1>16, <1>17, <1>18 DEF RecorderInv

\* record_failure writes a row without quotes and touches no recorded one.
LEMMA FailurePreserves ==
  ASSUME RecorderInv, NEW c \in Callers, NEW id \in Ids, NEW is_live \in BOOLEAN,
         record_failure(c, id, is_live)
  PROVE  /\ RecorderInv'
         /\ \A x \in DOMAIN snapshots :
              /\ x \in DOMAIN snapshots'
              /\ Usable(snapshots, x) => snapshots'[x] = snapshots[x]
              /\ ReadBack(x)' = ReadBack(x)
              /\ Usable(snapshots', x) => Usable(snapshots, x)
<1>1. /\ ~Usable(snapshots, id)
      /\ snapshots' = With(snapshots, id, FailedRow(is_live))
      /\ UNCHANGED <<meta, specs, quotes, conns, acks>>
  BY DEF record_failure
<1>2. /\ DOMAIN snapshots' = DOMAIN snapshots \cup {id}
      /\ snapshots'[id] = FailedRow(is_live)
      /\ \A x \in DOMAIN snapshots : x # id => snapshots'[x] = snapshots[x]
  BY <1>1 DEF With
<1>3. FailedRow(is_live).status \notin USABLE_STATUSES
  BY DEF FailedRow, USABLE_STATUSES, FAILED, COMPLETE, COMPLETE_WITH_ISSUES
<1>4. \A x \in DOMAIN snapshots' :
        Usable(snapshots', x) <=> x # id /\ Usable(snapshots, x)
  BY <1>2, <1>3 DEF Usable
<1>5. \A x : ReadBack(x)' = ReadBack(x)
  BY <1>1 DEF ReadBack
<1>6. ReadBack(id) = {}
  <2>1. CASE id \in DOMAIN snapshots
    BY <2>1, <1>1 DEF RecorderInv, ReadsBackWhatWasSeen
  <2>2. CASE id \notin DOMAIN snapshots
    <3>1. \A q \in quotes : q.snapshot_id # id
      BY <2>2 DEF RecorderInv, TypeOK
    <3> QED
      BY <3>1 DEF ReadBack
  <2> QED
    BY <2>1, <2>2
<1>7. TypeOK'
  <2>1. quotes' \subseteq [snapshot_id: DOMAIN snapshots', spec_id: DOMAIN specs']
    BY <1>1, <1>2 DEF RecorderInv, TypeOK
  <2>2. \A x \in DOMAIN snapshots' :
          snapshots'[x] \in [status: USABLE_STATUSES, is_live: BOOLEAN, content: Contents]
                              \cup {FailedRow(b) : b \in BOOLEAN}
    BY <1>2 DEF RecorderInv, TypeOK
  <2> QED
    BY <2>1, <2>2, <1>1, <1>2 DEF RecorderInv, TypeOK
<1>8. OpenedAsStamped' /\ SpecsUnique'
  BY <1>1 DEF RecorderInv, OpenedAsStamped, SpecsUnique
<1>9. ReadsBackWhatWasSeen'
  <2>1. \A x \in DOMAIN snapshots' :
          ReadBack(x)' = IF Usable(snapshots', x) THEN Quoted[snapshots'[x].content.payload] ELSE {}
    BY <1>2, <1>4, <1>5, <1>6 DEF RecorderInv, ReadsBackWhatWasSeen
  <2>2. \A q, r \in quotes' :
          q.snapshot_id = r.snapshot_id /\ specs'[q.spec_id].spec = specs'[r.spec_id].spec => q = r
    <3> SUFFICES ASSUME NEW q \in quotes, NEW r \in quotes, q.snapshot_id = r.snapshot_id,
                        specs[q.spec_id].spec = specs[r.spec_id].spec
                 PROVE  q = r
      BY <1>1
    <3>1. q.snapshot_id \in DOMAIN snapshots
      BY DEF RecorderInv, TypeOK
    <3> QED
      BY <3>1 DEF RecorderInv, ReadsBackWhatWasSeen
  <2> QED
    BY <2>1, <2>2 DEF ReadsBackWhatWasSeen
<1>10. KindsNeverMixed'
  <2>1. conns[c] = (IF is_live THEN LIVE ELSE TEST) /\ conns[c] # Unset
    BY RecorderAssumption DEF record_failure, guard_kind, Kinds
  <2>2. meta # Unset /\ (is_live <=> meta.kind = LIVE)
    BY <2>1 DEF RecorderInv, OpenedAsStamped, LIVE, TEST
  <2> QED
    BY <2>2, <1>1, <1>2 DEF RecorderInv, KindsNeverMixed, FailedRow
<1>11. AckedIsStored'
  <2> SUFFICES ASSUME NEW a \in acks
               PROVE  /\ Usable(snapshots', a.id)
                      /\ snapshots'[a.id].content = a.content
                      /\ snapshots'[a.id].status = FinalStatus(a.content)
    BY <1>1 DEF AckedIsStored
  <2>1. Usable(snapshots, a.id) /\ a.id # id
    BY <1>1 DEF RecorderInv, AckedIsStored
  <2>2. a.id \in DOMAIN snapshots
    BY <2>1 DEF Usable
  <2> QED
    BY <2>1, <2>2, <1>2 DEF RecorderInv, AckedIsStored, Usable
<1>12. StatusFits'
  BY <1>2, <1>4 DEF RecorderInv, StatusFits
<1>13. \A x \in DOMAIN snapshots : Usable(snapshots, x) => x # id
  BY <1>1
<1>14. \A x \in DOMAIN snapshots : x \in DOMAIN snapshots'
  BY <1>2
<1> QED
  BY <1>2, <1>4, <1>5, <1>7, <1>8, <1>9, <1>10, <1>11, <1>12, <1>13, <1>14 DEF RecorderInv

\* A retry of a stored content changes nothing but the history.
LEMMA RetryPreserves ==
  ASSUME RecorderInv, NEW c \in Callers, NEW id \in Ids, NEW content \in Contents,
         NEW is_live \in BOOLEAN, record_again(c, id, content, is_live)
  PROVE  RecorderInv' /\ UNCHANGED <<meta, snapshots, specs, quotes>>
<1>1. /\ id \in DOMAIN snapshots /\ snapshots[id].content = content
      /\ UNCHANGED <<meta, snapshots, specs, quotes, conns>>
      /\ acks' = acks \cup {[id |-> id, content |-> content]}
  BY DEF record_again, same_fingerprint, Ack
<1>2. snapshots[id] \in [status: USABLE_STATUSES, is_live: BOOLEAN, content: Contents]
  <2>1. \A b \in BOOLEAN : FailedRow(b).content = Unset
    BY DEF FailedRow
  <2> QED
    BY <1>1, <2>1, RecorderAssumption DEF RecorderInv, TypeOK
<1>3. snapshots[id].status = FinalStatus(content)
  BY <1>1, <1>2 DEF RecorderInv, StatusFits, Usable
<1>4. AckedIsStored'
  BY <1>1, <1>2, <1>3 DEF RecorderInv, AckedIsStored, Usable
<1>5. TypeOK'
  BY <1>1 DEF RecorderInv, TypeOK
<1>6. OpenedAsStamped' /\ SpecsUnique' /\ ReadsBackWhatWasSeen' /\ KindsNeverMixed' /\ StatusFits'
  BY <1>1 DEF RecorderInv, OpenedAsStamped, SpecsUnique, ReadsBackWhatWasSeen, ReadBack,
              KindsNeverMixed, StatusFits
<1> QED
  BY <1>1, <1>4, <1>5, <1>6 DEF RecorderInv

\* Opening and closing write no rows.
LEMMA OpenPreserves ==
  ASSUME RecorderInv, NEW c \in Callers, NEW kind \in Kinds,
         Create(c, kind) \/ Open(c, kind) \/ Close(c)
  PROVE  RecorderInv' /\ UNCHANGED <<snapshots, specs, quotes, acks>>
<1>1. /\ UNCHANGED <<snapshots, specs, quotes, acks>>
      /\ meta' = meta \/ (meta = Unset /\ meta' = Stamp(kind))
  BY DEF Create, Open, Close
<1>2. meta' \in {Unset} \cup [kind: Kinds, version: LegacyVersions \cup {DB_SCHEMA_VERSION}]
  BY <1>1 DEF RecorderInv, TypeOK, Stamp
<1>3. conns' \in [Callers -> Kinds \cup {Unset}]
  BY DEF RecorderInv, TypeOK, Create, Open, Close
<1>4. TypeOK'
  BY <1>1, <1>2, <1>3 DEF RecorderInv, TypeOK
<1>5. OpenedAsStamped'
  <2> SUFFICES ASSUME NEW d \in Callers, conns'[d] # Unset
               PROVE  meta' # Unset /\ conns'[d] = meta'.kind /\ meta'.version = DB_SCHEMA_VERSION
    BY DEF OpenedAsStamped
  <2>0. conns \in [Callers -> Kinds \cup {Unset}]
    BY DEF RecorderInv, TypeOK
  <2>1. CASE Create(c, kind)
    <3>1. d = c
      BY <2>0, <2>1 DEF RecorderInv, OpenedAsStamped, Create
    <3>2. meta' = Stamp(kind) /\ conns'[c] = kind
      BY <2>0, <2>1 DEF Create
    <3>3. meta' # Unset
      <4>1. meta = Unset /\ meta' \in [kind: Kinds, version: {DB_SCHEMA_VERSION}]
        BY <2>1, <3>2 DEF Stamp, Create
      <4> QED
        BY <4>1, RecorderAssumption
    <3> QED
      BY <3>1, <3>2, <3>3 DEF Stamp
  <2>2. CASE Open(c, kind)
    BY <2>0, <2>2 DEF RecorderInv, OpenedAsStamped, Open, validate_existing
  <2>3. CASE Close(c)
    BY <2>0, <2>3 DEF RecorderInv, OpenedAsStamped, Close
  <2> QED
    BY <2>1, <2>2, <2>3
<1>6. SpecsUnique' /\ ReadsBackWhatWasSeen' /\ AckedIsStored' /\ StatusFits'
  BY <1>1 DEF RecorderInv, SpecsUnique, ReadsBackWhatWasSeen, ReadBack, AckedIsStored, StatusFits
<1>7. KindsNeverMixed'
  BY <1>1 DEF RecorderInv, KindsNeverMixed
<1> QED
  BY <1>1, <1>4, <1>5, <1>6, <1>7 DEF RecorderInv

-----------------------------------------------------------------------------
LEMMA InitRecorder == Init => RecorderInv
<1> SUFFICES ASSUME Init PROVE RecorderInv
  OBVIOUS
<1>1. /\ DOMAIN snapshots = {} /\ DOMAIN specs = {} /\ quotes = {} /\ acks = {}
      /\ \A c \in Callers : conns[c] = Unset
  BY DEF Init
<1>2. TypeOK
  BY <1>1 DEF Init, TypeOK
<1> QED
  BY <1>1, <1>2 DEF RecorderInv, OpenedAsStamped, SpecsUnique, ReadsBackWhatWasSeen,
                    KindsNeverMixed, AckedIsStored, StatusFits

LEMMA StutterRecorder == RecorderInv /\ UNCHANGED vars => RecorderInv'
BY DEF vars, RecorderInv, TypeOK, OpenedAsStamped, SpecsUnique, ReadsBackWhatWasSeen, ReadBack,
       KindsNeverMixed, AckedIsStored, StatusFits

\* One step, whatever it is, keeps the invariant and every recorded snapshot.
LEMMA NextRecorder ==
  ASSUME RecorderInv, Next
  PROVE  /\ RecorderInv'
         /\ \A id \in DOMAIN snapshots :
              /\ id \in DOMAIN snapshots'
              /\ Usable(snapshots, id) =>
                   snapshots'[id] = snapshots[id] /\ ReadBack(id)' = ReadBack(id)
              /\ Usable(snapshots', id) => Usable(snapshots, id)
<1>1. ASSUME NEW c \in Callers, NEW kind \in Kinds, Create(c, kind) \/ Open(c, kind)
      PROVE  RecorderInv' /\ UNCHANGED <<snapshots, specs, quotes>>
  BY <1>1, OpenPreserves
<1>2. ASSUME NEW c \in Callers, Close(c)
      PROVE  RecorderInv' /\ UNCHANGED <<snapshots, specs, quotes>>
  <2>1. LIVE \in Kinds
    BY DEF Kinds
  <2> QED
    BY <1>2, <2>1, OpenPreserves
<1>3. ASSUME NEW c \in Callers, NEW id \in Ids, NEW content \in Contents, NEW is_live \in BOOLEAN,
             record_again(c, id, content, is_live)
      PROVE  RecorderInv' /\ UNCHANGED <<snapshots, specs, quotes>>
  BY <1>3, RetryPreserves
<1>4. ASSUME UNCHANGED <<snapshots, specs, quotes>>
      PROVE  \A id \in DOMAIN snapshots :
              /\ id \in DOMAIN snapshots'
              /\ Usable(snapshots, id) =>
                   snapshots'[id] = snapshots[id] /\ ReadBack(id)' = ReadBack(id)
              /\ Usable(snapshots', id) => Usable(snapshots, id)
  BY <1>4 DEF ReadBack
<1>5. CASE \E c \in Callers, id \in Ids, content \in Contents, is_live \in BOOLEAN :
             record(c, id, content, is_live)
  BY <1>5, RecordPreserves DEF Usable
<1>6. CASE \E c \in Callers, id \in Ids, is_live \in BOOLEAN : record_failure(c, id, is_live)
  BY <1>6, FailurePreserves
<1> QED
  BY <1>1, <1>2, <1>3, <1>4, <1>5, <1>6 DEF Next

\* The inductive invariant holds in every behaviour of the archive.
THEOREM RecorderInvariant == Spec => []RecorderInv
<1>1. RecorderInv /\ [Next]_vars => RecorderInv'
  BY NextRecorder, StutterRecorder
<1> QED
  BY InitRecorder, <1>1, PTL DEF Spec

\* Tables, stamps and connections keep their types; no quote refers to a
\* snapshot or a spec that is not there.
THEOREM RecorderTypes == Spec => []TypeOK
<1>1. RecorderInv => TypeOK
  BY DEF RecorderInv
<1> QED
  BY <1>1, RecorderInvariant, PTL

\* Every recorded snapshot reads back the specs its payload quoted, whatever
\* was recorded before and after it.
THEOREM ReadsBack == Spec => []ReadsBackWhatWasSeen
<1>1. RecorderInv => ReadsBackWhatWasSeen
  BY DEF RecorderInv
<1> QED
  BY <1>1, RecorderInvariant, PTL

\* Live and test data never share a file.
THEOREM KindsSeparate == Spec => []KindsNeverMixed
<1>1. RecorderInv => KindsNeverMixed
  BY DEF RecorderInv
<1> QED
  BY <1>1, RecorderInvariant, PTL

\* What record returned for is stored under its id.
THEOREM AckedStored == Spec => []AckedIsStored
<1>1. RecorderInv => AckedIsStored
  BY DEF RecorderInv
<1> QED
  BY <1>1, RecorderInvariant, PTL

\* No call changes or removes what is recorded.
THEOREM Immutable == Spec => RecordedImmutable
<1> DEFINE Keeps == \A id \in DOMAIN snapshots :
              /\ id \in DOMAIN snapshots'
              /\ Usable(snapshots, id) =>
                   snapshots'[id] = snapshots[id] /\ ReadBack(id)' = ReadBack(id)
              /\ Usable(snapshots', id) => Usable(snapshots, id)
<1>1. RecorderInv /\ [Next]_vars => [Keeps]_vars
  BY NextRecorder
<1> QED
  BY <1>1, RecorderInvariant, PTL DEF Spec, RecordedImmutable

\* A file of an older program is never written.
THEOREM LegacyKept == Spec => LegacyUntouched
<1> DEFINE Kept == meta # Unset /\ meta.version # DB_SCHEMA_VERSION =>
                     UNCHANGED <<meta, snapshots, specs, quotes>>
<1>1. ASSUME RecorderInv, Next PROVE Kept
  <2> SUFFICES ASSUME meta # Unset, meta.version # DB_SCHEMA_VERSION
               PROVE  UNCHANGED <<meta, snapshots, specs, quotes>>
    OBVIOUS
  <2>1. \A c \in Callers, is_live \in BOOLEAN : ~guard_kind(conns[c], is_live)
    BY <1>1, RecorderAssumption DEF RecorderInv, OpenedAsStamped, guard_kind, Kinds
  <2> QED
    BY <1>1, <2>1 DEF Next, Create, Open, Close, record, record_again, record_failure
<1>2. RecorderInv /\ [Next]_vars => [Kept]_vars
  BY <1>1
<1> QED
  BY <1>2, RecorderInvariant, PTL DEF Spec, LegacyUntouched
=============================================================================
