------------------------- MODULE RawSnapshotProofs -------------------------
(***************************************************************************)
(* extract never chooses between contradicting observations: proved for    *)
(* answers of any length over any codes, symbols and numbers.              *)
(***************************************************************************)
EXTENDS RawSnapshot, Integers, Functions, FiniteSetTheorems, TLAPS

\* What the sides collected so far said, as pairs of code and signature.
Observed == {<<CodeOf(o), SignatureOf(o)>> : o \in Occurrences}

RowsRead ==
  /\ rows \in Seq(Answers)
  /\ phase \in {"row", "C", "P", "done"}
  /\ phase \in Sides => rows # << >> /\ Current # Junk

\* The first signature of a code is one of its observations, ...
SeenIsObserved ==
  /\ \A p \in Observed : p[1] \in DOMAIN seen
  /\ \A c \in DOMAIN seen : <<c, seen[c].signature>> \in Observed

\* ... a code is in conflict exactly when another one differs from it, ...
ConflictedDiffers ==
  /\ conflicted \subseteq DOMAIN seen
  /\ \A c \in DOMAIN seen :
       c \in conflicted <=> \E p \in Observed : p[1] = c /\ p[2] # seen[c].signature

\* ... and the quotes are the first ones, in the end without the conflicts.
QuotesAreFirst ==
  quotes = {[code |-> c, signature |-> seen[c].signature] :
              c \in DOMAIN seen \ (IF phase = "done" THEN conflicted ELSE {})}

ExtractInv == RowsRead /\ SeenIsObserved /\ ConflictedDiffers /\ QuotesAreFirst

-----------------------------------------------------------------------------
(* How what was collected grows. *)

\* The place of a side of the row just read.
Here(side) == [row |-> Len(rows), side |-> side]

\* Reading a row collects no side of it yet.
LEMMA ReadCollects ==
  ASSUME ExtractInv, NEW row \in Answers, RejectRow(row) \/ ReadRow(row)
  PROVE  /\ Collected' = Collected /\ Occurrences' = Occurrences
         /\ \A o \in Collected : rows'[o.row] = rows[o.row]
         /\ \A o \in Occurrences : CodeOf(o)' = CodeOf(o) /\ SignatureOf(o)' = SignatureOf(o)
<1>1. /\ rows \in Seq(Answers) /\ phase = "row"
      /\ rows' = Append(rows, row)
      /\ \/ row = Junk /\ phase' = "row"
         \/ row # Junk /\ phase' = "C"
  BY DEF ExtractInv, RowsRead, RejectRow, ReadRow, Read
<1>2. /\ Len(rows) \in Nat /\ Len(rows') = Len(rows) + 1
      /\ rows'[Len(rows) + 1] = row
      /\ \A i \in 1 .. Len(rows) : rows'[i] = rows[i]
  BY <1>1
<1>3. Collected' = Collected
  <2>1. \A o \in [row: 1 .. Len(rows'), side: Sides] :
          o \in Collected' <=> o \in Collected
    <3> TAKE o \in [row: 1 .. Len(rows'), side: Sides]
    <3>1. CASE o.row \in 1 .. Len(rows)
      BY <3>1, <1>1, <1>2 DEF Collected
    <3>2. CASE o.row = Len(rows) + 1
      <4>1. o \notin Collected'
        BY <3>2, <1>1, <1>2 DEF Collected
      <4>2. o \notin Collected
        BY <3>2, <1>2 DEF Collected
      <4> QED
        BY <4>1, <4>2
    <3> QED
      BY <3>1, <3>2, <1>2
  <2>2. \A o \in Collected : o \in [row: 1 .. Len(rows'), side: Sides]
    BY <1>2 DEF Collected
  <2>3. \A o \in Collected' : o \in [row: 1 .. Len(rows'), side: Sides]
    BY DEF Collected
  <2> QED
    BY <2>1, <2>2, <2>3
<1>4. \A o \in Collected : rows'[o.row] = rows[o.row]
  BY <1>2 DEF Collected
<1>5. Occurrences' = Occurrences
  BY <1>3, <1>4 DEF Occurrences, extractable
<1> QED
  BY <1>3, <1>4, <1>5 DEF Occurrences, CodeOf, SignatureOf, signature

LEMMA ReadObserves ==
  ASSUME ExtractInv, NEW row \in Answers, RejectRow(row) \/ ReadRow(row)
  PROVE  Observed' = Observed
BY ReadCollects DEF Observed

\* Collecting a side adds it, and its observation if it has one.
LEMMA SideCollects ==
  ASSUME ExtractInv, NEW side \in Sides, NextSide(side)
  PROVE  /\ rows' = rows
         /\ Here(side) \notin Collected /\ Collected' = Collected \cup {Here(side)}
         /\ Occurrences' = Occurrences \cup (IF extractable(Current, side) THEN {Here(side)} ELSE {})
         /\ CodeOf(Here(side)) = Code(side) /\ SignatureOf(Here(side)) = signature(Current, side)
<1> DEFINE new == Here(side)
<1>1. /\ rows \in Seq(Answers) /\ rows # << >> /\ rows[Len(rows)] # Junk
      /\ phase = side /\ rows' = rows
      /\ phase' = IF side = "C" THEN "P" ELSE "row"
  BY DEF ExtractInv, RowsRead, NextSide, Current
<1>2. Len(rows) \in 1 .. Len(rows)
  BY <1>1
<1>3. Collected' = Collected \cup {new} /\ new \notin Collected
  <2>1. \A o \in [row: 1 .. Len(rows), side: Sides] :
          o \in Collected' <=> o \in Collected \/ (o.row = Len(rows) /\ o.side = side)
    BY <1>1, <1>2 DEF Collected, Sides
  <2>2. \A o \in [row: 1 .. Len(rows), side: Sides] :
          o = new <=> (o.row = Len(rows) /\ o.side = side)
    BY DEF Here
  <2>3. new \in [row: 1 .. Len(rows), side: Sides]
    BY <1>2 DEF Here
  <2>4. /\ Collected \subseteq [row: 1 .. Len(rows), side: Sides]
        /\ Collected' \subseteq [row: 1 .. Len(rows), side: Sides]
    BY <1>1 DEF Collected
  <2>5. new \notin Collected
    BY <1>1 DEF Collected, Sides, Here
  <2> QED
    BY <2>1, <2>2, <2>3, <2>4, <2>5
<1>4. extractable(rows[new.row], new.side) <=> extractable(Current, side)
  BY DEF Current, Here
<1>5. Occurrences' = Occurrences \cup (IF extractable(Current, side) THEN {new} ELSE {})
  BY <1>1, <1>3, <1>4 DEF Occurrences
<1>6. CodeOf(new) = Code(side) /\ SignatureOf(new) = signature(Current, side)
  BY DEF CodeOf, SignatureOf, Code, Current, Here
<1> QED
  BY <1>1, <1>3, <1>5, <1>6

LEMMA SideObserves ==
  ASSUME ExtractInv, NEW side \in Sides, NextSide(side)
  PROVE  Observed' = Observed \cup (IF extractable(Current, side)
                                     THEN {<<Code(side), signature(Current, side)>>} ELSE {})
<1>1. rows' = rows
  BY SideCollects
<1>2. Observed' = {<<CodeOf(o), SignatureOf(o)>> : o \in Occurrences'}
  BY <1>1 DEF Observed, CodeOf, SignatureOf
<1> QED
  BY <1>2, SideCollects DEF Observed

-----------------------------------------------------------------------------
LEMMA InitExtract == Init => ExtractInv
<1> SUFFICES ASSUME Init PROVE ExtractInv
  OBVIOUS
<1>1. rows = << >> /\ phase = "row" /\ DOMAIN seen = {} /\ conflicted = {} /\ quotes = {}
  BY DEF Init
<1>2. Collected = {}
  BY <1>1 DEF Collected
<1>3. Observed = {}
  BY <1>2 DEF Observed, Occurrences
<1> QED
  BY <1>1, <1>3 DEF ExtractInv, RowsRead, SeenIsObserved, ConflictedDiffers, QuotesAreFirst, Sides

\* Reading a row leaves the contract tables alone.
LEMMA ReadPreserves ==
  ASSUME ExtractInv, NEW row \in Answers, RejectRow(row) \/ ReadRow(row)
  PROVE  ExtractInv'
<1>1. /\ phase = "row" /\ rows' = Append(rows, row) /\ rows \in Seq(Answers)
      /\ \/ row = Junk /\ phase' = "row"
         \/ row # Junk /\ phase' = "C"
      /\ UNCHANGED <<quotes, seen, conflicted>>
  BY DEF ExtractInv, RowsRead, RejectRow, ReadRow, Read, contract_vars
<1>2. RowsRead'
  <2>1. rows' \in Seq(Answers) /\ rows' # << >> /\ rows'[Len(rows')] = row
    BY <1>1
  <2> QED
    BY <1>1, <2>1 DEF RowsRead, Current, Sides
<1>3. Observed' = Observed
  BY ReadObserves
<1>4. SeenIsObserved' /\ ConflictedDiffers'
  BY <1>1, <1>3 DEF ExtractInv, SeenIsObserved, ConflictedDiffers
<1>5. QuotesAreFirst'
  BY <1>1 DEF ExtractInv, QuotesAreFirst
<1> QED
  BY <1>2, <1>4, <1>5 DEF ExtractInv

\* One side more: rejected, first of its code, a repetition or a contradiction.
LEMMA SidePreserves ==
  ASSUME ExtractInv, NEW side \in Sides,
         RejectSide(side) \/ FirstQuote(side) \/ SameQuote(side) \/ OtherQuote(side)
  PROVE  ExtractInv'
<1>1. NextSide(side)
  BY DEF RejectSide, FirstQuote, SameQuote, OtherQuote
<1>2. Observed' = Observed \cup (IF extractable(Current, side)
                                  THEN {<<Code(side), signature(Current, side)>>} ELSE {})
  BY <1>1, SideObserves
<1>3. RowsRead'
  <2>1. rows' = rows /\ phase = side /\ phase' \in {"P", "row"}
    BY <1>1 DEF NextSide
  <2> QED
    BY <2>1 DEF ExtractInv, RowsRead, Current
<1>4. phase # "done" /\ phase' # "done"
  BY <1>1 DEF NextSide, Sides
<1>5. CASE RejectSide(side)
  <2>1. UNCHANGED <<quotes, seen, conflicted>> /\ Observed' = Observed
    BY <1>2, <1>5 DEF RejectSide, contract_vars
  <2> QED
    BY <2>1, <1>3, <1>4 DEF ExtractInv, SeenIsObserved, ConflictedDiffers, QuotesAreFirst
<1>6. CASE FirstQuote(side)
  <2> DEFINE c == Code(side)
             g == signature(Current, side)
             r == [row |-> Len(rows), signature |-> g]
  <2>1. /\ c \notin DOMAIN seen /\ seen' = With(seen, c, r)
        /\ quotes' = quotes \cup {[code |-> c, signature |-> g]}
        /\ conflicted' = conflicted /\ Observed' = Observed \cup {<<c, g>>}
    BY <1>2, <1>6 DEF FirstQuote
  <2>2. r.signature = g
    OBVIOUS
  <2> HIDE DEF c, g, r
  <2>3. /\ DOMAIN seen' = DOMAIN seen \cup {c} /\ seen'[c] = r
        /\ \A d \in DOMAIN seen : seen'[d] = seen[d]
    BY <2>1 DEF With
  <2>4. SeenIsObserved'
    BY <2>1, <2>2, <2>3 DEF ExtractInv, SeenIsObserved
  <2>5. \A p \in Observed : p[1] # c
    BY <2>1 DEF ExtractInv, SeenIsObserved
  <2>6. ConflictedDiffers'
    <3>1. conflicted' \subseteq DOMAIN seen'
      BY <2>1, <2>3 DEF ExtractInv, ConflictedDiffers
    <3>2. ASSUME NEW d \in DOMAIN seen'
          PROVE  d \in conflicted' <=> \E p \in Observed' : p[1] = d /\ p[2] # seen'[d].signature
      <4>1. CASE d = c
        BY <4>1, <2>1, <2>2, <2>3, <2>5 DEF ExtractInv, ConflictedDiffers
      <4>2. CASE d # c
        BY <4>2, <2>1, <2>3 DEF ExtractInv, ConflictedDiffers
      <4> QED
        BY <4>1, <4>2
    <3> QED
      BY <3>1, <3>2 DEF ConflictedDiffers
  <2>7. QuotesAreFirst'
    BY <2>1, <2>2, <2>3, <1>4 DEF ExtractInv, QuotesAreFirst
  <2> QED
    BY <1>3, <2>4, <2>6, <2>7 DEF ExtractInv
<1>7. CASE SameQuote(side)
  <2>1. /\ Code(side) \in DOMAIN seen /\ seen[Code(side)].signature = signature(Current, side)
        /\ UNCHANGED <<quotes, seen, conflicted>>
        /\ extractable(Current, side)
    BY <1>7 DEF SameQuote, contract_vars
  <2>2. Observed' = Observed
    BY <2>1, <1>2 DEF ExtractInv, SeenIsObserved
  <2> QED
    BY <2>1, <2>2, <1>3, <1>4 DEF ExtractInv, SeenIsObserved, ConflictedDiffers, QuotesAreFirst
<1>8. CASE OtherQuote(side)
  <2> DEFINE c == Code(side)
             g == signature(Current, side)
  <2>1. /\ c \in DOMAIN seen /\ seen[c].signature # g
        /\ UNCHANGED <<quotes, seen>> /\ conflicted' = conflicted \cup {c}
        /\ Observed' = Observed \cup {<<c, g>>}
    BY <1>2, <1>8 DEF OtherQuote
  <2> HIDE DEF c, g
  <2>2. SeenIsObserved'
    BY <2>1 DEF ExtractInv, SeenIsObserved
  <2>3. ConflictedDiffers'
    <3>1. conflicted' \subseteq DOMAIN seen'
      BY <2>1 DEF ExtractInv, ConflictedDiffers
    <3>2. ASSUME NEW d \in DOMAIN seen'
          PROVE  d \in conflicted' <=> \E p \in Observed' : p[1] = d /\ p[2] # seen'[d].signature
      <4>1. CASE d = c
        <5>1. <<c, g>> \in Observed' /\ <<c, g>>[1] = c /\ <<c, g>>[2] = g
          BY <2>1
        <5> QED
          BY <4>1, <5>1, <2>1
      <4>2. CASE d # c
        BY <4>2, <2>1 DEF ExtractInv, ConflictedDiffers
      <4> QED
        BY <4>1, <4>2
    <3> QED
      BY <3>1, <3>2 DEF ConflictedDiffers
  <2>4. QuotesAreFirst'
    BY <2>1, <1>4 DEF ExtractInv, QuotesAreFirst
  <2> QED
    BY <1>3, <2>2, <2>3, <2>4 DEF ExtractInv
<1> QED
  BY <1>5, <1>6, <1>7, <1>8

\* The last step only drops the conflicts.
LEMMA FinishPreserves ==
  ASSUME ExtractInv, Finish
  PROVE  ExtractInv'
<1>1. /\ phase = "row" /\ phase' = "done" /\ UNCHANGED <<rows, seen, conflicted>>
      /\ quotes' = {q \in quotes : q.code \notin conflicted}
  BY DEF Finish
<1>2. Collected' = Collected
  BY <1>1 DEF Collected
<1>3. Observed' = Observed
  BY <1>1, <1>2 DEF Observed, Occurrences, CodeOf, SignatureOf
<1>4. RowsRead' /\ SeenIsObserved' /\ ConflictedDiffers'
  BY <1>1, <1>3 DEF ExtractInv, RowsRead, SeenIsObserved, ConflictedDiffers, Sides
<1>5. quotes = {[code |-> c, signature |-> seen[c].signature] : c \in DOMAIN seen}
  BY <1>1 DEF ExtractInv, QuotesAreFirst
<1>6. QuotesAreFirst'
  BY <1>1, <1>5 DEF QuotesAreFirst
<1> QED
  BY <1>4, <1>6 DEF ExtractInv

LEMMA StutterExtract == ExtractInv /\ UNCHANGED vars => ExtractInv'
BY DEF vars, contract_vars, ExtractInv, RowsRead, Current, SeenIsObserved, ConflictedDiffers,
       QuotesAreFirst, Observed, Occurrences, Collected, CodeOf, SignatureOf

\* The quotes at the end, told from the observations.
LEMMA InvKeeps == ExtractInv => KeptIffUnanimous
<1> SUFFICES ASSUME ExtractInv, phase = "done"
             PROVE  quotes = {[code |-> CodeOf(o), signature |-> SignatureOf(o)] :
                      o \in {p \in Occurrences : \A r \in Occurrences : ~Contradict(p, r)}}
  BY DEF KeptIffUnanimous
<1> DEFINE Agreed == {p \in Occurrences : \A r \in Occurrences : ~Contradict(p, r)}
<1>1. ASSUME NEW o \in Occurrences
      PROVE  \E p \in Observed : p[1] = CodeOf(o) /\ p[2] = SignatureOf(o)
  <2> DEFINE p == <<CodeOf(o), SignatureOf(o)>>
  <2>1. p \in Observed /\ p[1] = CodeOf(o) /\ p[2] = SignatureOf(o)
    BY DEF Observed
  <2> QED
    BY <2>1
<1>2. quotes = {[code |-> c, signature |-> seen[c].signature] : c \in DOMAIN seen \ conflicted}
  BY DEF ExtractInv, QuotesAreFirst
<1>3. ASSUME NEW o \in Agreed
      PROVE  CodeOf(o) \in DOMAIN seen \ conflicted /\ seen[CodeOf(o)].signature = SignatureOf(o)
  <2>1. CodeOf(o) \in DOMAIN seen
    BY <1>1 DEF ExtractInv, SeenIsObserved
  <2>2. \A p \in Observed : p[1] = CodeOf(o) => p[2] = SignatureOf(o)
    BY DEF Observed, Contradict
  <2> DEFINE first == <<CodeOf(o), seen[CodeOf(o)].signature>>
  <2>3. first \in Observed /\ first[1] = CodeOf(o) /\ first[2] = seen[CodeOf(o)].signature
    BY <2>1 DEF ExtractInv, SeenIsObserved
  <2> HIDE DEF first
  <2>4. seen[CodeOf(o)].signature = SignatureOf(o)
    BY <2>2, <2>3
  <2> QED
    BY <2>1, <2>2, <2>4 DEF ExtractInv, ConflictedDiffers
<1>4. ASSUME NEW c \in DOMAIN seen \ conflicted
      PROVE  \E o \in Agreed : CodeOf(o) = c /\ SignatureOf(o) = seen[c].signature
  <2>1. PICK o \in Occurrences : CodeOf(o) = c /\ SignatureOf(o) = seen[c].signature
    BY DEF ExtractInv, SeenIsObserved, Observed
  <2>2. \A p \in Observed : p[1] = c => p[2] = seen[c].signature
    BY DEF ExtractInv, ConflictedDiffers
  <2>3. \A r \in Occurrences : CodeOf(r) = c => SignatureOf(r) = seen[c].signature
    BY <1>1, <2>2
  <2> QED
    BY <2>1, <2>3 DEF Contradict
<1> HIDE DEF Agreed
<1>5. quotes = {[code |-> CodeOf(o), signature |-> SignatureOf(o)] : o \in Agreed}
  BY <1>2, <1>3, <1>4
<1> QED
  BY <1>5 DEF Agreed

\* extract records a contract exactly when all its observations agree, for
\* answers of any length.
THEOREM NeverChooses == Spec => []KeptIffUnanimous
<1>1. ExtractInv /\ [Next]_vars => ExtractInv'
  BY ReadPreserves, SidePreserves, FinishPreserves, StutterExtract DEF Next
<1> QED
  BY InitExtract, <1>1, InvKeeps, PTL DEF Spec

-----------------------------------------------------------------------------
(* Both sides of a contradiction can be found again. *)

\* The entries K report code c at row i.
Reported(K, c, i) == \E k \in K : k.kind = "contract" /\ k.key = c /\ k.row = i

\* The row noted for a code holds its first observation; ...
FirstsPlaced ==
  \A c \in DOMAIN seen :
    \E o \in Occurrences :
      CodeOf(o) = c /\ SignatureOf(o) = seen[c].signature /\ o.row = seen[c].row

\* ... it is reported once the code is in conflict, and so is every observation
\* that differs from the first.
ConflictsReported ==
  /\ \A c \in conflicted : Reported(conflicts, c, seen[c].row)
  /\ \A o \in Occurrences :
       SignatureOf(o) # seen[CodeOf(o)].signature => Reported(conflicts, CodeOf(o), o.row)

TraceInv == FirstsPlaced /\ ConflictsReported

LEMMA CodesSeen ==
  ASSUME ExtractInv, NEW o \in Occurrences
  PROVE  /\ CodeOf(o) \in DOMAIN seen
         /\ SignatureOf(o) # seen[CodeOf(o)].signature => CodeOf(o) \in conflicted
<1> DEFINE p == <<CodeOf(o), SignatureOf(o)>>
<1>1. p \in Observed /\ p[1] = CodeOf(o) /\ p[2] = SignatureOf(o)
  BY DEF Observed
<1> HIDE DEF p
<1> QED
  BY <1>1 DEF ExtractInv, SeenIsObserved, ConflictedDiffers

LEMMA InitTrace == Init => TraceInv
<1> SUFFICES ASSUME Init PROVE TraceInv
  OBVIOUS
<1>1. rows = << >> /\ DOMAIN seen = {} /\ conflicted = {}
  BY DEF Init
<1>2. Occurrences = {}
  BY <1>1 DEF Occurrences, Collected
<1> QED
  BY <1>1, <1>2 DEF TraceInv, FirstsPlaced, ConflictsReported

\* Entries are only ever added.
LEMMA ConflictsGrow ==
  ASSUME [Next]_vars PROVE conflicts \subseteq conflicts'
BY DEF Next, vars, RejectRow, ReadRow, collect_underlying, NewUnderlying, SameUnderlying,
       OtherUnderlying, RejectSide, FirstQuote, SameQuote, OtherQuote, Finish

\* Where neither the sides nor the tables of contracts change, nothing is lost.
LEMMA TraceKept ==
  ASSUME TraceInv, Occurrences' = Occurrences, UNCHANGED <<seen, conflicted>>,
         conflicts \subseteq conflicts',
         \A o \in Occurrences : CodeOf(o)' = CodeOf(o) /\ SignatureOf(o)' = SignatureOf(o)
  PROVE  TraceInv'
<1>1. \A c, i : Reported(conflicts, c, i) => Reported(conflicts', c, i)
  BY DEF Reported
<1>2. FirstsPlaced'
  BY DEF TraceInv, FirstsPlaced
<1>3. ConflictsReported'
  BY <1>1 DEF TraceInv, ConflictsReported
<1> QED
  BY <1>2, <1>3 DEF TraceInv

LEMMA SideTraces ==
  ASSUME ExtractInv, TraceInv, NEW side \in Sides, conflicts \subseteq conflicts',
         RejectSide(side) \/ FirstQuote(side) \/ SameQuote(side) \/ OtherQuote(side)
  PROVE  TraceInv'
<1>1. NextSide(side)
  BY DEF RejectSide, FirstQuote, SameQuote, OtherQuote
<1> DEFINE new == Here(side)
           c == Code(side)
           g == signature(Current, side)
<1>2. /\ rows' = rows
      /\ Occurrences' = Occurrences \cup (IF extractable(Current, side) THEN {new} ELSE {})
      /\ CodeOf(new) = c /\ SignatureOf(new) = g
  BY <1>1, SideCollects
<1>3. \A o : CodeOf(o)' = CodeOf(o) /\ SignatureOf(o)' = SignatureOf(o)
  BY <1>2 DEF CodeOf, SignatureOf
<1>4. new.row = Len(rows)
  BY DEF Here
<1>5. \A d, i : Reported(conflicts, d, i) => Reported(conflicts', d, i)
  BY DEF Reported
<1>6. CASE RejectSide(side)
  <2>1. Occurrences' = Occurrences /\ UNCHANGED <<seen, conflicted>>
    BY <1>2, <1>6 DEF RejectSide, contract_vars
  <2> QED
    BY <2>1, <1>3, TraceKept
<1>7. CASE FirstQuote(side)
  <2> DEFINE r == [row |-> Len(rows), signature |-> g]
  <2>1. /\ c \notin DOMAIN seen /\ seen' = With(seen, c, r) /\ conflicted' = conflicted
        /\ Occurrences' = Occurrences \cup {new}
    BY <1>2, <1>7 DEF FirstQuote
  <2>2. r.signature = g /\ r.row = Len(rows)
    OBVIOUS
  <2>3. conflicted \subseteq DOMAIN seen
    BY DEF ExtractInv, ConflictedDiffers
  <2>4. \A o \in Occurrences : CodeOf(o) \in DOMAIN seen
    BY CodesSeen
  <2> HIDE DEF c, g, r, new
  <2>5. /\ DOMAIN seen' = DOMAIN seen \cup {c} /\ seen'[c] = r
        /\ \A d \in DOMAIN seen : seen'[d] = seen[d]
    BY <2>1 DEF With
  <2>6. FirstsPlaced'
    <3>1. ASSUME NEW d \in DOMAIN seen'
          PROVE  \E o \in Occurrences' :
                   CodeOf(o) = d /\ SignatureOf(o) = seen'[d].signature /\ o.row = seen'[d].row
      <4>1. CASE d = c
        BY <4>1, <2>1, <2>2, <2>5, <1>2, <1>4
      <4>2. CASE d \in DOMAIN seen
        BY <4>2, <2>1, <2>5 DEF TraceInv, FirstsPlaced
      <4> QED
        BY <4>1, <4>2, <2>5
    <3> QED
      BY <3>1, <1>3 DEF FirstsPlaced
  <2>7. ConflictsReported'
    <3>1. \A d \in conflicted' : Reported(conflicts', d, seen'[d].row)
      BY <2>1, <2>3, <2>5, <1>5 DEF TraceInv, ConflictsReported
    <3>2. ASSUME NEW o \in Occurrences', SignatureOf(o) # seen'[CodeOf(o)].signature
          PROVE  Reported(conflicts', CodeOf(o), o.row)
      <4>1. CASE o = new
        BY <4>1, <3>2, <2>2, <2>5, <1>2
      <4>2. CASE o \in Occurrences
        BY <4>2, <3>2, <2>4, <2>5, <1>5 DEF TraceInv, ConflictsReported
      <4> QED
        BY <4>1, <4>2, <2>1
    <3> QED
      BY <3>1, <3>2, <1>3 DEF ConflictsReported
  <2> QED
    BY <2>6, <2>7 DEF TraceInv
<1>8. CASE SameQuote(side)
  <2>1. /\ c \in DOMAIN seen /\ seen[c].signature = g /\ UNCHANGED <<seen, conflicted>>
        /\ Occurrences' = Occurrences \cup {new}
    BY <1>2, <1>8 DEF SameQuote, contract_vars
  <2> HIDE DEF c, g, new
  <2>2. FirstsPlaced'
    BY <2>1, <1>3 DEF TraceInv, FirstsPlaced
  <2>3. ConflictsReported'
    BY <2>1, <1>2, <1>3, <1>5 DEF TraceInv, ConflictsReported
  <2> QED
    BY <2>2, <2>3 DEF TraceInv
<1>9. CASE OtherQuote(side)
  <2>1. /\ c \in DOMAIN seen /\ seen[c].signature # g
        /\ UNCHANGED <<seen>> /\ conflicted' = conflicted \cup {c}
        /\ Occurrences' = Occurrences \cup {new}
        /\ ConflictEntry(side, Len(rows), FALSE) \in conflicts'
        /\ c \notin conflicted => ConflictEntry(side, seen[c].row, TRUE) \in conflicts'
    BY <1>2, <1>9 DEF OtherQuote
  <2>2. /\ Reported(conflicts', c, Len(rows))
        /\ c \notin conflicted => Reported(conflicts', c, seen[c].row)
    <3>1. ASSUME NEW i, NEW b, ConflictEntry(side, i, b) \in conflicts' PROVE Reported(conflicts', c, i)
      <4> DEFINE k == ConflictEntry(side, i, b)
      <4>1. k \in conflicts' /\ k.kind = "contract" /\ k.key = c /\ k.row = i
        BY <3>1 DEF ConflictEntry
      <4> HIDE DEF k, c
      <4>2. \E e \in conflicts' : e.kind = "contract" /\ e.key = c /\ e.row = i
        BY <4>1
      <4> QED
        BY <4>2 DEF Reported
    <3>2. Reported(conflicts', c, Len(rows))
      BY <3>1, <2>1
    <3> QED
      BY <3>1, <3>2, <2>1
  <2> HIDE DEF c, g, new
  <2>3. FirstsPlaced'
    BY <2>1, <1>3 DEF TraceInv, FirstsPlaced
  <2>4. ConflictsReported'
    <3>1. \A d \in conflicted' : Reported(conflicts', d, seen'[d].row)
      BY <2>1, <2>2, <1>5 DEF TraceInv, ConflictsReported
    <3>2. ASSUME NEW o \in Occurrences', SignatureOf(o) # seen'[CodeOf(o)].signature
          PROVE  Reported(conflicts', CodeOf(o), o.row)
      <4>1. CASE o = new
        BY <4>1, <2>2, <1>2, <1>4
      <4>2. CASE o \in Occurrences
        BY <4>2, <3>2, <2>1, <1>5 DEF TraceInv, ConflictsReported
      <4> QED
        BY <4>1, <4>2, <2>1
    <3> QED
      BY <3>1, <3>2, <1>3 DEF ConflictsReported
  <2> QED
    BY <2>3, <2>4 DEF TraceInv
<1> QED
  BY <1>6, <1>7, <1>8, <1>9

LEMMA NextTrace == ExtractInv /\ TraceInv /\ [Next]_vars => TraceInv'
<1> SUFFICES ASSUME ExtractInv, TraceInv, [Next]_vars PROVE TraceInv'
  OBVIOUS
<1>1. conflicts \subseteq conflicts'
  BY ConflictsGrow
<1>2. ASSUME NEW row \in Answers, RejectRow(row) \/ ReadRow(row) PROVE TraceInv'
  <2>1. UNCHANGED <<seen, conflicted>>
    BY <1>2 DEF RejectRow, ReadRow, contract_vars
  <2> QED
    BY <1>1, <1>2, <2>1, ReadCollects, TraceKept
<1>3. CASE Finish \/ UNCHANGED vars
  <2>1. UNCHANGED <<rows, seen, conflicted>>
    BY <1>3 DEF Finish, vars, contract_vars
  <2>2. Collected' = Collected
    BY <1>3 DEF Collected, Finish, vars
  <2>3. /\ Occurrences' = Occurrences
        /\ \A o \in Occurrences : CodeOf(o)' = CodeOf(o) /\ SignatureOf(o)' = SignatureOf(o)
    BY <2>1, <2>2 DEF Occurrences, CodeOf, SignatureOf
  <2> QED
    BY <2>1, <2>3, <1>1, TraceKept
<1> QED
  BY <1>1, <1>2, <1>3, SideTraces DEF Next

LEMMA InvTraces == ExtractInv /\ TraceInv => ContradictionsTraceable
<1> SUFFICES ASSUME ExtractInv, TraceInv, NEW o \in Occurrences, NEW p \in Occurrences,
                    Contradict(o, p)
             PROVE  \E q \in Occurrences :
                      /\ CodeOf(q) = CodeOf(o) /\ SignatureOf(q) = SignatureOf(o)
                      /\ Reported(conflicts, CodeOf(o), q.row)
  BY DEF ContradictionsTraceable, Reported
<1>1. CASE SignatureOf(o) # seen[CodeOf(o)].signature
  BY <1>1 DEF TraceInv, ConflictsReported
<1>2. CASE SignatureOf(o) = seen[CodeOf(o)].signature
  <2>1. CodeOf(o) \in conflicted /\ CodeOf(o) \in DOMAIN seen
    BY <1>2, CodesSeen DEF Contradict
  <2> QED
    BY <2>1, <1>2 DEF TraceInv, FirstsPlaced, ConflictsReported
<1> QED
  BY <1>1, <1>2

LEMMA NextExtract == ExtractInv /\ [Next]_vars => ExtractInv'
BY ReadPreserves, SidePreserves, FinishPreserves, StutterExtract DEF Next

\* Whatever two observations contradict each other, the conflicts lead back to
\* a row that holds each, for answers of any length.
THEOREM ConflictsLeadBack == Spec => []ContradictionsTraceable
BY InitExtract, NextExtract, InitTrace, NextTrace, InvTraces, PTL DEF Spec

-----------------------------------------------------------------------------
(* What was refused, and the underlyings. *)

\* Rejected are the rows that are no dictionaries and the sides without a code
\* or a symbol, and nothing else.
JunkRows == {i \in DOMAIN rows : rows[i] = Junk}
RejectedIsRefused ==
  rejected = {[row |-> i, side |-> "-"] : i \in JunkRows} \cup (Collected \ Occurrences)

\* What the rows read so far said of the underlyings.
Quoted == {<<rows[i].symbol, rows[i].prices>> :
             i \in {j \in DOMAIN rows : rows[j] # Junk /\ rows[j].symbol # NoText}}

UnderlyingsAreFirst ==
  /\ \A p \in Quoted : p[1] \in DOMAIN seen_underlying
  /\ \A s \in DOMAIN seen_underlying : <<s, seen_underlying[s]>> \in Quoted
  /\ conflicted_underlying \subseteq DOMAIN seen_underlying
  /\ \A s \in DOMAIN seen_underlying :
       s \in conflicted_underlying <=> \E p \in Quoted : p[1] = s /\ p[2] # seen_underlying[s]
  /\ underlyings = {[symbol |-> s, prices |-> seen_underlying[s]] :
       s \in DOMAIN seen_underlying \ (IF phase = "done" THEN conflicted_underlying ELSE {})}

\* An entry of the conflicts comes with a code or a symbol in conflict.
ConflictsHaveCause == conflicts = {} <=> conflicted = {} /\ conflicted_underlying = {}

FiniteResult == IsFiniteSet(quotes) /\ IsFiniteSet(underlyings)

CleanInv == RejectedIsRefused /\ UnderlyingsAreFirst /\ ConflictsHaveCause /\ FiniteResult

LEMMA InitClean == Init => CleanInv
<1> SUFFICES ASSUME Init PROVE CleanInv
  OBVIOUS
<1>1. /\ rows = << >> /\ DOMAIN seen_underlying = {} /\ conflicted = {} /\ conflicted_underlying = {}
      /\ quotes = {} /\ underlyings = {} /\ rejected = {} /\ conflicts = {}
  BY DEF Init
<1>2. Collected = {} /\ JunkRows = {} /\ Quoted = {}
  BY <1>1 DEF Collected, JunkRows, Quoted
<1>3. RejectedIsRefused
  BY <1>1, <1>2 DEF RejectedIsRefused
<1>4. UnderlyingsAreFirst
  BY <1>1, <1>2 DEF UnderlyingsAreFirst
<1>5. FiniteResult
  BY <1>1, FS_EmptySet DEF FiniteResult
<1> QED
  BY <1>1, <1>3, <1>4, <1>5 DEF CleanInv, ConflictsHaveCause

\* A row that was read adds what it says of its underlying.
LEMMA ReadQuotes ==
  ASSUME rows \in Seq(Answers), NEW row \in Answers, rows' = Append(rows, row)
  PROVE  /\ Quoted' = Quoted \cup (IF row # Junk /\ row.symbol # NoText
                                    THEN {<<row.symbol, row.prices>>} ELSE {})
         /\ JunkRows' = JunkRows \cup (IF row = Junk THEN {Len(rows')} ELSE {})
<1> DEFINE n == Len(rows) + 1
<1>1. /\ DOMAIN rows' = DOMAIN rows \cup {n} /\ n \notin DOMAIN rows /\ rows'[n] = row
      /\ \A i \in DOMAIN rows : rows'[i] = rows[i]
      /\ Len(rows') = n
  OBVIOUS
<1> HIDE DEF n
<1>2. JunkRows' = JunkRows \cup (IF row = Junk THEN {n} ELSE {})
  BY <1>1 DEF JunkRows
<1>3. Quoted' = Quoted \cup (IF row # Junk /\ row.symbol # NoText
                             THEN {<<row.symbol, row.prices>>} ELSE {})
  BY <1>1 DEF Quoted
<1> QED
  BY <1>1, <1>2, <1>3

LEMMA ReadRefuses ==
  ASSUME ExtractInv, RejectedIsRefused, NEW row \in Answers, RejectRow(row) \/ ReadRow(row)
  PROVE  RejectedIsRefused'
<1>1. Collected' = Collected /\ Occurrences' = Occurrences
  BY ReadCollects
<1>2. rows \in Seq(Answers) /\ rows' = Append(rows, row)
  BY DEF ExtractInv, RowsRead, RejectRow, ReadRow, Read
<1>3. JunkRows' = JunkRows \cup (IF row = Junk THEN {Len(rows')} ELSE {})
  BY <1>2, ReadQuotes
<1>4. CASE RejectRow(row)
  <2>1. row = Junk /\ rejected' = rejected \cup {[row |-> Len(rows'), side |-> "-"]}
    BY <1>4 DEF RejectRow
  <2> QED
    BY <2>1, <1>1, <1>3 DEF RejectedIsRefused
<1>5. CASE ReadRow(row)
  <2>1. row # Junk /\ rejected' = rejected
    BY <1>5 DEF ReadRow
  <2> QED
    BY <2>1, <1>1, <1>3 DEF RejectedIsRefused
<1> QED
  BY <1>4, <1>5

LEMMA ReadUnderlyings ==
  ASSUME ExtractInv, UnderlyingsAreFirst, NEW row \in Answers, RejectRow(row) \/ ReadRow(row)
  PROVE  UnderlyingsAreFirst'
<1>1. rows \in Seq(Answers) /\ rows' = Append(rows, row) /\ phase # "done" /\ phase' # "done"
  BY DEF ExtractInv, RowsRead, RejectRow, ReadRow, Read
<1>2. Quoted' = Quoted \cup (IF row # Junk /\ row.symbol # NoText
                             THEN {<<row.symbol, row.prices>>} ELSE {})
  BY <1>1, ReadQuotes
<1>3. CASE UNCHANGED underlying_vars /\ Quoted' = Quoted
  BY <1>1, <1>3 DEF underlying_vars, UnderlyingsAreFirst
<1> DEFINE s == row.symbol
           v == row.prices
<1>4. ASSUME Quoted' = Quoted \cup {<<s, v>>},
             NewUnderlying(row) \/ SameUnderlying(row) \/ OtherUnderlying(row)
      PROVE  UnderlyingsAreFirst'
  <2>1. CASE NewUnderlying(row)
    <3>1. /\ s \notin DOMAIN seen_underlying /\ seen_underlying' = With(seen_underlying, s, v)
          /\ underlyings' = underlyings \cup {[symbol |-> s, prices |-> v]}
          /\ conflicted_underlying' = conflicted_underlying
      BY <2>1 DEF NewUnderlying
    <3> HIDE DEF s, v
    <3>2. /\ DOMAIN seen_underlying' = DOMAIN seen_underlying \cup {s} /\ seen_underlying'[s] = v
          /\ \A d \in DOMAIN seen_underlying : seen_underlying'[d] = seen_underlying[d]
      BY <3>1 DEF With
    <3>3. \A p \in Quoted : p[1] # s
      BY <3>1 DEF UnderlyingsAreFirst
    <3>4. \A p \in Quoted' : p[1] \in DOMAIN seen_underlying'
      BY <1>4, <3>2 DEF UnderlyingsAreFirst
    <3>5. \A d \in DOMAIN seen_underlying' : <<d, seen_underlying'[d]>> \in Quoted'
      BY <1>4, <3>2 DEF UnderlyingsAreFirst
    <3>6. conflicted_underlying' \subseteq DOMAIN seen_underlying'
      BY <3>1, <3>2 DEF UnderlyingsAreFirst
    <3>7. ASSUME NEW d \in DOMAIN seen_underlying'
          PROVE  d \in conflicted_underlying' <=>
                   \E p \in Quoted' : p[1] = d /\ p[2] # seen_underlying'[d]
      <4>1. CASE d = s
        BY <4>1, <1>4, <3>1, <3>2, <3>3 DEF UnderlyingsAreFirst
      <4>2. CASE d # s
        BY <4>2, <1>4, <3>1, <3>2 DEF UnderlyingsAreFirst
      <4> QED
        BY <4>1, <4>2
    <3>8. underlyings' = {[symbol |-> d, prices |-> seen_underlying'[d]] : d \in DOMAIN seen_underlying'}
      BY <1>1, <3>1, <3>2 DEF UnderlyingsAreFirst
    <3> QED
      BY <1>1, <3>4, <3>5, <3>6, <3>7, <3>8 DEF UnderlyingsAreFirst
  <2>2. CASE SameUnderlying(row)
    <3>1. /\ s \in DOMAIN seen_underlying /\ UNCHANGED <<underlyings, seen_underlying, conflicted_underlying>>
          /\ seen_underlying[s] = v \/ s \in conflicted_underlying
      BY <2>2 DEF SameUnderlying, underlying_vars
    <3> HIDE DEF s, v
    <3>2. ASSUME NEW d \in DOMAIN seen_underlying
          PROVE  (\E p \in Quoted' : p[1] = d /\ p[2] # seen_underlying[d])
                   <=> (\E p \in Quoted : p[1] = d /\ p[2] # seen_underlying[d])
      <4>1. CASE d = s
        BY <4>1, <1>4, <3>1 DEF UnderlyingsAreFirst
      <4>2. CASE d # s
        BY <4>2, <1>4
      <4> QED
        BY <4>1, <4>2
    <3>3. \A p \in Quoted' : p[1] \in DOMAIN seen_underlying
      BY <1>4, <3>1 DEF UnderlyingsAreFirst
    <3> QED
      BY <1>1, <1>4, <3>1, <3>2, <3>3 DEF UnderlyingsAreFirst
  <2>3. CASE OtherUnderlying(row)
    <3>1. /\ s \in DOMAIN seen_underlying /\ UNCHANGED <<underlyings, seen_underlying>>
          /\ seen_underlying[s] # v
          /\ conflicted_underlying' = conflicted_underlying \cup {s}
      BY <2>3 DEF OtherUnderlying
    <3> DEFINE new == <<s, v>>
    <3>2. new \in Quoted' /\ new[1] = s /\ new[2] = v
      BY <1>4
    <3> HIDE DEF s, v, new
    <3>3. ASSUME NEW d \in DOMAIN seen_underlying
          PROVE  d \in conflicted_underlying' <=>
                   \E p \in Quoted' : p[1] = d /\ p[2] # seen_underlying[d]
      <4>1. CASE d = s
        BY <4>1, <3>1, <3>2
      <4>2. CASE d # s
        BY <4>2, <1>4, <3>1 DEF UnderlyingsAreFirst
      <4> QED
        BY <4>1, <4>2
    <3>4. \A p \in Quoted' : p[1] \in DOMAIN seen_underlying
      BY <1>4, <3>1 DEF UnderlyingsAreFirst
    <3> QED
      BY <1>1, <1>4, <3>1, <3>3, <3>4 DEF UnderlyingsAreFirst
  <2> QED
    BY <1>4, <2>1, <2>2, <2>3
<1>5. CASE RejectRow(row)
  <2>1. row = Junk /\ UNCHANGED underlying_vars
    BY <1>5 DEF RejectRow
  <2> QED
    BY <2>1, <1>2, <1>3
<1>6. CASE ReadRow(row)
  <2>1. row # Junk /\ collect_underlying(row)
    BY <1>6 DEF ReadRow
  <2>2. CASE row.symbol = NoText
    BY <2>1, <2>2, <1>2, <1>3 DEF collect_underlying
  <2>3. CASE row.symbol # NoText
    BY <2>1, <2>3, <1>2, <1>4 DEF collect_underlying
  <2> QED
    BY <2>2, <2>3
<1> QED
  BY <1>5, <1>6

LEMMA ReadClean ==
  ASSUME ExtractInv, CleanInv, NEW row \in Answers, RejectRow(row) \/ ReadRow(row)
  PROVE  CleanInv'
<1>1. RejectedIsRefused' /\ UnderlyingsAreFirst'
  BY ReadRefuses, ReadUnderlyings DEF CleanInv
<1>2. UNCHANGED <<quotes, conflicted>>
  BY DEF RejectRow, ReadRow, contract_vars
<1>3. \/ UNCHANGED <<underlyings, conflicted_underlying, conflicts>>
      \/ NewUnderlying(row) \/ OtherUnderlying(row)
  BY DEF RejectRow, ReadRow, collect_underlying, SameUnderlying, underlying_vars
<1>4. ConflictsHaveCause' /\ FiniteResult'
  <2>1. CASE UNCHANGED <<underlyings, conflicted_underlying, conflicts>>
    BY <2>1, <1>2 DEF CleanInv, ConflictsHaveCause, FiniteResult
  <2>2. CASE NewUnderlying(row)
    <3>1. /\ underlyings' = underlyings \cup {[symbol |-> row.symbol, prices |-> row.prices]}
          /\ UNCHANGED <<conflicted_underlying, conflicts>>
      BY <2>2 DEF NewUnderlying
    <3>2. IsFiniteSet(underlyings')
      BY <3>1, FS_AddElement DEF CleanInv, FiniteResult
    <3> QED
      BY <3>1, <3>2, <1>2 DEF CleanInv, ConflictsHaveCause, FiniteResult
  <2>3. CASE OtherUnderlying(row)
    <3>1. conflicts' # {} /\ conflicted_underlying' # {} /\ underlyings' = underlyings
      BY <2>3 DEF OtherUnderlying
    <3> QED
      BY <3>1, <1>2 DEF CleanInv, ConflictsHaveCause, FiniteResult
  <2> QED
    BY <1>3, <2>1, <2>2, <2>3
<1> QED
  BY <1>1, <1>4 DEF CleanInv

LEMMA SideClean ==
  ASSUME ExtractInv, CleanInv, NEW side \in Sides,
         RejectSide(side) \/ FirstQuote(side) \/ SameQuote(side) \/ OtherQuote(side)
  PROVE  CleanInv'
<1>1. NextSide(side)
  BY DEF RejectSide, FirstQuote, SameQuote, OtherQuote
<1>2. /\ rows' = rows /\ phase # "done" /\ phase' # "done"
      /\ UNCHANGED <<underlyings, seen_underlying, conflicted_underlying>>
  BY <1>1 DEF NextSide, underlying_vars, Sides
<1>3. /\ Collected' = Collected \cup {Here(side)} /\ Here(side) \notin Collected
      /\ Occurrences' = Occurrences \cup (IF extractable(Current, side) THEN {Here(side)} ELSE {})
      /\ Occurrences \subseteq Collected
  BY <1>1, SideCollects DEF Occurrences
<1>4. JunkRows' = JunkRows /\ Quoted' = Quoted
  BY <1>2 DEF JunkRows, Quoted
<1>5. UnderlyingsAreFirst'
  BY <1>2, <1>4 DEF CleanInv, UnderlyingsAreFirst
<1>6. RejectedIsRefused'
  <2>1. CASE RejectSide(side)
    <3>1. ~extractable(Current, side) /\ rejected' = rejected \cup {Here(side)}
      BY <2>1 DEF RejectSide, Here
    <3> QED
      BY <3>1, <1>3, <1>4 DEF CleanInv, RejectedIsRefused
  <2>2. CASE ~RejectSide(side)
    <3>1. extractable(Current, side) /\ rejected' = rejected
      BY <2>2 DEF FirstQuote, SameQuote, OtherQuote
    <3> QED
      BY <3>1, <1>3, <1>4 DEF CleanInv, RejectedIsRefused
  <2> QED
    BY <2>1, <2>2
<1>7. ConflictsHaveCause' /\ FiniteResult'
  <2>1. CASE UNCHANGED <<quotes, conflicts, conflicted>>
    BY <2>1, <1>2 DEF CleanInv, ConflictsHaveCause, FiniteResult
  <2>2. CASE FirstQuote(side)
    <3>1. /\ quotes' = quotes \cup {[code |-> Code(side), signature |-> signature(Current, side)]}
          /\ UNCHANGED <<conflicts, conflicted>>
      BY <2>2 DEF FirstQuote
    <3>2. IsFiniteSet(quotes')
      BY <3>1, FS_AddElement DEF CleanInv, FiniteResult
    <3> QED
      BY <3>1, <3>2, <1>2 DEF CleanInv, ConflictsHaveCause, FiniteResult
  <2>3. CASE OtherQuote(side)
    <3>1. conflicts' # {} /\ conflicted' # {} /\ quotes' = quotes
      BY <2>3 DEF OtherQuote
    <3> QED
      BY <3>1, <1>2 DEF CleanInv, ConflictsHaveCause, FiniteResult
  <2> QED
    BY <2>1, <2>2, <2>3 DEF RejectSide, SameQuote, contract_vars
<1> QED
  BY <1>5, <1>6, <1>7 DEF CleanInv

LEMMA FinishClean ==
  ASSUME CleanInv, Finish \/ UNCHANGED vars
  PROVE  CleanInv'
<1>1. /\ UNCHANGED <<rows, conflicts, conflicted, conflicted_underlying, seen_underlying, rejected>>
      /\ quotes' \subseteq quotes /\ underlyings' \subseteq underlyings
  BY DEF Finish, vars, contract_vars, underlying_vars
<1>2. Collected' = Collected
  BY DEF Finish, vars, Collected
<1>3. Occurrences' = Occurrences /\ JunkRows' = JunkRows /\ Quoted' = Quoted
  BY <1>1, <1>2 DEF Occurrences, JunkRows, Quoted
<1>4. FiniteResult'
  BY <1>1, FS_Subset DEF CleanInv, FiniteResult
<1>5. underlyings' = {[symbol |-> s, prices |-> seen_underlying'[s]] :
        s \in DOMAIN seen_underlying' \ (IF phase' = "done" THEN conflicted_underlying' ELSE {})}
  <2>1. CASE Finish
    <3>1. /\ phase = "row" /\ phase' = "done"
          /\ underlyings' = {u \in underlyings : u.symbol \notin conflicted_underlying}
      BY <2>1 DEF Finish
    <3>2. underlyings = {[symbol |-> s, prices |-> seen_underlying[s]] : s \in DOMAIN seen_underlying}
      BY <3>1 DEF CleanInv, UnderlyingsAreFirst
    <3> QED
      BY <3>1, <3>2, <1>1
  <2>2. CASE UNCHANGED vars
    BY <2>2 DEF vars, underlying_vars, CleanInv, UnderlyingsAreFirst
  <2> QED
    BY <2>1, <2>2
<1>6. UnderlyingsAreFirst'
  BY <1>1, <1>3, <1>5 DEF CleanInv, UnderlyingsAreFirst
<1> QED
  BY <1>1, <1>2, <1>3, <1>4, <1>6 DEF CleanInv, RejectedIsRefused, ConflictsHaveCause

LEMMA NextClean == ExtractInv /\ CleanInv /\ [Next]_vars => CleanInv'
BY ReadClean, SideClean, FinishClean DEF Next

\* The numbers of a side that was collected are numbers of a side.
LEMMA SideNumbers ==
  ASSUME RowsRead, NEW o \in Occurrences
  PROVE  /\ SignatureOf(o)[3] = rows[o.row][o.side].values
         /\ rows[o.row][o.side].values \in Numbers
         /\ Refused[rows[o.row][o.side].values] \in Nat
<1>1. o.row \in 1 .. Len(rows) /\ o.side \in Sides /\ rows[o.row] # Junk
  BY DEF Occurrences, Collected
<1>2. rows[o.row] \in DictRows
  BY <1>1, RowAssumption DEF RowsRead
<1>3. rows[o.row][o.side] \in SideData
  BY <1>1, <1>2 DEF DictRows, Sides
<1>4. rows[o.row][o.side].values \in Numbers
  BY <1>3 DEF SideData
<1>5. Refused[rows[o.row][o.side].values] \in Nat
  BY <1>4, RowAssumption
<1> QED
  BY <1>4, <1>5 DEF SignatureOf, signature

\* As many entries for each x as f says.
Entries(S, f) == UNION {{x} \X (1..f[x]) : x \in S}

\* There is no entry at all exactly when f is zero everywhere.
LEMMA NoEntries ==
  ASSUME NEW S, IsFiniteSet(S), NEW f \in [S -> Nat]
  PROVE  /\ Cardinality(Entries(S, f)) \in Nat
         /\ Cardinality(Entries(S, f)) = 0 <=> \A x \in S : f[x] = 0
<1> DEFINE T == {{x} \X (1..f[x]) : x \in S}
           g == [x \in S |-> {x} \X (1..f[x])]
<1>1. g \in Surjection(S, T)
  BY DEF Surjection
<1>2. IsFiniteSet(T)
  <2> HIDE DEF g, T
  <2> QED
    BY <1>1, FS_Surjection
<1>3. ASSUME NEW x \in S PROVE IsFiniteSet({x} \X (1..f[x]))
  <2>1. IsFiniteSet({x}) /\ f[x] \in Int
    BY FS_Singleton
  <2>2. IsFiniteSet(1..f[x])
    BY <2>1, FS_Interval
  <2> QED
    BY <2>1, <2>2, FS_Product
<1>4. \A U \in T : IsFiniteSet(U)
  BY <1>3
<1>5. IsFiniteSet(UNION T)
  <2> HIDE DEF T
  <2> QED
    BY <1>2, <1>4, FS_UNION
<1>6. Entries(S, f) = UNION T
  BY DEF Entries
<1>7. UNION T = {} <=> \A x \in S : f[x] = 0
  <2>1. ASSUME NEW x \in S, f[x] # 0 PROVE UNION T # {}
    <3>1. 1 \in 1..f[x]
      BY <2>1
    <3>2. <<x, 1>> \in {x} \X (1..f[x])
      BY <3>1
    <3> QED
      BY <3>2
  <2>2. ASSUME \A x \in S : f[x] = 0 PROVE UNION T = {}
    <3>1. \A x \in S : 1..f[x] = {}
      BY <2>2
    <3> QED
      BY <3>1
  <2> QED
    BY <2>1, <2>2
<1> QED
  <2> HIDE DEF T
  <2> QED
    BY <1>5, <1>6, <1>7, FS_EmptySet, FS_CardinalityType

\* Told from the rows: no number of a recorded quote or underlying was refused.
LEMMA NothingRefused ==
  ASSUME ExtractInv, CleanInv, phase = "done", conflicted = {}, conflicted_underlying = {}
  PROVE  invalid_field_count = 0 <=>
           /\ \A o \in Occurrences : Refused[rows[o.row][o.side].values] = 0
           /\ \A p \in Quoted : Refused[p[2]] = 0
<1> DEFINE fq == [q \in quotes |-> Refused[q.signature[3]]]
           fu == [u \in underlyings |-> Refused[u.prices]]
<1>1. ASSUME NEW q \in quotes
      PROVE  \E o \in Occurrences : q.signature = SignatureOf(o)
  <2>1. PICK c \in DOMAIN seen : q = [code |-> c, signature |-> seen[c].signature]
    BY DEF ExtractInv, QuotesAreFirst
  <2>2. <<c, seen[c].signature>> \in Observed
    BY DEF ExtractInv, SeenIsObserved
  <2> QED
    BY <2>1, <2>2 DEF Observed
<1>2. ASSUME NEW o \in Occurrences
      PROVE  \E q \in quotes : q.signature = SignatureOf(o)
  <2>1. CodeOf(o) \in DOMAIN seen /\ SignatureOf(o) = seen[CodeOf(o)].signature
    BY CodesSeen
  <2> DEFINE q == [code |-> CodeOf(o), signature |-> seen[CodeOf(o)].signature]
  <2>2. q \in quotes /\ q.signature = SignatureOf(o)
    BY <2>1 DEF ExtractInv, QuotesAreFirst
  <2> QED
    BY <2>2
<1>3. ASSUME NEW u \in underlyings
      PROVE  \E p \in Quoted : p[2] = u.prices
  <2>1. PICK s \in DOMAIN seen_underlying : u = [symbol |-> s, prices |-> seen_underlying[s]]
    BY DEF CleanInv, UnderlyingsAreFirst
  <2> DEFINE p == <<s, seen_underlying[s]>>
  <2>2. p \in Quoted /\ p[2] = u.prices
    BY <2>1 DEF CleanInv, UnderlyingsAreFirst
  <2> QED
    BY <2>2
<1>4. ASSUME NEW p \in Quoted
      PROVE  \E u \in underlyings : u.prices = p[2]
  <2>1. p[1] \in DOMAIN seen_underlying /\ p[2] = seen_underlying[p[1]]
    BY DEF CleanInv, UnderlyingsAreFirst
  <2> DEFINE u == [symbol |-> p[1], prices |-> seen_underlying[p[1]]]
  <2>2. u \in underlyings /\ u.prices = p[2]
    BY <2>1 DEF CleanInv, UnderlyingsAreFirst
  <2> QED
    BY <2>2
<1>5. fq \in [quotes -> Nat]
  <2>1. ASSUME NEW q \in quotes PROVE Refused[q.signature[3]] \in Nat
    <3>1. PICK o \in Occurrences : q.signature = SignatureOf(o)
      BY <1>1
    <3> QED
      BY <3>1, SideNumbers DEF ExtractInv
  <2> QED
    BY <2>1
<1>6. \A p \in Quoted : Refused[p[2]] \in Nat
  <2> TAKE p \in Quoted
  <2>1. PICK i \in DOMAIN rows : rows[i] # Junk /\ p = <<rows[i].symbol, rows[i].prices>>
    BY DEF Quoted
  <2>2. rows[i] \in DictRows
    BY <2>1, RowAssumption DEF ExtractInv, RowsRead
  <2>3. rows[i].prices \in Prices
    BY <2>2 DEF DictRows
  <2> QED
    BY <2>1, <2>3, RowAssumption
<1>7. fu \in [underlyings -> Nat]
  BY <1>3, <1>6
<1> DEFINE nq == Cardinality(Entries(quotes, fq))
           nu == Cardinality(Entries(underlyings, fu))
<1>8. /\ nq \in Nat /\ nu \in Nat
      /\ nq = 0 <=> \A q \in quotes : fq[q] = 0
      /\ nu = 0 <=> \A u \in underlyings : fu[u] = 0
  <2> HIDE DEF fq, fu
  <2> QED
    BY <1>5, <1>7, NoEntries DEF CleanInv, FiniteResult
<1>9. invalid_field_count = nq + nu
  <2>1. \A q \in quotes : fq[q] = Refused[q.signature[3]]
    OBVIOUS
  <2>2. \A u \in underlyings : fu[u] = Refused[u.prices]
    OBVIOUS
  <2>3. Entries(quotes, fq) = UNION {{q} \X (1..Refused[q.signature[3]]) : q \in quotes}
    BY <2>1 DEF Entries
  <2>4. Entries(underlyings, fu) = UNION {{u} \X (1..Refused[u.prices]) : u \in underlyings}
    BY <2>2 DEF Entries
  <2> QED
    BY <2>3, <2>4 DEF invalid_field_count
<1>10. invalid_field_count = 0 <=> nq = 0 /\ nu = 0
  <2> HIDE DEF nq, nu
  <2> QED
    BY <1>8, <1>9
<1>11. (\A q \in quotes : fq[q] = 0) <=>
         \A o \in Occurrences : Refused[rows[o.row][o.side].values] = 0
  <2>1. \A o \in Occurrences : SignatureOf(o)[3] = rows[o.row][o.side].values
    BY SideNumbers DEF ExtractInv
  <2> QED
    BY <2>1, <1>1, <1>2
<1>12. (\A u \in underlyings : fu[u] = 0) <=> \A p \in Quoted : Refused[p[2]] = 0
  BY <1>3, <1>4
<1> QED
  BY <1>8, <1>10, <1>11, <1>12

\* No code and no symbol is in conflict exactly when all observations agree.
LEMMA NothingInConflict ==
  ASSUME ExtractInv, CleanInv
  PROVE  /\ conflicted = {} <=> \A o, p \in Occurrences : ~Contradict(o, p)
         /\ conflicted_underlying = {} <=> \A p, q \in Quoted : p[1] = q[1] => p[2] = q[2]
<1>1. ASSUME conflicted = {}, NEW o \in Occurrences, NEW p \in Occurrences
      PROVE  ~Contradict(o, p)
  BY <1>1, CodesSeen DEF Contradict
<1>2. ASSUME NEW c \in conflicted
      PROVE  \E o, p \in Occurrences : Contradict(o, p)
  <2>1. /\ c \in DOMAIN seen
        /\ \E x \in Observed : x[1] = c /\ x[2] # seen[c].signature
    BY DEF ExtractInv, ConflictedDiffers
  <2>2. PICK o \in Occurrences : CodeOf(o) = c /\ SignatureOf(o) # seen[c].signature
    BY <2>1 DEF Observed
  <2>3. PICK p \in Occurrences : CodeOf(p) = c /\ SignatureOf(p) = seen[c].signature
    BY <2>1 DEF ExtractInv, SeenIsObserved, Observed
  <2> QED
    BY <2>2, <2>3 DEF Contradict
<1>3. ASSUME conflicted_underlying = {}, NEW p \in Quoted, NEW q \in Quoted, p[1] = q[1]
      PROVE  p[2] = q[2]
  BY <1>3 DEF CleanInv, UnderlyingsAreFirst
<1>4. ASSUME NEW s \in conflicted_underlying
      PROVE  \E p, q \in Quoted : p[1] = q[1] /\ p[2] # q[2]
  <2>1. PICK p \in Quoted : p[1] = s /\ p[2] # seen_underlying[s]
    BY DEF CleanInv, UnderlyingsAreFirst
  <2> DEFINE q == <<s, seen_underlying[s]>>
  <2>2. q \in Quoted /\ q[1] = s /\ q[2] = seen_underlying[s]
    BY DEF CleanInv, UnderlyingsAreFirst
  <2> HIDE DEF q
  <2> QED
    BY <2>1, <2>2
<1> QED
  BY <1>1, <1>2, <1>3, <1>4

\* Nothing is rejected exactly when every row is a dictionary with two sides
\* that can be extracted.
LEMMA NothingRejected ==
  ASSUME ExtractInv, CleanInv
  PROVE  rejected = {} <=> (\A i \in DOMAIN rows : rows[i] # Junk) /\ Occurrences = Collected
<1>1. Occurrences \subseteq Collected
  BY DEF Occurrences
<1> QED
  BY <1>1 DEF CleanInv, RejectedIsRefused, JunkRows

LEMMA InvClean == ExtractInv /\ CleanInv => CleanIffBlameless
<1> SUFFICES ASSUME ExtractInv, CleanInv, phase = "done" PROVE CleanIffBlameless
  BY DEF CleanIffBlameless
<1> DEFINE
      Whole == (\A i \in DOMAIN rows : rows[i] # Junk) /\ Occurrences = Collected
      Agree == \A o, p \in Occurrences : ~Contradict(o, p)
      AgreeU == \A p, q \in Quoted : p[1] = q[1] => p[2] = q[2]
      Valid == \A o \in Occurrences : Refused[rows[o.row][o.side].values] = 0
      ValidU == \A p \in Quoted : Refused[p[2]] = 0
      Rows == \A i \in DOMAIN rows : rows[i].symbol # NoText =>
                /\ Refused[rows[i].prices] = 0
                /\ \A j \in DOMAIN rows :
                     rows[j].symbol = rows[i].symbol => rows[j].prices = rows[i].prices
<1>1. is_clean <=> Whole /\ Agree /\ AgreeU /\ Valid /\ ValidU
  <2>1. conflicts = {} <=> Agree /\ AgreeU
    BY NothingInConflict DEF CleanInv, ConflictsHaveCause
  <2>2. rejected = {} <=> Whole
    BY NothingRejected
  <2>3. ASSUME Agree, AgreeU PROVE invalid_field_count = 0 <=> Valid /\ ValidU
    BY <2>3, NothingInConflict, NothingRefused
  <2> HIDE DEF Whole, Agree, AgreeU, Valid, ValidU
  <2> QED
    BY <2>1, <2>2, <2>3 DEF is_clean
<1>2. ASSUME Whole PROVE Rows <=> AgreeU /\ ValidU
  <2>1. ASSUME NEW i \in DOMAIN rows, rows[i].symbol # NoText
        PROVE  \E p \in Quoted : p[1] = rows[i].symbol /\ p[2] = rows[i].prices
    <3> DEFINE p == <<rows[i].symbol, rows[i].prices>>
    <3>1. p \in Quoted /\ p[1] = rows[i].symbol /\ p[2] = rows[i].prices
      BY <1>2, <2>1 DEF Quoted
    <3> QED
      BY <3>1
  <2>2. ASSUME NEW p \in Quoted
        PROVE  \E i \in DOMAIN rows : /\ rows[i].symbol # NoText
                                      /\ p[1] = rows[i].symbol /\ p[2] = rows[i].prices
    BY DEF Quoted
  <2>3. ASSUME Rows PROVE AgreeU /\ ValidU
    BY <2>2, <2>3
  <2>4. ASSUME AgreeU, ValidU PROVE Rows
    BY <2>1, <2>4
  <2> QED
    BY <2>3, <2>4
<1> QED
  BY <1>1, <1>2 DEF CleanIffBlameless

\* A snapshot is called clean exactly when the answer was blameless, for answers
\* of any length.
THEOREM CleanIsBlameless == Spec => []CleanIffBlameless
BY InitExtract, NextExtract, InitClean, NextClean, InvClean, PTL DEF Spec

-----------------------------------------------------------------------------
(* No side disappears. *)

Turned == {r \in rejected : r.side # "-"}
Clashes == {k \in conflicts : k.kind = "contract"}

\* Each entry of a contract stands for a collected side, or for the first quote
\* of a code in conflict.
ClashesAreSides ==
  \A k \in Clashes :
    IF k.first THEN k.key \in conflicted ELSE [row |-> k.row, side |-> k.side] \in Collected

FiniteTables ==
  /\ IsFiniteSet(Collected) /\ IsFiniteSet(DOMAIN seen) /\ IsFiniteSet(conflicted)
  /\ IsFiniteSet(Turned) /\ IsFiniteSet(Clashes) /\ duplicate_count \in Nat

\* The first quote of a code in conflict is entered twice, in seen and in the
\* conflicts, until the end drops it from the quotes.
Balance ==
  Cardinality(Collected) + Cardinality(conflicted) =
    Cardinality(DOMAIN seen) + duplicate_count + Cardinality(Turned) + Cardinality(Clashes)

CountInv == ClashesAreSides /\ FiniteTables /\ Balance

LEMMA InitCount == Init => CountInv
<1> SUFFICES ASSUME Init PROVE CountInv
  OBVIOUS
<1>1. /\ rows = << >> /\ DOMAIN seen = {} /\ conflicted = {}
      /\ rejected = {} /\ conflicts = {} /\ duplicate_count = 0
  BY DEF Init
<1>2. Collected = {} /\ Turned = {} /\ Clashes = {}
  BY <1>1 DEF Collected, Turned, Clashes
<1> QED
  BY <1>1, <1>2, FS_EmptySet DEF CountInv, ClashesAreSides, FiniteTables, Balance

LEMMA CountKept ==
  ASSUME CountInv, Collected' = Collected, Turned' = Turned, Clashes' = Clashes,
         UNCHANGED <<seen, conflicted, duplicate_count>>
  PROVE  CountInv'
BY DEF CountInv, ClashesAreSides, FiniteTables, Balance

\* Reading a row, and the end, move nothing that is counted.
LEMMA ReadCount ==
  ASSUME ExtractInv, CountInv, NEW row \in Answers, RejectRow(row) \/ ReadRow(row)
  PROVE  CountInv'
<1>1. Collected' = Collected /\ UNCHANGED <<seen, conflicted, duplicate_count>>
  BY ReadCollects DEF RejectRow, ReadRow, contract_vars
<1>2. rejected' = rejected \/ rejected' = rejected \cup {[row |-> Len(rows'), side |-> "-"]}
  BY DEF RejectRow, ReadRow
<1>3. Turned' = Turned
  BY <1>2 DEF Turned
<1>4. conflicts' = conflicts \/ OtherUnderlying(row)
  BY DEF RejectRow, ReadRow, collect_underlying, NewUnderlying, SameUnderlying
<1>5. Clashes' = Clashes
  <2>1. CASE conflicts' = conflicts
    BY <2>1 DEF Clashes
  <2>2. CASE OtherUnderlying(row)
    <3> DEFINE e == [kind |-> "underlying", key |-> row.symbol, row |-> Len(rows'),
                     side |-> "UA", first |-> FALSE]
    <3>1. conflicts' = conflicts \cup {e} /\ e.kind # "contract"
      BY <2>2 DEF OtherUnderlying
    <3> HIDE DEF e
    <3> QED
      BY <3>1 DEF Clashes
  <2> QED
    BY <1>4, <2>1, <2>2
<1> QED
  BY <1>1, <1>3, <1>5, CountKept

LEMMA FinishCount ==
  ASSUME CountInv, Finish \/ UNCHANGED vars
  PROVE  CountInv'
<1>1. UNCHANGED <<seen, conflicted, rejected, conflicts, duplicate_count>>
  BY DEF Finish, vars, contract_vars
<1>2. Collected' = Collected
  BY DEF Finish, vars, Collected
<1> QED
  BY <1>1, <1>2, CountKept DEF Turned, Clashes

\* A new member counts one.
LEMMA OneMore ==
  ASSUME NEW S, IsFiniteSet(S), NEW x, x \notin S
  PROVE  /\ IsFiniteSet(S \cup {x}) /\ Cardinality(S) \in Nat
         /\ Cardinality(S \cup {x}) = Cardinality(S) + 1
BY FS_AddElement, FS_CardinalityType

LEMMA SideCount ==
  ASSUME ExtractInv, RejectedIsRefused, CountInv, NEW side \in Sides,
         RejectSide(side) \/ FirstQuote(side) \/ SameQuote(side) \/ OtherQuote(side)
  PROVE  CountInv'
<1>1. NextSide(side)
  BY DEF RejectSide, FirstQuote, SameQuote, OtherQuote
<1> DEFINE new == Here(side)
           c == Code(side)
<1>2. new \notin Collected /\ Collected' = Collected \cup {new}
  BY <1>1, SideCollects
<1>3. /\ IsFiniteSet(Collected') /\ Cardinality(Collected) \in Nat
      /\ Cardinality(Collected') = Cardinality(Collected) + 1
  <2> HIDE DEF new
  <2> QED
    BY <1>2, OneMore DEF CountInv, FiniteTables
<1>4. /\ Cardinality(DOMAIN seen) \in Nat /\ Cardinality(conflicted) \in Nat
      /\ Cardinality(Turned) \in Nat /\ Cardinality(Clashes) \in Nat /\ duplicate_count \in Nat
  BY FS_CardinalityType DEF CountInv, FiniteTables
<1>5. CASE RejectSide(side)
  <2>1. /\ rejected' = rejected \cup {new}
        /\ UNCHANGED <<seen, conflicted, conflicts, duplicate_count>>
        /\ new.side = side /\ side # "-"
    BY <1>5 DEF RejectSide, Here, contract_vars, Sides
  <2>2. Clashes' = Clashes
    BY <2>1 DEF Clashes
  <2> HIDE DEF new
  <2>3. Turned' = Turned \cup {new}
    BY <2>1 DEF Turned
  <2>4. new \notin Turned
    BY <1>2 DEF Turned, RejectedIsRefused
  <2>5. IsFiniteSet(Turned') /\ Cardinality(Turned') = Cardinality(Turned) + 1
    BY <2>3, <2>4, OneMore DEF CountInv, FiniteTables
  <2>6. ClashesAreSides'
    BY <2>1, <2>2, <1>2 DEF CountInv, ClashesAreSides
  <2>7. FiniteTables' /\ Balance'
    BY <2>1, <2>2, <2>5, <1>3, <1>4 DEF CountInv, FiniteTables, Balance
  <2> QED
    BY <2>6, <2>7 DEF CountInv
<1>6. CASE FirstQuote(side)
  <2>1. /\ c \notin DOMAIN seen /\ UNCHANGED <<conflicted, rejected, conflicts, duplicate_count>>
        /\ DOMAIN seen' = DOMAIN seen \cup {c}
    BY <1>6 DEF FirstQuote, With
  <2>2. Clashes' = Clashes /\ Turned' = Turned
    BY <2>1 DEF Clashes, Turned
  <2> HIDE DEF c
  <2>3. IsFiniteSet(DOMAIN seen') /\ Cardinality(DOMAIN seen') = Cardinality(DOMAIN seen) + 1
    BY <2>1, OneMore DEF CountInv, FiniteTables
  <2>4. ClashesAreSides'
    BY <2>1, <2>2, <1>2 DEF CountInv, ClashesAreSides
  <2>5. FiniteTables' /\ Balance'
    BY <2>1, <2>2, <2>3, <1>3, <1>4 DEF CountInv, FiniteTables, Balance
  <2> QED
    BY <2>4, <2>5 DEF CountInv
<1>7. CASE SameQuote(side)
  <2>1. UNCHANGED <<seen, conflicted, rejected, conflicts>> /\ duplicate_count' = duplicate_count + 1
    BY <1>7 DEF SameQuote, contract_vars
  <2>2. Clashes' = Clashes /\ Turned' = Turned
    BY <2>1 DEF Clashes, Turned
  <2>3. ClashesAreSides'
    BY <2>1, <2>2, <1>2 DEF CountInv, ClashesAreSides
  <2>4. FiniteTables' /\ Balance'
    BY <2>1, <2>2, <1>3, <1>4 DEF CountInv, FiniteTables, Balance
  <2> QED
    BY <2>3, <2>4 DEF CountInv
<1>8. CASE OtherQuote(side)
  <2> DEFINE e == ConflictEntry(side, Len(rows), FALSE)
             f == ConflictEntry(side, seen[c].row, TRUE)
  <2>1. /\ UNCHANGED <<seen, rejected, duplicate_count>> /\ conflicted' = conflicted \cup {c}
        /\ conflicts' = conflicts \cup {e} \cup (IF c \in conflicted THEN {} ELSE {f})
    BY <1>8 DEF OtherQuote
  <2>2. /\ e.kind = "contract" /\ ~e.first /\ [row |-> e.row, side |-> e.side] = new
        /\ f.kind = "contract" /\ f.first /\ f.key = c
        /\ e # f
    BY DEF ConflictEntry, Here
  <2> HIDE DEF e, f, c, new
  <2>3. Turned' = Turned
    BY <2>1 DEF Turned
  <2>4. Clashes' = Clashes \cup {e} \cup (IF c \in conflicted THEN {} ELSE {f})
    BY <2>1, <2>2 DEF Clashes
  <2>5. e \notin Clashes /\ (c \notin conflicted => f \notin Clashes \cup {e})
    BY <1>2, <2>2 DEF CountInv, ClashesAreSides
  <2>6. IsFiniteSet(Clashes \cup {e}) /\ Cardinality(Clashes \cup {e}) = Cardinality(Clashes) + 1
    BY <2>5, OneMore DEF CountInv, FiniteTables
  <2>7. ClashesAreSides'
    BY <1>2, <2>1, <2>2, <2>4 DEF CountInv, ClashesAreSides
  <2>8. CASE c \in conflicted
    <3>1. Clashes' = Clashes \cup {e} /\ conflicted' = conflicted
      BY <2>1, <2>4, <2>8
    <3>2. FiniteTables' /\ Balance'
      BY <3>1, <2>1, <2>3, <2>6, <1>3, <1>4 DEF CountInv, FiniteTables, Balance
    <3> QED
      BY <2>7, <3>2 DEF CountInv
  <2>9. CASE c \notin conflicted
    <3>1. Clashes' = (Clashes \cup {e}) \cup {f}
      BY <2>4, <2>9
    <3>2. IsFiniteSet(Clashes') /\ Cardinality(Clashes') = Cardinality(Clashes) + 2
      <4>1. /\ IsFiniteSet((Clashes \cup {e}) \cup {f})
            /\ Cardinality((Clashes \cup {e}) \cup {f}) = Cardinality(Clashes \cup {e}) + 1
        BY <2>5, <2>6, <2>9, OneMore
      <4> QED
        BY <4>1, <3>1, <2>6, <1>4
    <3>3. IsFiniteSet(conflicted') /\ Cardinality(conflicted') = Cardinality(conflicted) + 1
      BY <2>1, <2>9, OneMore DEF CountInv, FiniteTables
    <3>4. FiniteTables' /\ Balance'
      BY <3>2, <3>3, <2>1, <2>3, <1>3, <1>4 DEF CountInv, FiniteTables, Balance
    <3> QED
      BY <2>7, <3>4 DEF CountInv
  <2> QED
    BY <2>8, <2>9
<1> QED
  BY <1>5, <1>6, <1>7, <1>8

LEMMA NextCount == ExtractInv /\ CleanInv /\ CountInv /\ [Next]_vars => CountInv'
<1>1. CleanInv => RejectedIsRefused
  BY DEF CleanInv
<1> QED
  BY <1>1, ReadCount, SideCount, FinishCount DEF Next

\* The quotes that are left are as many as the codes not in conflict.
LEMMA QuotesCounted ==
  ASSUME ExtractInv, FiniteTables, phase = "done"
  PROVE  contract_count = Cardinality(DOMAIN seen) - Cardinality(conflicted)
<1> DEFINE kept == DOMAIN seen \ conflicted
           f == [c \in kept |-> [code |-> c, signature |-> seen[c].signature]]
<1>1. quotes = {[code |-> c, signature |-> seen[c].signature] : c \in kept}
  BY DEF ExtractInv, QuotesAreFirst
<1>2. f \in Injection(kept, quotes)
  <2>1. f \in [kept -> quotes]
    BY <1>1
  <2>2. ASSUME NEW a \in kept, NEW b \in kept, f[a] = f[b] PROVE a = b
    <3>1. f[a].code = a /\ f[b].code = b
      OBVIOUS
    <3> QED
      BY <3>1, <2>2
  <2> QED
    BY <2>1, <2>2 DEF Injection, IsInjective
<1>3. f \in Surjection(kept, quotes)
  <2>1. f \in [kept -> quotes]
    BY <1>1
  <2>2. \A q \in quotes : \E c \in kept : f[c] = q
    BY <1>1
  <2> QED
    BY <2>1, <2>2 DEF Surjection
<1>4. IsFiniteSet(kept) /\ Cardinality(kept) = Cardinality(DOMAIN seen) - Cardinality(conflicted)
  <2>1. DOMAIN seen \cap conflicted = conflicted
    BY DEF ExtractInv, ConflictedDiffers
  <2> QED
    BY <2>1, FS_Difference DEF FiniteTables
<1>5. Cardinality(quotes) = Cardinality(kept)
  <2> HIDE DEF f, kept
  <2> QED
    BY <1>2, <1>3, <1>4, FS_Surjection
<1> QED
  BY <1>4, <1>5 DEF contract_count

LEMMA InvCounts == ExtractInv /\ CountInv => EverySideAccounted
<1> SUFFICES ASSUME ExtractInv, CountInv, phase = "done" PROVE EverySideAccounted
  BY DEF EverySideAccounted
<1>1. contract_count = Cardinality(DOMAIN seen) - Cardinality(conflicted)
  BY QuotesCounted DEF CountInv
<1>2. /\ Cardinality(DOMAIN seen) \in Nat /\ Cardinality(conflicted) \in Nat
      /\ Cardinality(Turned) \in Nat /\ Cardinality(Clashes) \in Nat
      /\ Cardinality(Collected) \in Nat /\ duplicate_count \in Nat
  BY FS_CardinalityType DEF CountInv, FiniteTables
<1>3. Cardinality(Collected) = contract_count + duplicate_count + Cardinality(Turned) + Cardinality(Clashes)
  BY <1>1, <1>2 DEF CountInv, Balance
<1> QED
  BY <1>3 DEF EverySideAccounted, Turned, Clashes

\* Every side of the answer is a quote, a duplicate, a rejected side or an entry
\* of the conflicts, counted once, for answers of any length.
THEOREM NothingDisappears == Spec => []EverySideAccounted
BY InitExtract, NextExtract, InitClean, NextClean, InitCount, NextCount, InvCounts, PTL DEF Spec
=============================================================================
