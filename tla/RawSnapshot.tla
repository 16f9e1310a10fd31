----------------------------- MODULE RawSnapshot -----------------------------
(***************************************************************************)
(* The extraction of one option market watch answer (data/raw_snapshot.py),*)
(* as the loop of `extract` runs it: row after row, and in each row the    *)
(* underlying, the call side and the put side.  Nothing is filtered for    *)
(* quality; what cannot be recorded must be accounted for.                 *)
(*                                                                         *)
(* Abstraction.  The numeric fields of one side are one member of Numbers, *)
(* those of an underlying one member of Prices; Refused is the number of   *)
(* fields in it that `_number` and `_integer` refused.  The spec of a side *)
(* repeats the underlying's symbol and the side itself (call or put), so   *)
(* its signature holds both.  Lists whose order is never read are sets,    *)
(* and of the reason of a conflict only the part that tells its two        *)
(* entries apart is kept.                                                  *)
(***************************************************************************)
EXTENDS Naturals, Sequences, FiniteSets

CONSTANTS
  Codes, Symbols,     \* contract codes and underlying symbols
  Numbers, Prices,    \* numbers of a side, of an underlying
  Refused,            \* [Numbers \cup Prices -> Nat]: refused numeric fields
  Answers,            \* the rows an answer may hold
  MaxRows,            \* bound: rows of one answer
  NoText,             \* an empty text field
  Junk                \* a row that is not a dictionary

Sides == {"C", "P"}
SideData == [code: Codes \cup {NoText}, named: BOOLEAN, values: Numbers]
DictRows == [symbol: Symbols \cup {NoText}, prices: Prices, C: SideData, P: SideData]

ASSUME RowAssumption ==
  /\ Answers \subseteq DictRows \cup {Junk}
  /\ Junk \notin DictRows
  /\ NoText \notin Codes \cup Symbols
  /\ Refused \in [Numbers \cup Prices -> Nat]
  /\ MaxRows \in Nat

VARIABLES
  rows,                   \* the rows read so far; the index of a row is its place
  phase,                  \* "row": between rows; "C", "P": side to collect; "done"
  quotes,                 \* ExtractionResult.quotes
  underlyings,            \* ExtractionResult.underlyings
  rejected,               \* ExtractionResult.rejected
  conflicts,              \* ExtractionResult.conflicts
  duplicate_count,        \* ExtractionResult.duplicate_count
  seen,                   \* ins_code -> index and signature of its first quote
  conflicted,             \* ins_codes met with two different signatures
  seen_underlying,        \* symbol -> signature of its first row
  conflicted_underlying   \* symbols met with two different signatures

contract_vars == <<quotes, seen, conflicted>>
underlying_vars == <<underlyings, seen_underlying, conflicted_underlying>>
vars == <<rows, phase, contract_vars, underlying_vars, rejected, conflicts, duplicate_count>>

\* A partial function extended with one more key.
With(f, k, v) == [x \in DOMAIN f \cup {k} |-> IF x = k THEN v ELSE f[x]]

\* The whole observation: spec identity, numbers and conversion errors.
signature(row, side) == <<side, row.symbol, row[side].values>>

\* Only the code and the symbol of a side are mandatory.
extractable(row, side) == row[side].code # NoText /\ row[side].named

-----------------------------------------------------------------------------
Init ==
  /\ rows = << >> /\ phase = "row"
  /\ quotes = {} /\ seen = << >> /\ conflicted = {}
  /\ underlyings = {} /\ seen_underlying = << >> /\ conflicted_underlying = {}
  /\ rejected = {} /\ conflicts = {} /\ duplicate_count = 0

Read(row) ==
  /\ phase = "row"
  /\ Len(rows) < MaxRows
  /\ rows' = Append(rows, row)

\* A row that is not a dictionary is one rejected row.
RejectRow(row) ==
  /\ Read(row)
  /\ row = Junk
  /\ rejected' = rejected \cup {[row |-> Len(rows'), side |-> "-"]}
  /\ UNCHANGED <<phase, contract_vars, underlying_vars, conflicts, duplicate_count>>

\* Every strike row repeats its underlying: only different numbers conflict,
\* and each symbol is reported once.
NewUnderlying(row) ==
  /\ row.symbol \notin DOMAIN seen_underlying
  /\ seen_underlying' = With(seen_underlying, row.symbol, row.prices)
  /\ underlyings' = underlyings \cup {[symbol |-> row.symbol, prices |-> row.prices]}
  /\ UNCHANGED <<conflicted_underlying, conflicts>>

SameUnderlying(row) ==
  /\ row.symbol \in DOMAIN seen_underlying
  /\ \/ seen_underlying[row.symbol] = row.prices
     \/ row.symbol \in conflicted_underlying
  /\ UNCHANGED <<underlying_vars, conflicts>>

OtherUnderlying(row) ==
  /\ row.symbol \in DOMAIN seen_underlying
  /\ seen_underlying[row.symbol] # row.prices
  /\ row.symbol \notin conflicted_underlying
  /\ conflicted_underlying' = conflicted_underlying \cup {row.symbol}
  /\ conflicts' = conflicts \cup
       {[kind |-> "underlying", key |-> row.symbol, row |-> Len(rows'), side |-> "UA", first |-> FALSE]}
  /\ UNCHANGED <<underlyings, seen_underlying>>

collect_underlying(row) ==
  \/ row.symbol = NoText /\ UNCHANGED <<underlying_vars, conflicts>>
  \/ row.symbol # NoText /\ (NewUnderlying(row) \/ SameUnderlying(row) \/ OtherUnderlying(row))

ReadRow(row) ==
  /\ Read(row)
  /\ row # Junk
  /\ collect_underlying(row)
  /\ phase' = "C"
  /\ UNCHANGED <<contract_vars, rejected, duplicate_count>>

-----------------------------------------------------------------------------
(* One side of the row just read. *)

Current == rows[Len(rows)]
Code(side) == Current[side].code

NextSide(side) ==
  /\ phase = side
  /\ phase' = IF side = "C" THEN "P" ELSE "row"
  /\ UNCHANGED <<rows, underlying_vars>>

RejectSide(side) ==
  /\ NextSide(side)
  /\ ~extractable(Current, side)
  /\ rejected' = rejected \cup {[row |-> Len(rows), side |-> side]}
  /\ UNCHANGED <<contract_vars, conflicts, duplicate_count>>

FirstQuote(side) ==
  /\ NextSide(side)
  /\ extractable(Current, side)
  /\ Code(side) \notin DOMAIN seen
  /\ seen' = With(seen, Code(side), [row |-> Len(rows), signature |-> signature(Current, side)])
  /\ quotes' = quotes \cup {[code |-> Code(side), signature |-> signature(Current, side)]}
  /\ UNCHANGED <<conflicted, rejected, conflicts, duplicate_count>>

\* Faulty: an identical repetition is dropped without being counted.
SameQuoteUncounted(side) ==
  /\ NextSide(side)
  /\ extractable(Current, side)
  /\ Code(side) \in DOMAIN seen
  /\ seen[Code(side)].signature = signature(Current, side)
  /\ UNCHANGED <<contract_vars, rejected, conflicts, duplicate_count>>

SameQuote(side) ==
  /\ NextSide(side)
  /\ extractable(Current, side)
  /\ Code(side) \in DOMAIN seen
  /\ seen[Code(side)].signature = signature(Current, side)
  /\ duplicate_count' = duplicate_count + 1
  /\ UNCHANGED <<contract_vars, rejected, conflicts>>

ConflictEntry(side, row, first) ==
  [kind |-> "contract", key |-> Code(side), row |-> row, side |-> side, first |-> first]

\* Faulty: the first quote is reported at the row at hand.
OtherQuoteHere(side) ==
  /\ NextSide(side)
  /\ extractable(Current, side)
  /\ Code(side) \in DOMAIN seen
  /\ seen[Code(side)].signature # signature(Current, side)
  /\ conflicted' = conflicted \cup {Code(side)}
  /\ conflicts' = conflicts
       \cup {ConflictEntry(side, Len(rows), FALSE)}
       \cup (IF Code(side) \in conflicted THEN {} ELSE {ConflictEntry(side, Len(rows), TRUE)})
  /\ UNCHANGED <<quotes, seen, rejected, duplicate_count>>

\* The first conflict of a code also reports its first quote, at that quote's
\* row but with the side of the row at hand.
OtherQuote(side) ==
  /\ NextSide(side)
  /\ extractable(Current, side)
  /\ Code(side) \in DOMAIN seen
  /\ seen[Code(side)].signature # signature(Current, side)
  /\ conflicted' = conflicted \cup {Code(side)}
  /\ conflicts' = conflicts
       \cup {ConflictEntry(side, Len(rows), FALSE)}
       \cup (IF Code(side) \in conflicted THEN {}
             ELSE {ConflictEntry(side, seen[Code(side)].row, TRUE)})
  /\ UNCHANGED <<quotes, seen, rejected, duplicate_count>>

\* Faulty: the quote that came first is kept in spite of the conflict.
FinishKeepsFirst ==
  /\ phase = "row"
  /\ phase' = "done"
  /\ underlyings' = {u \in underlyings : u.symbol \notin conflicted_underlying}
  /\ UNCHANGED <<rows, contract_vars, seen_underlying, conflicted_underlying,
                 rejected, conflicts, duplicate_count>>

\* Conflicting observations leave the result once every row is read.
Finish ==
  /\ phase = "row"
  /\ phase' = "done"
  /\ quotes' = {q \in quotes : q.code \notin conflicted}
  /\ underlyings' = {u \in underlyings : u.symbol \notin conflicted_underlying}
  /\ UNCHANGED <<rows, seen, conflicted, seen_underlying, conflicted_underlying,
                 rejected, conflicts, duplicate_count>>

Next ==
  \/ \E row \in Answers : RejectRow(row) \/ ReadRow(row)
  \/ \E side \in Sides :
       RejectSide(side) \/ FirstQuote(side) \/ SameQuote(side) \/ OtherQuote(side)
  \/ Finish

Spec == Init /\ [][Next]_vars

-----------------------------------------------------------------------------
(* What the recorder reads of the result. *)

contract_count == Cardinality(quotes)

\* One entry for each number refused.
invalid_field_count ==
  Cardinality(UNION {{q} \X (1..Refused[q.signature[3]]) : q \in quotes})
    + Cardinality(UNION {{u} \X (1..Refused[u.prices]) : u \in underlyings})

\* Faulty: refused numbers are not an issue.
CleanIgnoresRefused == conflicts = {} /\ rejected = {}

is_clean == conflicts = {} /\ rejected = {} /\ invalid_field_count = 0

-----------------------------------------------------------------------------
(* Correctness, told from the rows of the answer alone. *)

\* The sides of dictionary rows collected so far.
Collected ==
  {o \in [row: 1 .. Len(rows), side: Sides] :
     /\ rows[o.row] # Junk
     /\ o.row = Len(rows) => phase # "C" /\ (phase = "P" => o.side = "C")}

Occurrences == {o \in Collected : extractable(rows[o.row], o.side)}
CodeOf(o) == rows[o.row][o.side].code
SignatureOf(o) == signature(rows[o.row], o.side)

\* Two observations of one contract that do not say the same.
Contradict(o, p) == CodeOf(o) = CodeOf(p) /\ SignatureOf(o) # SignatureOf(p)

\* A contract is recorded exactly when all its observations in the answer
\* agree, whatever their order and number: extract never chooses between two
\* contradicting observations.
KeptIffUnanimous ==
  phase = "done" =>
    quotes = {[code |-> CodeOf(o), signature |-> SignatureOf(o)] :
                o \in {p \in Occurrences : \A r \in Occurrences : ~Contradict(p, r)}}

\* No side of the answer disappears: each is a recorded quote, a rejected
\* side, an identical duplicate or an entry of the conflicts, and in one of
\* these only.
EverySideAccounted ==
  phase = "done" =>
    Cardinality(Collected) =
      contract_count + duplicate_count
        + Cardinality({r \in rejected : r.side # "-"})
        + Cardinality({k \in conflicts : k.kind = "contract"})

\* Each of two contradicting observations can be found again in the raw
\* payload: some row that holds it is reported under its code.
ContradictionsTraceable ==
  phase = "done" =>
    \A o, p \in Occurrences :
      Contradict(o, p) =>
        \E q \in Occurrences : \E k \in conflicts :
          /\ CodeOf(q) = CodeOf(o) /\ SignatureOf(q) = SignatureOf(o)
          /\ k.kind = "contract" /\ k.key = CodeOf(o) /\ k.row = q.row

\* A snapshot is called clean exactly when the answer is blameless: no row or
\* side was refused, no two observations of a contract or of an underlying
\* contradict each other, and no number was refused (the numbers of a row
\* without an underlying symbol are never looked at).
CleanIffBlameless ==
  phase = "done" =>
    (is_clean <=>
       /\ \A i \in DOMAIN rows : rows[i] # Junk
       /\ Occurrences = Collected
       /\ \A o, p \in Occurrences : ~Contradict(o, p)
       /\ \A o \in Occurrences : Refused[rows[o.row][o.side].values] = 0
       /\ \A i \in DOMAIN rows : rows[i].symbol # NoText =>
             /\ Refused[rows[i].prices] = 0
             /\ \A j \in DOMAIN rows :
                  rows[j].symbol = rows[i].symbol => rows[j].prices = rows[i].prices)
=============================================================================
