--------------------------- MODULE SignalGenerator ----------------------------
(***************************************************************************)
(* One pass of signals/signal_generator.py after another: each strategy of *)
(* each symbol returns raw signals, which are sized (risk/risk_calculator),*)
(* screened on a book that may come from the cache of the book client, and *)
(* checked against what was emitted a short while ago.  The legs of a      *)
(* structure pass or fail together.                                        *)
(***************************************************************************)
EXTENDS Tradability, FiniteSets

CONSTANTS
    Symbols, Strategies,     \* sequences: the order of a pass
    Batches,                 \* of a symbol and a strategy: what it may return
    Contracts, Histories,    \* of every option: what the chain and the archive say
    Markets,                 \* the books every option may have; NoBook: the request fails
    Limits,                  \* risk limits of the account
    FeePct, PerOrder,        \* the round-trip fee in percent, and per order
    MinConfidence, DedupeWindow, BookTtl,
    MaxClock, MaxFaults      \* bounds: time, and exceptions of the environment

Options == DOMAIN Contracts
Never == -1
NoGroup == <<>>          \* the leg_group_id of a signal that stands alone

\* A signal, with its leg_group_id in G.
Signal(G) ==
    [strategy : STRING, sym : Options, side : {"buy", "sell"}, price : Int, size : Int,
     group : G, ratio : Nat \ {0}, leg_count : Nat, confidence : Int]

\* A strategy calls its structures by names, "" where there is none; the legs of
\* one structure are built together (MultiLegStrategy.generate).  The books
\* come from from_depth.
ASSUME GeneratorAssumption ==
    /\ \A c \in {DedupeWindow, BookTtl, FeePct, PerOrder, MaxClock, MaxFaults} : c \in Nat
    /\ \A f \in {"equity", "risk_pct", "position_pct", "stop_loss_pct", "max_contracts"} :
          Limits[f] \in Nat
    /\ Symbols \in Seq(STRING) /\ Strategies \in Seq(STRING)
    /\ \A x \in DOMAIN Batches : \A raw \in Batches[x] :
          /\ raw \in Seq(Signal(STRING))
          /\ \A i, j \in DOMAIN raw : raw[i].group = raw[j].group /\ raw[i].group # "" =>
                raw[i].strategy = raw[j].strategy /\ raw[i].leg_count = raw[j].leg_count
    /\ \A x \in ToSet(Symbols) \X ToSet(Strategies) : x \in DOMAIN Batches
    /\ \A m \in Markets : \A o \in Options : m[o].known => BestFirst(m[o])

VARIABLES
    clock, market,           \* the time, and the book of every option
    pc, todo,                \* "idle" or "pass", and the symbols left, the first in turn
    context,                 \* TRUE: the context of the symbol in turn is built
    turns,                   \* the strategies left to run on it
    units, sized,            \* units of the batch left; legs of the first that passed
    cache,                   \* OrderBookClient._cache
    last,                    \* _last_emitted
    collected, signals,      \* results for this symbol, and for this pass
    records, dropped,        \* screening.records and screening.dropped_groups
    failed, errors,          \* failed_symbols and strategy_errors
    faults,                  \* exceptions so far
    delivered, orphaned      \* history: last return of a key; keys never returned

genVars == <<cache, last, records, dropped>>
passVars == <<todo, context, turns, units, sized, collected, signals, failed, errors>>
vars == <<clock, market, pc, passVars, genVars, faults, delivered, orphaned>>

-----------------------------------------------------------------------------
(* RiskCalculator.evaluate and apply: zero contracts drop the signal.      *)

Least(S) == CHOOSE x \in S : \A y \in S : x <= y

suggested_qty(s) ==
    LET cost == s.price * s.size
        loss == IF s.side = "buy" THEN Limits.stop_loss_pct ELSE 200
        perContract == cost * (loss + FeePct) + 200 * PerOrder
        budget == Limits.equity * Limits.risk_pct
        byRisk == IF perContract > 0 THEN budget \div perContract
                  ELSE IF budget > 0 THEN Limits.max_contracts ELSE 0
        byExposure == (Limits.equity * Limits.position_pct) \div (cost * 100)
    IN  IF s.price <= 0 \/ s.size <= 0
        THEN 0
        ELSE Least({byRisk, byExposure, Limits.max_contracts})

-----------------------------------------------------------------------------
(* Keys of what was emitted, and the units a batch is processed in.        *)

LegOf(s) == <<s.sym, s.side>>
dedupe_key(s) == <<s.strategy, "single", {LegOf(s)}>>
group_dedupe_key(legs) == <<legs[1].strategy, "group", {LegOf(legs[i]) : i \in DOMAIN legs}>>
KeyOf(legs) == IF legs[1].group = NoGroup THEN dedupe_key(legs[1]) ELSE group_dedupe_key(legs)

\* Each call draws new ids for its structures (uuid4): no other turn of the pass
\* has the same.
Drawn(raw) ==
    [i \in DOMAIN raw |->
        [raw[i] EXCEPT !.group = IF @ = "" THEN NoGroup ELSE <<@, Len(todo), Len(turns)>>]]

\* One signal more: the single ones are units of their own, the legs of a
\* structure join the unit of their id.
Enter(split, s) ==
    IF s.group = NoGroup
    THEN [split EXCEPT !.singles = Append(@, <<s>>)]
    ELSE IF \E i \in DOMAIN split.groups : split.groups[i][1].group = s.group
    THEN [split EXCEPT !.groups =
            [i \in DOMAIN @ |-> IF @[i][1].group = s.group THEN Append(@[i], s) ELSE @[i]]]
    ELSE [split EXCEPT !.groups = Append(@, <<s>>)]

Split(raw) ==
    LET after[i \in 0..Len(raw)] ==
            IF i = 0 THEN [singles |-> <<>>, groups |-> <<>>] ELSE Enter(after[i - 1], raw[i])
    IN  after

\* _process_batch: the single signals first, then each structure's legs
\* together, in the order the structures first appear.
Units(raw) == Split(raw)[Len(raw)].singles \o Split(raw)[Len(raw)].groups

is_duplicate(key) == key \in DOMAIN last /\ clock - last[key] < DedupeWindow

\* A dictionary with one entry set.
Put(dict, key, value) ==
    [k \in DOMAIN dict \cup {key} |-> IF k = key THEN value ELSE dict[k]]

-----------------------------------------------------------------------------
(* Screening one signal on a book that may be a cached copy.               *)

\* get_order_book: the cached copy while it is younger than BookTtl.
Fetched(sym) ==
    IF cache[sym].at # Never /\ clock - cache[sym].at < BookTtl
    THEN cache[sym]
    ELSE [at |-> IF market[sym].known THEN clock ELSE Never, book |-> market[sym]]

Verdict(s, quantity, got) ==
    evaluate(Observe(Contracts[s.sym], got.book, clock - got.at, s.side, quantity),
             Histories[s.sym])

Confident(s) == MinConfidence = None \/ s.confidence >= MinConfidence

Ratio(s) == IF s.ratio > 1 THEN s.ratio ELSE 1

\* Variant: the largest leg decides.
BaseLargest(out) ==
    LET all == {out[i].qty \div Ratio(out[i].sig) : i \in DOMAIN out}
    IN  CHOOSE x \in all : \A y \in all : x >= y

\* The leg that can be bought least decides for all.
base_qty(out) == Least({out[i].qty \div Ratio(out[i].sig) : i \in DOMAIN out})

\* The quantities of a structure follow from the base and the ratios.
Sized(out) ==
    IF out[1].sig.group = NoGroup THEN out
    ELSE [i \in DOMAIN out |-> [out[i] EXCEPT !.qty = base_qty(out) * out[i].sig.ratio]]

-----------------------------------------------------------------------------
Init ==
    /\ clock = 0 /\ market = [o \in Options |-> NoBook]
    /\ pc = "idle" /\ todo = <<>> /\ context = FALSE /\ turns = <<>>
    /\ units = <<>> /\ sized = <<>>
    /\ cache = [o \in Options |-> [at |-> Never, book |-> NoBook]]
    /\ last = <<>>
    /\ collected = <<>> /\ signals = <<>> /\ records = <<>> /\ dropped = <<>>
    /\ failed = {} /\ errors = [s \in ToSet(Strategies) |-> 0]
    /\ faults = 0
    /\ delivered = <<>> /\ orphaned = {}

\* run_once, an interval after the pass before it: the market has moved, and
\* what the last pass left for the panel is cleared.
BeginPass ==
    /\ pc = "idle" /\ clock < MaxClock
    /\ clock' = clock + 1
    /\ market' \in Markets
    /\ pc' = "pass" /\ todo' = Symbols
    /\ signals' = <<>> /\ records' = <<>> /\ dropped' = <<>>
    /\ failed' = {} /\ errors' = [s \in ToSet(Strategies) |-> 0]
    /\ UNCHANGED <<context, turns, units, sized, collected, cache, last, faults, delivered,
                   orphaned>>

\* build_context, and then every strategy of the symbol in its order.
BuildContext ==
    /\ pc = "pass" /\ todo # <<>> /\ ~context
    /\ context' = TRUE /\ turns' = Strategies
    /\ UNCHANGED <<clock, market, pc, todo, units, sized, collected, signals, failed, errors,
                   genVars, faults, delivered, orphaned>>

\* A strategy is to run now: no unit of the one before it is left.
Turn == pc = "pass" /\ context /\ units = <<>> /\ turns # <<>>

\* A strategy returns a batch.
RunStrategy ==
    /\ Turn
    /\ \E raw \in Batches[<<Head(todo), Head(turns)>>] : units' = Units(Drawn(raw))
    /\ turns' = Tail(turns)
    /\ UNCHANGED <<clock, market, pc, todo, context, sized, collected, signals, failed, errors,
                   genVars, faults, delivered, orphaned>>

\* A strategy raises: it is counted, and the others go on.
StrategyRaises ==
    /\ Turn /\ faults < MaxFaults
    /\ faults' = faults + 1
    /\ errors' = [errors EXCEPT ![Head(turns)] = @ + 1]
    /\ turns' = Tail(turns)
    /\ UNCHANGED <<clock, market, pc, todo, context, units, sized, collected, signals, failed,
                   genVars, delivered, orphaned>>

-----------------------------------------------------------------------------
(* _process_batch: the units one after the other, each leg by leg.         *)

unit == Head(units)

\* Variant: the number of legs is not compared.
WholeOrNot == unit # <<>>

\* A structure has all the legs it announces.
whole == unit[1].group = NoGroup \/ Len(unit) = unit[1].leg_count

\* The leg to be processed next, while there is one.
AtLeg == units # <<>> /\ whole /\ Len(sized) < Len(unit)
leg == unit[Len(sized) + 1]

\* Whatever survived of the unit is forgotten.
GiveUpUnit == units' = Tail(units) /\ sized' = <<>>

\* The first leg that fails drops its structure, and the legs after it are not
\* even screened.
Rejected ==
    /\ GiveUpUnit
    /\ dropped' = IF leg.group = NoGroup THEN dropped ELSE Append(dropped, leg.group)

quietVars == <<clock, market, pc, todo, context, turns, signals, failed, errors, delivered, orphaned>>

\* A structure with legs missing is given up unseen.
IncompleteGroup ==
    /\ units # <<>> /\ ~whole
    /\ GiveUpUnit
    /\ UNCHANGED <<quietVars, collected, genVars, faults>>

\* _post_process, up to the screening: too little confidence, or no contract
\* fits the limits.
RejectLeg ==
    /\ AtLeg /\ (~Confident(leg) \/ suggested_qty(leg) = 0)
    /\ Rejected
    /\ UNCHANGED <<quietVars, collected, cache, last, records, faults>>

\* _is_tradable: the result is recorded, and only "tradable" passes.
ScreenLeg ==
    /\ AtLeg /\ Confident(leg) /\ suggested_qty(leg) > 0
    /\ \E got \in {Fetched(leg.sym)} :
       \E verdict \in {Verdict(leg, suggested_qty(leg), got)} :
         /\ cache' = IF got.book.known THEN [cache EXCEPT ![leg.sym] = got] ELSE cache
         /\ records' = Append(records, [leg |-> LegOf(leg), verdict |-> verdict])
         /\ \/ /\ verdict = "tradable"
               /\ sized' = Append(sized, [sig |-> leg, qty |-> suggested_qty(leg), got |-> got])
               /\ UNCHANGED <<units, dropped>>
            \/ verdict # "tradable" /\ Rejected
    /\ UNCHANGED <<quietVars, collected, last, faults>>

\* The screening raises: no record, and the leg is refused.
ScreeningRaises ==
    /\ AtLeg /\ Confident(leg) /\ suggested_qty(leg) > 0 /\ faults < MaxFaults
    /\ faults' = faults + 1
    /\ Rejected
    /\ UNCHANGED <<quietVars, collected, cache, last, records>>

Processed == units # <<>> /\ whole /\ Len(sized) = Len(unit)

\* Variant: the time of a repetition is remembered too.
FinishRefreshing ==
    /\ Processed
    /\ GiveUpUnit
    /\ last' = Put(last, KeyOf(unit), clock)
    /\ collected' = IF base_qty(sized) > 0 /\ ~is_duplicate(KeyOf(unit))
                    THEN collected \o Sized(sized) ELSE collected
    /\ UNCHANGED <<quietVars, cache, records, dropped, faults>>

\* Every leg passed: the unit is emitted unless it was a short while ago, or
\* no multiple of its ratios fits.
FinishUnit ==
    /\ Processed
    /\ GiveUpUnit
    /\ IF base_qty(sized) > 0 /\ ~is_duplicate(KeyOf(unit))
       THEN /\ collected' = collected \o Sized(sized)
            /\ last' = Put(last, KeyOf(unit), clock)
       ELSE UNCHANGED <<collected, last>>
    /\ UNCHANGED <<quietVars, cache, records, dropped, faults>>

\* Keys that collected signals stand for.
KeysOf(out) ==
    {IF out[i].sig.group = NoGroup THEN dedupe_key(out[i].sig)
     ELSE <<out[i].sig.strategy, "group",
            {LegOf(out[j].sig) : j \in {j \in DOMAIN out : out[j].sig.group = out[i].sig.group}}>>
     : i \in DOMAIN out}

\* Anything else raises: no context for the symbol, or a signal of a batch
\* that cannot be sized.  The symbol is given up with all it collected,
\* although their keys are already remembered.
SymbolFails ==
    /\ pc = "pass" /\ todo # <<>> /\ faults < MaxFaults
    /\ ~context \/ AtLeg
    /\ faults' = faults + 1
    /\ failed' = failed \cup {Head(todo)} /\ todo' = Tail(todo)
    /\ orphaned' = orphaned \cup KeysOf(collected)
    /\ context' = FALSE /\ turns' = <<>>
    /\ units' = <<>> /\ sized' = <<>> /\ collected' = <<>>
    /\ UNCHANGED <<clock, market, pc, signals, errors, genVars, delivered>>

EndSymbol ==
    /\ pc = "pass" /\ context /\ units = <<>> /\ turns = <<>>
    /\ signals' = signals \o collected /\ collected' = <<>>
    /\ context' = FALSE /\ todo' = Tail(todo)
    /\ UNCHANGED <<clock, market, pc, turns, units, sized, failed, errors, genVars, faults,
                   delivered, orphaned>>

\* run_once returns, and the loop sends every signal.
EndPass ==
    /\ pc = "pass" /\ todo = <<>>
    /\ pc' = "idle"
    /\ \E keys \in {KeysOf(signals)} :
         /\ delivered' = [k \in DOMAIN delivered \cup keys |->
                             IF k \in keys THEN clock ELSE delivered[k]]
         /\ orphaned' = orphaned \ keys
    /\ UNCHANGED <<clock, market, passVars, genVars, faults>>

Next == \/ BeginPass \/ BuildContext \/ RunStrategy \/ StrategyRaises
        \/ IncompleteGroup \/ RejectLeg \/ ScreenLeg \/ ScreeningRaises \/ FinishUnit
        \/ SymbolFails \/ EndSymbol \/ EndPass

Spec == Init /\ [][Next]_vars

-----------------------------------------------------------------------------
(* Properties.                                                             *)

\* Every signal that is returned is tradable at the size it is returned with,
\* judged on the book it was screened on, although a leg of a structure is
\* screened at its own size and cut down to the structure's afterwards.
EmittedIsTradable ==
    \A i \in DOMAIN signals :
        LET e == signals[i]
        IN  e.qty >= 1 /\ Verdict(e.sig, e.qty, e.got) = "tradable"

\* A structure is returned with all its legs in the proportion of their
\* ratios, or not at all, and one that was dropped is not among the signals.
StructuresWhole ==
    \A i \in DOMAIN signals : signals[i].sig.group # NoGroup =>
        LET legs == {j \in DOMAIN signals : signals[j].sig.group = signals[i].sig.group}
        IN  /\ signals[i].sig.group \notin ToSet(dropped)
            /\ Cardinality(legs) = signals[i].sig.leg_count
            /\ \E b \in 1..Limits.max_contracts :
                  \A j \in legs : signals[j].qty = b * signals[j].sig.ratio

\* What was returned is not returned again within the window, and nothing is
\* held back as a repetition of what was never returned: after each pass the
\* generator remembers exactly the returns, except for signals that an
\* exception of a later signal of the same symbol took with it.
RepeatsSpaced ==
    [][/\ \A k \in DOMAIN delivered : delivered'[k] # delivered[k] =>
             delivered'[k] - delivered[k] >= DedupeWindow
       /\ pc' = "idle" => \A k \in (DOMAIN last' \cup DOMAIN delivered') \ orphaned' :
             k \in DOMAIN last' \cap DOMAIN delivered' /\ last'[k] = delivered'[k]]_vars
=============================================================================
