----------------------------- MODULE Tradability ------------------------------
(***************************************************************************)
(* Whether an order of some size can be entered and left again: the        *)
(* observation of market/tradability_screener.py and the verdict of        *)
(* market/tradability.py.  A check is "passed", "failed" or "unknown";     *)
(* percentages are compared by cross multiplication.                       *)
(***************************************************************************)
EXTENDS OrderBook

CONSTANT Thresholds      \* the record of the same name

ASSUME ThresholdsAssumption ==
    Thresholds.min_depth_ratio \in Nat /\ Thresholds.max_slippage_pct \in Nat

NoContract == [known |-> FALSE]
UnknownHistory == [known |-> FALSE, verified |-> FALSE, sessions |-> 0, traded |-> 0]

Opposite(side) == IF side = "buy" THEN "sell" ELSE "buy"
OrOther(x, y) == IF x # None THEN x ELSE y

-----------------------------------------------------------------------------
(* What is observed now.                                                   *)

\* _exit_book, with the multi-level book: a price only for a complete fill.
BookData(book, exit, quantity, age) ==
    LET out == fill_price(book, exit, quantity)
        in == fill_price(book, Opposite(exit), quantity)
    IN  [depth |-> real_depth(book, exit),
         entry_depth |-> real_depth(book, Opposite(exit)),
         fill |-> IF out.filled >= quantity THEN out.price ELSE NoPrice,
         entry_fill |-> IF in.filled >= quantity THEN in.price ELSE NoPrice,
         in_band |-> depth_within(book, exit, Thresholds.max_slippage_pct),
         best_exit |-> best(book, exit),
         bid |-> best_bid(book), ask |-> best_ask(book), age |-> age]

\* _exit_book, without one: the first level of the chain, of unknown age.
LevelOneData(contract, exit, quantity) ==
    LET size(side) == IF side = "sell" THEN contract.bid_quantity ELSE contract.ask_quantity
        price(side) == IF side = "sell" THEN contract.bid ELSE contract.ask
        fits(side) == size(side) # None /\ size(side) >= quantity
        filled(side) == IF fits(side) THEN [n |-> price(side), d |-> 1] ELSE NoPrice
    IN  [depth |-> size(exit), entry_depth |-> size(Opposite(exit)),
         fill |-> filled(exit), entry_fill |-> filled(Opposite(exit)),
         in_band |-> size(exit), best_exit |-> price(exit),
         bid |-> contract.bid, ask |-> contract.ask, age |-> None]

\* _observe.  A contract that could not be resolved leaves all unknown.
Observe(contract, book, age, side, quantity) ==
    LET exit == Opposite(side)
        data == IF book.known /\ contract.ins_code
                THEN BookData(book, exit, quantity, age)
                ELSE LevelOneData(contract, exit, quantity)
        blank == [side |-> side, quantity |-> quantity, bid |-> None, ask |-> None,
                  depth |-> None, entry_depth |-> None, in_band |-> None,
                  fill |-> NoPrice, entry_fill |-> NoPrice, best_exit |-> None,
                  age |-> None, open_interest |-> None, trades_today |-> None,
                  days_to_expiry |-> None]
    IN  IF ~contract.known
        THEN blank
        ELSE [blank EXCEPT
                 !.bid = OrOther(data.bid, contract.bid),
                 !.ask = OrOther(data.ask, contract.ask),
                 !.depth = data.depth, !.entry_depth = data.entry_depth,
                 !.in_band = data.in_band, !.fill = data.fill,
                 !.entry_fill = data.entry_fill, !.best_exit = data.best_exit,
                 !.age = data.age, !.open_interest = contract.open_interest,
                 !.trades_today = contract.trades_today,
                 !.days_to_expiry = contract.days_to_expiry]

\* Python takes a price of zero for a missing one.
Missing(x) == x \in {None, 0}

\* entry_status: short of depth and not knowing are different things.
entry_status(obs) ==
    IF ~Missing(obs.entry_fill.n) THEN "executable"
    ELSE IF obs.entry_depth = None THEN "unknown" ELSE "short_of_depth"

-----------------------------------------------------------------------------
(* The eight checks and the verdict.                                       *)

Graded(known, ok) == IF ~known THEN "unknown" ELSE IF ok THEN "passed" ELSE "failed"

AtLeast(value, threshold) == Graded(value # None, value >= threshold)

\* relative_spread_pct: the spread over the middle of the two quotes.
CheckSpread(obs) ==
    Graded(~Missing(obs.bid) /\ ~Missing(obs.ask) /\ obs.bid + obs.ask > 0,
           (obs.ask - obs.bid) * 200 <= Thresholds.max_spread_pct * (obs.bid + obs.ask))

\* exit_depth_ratio: the whole depth of the exit side over the order.
CheckDepth(obs) ==
    Graded(obs.depth # None /\ obs.quantity > 0,
           obs.depth >= Thresholds.min_depth_ratio * obs.quantity)

\* exit_slippage_pct: how much worse than the best price the exit would be.
\* The exit of a purchase is filled below the best bid, that of a sale above
\* the best ask.
CheckSlippage(obs) ==
    LET worse == IF obs.side = "buy"
                 THEN obs.best_exit * obs.fill.d - obs.fill.n
                 ELSE obs.fill.n - obs.best_exit * obs.fill.d
    IN  Graded(~Missing(obs.fill.n) /\ ~Missing(obs.best_exit),
               worse * 100 <= Thresholds.max_slippage_pct * obs.best_exit * obs.fill.d)

CheckAge(obs) == Graded(obs.age # None, obs.age <= Thresholds.max_age)

\* Too few recorded sessions, or sessions no calendar confirmed, are unknown.
CheckContinuity(history) ==
    Graded(/\ history.known /\ history.verified
           /\ history.sessions >= Thresholds.min_history_sessions
           /\ history.sessions > 0,
           history.traded * 100 >= Thresholds.min_sessions_pct * history.sessions)

Checks(obs, history) ==
    {  AtLeast(obs.days_to_expiry, Thresholds.min_days_to_expiry),
       AtLeast(obs.open_interest, Thresholds.min_open_interest),
       AtLeast(obs.trades_today, Thresholds.min_trades_today),
       CheckSpread(obs), CheckDepth(obs), CheckSlippage(obs), CheckAge(obs),
       CheckContinuity(history)  }

\* evaluate: a failed check decides, then an unknown one.
evaluate(obs, history) ==
    LET results == Checks(obs, history)
    IN  IF "failed" \in results THEN "rejected"
        ELSE IF "unknown" \in results THEN "needs_review" ELSE "tradable"
=============================================================================
