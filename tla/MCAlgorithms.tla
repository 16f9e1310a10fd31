------------------------------ MODULE MCAlgorithms ----------------------------
(***************************************************************************)
(* The pure parts of the program on every input of small sets: the walk    *)
(* down the book, the ranking of opportunities, the structures of the      *)
(* scanner, the calendar, and the extraction of an answer.  A state is one *)
(* input of one of them, or a moment of the extraction, whose input is the *)
(* answer it reads row by row.                                             *)
(***************************************************************************)
EXTENDS MCRawSnapshot, Integers, SequencesExt

MCThresholds ==
    [min_days_to_expiry |-> 2, min_open_interest |-> 1, min_trades_today |-> 1,
     max_spread_pct |-> 50, min_depth_ratio |-> 1, max_slippage_pct |-> 20,
     max_age |-> 1, min_history_sessions |-> 1, min_sessions_pct |-> 50]
MCWeights ==
    [round_trip_cost |-> 30, exit_capacity |-> 20, time_to_expiry |-> 15,
     required_move |-> 25, fee_cost |-> 10, depth_comfort_multiple |-> 3,
     days_to_expiry_comfort |-> 6, max_required_move_pct |-> 25,
     max_round_trip_cost_pct |-> 30, max_fee_cost_pct |-> 5]
MCFilters ==
    [min_days |-> 7, max_days |-> 60, min_open_interest |-> 1, min_volume |-> 0,
     max_spread_pct |-> 100, max_width_pct |-> 60, min_gap |-> 14, commission_rate |-> 1]

K == INSTANCE OpportunityRanking WITH Thresholds <- MCThresholds, Weights <- MCWeights
S == INSTANCE Scanner WITH Filters <- MCFilters
C == INSTANCE TradingCalendar WITH FixedHolidays <- {1, 8, 16}

VARIABLES mode, input

-----------------------------------------------------------------------------
Lv(p, q) == [price |-> p, quantity |-> q]
LevelSet == {Lv(8, 1), Lv(10, 2), Lv(9, 3), Lv(0, 4), Lv(7, 0)}
Rung(b, a) == [bid |-> b, ask |-> a]

BookInputs == {[rows |-> <<Rung(a, d), Rung(b, e), Rung(c, a)>>, side |-> side, quantity |-> q] :
                  a, b, c, d, e \in LevelSet, side \in {"buy", "sell"}, q \in 0..7}

Deep == <<Rung(Lv(10, 9), Lv(11, 9)), Rung(Lv(6, 9), Lv(12, 9))>>
Thin == <<Rung(Lv(10, 1), Lv(11, 1)), Rung(Lv(9, 1), Lv(12, 1))>>
OneSided == <<Rung(Lv(10, 9), Lv(11, 1))>>

Chain == [known |-> TRUE, ins_code |-> TRUE, bid |-> 10, ask |-> 11, bid_quantity |-> 5,
          ask_quantity |-> 5, open_interest |-> 3, trades_today |-> 2, days_to_expiry |-> 4]
Archive == [known |-> TRUE, verified |-> TRUE, sessions |-> 4, traded |-> 3]

Schedules == {K!NoFees, [K!NoFees EXCEPT !.declared = TRUE],
              [buy |-> 1, sell |-> 2, tax |-> 1, per_order |-> 0, declared |-> FALSE],
              [buy |-> 4, sell |-> 4, tax |-> 1, per_order |-> 2, declared |-> TRUE]}

Candidate(book, age, side, group, type, quantity, days, spot, stop, fees) ==
    [id |-> 1, symbol |-> 1, side |-> side, quantity |-> quantity, leg_group_id |-> group,
     obs |-> K!Observe([Chain EXCEPT !.days_to_expiry = days], book, age, side, quantity),
     history |-> Archive, option_type |-> type, strike |-> 40, contract_size |-> 2,
     underlying_price |-> spot, stop_loss_price |-> stop, fees |-> fees]

RankingInputs ==
    {Candidate(K!from_depth(listed), age, side, group, type, q, days, spot, stop, fees) :
        listed \in {Deep, Thin, OneSided}, age \in {1, 5}, side \in {"buy", "sell"},
        group \in {"", "g"}, type \in {"call", "put"}, q \in 1..3, days \in {2, 4, 9},
        spot \in {K!None, 30, 48, 60}, stop \in {K!None, 6, 12}, fees \in Schedules}

-----------------------------------------------------------------------------
Quotes == {[bid |-> 1, ask |-> 2], [bid |-> 3, ask |-> 4], [bid |-> 6, ask |-> 6]}
Option(type, strike, days, quote) ==
    [type |-> type, strike |-> strike, days |-> days, bid |-> quote.bid, ask |-> quote.ask,
     last_price |-> 0, size |-> 1, open_interest |-> 5, volume |-> 1]

ChainInputs ==
    {[spot |-> 10,
      contracts |-> {Option("call", 8, 10, c1), Option("call", 12, 10, c2), Option("call", 16, 10, c3),
                     Option("put", 4, 10, p1), Option("put", 8, 10, p2), Option("put", 12, 10, p3),
                     Option("call", 12, 30, p3)}] :
        c1, c2, c3, p1, p2, p3 \in Quotes}

-----------------------------------------------------------------------------
(* A market of two weeks, and two stretches of its history.                *)
Working == {d \in 0..13 : ~C!is_weekend(d)}
CalendarInputs ==
    {[open |-> open, one |-> {d \in open : a <= d /\ d <= a + 4},
      two |-> {d \in open : b <= d /\ d <= b + 6}, restart |-> restart] :
        open \in {Working \ closed : closed \in SUBSET {1, 5, 7, 8, 9, 12}},
        a \in {0, 1, 5, 8}, b \in {0, 5, 7}, restart \in BOOLEAN}

-----------------------------------------------------------------------------
Inputs ==
    \/ mode = "book" /\ input \in BookInputs
    \/ mode = "ranking" /\ input \in RankingInputs
    \/ mode = "chain" /\ input \in ChainInputs
    \/ mode = "calendar" /\ input \in CalendarInputs
    \/ mode = "answer" /\ input = "read row by row"

\* Only the extraction takes steps.
AlgInit == Inputs /\ Init
AlgNext == mode = "answer" /\ Next /\ UNCHANGED <<mode, input>>
AlgSpec == AlgInit /\ [][AlgNext]_<<mode, input, vars>>

-----------------------------------------------------------------------------
(* Properties.                                                             *)

\* Every way to take so many contracts from each level.
Allocations(levels, total) ==
    {f \in [DOMAIN levels -> 0..total] :
        /\ \A i \in DOMAIN levels : f[i] <= levels[i].quantity
        /\ FoldLeft(LAMBDA acc, i : acc + f[i], 0, [i \in DOMAIN levels |-> i]) = total}
Paid(levels, f) == FoldLeft(LAMBDA acc, i : acc + f[i] * levels[i].price, 0,
                            [i \in DOMAIN levels |-> i])

\* The fill of an order (fill_price, from_depth) is the best there is: as much
\* as the book really holds, at the least cost of a purchase and the largest
\* proceeds of a sale over every way to take that much from the rows as the
\* source listed them, empty rows included.  The book itself has no empty
\* level and the best price of each side first.
BookFills ==
    mode = "book" =>
        LET listed == [i \in DOMAIN input.rows |->
                          IF input.side = "buy" THEN input.rows[i].ask ELSE input.rows[i].bid]
            priced == SelectSeq(listed, LAMBDA lv : lv.price > 0)
            there == K!SumOver(priced, LAMBDA lv : lv.quantity)
            fill == K!fill_price(K!from_depth(input.rows), input.side, input.quantity)
        IN  /\ K!BestFirst(K!from_depth(input.rows))
            /\ fill.filled = IF there < input.quantity THEN there ELSE input.quantity
            /\ fill.filled > 0 =>
                 /\ fill.price.d = fill.filled
                 /\ \E f \in Allocations(priced, fill.filled) : Paid(priced, f) = fill.price.n
                 /\ \A f \in Allocations(priced, fill.filled) :
                       IF input.side = "buy" THEN Paid(priced, f) >= fill.price.n
                                             ELSE Paid(priced, f) <= fill.price.n

\* What a purchase earns at expiry with the underlying at this price, when this
\* schedule is the one it was really charged by.
Earned(c, schedule, price) ==
    LET worth == IF c.option_type = "call" THEN K!Minus(price, K!Whole(c.strike))
                                           ELSE K!Minus(K!Whole(c.strike), price)
        premium == K!Times(c.obs.entry_fill, K!units(c))
    IN  K!Minus(K!Times(worth, K!units(c)), K!Plus(premium, K!entry_cost(schedule, premium)))

\* The schedules that may turn out to be in force.
Real(fees) == IF K!rates_known(fees) THEN {fees} ELSE {f \in Schedules : K!rates_known(f)}

Ranked == ToSet(K!build_ranking(<<input>>, {input.id}).ranked)

\* The same opportunity once the fees and the price of the underlying are known.
Told(schedule, spot) ==
    K!rank_opportunity([input EXCEPT !.fees = schedule, !.underlying_price = spot])
Spots == IF input.underlying_price = K!None THEN {30, 48, 60} ELSE {input.underlying_price}

\* What passes the gates (rank_opportunities) has a basis: the screening
\* leaves only the price of the underlying and the fees unknown.  A purchase
\* whose fees are known earns exactly nothing at the price shown to break even
\* at, and one whose fees are not known never earns there, whatever they turn
\* out to be.  What is learnt later never lifts the score above the best case
\* shown, and the price of the underlying never lowers it.
RankingHonest ==
    mode = "ranking" =>
        \A r \in Ranked :
            /\ \A k \in DOMAIN r.components : r.components[k] = K!None =>
                  \/ k = "required_move" /\ input.underlying_price = K!None
                  \/ k = "fee_cost" /\ ~K!rates_known(input.fees)
            /\ \A schedule \in Real(input.fees) :
                  LET earned == Earned(input, schedule, r.breakeven).n
                  IN  IF K!rates_known(input.fees) THEN earned = 0 ELSE earned <= 0
            /\ \A spot \in Spots : K!Score(r) <= K!Score(Told(input.fees, spot))
            /\ \A schedule \in Real(input.fees), spot \in Spots :
                  K!Score(Told(schedule, spot)) <= K!BestCase(r)

\* "So the absence of data never lifts anybody": an opportunity whose fees are
\* not known has no higher score than the same one with its fees known.
UnknownNeverLifts ==
    mode = "ranking" =>
        \A r \in Ranked, schedule \in Real(input.fees) :
            K!Score(r) <= K!Score(Told(schedule, input.underlying_price))

\* Every structure the scanner finds in a chain of one contract size is shown
\* with figures that are true of its curve.
PayoffExact ==
    mode = "chain" => \A s \in S!scan_all(input, 20) : S!TrueOfCurve(s, 24)

\* A calendar that learnt two stretches of a market's history, in either
\* order and with a restart from the file in between, is right about every
\* day of both; a stretch that taught no holiday is not saved, and one whose
\* file cannot be read is forgotten: they count only until the restart.
CalendarTruthful ==
    mode = "calendar" =>
        LET built(cache, history) == C!learn_if_needed(C!build_trading_calendar({}, cache, <<history>>))
            empty == C!build_trading_calendar({}, C!NoCache, <<>>)
            span(h) == IF Cardinality(h) < 2 THEN {} ELSE C!First(h)..C!Last(h)
        IN  \A h \in {<<input.one, input.two>>, <<input.two, input.one>>} :
            \E first \in {built(C!NoCache, h[1])} :
            \A cache \in C!Loadable(C!Saved(empty, first, C!NoCache)) :
            \E cal \in {IF input.restart THEN built(cache, h[2]) ELSE C!learn_from_history(first, h[2])} :
            \E days \in {span(h[2]) \cup IF input.restart /\ cache = C!NoCache THEN {} ELSE span(h[1])} :
              /\ \A d \in days : C!is_trading_day(cal, d) <=> d \in input.open
              /\ \A d \in span(h[2]) : \A e \in span(h[2]) : d < e =>
                    /\ C!trading_days_between(cal, d, e) = Cardinality(input.open \cap (d..e))
                    /\ e \in input.open =>
                         C!next_trading_day(cal, d) = C!First({o \in input.open : o > d})
=============================================================================
