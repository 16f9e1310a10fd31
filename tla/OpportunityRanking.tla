-------------------------- MODULE OpportunityRanking --------------------------
(***************************************************************************)
(* The queue of opportunities: market/opportunity_ranking.py, the fees of  *)
(* risk/fees.py it charges, and _build_ranking of web/api.py, which joins  *)
(* the records of the screening with the signals of the pass.  Money is a  *)
(* fraction; a score is a whole number from 0 to 100.                      *)
(***************************************************************************)
EXTENDS Tradability

CONSTANT Weights         \* RankingWeights

-----------------------------------------------------------------------------
(* Fractions.  A denominator of zero is a value that is not known.         *)

Unknown == [n |-> 0, d |-> 0]
Whole(k) == [n |-> k, d |-> 1]
Known(x) == x.d # 0
OfPrice(price) == IF Missing(price.n) THEN Unknown ELSE price

Plus(x, y) ==
    IF y.d % x.d = 0 THEN [n |-> x.n * (y.d \div x.d) + y.n, d |-> y.d]
    ELSE IF x.d % y.d = 0 THEN [n |-> x.n + y.n * (x.d \div y.d), d |-> x.d]
    ELSE [n |-> x.n * y.d + y.n * x.d, d |-> x.d * y.d]
Minus(x, y) == Plus(x, [y EXCEPT !.n = -@])
Times(x, k) == [x EXCEPT !.n = @ * k]
Percent(x, rate) == [n |-> x.n * rate, d |-> x.d * 100]
Over(x, y) == IF x.d = y.d THEN [n |-> x.n, d |-> y.n] ELSE [n |-> x.n * y.d, d |-> x.d * y.n]

-----------------------------------------------------------------------------
(* FeeSchedule.  Rates are percentages of the notional.                    *)

NoFees == [buy |-> 0, sell |-> 0, tax |-> 0, per_order |-> 0, declared |-> FALSE]

\* A rate of zero is known only when it was declared.
rates_known(fees) ==
    fees.declared \/ \E f \in {"buy", "sell", "tax", "per_order"} : fees[f] # 0

entry_cost(fees, notional) == Plus(Percent(notional, fees.buy), Whole(fees.per_order))
exit_cost(fees, notional) ==
    Plus(Percent(notional, fees.sell + fees.tax), Whole(fees.per_order))

-----------------------------------------------------------------------------
(* The components of a score: None, or 0 to 100.                           *)

Clamp(x) == IF x < 0 THEN 0 ELSE IF x > 100 THEN 100 ELSE x

\* Full at zero, nothing from the limit on; the limit is a percentage.
lower_is_better(value, limit) ==
    IF ~Known(value) \/ limit <= 0 THEN None
    ELSE Clamp(100 - (value.n * 10000) \div (value.d * limit))

\* Nothing at the floor of the screening, full from the comfortable on.
higher_is_better(value, floor, comfort) ==
    IF ~Known(value) THEN None
    ELSE IF comfort <= floor THEN IF value.n >= floor * value.d THEN 100 ELSE 0
    ELSE Clamp(((value.n - floor * value.d) * 100) \div (value.d * (comfort - floor)))

AtLeastZero(x) == IF Known(x) /\ x.n < 0 THEN Whole(0) ELSE x

\* Bought at the price that fills the order and sold at once again.
round_trip_cost(obs) ==
    LET in == OfPrice(obs.entry_fill)
        out == OfPrice(obs.fill)
        cost == IF Known(in) /\ Known(out) THEN Over(Minus(in, out), in) ELSE Unknown
    IN  lower_is_better(AtLeastZero(cost), Weights.max_round_trip_cost_pct)

\* Only the depth near the best price is a way out.
exit_capacity(obs) ==
    LET ratio == IF obs.in_band = None \/ obs.quantity <= 0 THEN Unknown
                 ELSE [n |-> obs.in_band, d |-> obs.quantity]
        floor == Thresholds.min_depth_ratio
        multiple == Weights.depth_comfort_multiple
    IN  higher_is_better(ratio, floor, IF floor > 1 THEN floor * multiple ELSE multiple)

time_to_expiry(obs) ==
    higher_is_better(IF obs.days_to_expiry = None THEN Unknown ELSE Whole(obs.days_to_expiry),
                     Thresholds.min_days_to_expiry, Weights.days_to_expiry_comfort)

\* How far the underlying has to move for the position to break even.
required_move(breakeven, spot, type) ==
    LET far == IF type = "call" THEN Minus(breakeven, Whole(spot)) ELSE Minus(Whole(spot), breakeven)
        move == IF Missing(spot) \/ ~Known(breakeven) \/ breakeven.n = 0
                THEN Unknown ELSE Over(far, Whole(spot))
    IN  lower_is_better(AtLeastZero(move), Weights.max_required_move_pct)

fee_cost(entryFee, exitFee, capital) ==
    LET known == Known(entryFee) /\ Known(exitFee) /\ Known(capital) /\ capital.n > 0
    IN  lower_is_better(IF known THEN Over(Plus(entryFee, exitFee), capital) ELSE Unknown,
                        Weights.max_fee_cost_pct)

-----------------------------------------------------------------------------
(* rank_opportunity.                                                       *)

breakeven_price(strike, entry, type, feePerUnit) ==
    LET total == Plus(entry, AtLeastZero(feePerUnit))
    IN  IF strike <= 0 \/ entry.n < 0 THEN Unknown
        ELSE IF type = "call" THEN Plus(Whole(strike), total) ELSE Minus(Whole(strike), total)

\* The loss when the stop is hit, from the price the entry is filled at.
stop_loss_loss(entry, units, stop, entryFee, fees) ==
    LET fall == Times(Minus(entry, Whole(stop)), units)
    IN  IF Missing(stop) \/ stop * entry.d >= entry.n \/ ~Known(entryFee) THEN Unknown
        ELSE Plus(Plus(fall, entryFee), exit_cost(fees, Whole(stop * units)))

units(c) == c.quantity * (IF c.contract_size > 1 THEN c.contract_size ELSE 1)

EntryFee(c) ==
    IF rates_known(c.fees) THEN entry_cost(c.fees, Times(c.obs.entry_fill, units(c))) ELSE Unknown
ExitFee(c) ==
    IF rates_known(c.fees) /\ ~Missing(c.obs.fill.n)
    THEN exit_cost(c.fees, Times(c.obs.fill, units(c))) ELSE Unknown
CapitalRequired(c) ==
    IF Known(EntryFee(c)) THEN Plus(Times(c.obs.entry_fill, units(c)), EntryFee(c)) ELSE Unknown

\* Variant: the fee of leaving is part of the price to break even at.
FeePerUnitBoth(c) ==
    IF Known(EntryFee(c)) THEN Over(Plus(EntryFee(c), ExitFee(c)), Whole(units(c))) ELSE Whole(0)

\* The fee of entering alone: at expiry nothing is sold.
FeePerUnit(c) ==
    IF Known(EntryFee(c)) THEN Over(EntryFee(c), Whole(units(c))) ELSE Whole(0)

Breakeven(c) == breakeven_price(c.strike, c.obs.entry_fill, c.option_type, FeePerUnit(c))

Components(c) ==
    [round_trip_cost |-> round_trip_cost(c.obs),
     exit_capacity |-> exit_capacity(c.obs),
     time_to_expiry |-> time_to_expiry(c.obs),
     required_move |-> required_move(Breakeven(c), c.underlying_price, c.option_type),
     fee_cost |-> fee_cost(EntryFee(c), ExitFee(c), CapitalRequired(c))]

rank_opportunity(c) ==
    [of |-> c, components |-> Components(c), breakeven |-> Breakeven(c),
     capital_required |-> CapitalRequired(c),
     max_theoretical_loss |-> CapitalRequired(c),
     stop_loss_loss |-> stop_loss_loss(c.obs.entry_fill, units(c), c.stop_loss_price,
                                       EntryFee(c), c.fees)]

-----------------------------------------------------------------------------
(* RankedOpportunity: an unknown component counts nothing in the score and *)
(* all of its weight in the best case.                                     *)

Keys == <<"round_trip_cost", "exit_capacity", "time_to_expiry", "required_move", "fee_cost">>

TotalOf(f(_)) == SumOver(Keys, f)
TotalWeight == TotalOf(LAMBDA k : Weights[k])
Score(r) ==
    IF TotalWeight <= 0 THEN 0
    ELSE TotalOf(LAMBDA k : IF r.components[k] = None THEN 0 ELSE r.components[k] * Weights[k])
           \div TotalWeight
BestCase(r) ==
    IF TotalWeight <= 0 THEN 0
    ELSE TotalOf(LAMBDA k : (IF r.components[k] = None THEN 100 ELSE r.components[k]) * Weights[k])
           \div TotalWeight
KnownWeight(r) == TotalOf(LAMBDA k : IF r.components[k] = None THEN 0 ELSE Weights[k])

-----------------------------------------------------------------------------
(* The gates of rank_opportunities, in their order, and the sorted queue.  *)

Verdict(c) == evaluate(c.obs, c.history)

ExclusionCode(c) ==
    IF Verdict(c) # "tradable" THEN "screened_out"
    ELSE IF c.leg_group_id # "" THEN "multi_leg"
    ELSE IF c.side # "buy" THEN "sell_side"
    ELSE IF entry_status(c.obs) = "short_of_depth" THEN "entry_short_of_depth"
    ELSE IF entry_status(c.obs) = "unknown" THEN "entry_unknown"
    ELSE ""

Ahead(r1, r2) ==
    \/ Score(r1) > Score(r2)
    \/ Score(r1) = Score(r2) /\ KnownWeight(r1) > KnownWeight(r2)
    \/ /\ Score(r1) = Score(r2) /\ KnownWeight(r1) = KnownWeight(r2)
       /\ r1.of.symbol < r2.of.symbol

rank_opportunities(candidates) ==
    LET passed == SelectSeq(candidates, LAMBDA c : ExclusionCode(c) = "")
        out == SelectSeq(candidates, LAMBDA c : ExclusionCode(c) # "")
    IN  [ranked |-> SortSeq([i \in DOMAIN passed |-> rank_opportunity(passed[i])], Ahead),
         excluded |-> [i \in DOMAIN out |-> [of |-> out[i], code |-> ExclusionCode(out[i])]]]

\* _build_ranking: a record without a published signal is a candidate only if
\* it was screened out; what passed and was not published is listed apart.
build_ranking(records, published) ==
    LET candidate(c) == c.id \in published \/ Verdict(c) # "tradable"
        ranking == rank_opportunities(SelectSeq(records, candidate))
        rest == SelectSeq(records, LAMBDA c : ~candidate(c))
    IN  [ranking EXCEPT !.excluded =
            @ \o [i \in DOMAIN rest |-> [of |-> rest[i], code |-> "not_published"]]]
=============================================================================
