------------------------------- MODULE Scanner --------------------------------
(***************************************************************************)
(* The structures strategies/scanner.py finds in a chain of options.  The  *)
(* result of a scan is a set: the order it is shown in is left out, and of *)
(* structures with equal keys at the limit all are kept.                   *)
(***************************************************************************)
EXTENDS Payoff

CONSTANT Filters         \* ScanFilters

\* ScanFilters.accepts, with both quotes required.
accepts(c) ==
    /\ Filters.min_days <= c.days /\ c.days <= Filters.max_days
    /\ c.open_interest >= Filters.min_open_interest /\ c.volume >= Filters.min_volume
    /\ c.strike > 0
    /\ c.bid > 0 /\ c.ask > 0 /\ c.ask >= c.bid
    /\ (c.ask - c.bid) * 200 <= Filters.max_spread_pct * (c.bid + c.ask)

usable(chain) == {c \in chain.contracts : accepts(c)}
OfType(contracts, type) == {c \in contracts : c.type = type}

\* The limit best of S, where Better(a, b) says that a comes before b.
Best(S, limit, Better(_, _)) == {a \in S : Cardinality({b \in S : Better(b, a)}) < limit}

Structure(kind, chain, legs, single) ==
    [kind |-> kind, legs |-> legs, single_expiry |-> single,
     underlying_price |-> chain.spot, commission_rate |-> Filters.commission_rate]

BetterRoi(a, b) ==
    LET ra == Roi(a)
        rb == Roi(b)
    IN  ra.profit * rb.capital > rb.profit * ra.capital

-----------------------------------------------------------------------------
scan_long_straddle(chain, limit) ==
    LET found == {Structure("long_straddle", chain, <<leg_from_contract(p[1], "buy", 1),
                                                      leg_from_contract(p[2], "buy", 1)>>, TRUE) :
                  p \in {q \in OfType(usable(chain), "call") \X OfType(usable(chain), "put") :
                            q[1].days = q[2].days /\ q[1].strike = q[2].strike}}
    IN  Best({s \in found : net_cost(s) > 0}, limit,
             LAMBDA a, b : Abs(a.legs[1].strike - chain.spot) < Abs(b.legs[1].strike - chain.spot))

\* The put protects below the price and the call caps the profit above it.
scan_collar(chain, limit, shares) ==
    LET quantity == IF shares > 0 THEN shares ELSE 1
        pairs == {q \in OfType(usable(chain), "put") \X OfType(usable(chain), "call") :
                     /\ q[1].days = q[2].days
                     /\ q[1].strike < chain.spot /\ chain.spot < q[2].strike}
        \* only the four nearest of each side
        near(q) == /\ Cardinality({r \in pairs : r[2] = q[2] /\ r[1].strike > q[1].strike}) < 4
                   /\ Cardinality({r \in pairs : r[1] = q[1] /\ r[2].strike < q[2].strike}) < 4
    IN  Best({Structure("collar", chain, <<underlying_leg(chain.spot, quantity, q[2].size),
                                           leg_from_contract(q[1], "buy", quantity),
                                           leg_from_contract(q[2], "sell", quantity)>>, TRUE) :
                 q \in {r \in pairs : chain.spot > 0 /\ near(r)}},
             limit,
             LAMBDA a, b : a.legs[2].entry_price - a.legs[3].entry_price
                             < b.legs[2].entry_price - b.legs[3].entry_price)

\* long put < short put < short call < long call, and money must come in.
scan_iron_condor(chain, limit) ==
    LET puts == {c \in OfType(usable(chain), "put") : c.strike < chain.spot}
        calls == {c \in OfType(usable(chain), "call") : c.strike > chain.spot}
        nearest(c, others) ==
            Cardinality({o \in others : /\ o.days = c.days
                                        /\ Abs(o.strike - chain.spot) < Abs(c.strike - chain.spot)}) < 5
        wings(S) == {q \in S \X S : /\ q[1].days = q[2].days /\ q[1].strike < q[2].strike
                                    /\ nearest(q[1], S) /\ nearest(q[2], S)}
        found == {Structure("iron_condor", chain,
                            <<leg_from_contract(q[1][1], "buy", 1), leg_from_contract(q[1][2], "sell", 1),
                              leg_from_contract(q[2][1], "sell", 1), leg_from_contract(q[2][2], "buy", 1)>>,
                            TRUE) :
                  q \in {r \in wings(puts) \X wings(calls) : r[1][1].days = r[2][1].days}}
    IN  Best({s \in found : net_premium(s) < 0}, limit, BetterRoi)

\* The four vertical spreads: of calls or puts, the lower or the upper bought.
Verticals ==
    {[kind |-> "bull_call_spread", type |-> "call", long_is_lower |-> TRUE],
     [kind |-> "bear_call_spread", type |-> "call", long_is_lower |-> FALSE],
     [kind |-> "bull_put_spread", type |-> "put", long_is_lower |-> TRUE],
     [kind |-> "bear_put_spread", type |-> "put", long_is_lower |-> FALSE]}

vertical_spreads(v, chain, limit) ==
    LET of == OfType(usable(chain), v.type)
        pairs == {q \in of \X of : /\ q[1].days = q[2].days /\ q[1].strike < q[2].strike
                                   /\ chain.spot > 0 => (q[2].strike - q[1].strike) * 100
                                                          <= Filters.max_width_pct * chain.spot}
        legs(q) == IF v.long_is_lower
                   THEN <<leg_from_contract(q[1], "buy", 1), leg_from_contract(q[2], "sell", 1)>>
                   ELSE <<leg_from_contract(q[2], "buy", 1), leg_from_contract(q[1], "sell", 1)>>
        ceiling(s) == 100 * Abs(s.legs[1].strike - s.legs[2].strike)
                          * Greatest({s.legs[1].size, s.legs[2].size})
        \* quotes that contradict each other, or nothing to gain
        sound(s) == /\ Abs(net_premium(s)) <= ceiling(s)
                    /\ \A p \in max_profit(s) : p > 0
    IN  Best({s \in {Structure(v.kind, chain, legs(q), TRUE) : q \in pairs} : sound(s)},
             limit, BetterRoi)

\* The near expiry sold, the far one bought: no curve at expiry.
scan_calendar_spread(chain, limit) ==
    LET pairs == {q \in usable(chain) \X usable(chain) :
                     /\ q[1].type = q[2].type /\ q[1].strike = q[2].strike
                     /\ q[1].days < q[2].days /\ q[2].days - q[1].days >= Filters.min_gap}
        found == {Structure("calendar_spread", chain, <<leg_from_contract(q[1], "sell", 1),
                                                        leg_from_contract(q[2], "buy", 1)>>, FALSE) :
                  q \in pairs}
    IN  Best({s \in found : net_premium(s) > 0}, limit, LAMBDA a, b : net_cost(a) < net_cost(b))

scan_all(chain, limit) ==
    scan_long_straddle(chain, limit) \cup scan_collar(chain, limit, 0)
      \cup scan_iron_condor(chain, limit) \cup scan_calendar_spread(chain, limit)
      \cup UNION {vertical_spreads(v, chain, limit) : v \in Verticals}

-----------------------------------------------------------------------------
\* What a structure is shown with is true of its curve: the largest profit and
\* loss are those of any price whatever, a profit or loss is called unlimited
\* exactly when the curve rises or falls for ever, and the capital asked for
\* covers every loss unless the commission eats the credit.
TrueOfCurve(s, highest) ==
    LET curve == {payoff(s, p) : p \in 0..highest}
        slope == payoff(s, highest + 1) - payoff(s, highest)
    IN  s.single_expiry =>
          /\ max_profit(s) = IF slope > 0 THEN {} ELSE {Greatest(curve)}
          /\ max_loss(s) = IF slope < 0 THEN {} ELSE {Smallest(curve)}
          /\ (net_premium(s) >= 0 \/ net_cost(s) <= 0) =>
                \A c \in required_capital(s) : \A v \in curve : v >= -c
=============================================================================
