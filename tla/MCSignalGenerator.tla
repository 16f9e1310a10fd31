--------------------------- MODULE MCSignalGenerator --------------------------
(* SignalGenerator for TLC: two symbols, a strategy of single signals and one *)
(* of structures with two legs in the proportion one to two.                  *)
EXTENDS SignalGenerator

MCThresholds ==
    [min_days_to_expiry |-> 1, min_open_interest |-> 1, min_trades_today |-> 1,
     max_spread_pct |-> 50, min_depth_ratio |-> 1, max_slippage_pct |-> 10,
     max_age |-> 1, min_history_sessions |-> 1, min_sessions_pct |-> 50]
MCLimits == [equity |-> 100, risk_pct |-> 40, position_pct |-> 30,
             stop_loss_pct |-> 50, max_contracts |-> 4]

MCSymbols == <<"u1", "u2">>
MCStrategies == <<"directional", "straddle">>

Leg(strategy, sym, side, price, group, ratio) ==
    [strategy |-> strategy, sym |-> sym, side |-> side, price |-> price, size |-> 1,
     group |-> group, ratio |-> ratio, leg_count |-> 2, confidence |-> 5]
Single(sym, price) == Leg("directional", sym, "buy", price, "", 1)
Weak == [Single("o1", 10) EXCEPT !.confidence = 1]
LegA == Leg("straddle", "o1", "buy", 5, "g", 1)
LegB == Leg("straddle", "o2", "sell", 7, "g", 2)
MCBatches == (<<"u1", "directional">> :> {<<Single("o1", 10)>>, <<Weak>>})
          @@ (<<"u1", "straddle">> :> {<<>>, <<LegA, LegB>>, <<LegA>>,
                                       <<LegA, [LegB EXCEPT !.price = 14]>>})
          @@ (<<"u2", "directional">> :> {<<Single("o3", 10), Single("o3", 0)>>, <<Single("o4", 10)>>})
          @@ (<<"u2", "straddle">> :> {<<>>})

Chain == [known |-> TRUE, ins_code |-> TRUE, bid |-> 10, ask |-> 11, bid_quantity |-> 5,
          ask_quantity |-> 5, open_interest |-> 3, trades_today |-> 2, days_to_expiry |-> 4]
Archive == [known |-> TRUE, verified |-> TRUE, sessions |-> 4, traded |-> 3]
\* The chain does not know o4, and the archive has nothing about it.
MCContracts == [o1 |-> Chain, o2 |-> Chain, o3 |-> Chain, o4 |-> NoContract]
MCHistories == [o1 |-> Archive, o2 |-> Archive, o3 |-> Archive, o4 |-> UnknownHistory]

Order(p, q) == [price |-> p, quantity |-> q]
Deep == from_depth(<<[bid |-> Order(10, 5), ask |-> Order(11, 5)]>>)
\* Enough for one contract near the best price, and for the rest far from it.
Thin == from_depth(<<[bid |-> Order(5, 5), ask |-> Order(20, 5)],
                     [bid |-> Order(10, 1), ask |-> Order(11, 2)],
                     [bid |-> Order(9, 0), ask |-> Order(0, 9)]>>)
MCMarkets == {[o1 |-> b1, o2 |-> b2, o3 |-> Deep, o4 |-> NoBook] : b1 \in {Deep, Thin}, b2 \in {Deep, Thin, NoBook}}
=============================================================================
