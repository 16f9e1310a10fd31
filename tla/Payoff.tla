-------------------------------- MODULE Payoff --------------------------------
(***************************************************************************)
(* A structure of options and shares at expiry: strategies/payoff.py.      *)
(* Sums of money are in hundredths, so that a commission in per cent stays *)
(* whole; a number that is unlimited or not known is the empty set, any    *)
(* other the set of itself.                                                *)
(***************************************************************************)
EXTENDS Integers, Sequences, FiniteSets, SequencesExt

SumLegs(legs, f(_)) == FoldLeft(LAMBDA acc, l : acc + f(l), 0, legs)
Greatest(S) == CHOOSE x \in S : \A y \in S : x >= y
Smallest(S) == CHOOSE x \in S : \A y \in S : x <= y
Abs(x) == IF x < 0 THEN -x ELSE x

-----------------------------------------------------------------------------
(* PositionLeg.  The type of a leg of shares is "share".                   *)

\* Python's "or": the first price that is there and not zero.
FirstPrice(prices) ==
    LET there == SelectSeq(prices, LAMBDA p : p > 0) IN IF there = <<>> THEN 0 ELSE there[1]

\* A buyer pays the ask and a seller gets the bid.
leg_from_contract(c, side, quantity) ==
    LET mid == IF c.bid > 0 /\ c.ask > 0 THEN (c.bid + c.ask) \div 2 ELSE c.last_price
    IN  [side |-> side, quantity |-> quantity, size |-> c.size, type |-> c.type,
         strike |-> c.strike,
         entry_price |-> FirstPrice(<<IF side = "buy" THEN c.ask ELSE c.bid, mid, c.last_price>>)]

underlying_leg(price, quantity, size) ==
    [side |-> "buy", quantity |-> quantity, size |-> size, type |-> "share", strike |-> 0,
     entry_price |-> price]

is_long(l) == l.side = "buy"
is_option(l) == l.type # "share"
Signed(l, x) == IF is_long(l) THEN x ELSE -x
units(l) == l.quantity * l.size

entry_cost(l) == Signed(l, l.entry_price * units(l))

intrinsic_at(l, price) ==
    CASE l.type = "share" -> price
      [] l.type = "call" -> Greatest({price - l.strike, 0})
      [] l.type = "put" -> Greatest({l.strike - price, 0})

payoff_at(l, price) == Signed(l, (intrinsic_at(l, price) - l.entry_price) * units(l))

-----------------------------------------------------------------------------
(* StrategyPayoff.                                                         *)

commission(s) ==
    IF s.commission_rate <= 0 THEN 0
    ELSE s.commission_rate * SumLegs(s.legs, LAMBDA l : Abs(l.entry_price * units(l)))

net_premium(s) == 100 * SumLegs(SelectSeq(s.legs, is_option), entry_cost)
net_cost(s) == 100 * SumLegs(s.legs, entry_cost) + commission(s)

payoff(s, price) == 100 * SumLegs(s.legs, LAMBDA l : payoff_at(l, price)) - commission(s)

Count(s, type, side) ==
    SumLegs(SelectSeq(s.legs, LAMBDA l : l.type = type /\ l.side = side), LAMBDA l : l.quantity)

\* More calls bought than sold, or shares without a call sold on them.
has_unlimited_upside(s) ==
    \/ Count(s, "call", "buy") > Count(s, "call", "sell")
    \/ Count(s, "share", "buy") > 0 /\ Count(s, "call", "sell") = 0

\* Variant: the shares held are forgotten.
DownsideUncovered(s) == Count(s, "call", "sell") > Count(s, "call", "buy")

\* More calls sold than calls and shares bought.
has_unlimited_downside(s) ==
    Count(s, "call", "sell") > Count(s, "call", "buy") + Count(s, "share", "buy")

Strikes(s) == {l.strike : l \in {m \in ToSet(s.legs) : m.strike > 0}}

\* The curve is linear between the strikes: they, zero and a price beyond the
\* last one hold every extreme.
Probes(s) ==
    LET strikes == Strikes(s)
        high == Greatest(strikes)
        span == high - Smallest(strikes)
        next(a) == Smallest({b \in strikes : b > a})
    IN  IF strikes = {} THEN {0, 2 * s.underlying_price}
        ELSE {0, high + (IF span = 0 THEN high \div 2 ELSE span)}
               \cup strikes \cup {(a + next(a)) \div 2 : a \in strikes \ {high}}

Values(s) == {payoff(s, p) : p \in Probes(s)}

max_profit(s) ==
    IF ~s.single_expiry \/ has_unlimited_upside(s) THEN {} ELSE {Greatest(Values(s))}
max_loss(s) ==
    IF ~s.single_expiry \/ has_unlimited_downside(s) THEN {} ELSE {Smallest(Values(s))}

\* What is paid, or else the most that a structure of credit can lose.  No
\* scan gives a structure the margin of a broker (required_margin), which would
\* come before the loss.
required_capital(s) ==
    IF net_cost(s) > 0 THEN {net_cost(s)}
    ELSE {-loss : loss \in {x \in max_loss(s) : x < 0}}

\* The return on the capital, as a pair; nothing known counts as zero.
Roi(s) ==
    LET all == {[profit |-> p, capital |-> c] : p \in max_profit(s),
                                                c \in {x \in required_capital(s) : x > 0}}
    IN  IF all = {} THEN [profit |-> 0, capital |-> 1] ELSE CHOOSE r \in all : TRUE
=============================================================================
