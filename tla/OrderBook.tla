------------------------------ MODULE OrderBook -------------------------------
(***************************************************************************)
(* The book of orders of one symbol and what an order of some size would   *)
(* be filled at: data/order_book.py.  An average price is a fraction,      *)
(* kept as a record of its numerator and denominator.                      *)
(***************************************************************************)
EXTENDS Integers, Sequences, SequencesExt

None == -1                             \* a number that is not known
NoPrice == [n |-> None, d |-> 1]       \* a price that is not known
NoBook == [bids |-> <<>>, asks |-> <<>>, known |-> FALSE]

SumOver(seq, f(_)) ==
    LET sum[i \in 0..Len(seq)] == IF i = 0 THEN 0 ELSE sum[i - 1] + f(seq[i])
    IN  sum[Len(seq)]

\* A level without a price or without a quantity is an empty place.
is_real(lv) == lv.price > 0 /\ lv.quantity > 0

\* from_depth: the real levels of each side, the best first, in whatever order
\* the source lists them.
from_depth(rows) ==
    LET bids == [i \in DOMAIN rows |-> rows[i].bid]
        asks == [i \in DOMAIN rows |-> rows[i].ask]
    IN  [bids |-> SortSeq(SelectSeq(bids, is_real), LAMBDA a, b : a.price > b.price),
         asks |-> SortSeq(SelectSeq(asks, is_real), LAMBDA a, b : a.price < b.price),
         known |-> TRUE]

\* Every level is real and the best comes first, as from_depth leaves a book.
Level == [price : Nat \ {0}, quantity : Nat \ {0}]
BestFirst(book) ==
    /\ book.bids \in Seq(Level) /\ book.asks \in Seq(Level)
    /\ \A i, j \in DOMAIN book.bids : i <= j => book.bids[i].price >= book.bids[j].price
    /\ \A i, j \in DOMAIN book.asks : i <= j => book.asks[i].price <= book.asks[j].price

\* The levels an order of ours consumes: a purchase takes the sellers.
Levels(book, side) == IF side = "buy" THEN book.asks ELSE book.bids

best(book, side) ==
    LET levels == Levels(book, side) IN IF levels = <<>> THEN None ELSE levels[1].price

best_bid(book) == best(book, "sell")
best_ask(book) == best(book, "buy")

real_depth(book, side) ==
    SumOver(Levels(book, side), LAMBDA lv : IF is_real(lv) THEN lv.quantity ELSE 0)

\* The depth no further than pct per cent from the best price.
depth_within(book, side, pct) ==
    LET levels == SelectSeq(Levels(book, side), is_real)
        off(lv) == IF lv.price > levels[1].price
                   THEN lv.price - levels[1].price ELSE levels[1].price - lv.price
    IN  IF levels = <<>>
        THEN None
        ELSE SumOver(SelectSeq(levels, LAMBDA lv : off(lv) * 100 <= pct * levels[1].price),
                     LAMBDA lv : lv.quantity)

\* Variant: every level is taken whole.
TakeWhole(acc, lv) ==
    IF ~is_real(lv) \/ acc.remaining <= 0
    THEN acc
    ELSE [remaining |-> IF acc.remaining > lv.quantity THEN acc.remaining - lv.quantity ELSE 0,
          cost |-> acc.cost + lv.quantity * lv.price]

\* One level of the walk down the book.
Take(acc, lv) ==
    LET take == IF acc.remaining < lv.quantity THEN acc.remaining ELSE lv.quantity
    IN  IF ~is_real(lv) \/ acc.remaining <= 0
        THEN acc
        ELSE [remaining |-> acc.remaining - take, cost |-> acc.cost + take * lv.price]

\* The walk of an order down the levels: what is left to fill, and the cost so
\* far, after each of them.
Walk(levels, quantity) ==
    LET after[i \in 0..Len(levels)] ==
            IF i = 0 THEN [remaining |-> quantity, cost |-> 0] ELSE Take(after[i - 1], levels[i])
    IN  after

\* fill_price: the weighted average price, and how much of the order is filled.
fill_price(book, side, quantity) ==
    LET levels == Levels(book, side)
        end == Walk(levels, quantity)[Len(levels)]
        filled == quantity - end.remaining
    IN  IF quantity <= 0 \/ filled = 0
        THEN [price |-> NoPrice, filled |-> 0]
        ELSE [price |-> [n |-> end.cost, d |-> filled], filled |-> filled]
=============================================================================
