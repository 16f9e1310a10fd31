----------------------- MODULE SignalGeneratorProofs -----------------------
(***************************************************************************)
(* What the signal generator returns, for any symbols, strategies, batches *)
(* of signals, books, limits and thresholds:                               *)
(*   a smaller order is never filled at a worse average, so that what was  *)
(*   found tradable stays so when a structure cuts it down;                *)
(*   structures are returned whole;                                        *)
(*   returns of one key are spaced, and only returns are remembered.       *)
(***************************************************************************)
EXTENDS SignalGenerator, WellFoundedInduction, FiniteSetTheorems, SequenceTheorems, TLAPS

----------------------------------------------------------------------------
(* The invariant *)

\* leg_group_ids: the name a strategy gave, and the turn it was drawn in.
Ids == STRING \X Nat \X Nat
Sig == Signal(Ids \cup {NoGroup})

Books == {m[o] : m \in Markets, o \in Options} \cup {NoBook}
Copy == [at : Int, book : Books]
Entry == [sig : Sig, qty : Nat, got : Copy]

\* One signal, or the legs of one structure.
IsUnit(u) ==
    /\ u \in Seq(Sig) /\ u # <<>>
    /\ u[1].group = NoGroup => Len(u) = 1
    /\ \A i \in DOMAIN u : /\ u[i].group = u[1].group
                           /\ u[i].strategy = u[1].strategy
                           /\ u[i].leg_count = u[1].leg_count

\* Structures apart from each other.
IsUnits(us) ==
    /\ us \in Seq(Seq(Sig))
    /\ \A i \in DOMAIN us : IsUnit(us[i])
    /\ \A i, j \in DOMAIN us : i # j /\ us[i][1].group # NoGroup =>
          us[i][1].group # us[j][1].group

TypeOK ==
    /\ clock \in Nat /\ pc \in {"idle", "pass"} /\ context \in BOOLEAN
    /\ todo \in Seq(ToSet(Symbols)) /\ turns \in Seq(ToSet(Strategies))
    /\ IsUnits(units)
    /\ sized \in Seq(Entry) /\ collected \in Seq(Entry) /\ signals \in Seq(Entry)
    /\ dropped \in Seq(Ids)
    /\ \A o \in Options : market[o] \in Books
    /\ cache \in [Options -> Copy]
    /\ last \in [DOMAIN last -> Nat] /\ delivered \in [DOMAIN delivered -> Nat]

\* Where the pass is.
PhaseInv ==
    /\ pc = "idle" => todo = <<>> /\ ~context
    /\ context => todo # <<>>
    /\ ~context => turns = <<>> /\ units = <<>> /\ collected = <<>>
    /\ units = <<>> => sized = <<>>

Tradable(e) == e.qty >= 1 /\ Verdict(e.sig, e.qty, e.got) = "tradable"

\* The legs that passed, at their own size.
SizedInv ==
    units # <<>> =>
        /\ Len(sized) <= Len(unit)
        /\ \A i \in DOMAIN sized : /\ sized[i].sig = unit[i]
                                   /\ sized[i].qty <= Limits.max_contracts
                                   /\ Tradable(sized[i])

TradableInv ==
    /\ \A i \in DOMAIN signals : Tradable(signals[i])
    /\ \A i \in DOMAIN collected : Tradable(collected[i])

\* The structures of a result.
Same(out, i) == {j \in DOMAIN out : out[j].sig.group = out[i].sig.group}
GroupsOf(out) == {out[i].sig.group : i \in DOMAIN out} \ {NoGroup}
Whole(out) ==
    \A i \in DOMAIN out : out[i].sig.group # NoGroup =>
        /\ Cardinality(Same(out, i)) = out[i].sig.leg_count
        /\ \E b \in 1..Limits.max_contracts :
              \A j \in Same(out, i) : out[j].qty = b * out[j].sig.ratio

\* Drawn in a turn that is over or just being processed.
Past(g) == \/ g[2] > Len(todo)
           \/ context /\ g[2] = Len(todo) /\ g[3] > Len(turns)

Seen == GroupsOf(signals) \cup GroupsOf(collected) \cup ToSet(dropped)

\* No structure is met twice.
GroupInv ==
    /\ \A i \in DOMAIN units : units[i][1].group # NoGroup =>
          /\ units[i][1].group[2] = Len(todo)
          /\ units[i][1].group[3] = Len(turns) + 1
          /\ units[i][1].group \notin Seen
    /\ \A g \in Seen : Past(g)
    /\ GroupsOf(signals) \cap GroupsOf(collected) = {}
    /\ (GroupsOf(signals) \cup GroupsOf(collected)) \cap ToSet(dropped) = {}

WholeInv == Whole(signals) /\ Whole(signals \o collected)

\* The keys of this pass.
Now == KeysOf(signals) \cup KeysOf(collected)

\* What is remembered of a key is its last return.
Agree(k) == k \in DOMAIN last \cap DOMAIN delivered /\ last[k] = delivered[k]

MemoryInv ==
    /\ \A k \in DOMAIN delivered : k \in DOMAIN last /\ delivered[k] <= last[k]
    /\ \A k \in DOMAIN last : last[k] <= clock
    /\ pc = "idle" => \A k \in (DOMAIN last \cup DOMAIN delivered) \ orphaned : Agree(k)
    /\ pc = "pass" =>
          /\ \A k \in Now : /\ k \in DOMAIN last /\ last[k] = clock
                            /\ k \in DOMAIN delivered => clock - delivered[k] >= DedupeWindow
          /\ \A k \in (DOMAIN last \cup DOMAIN delivered) \ (Now \cup orphaned) : Agree(k)

Inv == TypeOK /\ PhaseInv /\ SizedInv /\ TradableInv /\ GroupInv /\ WholeInv /\ MemoryInv

----------------------------------------------------------------------------
(* Induction over a bounded part of the naturals, the claim given as the   *)
(* set of the numbers it holds of.                                         *)

LEMMA LeastIs ==
    ASSUME NEW S \in SUBSET Nat, S # {}
    PROVE  Least(S) \in S /\ \A y \in S : Least(S) <= y
<1>1. IsWellFoundedOn(OpToRel(<, Nat), Nat)
  BY NatLessThanWellFounded
<1>2. PICK x \in S : \A y \in S : <<y, x>> \notin OpToRel(<, Nat)
  BY <1>1, WFMin
<1>3. \A y \in S : ~(y < x)
  BY <1>2, Zenon DEF OpToRel
<1>4. \A y \in S : x <= y
  BY <1>3
<1>. QED
  BY <1>4 DEF Least

LEMMA UpTo ==
    ASSUME NEW n \in Nat, NEW P \in SUBSET (0..n), 0 \in P,
           \A i \in 1..n : i - 1 \in P => i \in P
    PROVE  \A i \in 0..n : i \in P
<1>. DEFINE Bad == (0..n) \ P
<1>1. SUFFICES ASSUME Bad # {} PROVE FALSE
  OBVIOUS
<1>2. Bad \in SUBSET Nat
  OBVIOUS
<1>. DEFINE m == Least(Bad)
<1>3. m \in Bad /\ \A y \in Bad : m <= y
  <2>. HIDE DEF Bad
  <2>. QED BY <1>1, <1>2, LeastIs
<1>. HIDE DEF m
<1>4. m \in 1..n /\ m - 1 \in 0..n
  BY <1>3
<1>5. m - 1 \in P
  BY <1>3, <1>4
<1>. QED
  BY <1>3, <1>4, <1>5

----------------------------------------------------------------------------
(* The walk down a book *)

IsWalk(levels, quantity, n, f) ==
    f = [i \in 0..n |-> IF i = 0 THEN [remaining |-> quantity, cost |-> 0]
                        ELSE Take(f[i - 1], levels[i])]

LEMMA WalkExists ==
    ASSUME NEW levels, NEW quantity, NEW n \in Nat
    PROVE  \E f : IsWalk(levels, quantity, n, f)
<1>. DEFINE P == {k \in 0..n : \E f : IsWalk(levels, quantity, k, f)}
<1>1. 0 \in P
  <2>. DEFINE f == [i \in 0..0 |-> [remaining |-> quantity, cost |-> 0]]
  <2>1. IsWalk(levels, quantity, 0, f)
    BY DEF IsWalk
  <2>. QED
    BY <2>1
<1>2. ASSUME NEW k \in 1..n, k - 1 \in P
      PROVE  k \in P
  <2>1. PICK f : IsWalk(levels, quantity, k - 1, f)
    BY <1>2
  <2>. DEFINE g == [i \in 0..k |-> IF i = k THEN Take(f[k - 1], levels[k]) ELSE f[i]]
              h == [i \in 0..k |-> IF i = 0 THEN [remaining |-> quantity, cost |-> 0]
                                   ELSE Take(g[i - 1], levels[i])]
  <2>2. ASSUME NEW i \in 0..k PROVE g[i] = h[i]
    <3>1. CASE i = k
      BY <3>1
    <3>2. CASE i # k
      <4>1. i \in 0..(k - 1) /\ g[i] = f[i]
        BY <3>2
      <4>2. i # 0 => i - 1 \in 0..k /\ g[i - 1] = f[i - 1]
        BY <3>2
      <4>3. f[i] = IF i = 0 THEN [remaining |-> quantity, cost |-> 0]
                   ELSE Take(f[i - 1], levels[i])
        BY <2>1, <4>1 DEF IsWalk
      <4>. QED
        BY <4>1, <4>2, <4>3
    <3>. QED BY <3>1, <3>2
  <2>3. g = h
    BY <2>2
  <2>4. IsWalk(levels, quantity, k, g)
    <3>. HIDE DEF g
    <3>. QED BY <2>3 DEF IsWalk
  <2>. QED
    BY <2>4
<1>3. n \in P
  <2>. HIDE DEF P
  <2>1. P \in SUBSET (0..n)
    BY DEF P
  <2>. QED BY <1>1, <1>2, <2>1, UpTo
<1>. QED
  BY <1>3

LEMMA WalkIs ==
    ASSUME NEW levels, Len(levels) \in Nat, NEW quantity
    PROVE  /\ Walk(levels, quantity)[0] = [remaining |-> quantity, cost |-> 0]
           /\ \A i \in 1..Len(levels) :
                Walk(levels, quantity)[i] = Take(Walk(levels, quantity)[i - 1], levels[i])
<1>1. Walk(levels, quantity) = CHOOSE f : IsWalk(levels, quantity, Len(levels), f)
  BY DEF Walk, IsWalk
<1>2. IsWalk(levels, quantity, Len(levels), Walk(levels, quantity))
  BY <1>1, WalkExists
<1>. QED
  BY <1>2 DEF IsWalk

\* What is left to fill never grows, and the cost is a number.
LEMMA WalkTyped ==
    ASSUME NEW levels \in Seq(Level), NEW quantity \in Nat
    PROVE  \A i \in 0..Len(levels) :
              /\ Walk(levels, quantity)[i] \in [remaining : Nat, cost : Nat]
              /\ Walk(levels, quantity)[i].remaining <= quantity
<1>. DEFINE w == Walk(levels, quantity)
            P == {i \in 0..Len(levels) : w[i] \in [remaining : Nat, cost : Nat]
                                         /\ w[i].remaining <= quantity}
<1>1. w[0] = [remaining |-> quantity, cost |-> 0]
      /\ \A i \in 1..Len(levels) : w[i] = Take(w[i - 1], levels[i])
  BY WalkIs
<1>. HIDE DEF w
<1>2. 0 \in P
  BY <1>1
<1>3. ASSUME NEW i \in 1..Len(levels), i - 1 \in P PROVE i \in P
  <2>1. levels[i] \in Level
    OBVIOUS
  <2>2. w[i] = Take(w[i - 1], levels[i])
    BY <1>1
  <2>3. levels[i].quantity \in Nat /\ levels[i].price \in Nat
    BY <2>1 DEF Level
  <2>. DEFINE r == w[i - 1].remaining
              k == levels[i].quantity
              take == IF r < k THEN r ELSE k
  <2>4. r \in Nat /\ r <= quantity /\ w[i - 1].cost \in Nat
    BY <1>3
  <2>5. take \in Nat /\ take <= r /\ take * levels[i].price \in Nat
    <3>1. take \in Nat /\ take <= r
      BY <2>3, <2>4
    <3>2. \A m, p \in Nat : m * p \in Nat
      OBVIOUS
    <3>. HIDE DEF take
    <3>. QED
      BY <2>3, <3>1, <3>2
  <2>6. w[i] = w[i - 1] \/ w[i] = [remaining |-> r - take,
                                   cost |-> w[i - 1].cost + take * levels[i].price]
    BY <2>2 DEF Take
  <2>7. r - take \in Nat /\ r - take <= quantity
        /\ w[i - 1].cost + take * levels[i].price \in Nat
    <3>. HIDE DEF r, take
    <3>. DEFINE c == w[i - 1].cost
                d == take * levels[i].price
    <3>1. c \in Nat /\ d \in Nat
      BY <2>4, <2>5
    <3>2. c + d \in Nat
      <4>. HIDE DEF c, d
      <4>. QED BY <3>1
    <3>3. r - take \in Nat /\ r - take <= quantity
      BY <2>4, <2>5
    <3>. QED BY <3>2, <3>3
  <2>8. w[i - 1] \in [remaining : Nat, cost : Nat] /\ i \in 0..Len(levels)
    BY <1>3
  <2>. HIDE DEF take
  <2>9. CASE w[i] = w[i - 1]
    BY <2>4, <2>8, <2>9
  <2>10. CASE w[i] = [remaining |-> r - take, cost |-> w[i - 1].cost + take * levels[i].price]
    BY <2>7, <2>8, <2>10
  <2>. QED
    BY <2>6, <2>9, <2>10
<1>4. \A i \in 0..Len(levels) : i \in P
  <2>. HIDE DEF P
  <2>1. P \in SUBSET (0..Len(levels)) /\ Len(levels) \in Nat
    BY DEF P
  <2>. QED BY <1>2, <1>3, <2>1, UpTo
<1>. QED
  BY <1>4 DEF w

\* What a price is worth to an order that takes the levels of this side: a sale
\* wants much, a purchase little.
Worth(side, x) == IF side = "sell" THEN x ELSE 0 - x

BestWorth(side, levels) ==
    \A i, j \in DOMAIN levels : i <= j =>
        Worth(side, levels[i].price) >= Worth(side, levels[j].price)

\* Weighted averages c / t as products.
LEMMA SplitLevel ==
    ASSUME NEW c \in Int, NEW t \in Int, NEW p \in Int, NEW x \in Int, NEW y \in Int,
           x <= y, p * t <= c
    PROVE  (c + y * p) * (t + x) <= (c + x * p) * (t + y)
<1>1. (y - x) * (c - p * t) >= 0
  <2>1. ASSUME NEW m \in Nat, NEW n \in Nat PROVE m * n >= 0
    OBVIOUS
  <2>2. y - x \in Nat /\ p * t \in Int
    OBVIOUS
  <2>3. c - p * t \in Nat
    BY <2>2
  <2>. QED BY <2>1, <2>2, <2>3
<1>. QED
  BY <1>1

LEMMA LowerLevel ==
    ASSUME NEW ca \in Int, NEW ta \in Int, NEW cb \in Int, NEW tb \in Int,
           NEW p \in Int, NEW y \in Nat, cb * ta <= ca * tb, p * ta <= ca
    PROVE  (cb + y * p) * ta <= ca * (tb + y)
<1>1. y * (ca - p * ta) >= 0
  <2>1. ASSUME NEW m \in Nat, NEW n \in Nat PROVE m * n >= 0
    OBVIOUS
  <2>2. p * ta \in Int
    OBVIOUS
  <2>3. ca - p * ta \in Nat
    BY <2>2
  <2>. QED BY <2>1, <2>3
<1>. QED
  BY <1>1

LEMMA PriceBelow ==
    ASSUME NEW c \in Int, NEW t \in Int, NEW p \in Int, NEW r \in Int, NEW x \in Nat,
           r * t <= c, r <= p
    PROVE  r * (t + x) <= c + x * p
<1>1. x * (p - r) >= 0
  <2>1. ASSUME NEW m \in Nat, NEW n \in Nat PROVE m * n >= 0
    OBVIOUS
  <2>2. p - r \in Nat
    OBVIOUS
  <2>. QED BY <2>1, <2>2
<1>. QED
  BY <1>1

LEMMA TakeIs ==
    ASSUME NEW acc \in [remaining : Nat, cost : Nat], NEW lv \in Level
    PROVE  \E x \in Nat :
              /\ x <= acc.remaining /\ x <= lv.quantity
              /\ x = acc.remaining \/ x = lv.quantity
              /\ Take(acc, lv) = [remaining |-> acc.remaining - x,
                                  cost |-> acc.cost + x * lv.price]
<1>. DEFINE x == IF acc.remaining < lv.quantity THEN acc.remaining ELSE lv.quantity
<1>1. /\ acc.remaining \in Nat /\ acc.cost \in Nat
      /\ lv.quantity \in Nat /\ lv.price \in Nat /\ lv.quantity > 0 /\ lv.price > 0
  BY DEF Level
<1>2. is_real(lv)
  BY <1>1 DEF is_real
<1>3. CASE acc.remaining = 0
  <2>1. acc = [remaining |-> acc.remaining - 0, cost |-> acc.cost + 0 * lv.price]
    BY <1>1
  <2>2. Take(acc, lv) = acc
    BY <1>3 DEF Take
  <2>. QED
    BY <1>1, <1>3, <2>1, <2>2
<1>4. CASE acc.remaining > 0
  <2>1. Take(acc, lv) = [remaining |-> acc.remaining - x, cost |-> acc.cost + x * lv.price]
    BY <1>1, <1>2, <1>4 DEF Take
  <2>2. x \in Nat /\ x <= acc.remaining /\ x <= lv.quantity
        /\ (x = acc.remaining \/ x = lv.quantity)
    BY <1>1
  <2>. HIDE DEF x
  <2>. QED
    BY <2>1, <2>2
<1>. QED
  BY <1>1, <1>3, <1>4

\* Two orders on the same book, after i levels: the same so far, or the smaller
\* one is filled at an average that is no worse.
Filled(levels, quantity, i) == quantity - Walk(levels, quantity)[i].remaining
Paid(side, levels, quantity, i) == Worth(side, Walk(levels, quantity)[i].cost)
Lockstep(side, levels, a, b, i) ==
    LET ta == Filled(levels, a, i)
        tb == Filled(levels, b, i)
        ca == Paid(side, levels, a, i)
        cb == Paid(side, levels, b, i)
    IN  /\ \A j \in DOMAIN levels : j > i => Worth(side, levels[j].price) * ta <= ca
        /\ \/ ta = tb /\ ca = cb
           \/ ta = a /\ ta <= tb /\ cb * ta <= ca * tb

\* One level more.
LEMMA WalkStep ==
    ASSUME NEW side, NEW levels \in Seq(Level), NEW q \in Nat, NEW i \in 1..Len(levels)
    PROVE  \E x \in Nat :
              /\ x <= levels[i].quantity
              /\ x <= q - Filled(levels, q, i - 1)
              /\ x = q - Filled(levels, q, i - 1) \/ x = levels[i].quantity
              /\ Filled(levels, q, i) = Filled(levels, q, i - 1) + x
              /\ Paid(side, levels, q, i) =
                    Paid(side, levels, q, i - 1) + x * Worth(side, levels[i].price)
<1>. DEFINE w == Walk(levels, q)
<1>0. Len(levels) \in Nat
  OBVIOUS
<1>1. w[i] = Take(w[i - 1], levels[i])
  BY <1>0, WalkIs
<1>2. i - 1 \in 0..Len(levels) /\ levels[i] \in Level
  OBVIOUS
<1>3. w[i - 1] \in [remaining : Nat, cost : Nat] /\ w[i - 1].remaining <= q
  BY <1>2, WalkTyped
<1>. HIDE DEF w
<1>4. PICK x \in Nat : /\ x <= w[i - 1].remaining /\ x <= levels[i].quantity
                       /\ x = w[i - 1].remaining \/ x = levels[i].quantity
                       /\ Take(w[i - 1], levels[i]) =
                            [remaining |-> w[i - 1].remaining - x,
                             cost |-> w[i - 1].cost + x * levels[i].price]
  BY <1>2, <1>3, TakeIs
<1>5. levels[i].price \in Nat
  BY <1>2 DEF Level
<1>6. w[i].remaining = w[i - 1].remaining - x /\ w[i].cost = w[i - 1].cost + x * levels[i].price
  BY <1>1, <1>4
<1>7. Worth(side, w[i - 1].cost + x * levels[i].price)
        = Worth(side, w[i - 1].cost) + x * Worth(side, levels[i].price)
  <2>1. w[i - 1].cost \in Nat
    BY <1>3
  <2>. QED
    BY <1>5, <2>1 DEF Worth
<1>8. Filled(levels, q, i - 1) = q - w[i - 1].remaining /\ Filled(levels, q, i) = q - w[i].remaining
  BY DEF Filled, w
<1>9. /\ Paid(side, levels, q, i - 1) = Worth(side, w[i - 1].cost)
      /\ Paid(side, levels, q, i) = Worth(side, w[i].cost)
  BY DEF Paid, w
<1>10. w[i - 1].remaining \in Nat
  BY <1>3
<1>11. w[i].remaining \in Nat
  BY <1>3, WalkTyped DEF w
<1>12. q - Filled(levels, q, i - 1) = w[i - 1].remaining
  BY <1>8, <1>10
<1>13. Filled(levels, q, i) = Filled(levels, q, i - 1) + x
  BY <1>6, <1>8, <1>10, <1>11
<1>14. Paid(side, levels, q, i) = Paid(side, levels, q, i - 1) + x * Worth(side, levels[i].price)
  BY <1>6, <1>7, <1>9
<1>. WITNESS x \in Nat
<1>. QED
  BY <1>4, <1>12, <1>13, <1>14

LEMMA WalksTyped ==
    ASSUME NEW side, NEW levels \in Seq(Level), NEW q \in Nat, NEW i \in 0..Len(levels)
    PROVE  /\ Filled(levels, q, i) \in Nat /\ Filled(levels, q, i) <= q
           /\ Paid(side, levels, q, i) \in Int
<1>. DEFINE w == Walk(levels, q)
<1>1. w[i] \in [remaining : Nat, cost : Nat] /\ w[i].remaining <= q
  BY WalkTyped
<1>. HIDE DEF w
<1>2. Filled(levels, q, i) = q - w[i].remaining /\ Paid(side, levels, q, i) = Worth(side, w[i].cost)
  BY DEF Filled, Paid, w
<1>. QED
  BY <1>1, <1>2 DEF Worth

LEMMA WalksCompare ==
    ASSUME NEW side, NEW levels \in Seq(Level), BestWorth(side, levels),
           NEW a \in Nat, NEW b \in Nat, a <= b
    PROVE  \A i \in 0..Len(levels) : Lockstep(side, levels, a, b, i)
<1>. DEFINE P == {i \in 0..Len(levels) : Lockstep(side, levels, a, b, i)}
<1>0. Len(levels) \in Nat /\ \A j \in DOMAIN levels : Worth(side, levels[j].price) \in Int
  <2>1. \A j \in DOMAIN levels : levels[j] \in Level
    OBVIOUS
  <2>2. \A j \in DOMAIN levels : levels[j].price \in Nat
    BY <2>1 DEF Level
  <2>. QED BY <2>2 DEF Worth
<1>1. 0 \in P
  <2>1. Walk(levels, a)[0] = [remaining |-> a, cost |-> 0]
        /\ Walk(levels, b)[0] = [remaining |-> b, cost |-> 0]
    BY <1>0, WalkIs
  <2>2. /\ Filled(levels, a, 0) = 0 /\ Filled(levels, b, 0) = 0
        /\ Paid(side, levels, a, 0) = 0 /\ Paid(side, levels, b, 0) = 0
    BY <2>1 DEF Filled, Paid, Worth
  <2>. QED
    BY <1>0, <2>2 DEF Lockstep
<1>2. ASSUME NEW i \in 1..Len(levels), i - 1 \in P PROVE i \in P
  <2>. DEFINE ta == Filled(levels, a, i - 1)
              tb == Filled(levels, b, i - 1)
              ca == Paid(side, levels, a, i - 1)
              cb == Paid(side, levels, b, i - 1)
              p == Worth(side, levels[i].price)
              k == levels[i].quantity
  <2>1. i - 1 \in 0..Len(levels) /\ i \in DOMAIN levels
    OBVIOUS
  <2>2. /\ ta \in Nat /\ tb \in Nat /\ ta <= a /\ tb <= b /\ ca \in Int /\ cb \in Int
        /\ p \in Int
    BY <1>0, <2>1, WalksTyped
  <2>3. k \in Nat
    <3>1. levels[i] \in Level
      OBVIOUS
    <3>. QED BY <3>1 DEF Level
  <2>4. /\ \A j \in DOMAIN levels : j > i - 1 => Worth(side, levels[j].price) * ta <= ca
        /\ \/ ta = tb /\ ca = cb
           \/ ta = a /\ ta <= tb /\ cb * ta <= ca * tb
    BY <1>2 DEF Lockstep
  <2>5. PICK x \in Nat : /\ x <= k /\ x <= a - ta /\ (x = a - ta \/ x = k)
                         /\ Filled(levels, a, i) = ta + x
                         /\ Paid(side, levels, a, i) = ca + x * p
    BY WalkStep
  <2>6. PICK y \in Nat : /\ y <= k /\ y <= b - tb /\ (y = b - tb \/ y = k)
                         /\ Filled(levels, b, i) = tb + y
                         /\ Paid(side, levels, b, i) = cb + y * p
    BY WalkStep
  <2>7. \A j \in DOMAIN levels : j > i =>
            Worth(side, levels[j].price) <= p /\ Worth(side, levels[j].price) * ta <= ca
    <3>. HIDE DEF ta, ca
    <3>. QED
      BY <2>1, <2>4, <1>0 DEF BestWorth
  <2>8. p * ta <= ca
    BY <2>1, <2>4
  <2>. HIDE DEF ta, tb, ca, cb, p, k
  <2>9. \A j \in DOMAIN levels : j > i => Worth(side, levels[j].price) * (ta + x) <= ca + x * p
    <3>1. SUFFICES ASSUME NEW r \in Int, r <= p, r * ta <= ca
                   PROVE  r * (ta + x) <= ca + x * p
      BY <1>0, <2>7
    <3>. QED BY <2>2, <3>1, PriceBelow
  <2>10. CASE ta = tb /\ ca = cb
    <3>1. x <= y
      BY <2>2, <2>3, <2>5, <2>6, <2>10
    <3>2. (ca + y * p) * (ta + x) <= (ca + x * p) * (ta + y)
      BY <2>2, <2>8, <3>1, SplitLevel
    <3>3. CASE x = y
      BY <2>5, <2>6, <2>9, <2>10, <3>3 DEF Lockstep
    <3>4. CASE x # y
      <4>1. ta + x = a /\ ta + x <= tb + y
        BY <2>2, <2>3, <2>5, <2>6, <2>10, <3>1, <3>4
      <4>. QED
        BY <2>5, <2>6, <2>9, <2>10, <3>2, <4>1 DEF Lockstep
    <3>. QED BY <3>3, <3>4
  <2>11. CASE ta = a /\ ta <= tb /\ cb * ta <= ca * tb
    <3>1. x = 0 /\ ta + x = a /\ ca + x * p = ca
      BY <2>2, <2>5, <2>11
    <3>2. (cb + y * p) * ta <= ca * (tb + y)
      BY <2>2, <2>8, <2>11, LowerLevel
    <3>3. ta <= tb + y
      BY <2>2, <2>11
    <3>4. /\ Filled(levels, a, i) = ta /\ Paid(side, levels, a, i) = ca
      BY <2>2, <2>5, <3>1
    <3>5. \A j \in DOMAIN levels : j > i => Worth(side, levels[j].price) * ta <= ca
      BY <2>7
    <3>. QED
      BY <2>6, <2>11, <3>2, <3>3, <3>4, <3>5 DEF Lockstep
  <2>. QED
    BY <2>4, <2>10, <2>11
<1>3. \A i \in 0..Len(levels) : i \in P
  <2>. HIDE DEF P
  <2>1. P \in SUBSET (0..Len(levels))
    BY DEF P
  <2>. QED BY <1>0, <1>1, <1>2, <2>1, UpTo
<1>. QED
  BY <1>3

\* No contract is free.
LEMMA WalkCosts ==
    ASSUME NEW levels \in Seq(Level), NEW q \in Nat
    PROVE  \A i \in 0..Len(levels) : Filled(levels, q, i) <= Walk(levels, q)[i].cost
<1>. DEFINE P == {i \in 0..Len(levels) : Filled(levels, q, i) <= Paid("sell", levels, q, i)}
<1>0. Len(levels) \in Nat
  OBVIOUS
<1>1. 0 \in P
  <2>1. Walk(levels, q)[0] = [remaining |-> q, cost |-> 0]
    BY <1>0, WalkIs
  <2>. QED
    BY <2>1, <1>0 DEF Filled, Paid, Worth
<1>2. ASSUME NEW i \in 1..Len(levels), i - 1 \in P PROVE i \in P
  <2>1. PICK x \in Nat : /\ Filled(levels, q, i) = Filled(levels, q, i - 1) + x
                         /\ Paid("sell", levels, q, i) =
                              Paid("sell", levels, q, i - 1) + x * Worth("sell", levels[i].price)
    BY WalkStep
  <2>2. levels[i] \in Level /\ i - 1 \in 0..Len(levels)
    OBVIOUS
  <2>3. Worth("sell", levels[i].price) \in Nat \ {0}
    BY <2>2 DEF Level, Worth
  <2>4. \A p \in Nat \ {0} : x <= x * p /\ x * p \in Nat
    OBVIOUS
  <2>5. /\ Filled(levels, q, i - 1) \in Nat /\ Paid("sell", levels, q, i - 1) \in Int
        /\ Filled(levels, q, i - 1) <= Paid("sell", levels, q, i - 1)
    BY <1>2, <2>2, WalksTyped
  <2>. DEFINE gain == x * Worth("sell", levels[i].price)
  <2>6. x <= gain /\ gain \in Nat
    BY <2>3, <2>4
  <2>7. Filled(levels, q, i) = Filled(levels, q, i - 1) + x
        /\ Paid("sell", levels, q, i) = Paid("sell", levels, q, i - 1) + gain
    BY <2>1
  <2>. HIDE DEF gain
  <2>8. i \in 0..Len(levels)
    BY <1>0
  <2>. QED
    BY <2>5, <2>6, <2>7, <2>8
<1>3. \A i \in 0..Len(levels) : i \in P
  <2>. HIDE DEF P
  <2>1. P \in SUBSET (0..Len(levels))
    BY DEF P
  <2>. QED BY <1>0, <1>1, <1>2, <2>1, UpTo
<1>. QED
  BY <1>3 DEF Paid, Worth

\* A smaller order of the same side is filled whenever a larger one is, and at
\* an average price that is no worse (fill_price, on a book of from_depth).
THEOREM SmallerFillsBetter ==
    ASSUME NEW book, BestFirst(book), NEW side \in {"buy", "sell"},
           NEW a \in Nat \ {0}, NEW b \in Nat, a <= b,
           fill_price(book, side, b).filled >= b
    PROVE  LET fa == fill_price(book, side, a)
               fb == fill_price(book, side, b)
           IN  /\ fa.filled = a /\ fa.price.d = a /\ fa.price.n \in Nat \ {0}
               /\ fb.filled = b /\ fb.price.d = b /\ fb.price.n \in Nat \ {0}
               /\ IF side = "sell" THEN fa.price.n * b >= fb.price.n * a
                                   ELSE fa.price.n * b <= fb.price.n * a
<1>. DEFINE levels == Levels(book, side)
            n == Len(levels)
            ea == Walk(levels, a)[n]
            eb == Walk(levels, b)[n]
<1>1. levels \in Seq(Level)
  BY DEF BestFirst, Levels
<1>2. BestWorth(side, levels)
  <2>1. \A i \in DOMAIN levels : levels[i].price \in Nat
    <3>1. \A i \in DOMAIN levels : levels[i] \in Level
      <4>. HIDE DEF levels
      <4>. QED BY <1>1
    <3>. QED BY <3>1 DEF Level
  <2>2. CASE side = "sell"
    BY <2>2 DEF BestFirst, BestWorth, Worth, Levels
  <2>3. CASE side = "buy"
    <3>1. levels = book.asks
      BY <2>3 DEF Levels
    <3>2. \A i, j \in DOMAIN levels : i <= j => levels[i].price <= levels[j].price
      BY <3>1 DEF BestFirst
    <3>. HIDE DEF levels
    <3>. QED
      BY <2>1, <2>3, <3>2 DEF BestWorth, Worth
  <2>. QED BY <2>2, <2>3
<1>3. /\ fill_price(book, side, a) = IF a - ea.remaining = 0 THEN [price |-> NoPrice, filled |-> 0]
           ELSE [price |-> [n |-> ea.cost, d |-> a - ea.remaining], filled |-> a - ea.remaining]
      /\ fill_price(book, side, b) = IF b - eb.remaining = 0 THEN [price |-> NoPrice, filled |-> 0]
           ELSE [price |-> [n |-> eb.cost, d |-> b - eb.remaining], filled |-> b - eb.remaining]
  BY DEF fill_price
<1>. HIDE DEF levels
<1>4. n \in Nat /\ n \in 0..n
  BY <1>1
<1>5. /\ ea \in [remaining : Nat, cost : Nat] /\ ea.remaining <= a
      /\ eb \in [remaining : Nat, cost : Nat] /\ eb.remaining <= b
  BY <1>1, <1>4, WalkTyped
<1>6. a - ea.remaining <= ea.cost /\ b - eb.remaining <= eb.cost
  BY <1>1, <1>4, WalkCosts DEF Filled
<1>7. LET ta == a - ea.remaining
          tb == b - eb.remaining
          ca == Worth(side, ea.cost)
          cb == Worth(side, eb.cost)
      IN  \/ ta = tb /\ ca = cb
          \/ ta = a /\ ta <= tb /\ cb * ta <= ca * tb
  <2>1. Lockstep(side, levels, a, b, n)
    BY <1>1, <1>2, <1>4, WalksCompare
  <2>. QED
    BY <2>1 DEF Lockstep, Filled, Paid
<1>. HIDE DEF n, ea, eb
<1>8. /\ ea.remaining \in Nat /\ ea.cost \in Nat /\ eb.remaining \in Nat /\ eb.cost \in Nat
  BY <1>5
<1>9. eb.remaining = 0
  BY <1>3, <1>5, <1>8
<1>10. ea.remaining = 0
  BY <1>5, <1>7, <1>8, <1>9
<1>11. /\ fill_price(book, side, a) = [price |-> [n |-> ea.cost, d |-> a], filled |-> a]
       /\ fill_price(book, side, b) = [price |-> [n |-> eb.cost, d |-> b], filled |-> b]
       /\ ea.cost > 0 /\ eb.cost > 0
  BY <1>3, <1>6, <1>8, <1>9, <1>10
<1>12. Worth(side, eb.cost) * a <= Worth(side, ea.cost) * b
  <2>1. CASE a = b /\ Worth(side, ea.cost) = Worth(side, eb.cost)
    BY <2>1, <1>8 DEF Worth
  <2>2. CASE Worth(side, eb.cost) * a <= Worth(side, ea.cost) * b
    BY <2>2
  <2>. QED
    BY <1>7, <1>8, <1>9, <1>10, <2>1, <2>2
<1>13. IF side = "sell" THEN ea.cost * b >= eb.cost * a ELSE ea.cost * b <= eb.cost * a
  <2>1. CASE side = "sell"
    BY <2>1, <1>8, <1>12 DEF Worth
  <2>2. CASE side = "buy"
    <3>1. (0 - eb.cost) * a <= (0 - ea.cost) * b
      BY <2>2, <1>12 DEF Worth
    <3>2. ea.cost * b <= eb.cost * a
      BY <1>8, <3>1
    <3>. QED BY <2>2, <3>2
  <2>. QED BY <2>1, <2>2
<1>. QED
  BY <1>8, <1>11, <1>13

----------------------------------------------------------------------------
(* The verdict on a smaller order *)

IsDepths(levels, n, f) ==
    f = [i \in 0..n |-> IF i = 0 THEN 0
                        ELSE f[i - 1] + (IF is_real(levels[i]) THEN levels[i].quantity ELSE 0)]

LEMMA DepthsExist ==
    ASSUME NEW levels, NEW n \in Nat
    PROVE  \E f : IsDepths(levels, n, f)
<1>. DEFINE P == {k \in 0..n : \E f : IsDepths(levels, k, f)}
            Q(i) == IF is_real(levels[i]) THEN levels[i].quantity ELSE 0
<1>1. 0 \in P
  <2>. DEFINE f == [i \in 0..0 |-> 0]
  <2>1. IsDepths(levels, 0, f)
    BY DEF IsDepths
  <2>. QED
    BY <2>1
<1>2. ASSUME NEW k \in 1..n, k - 1 \in P
      PROVE  k \in P
  <2>1. PICK f : IsDepths(levels, k - 1, f)
    BY <1>2
  <2>2. \A i \in 0..(k - 1) : f[i] = IF i = 0 THEN 0 ELSE f[i - 1] + Q(i)
    BY <2>1 DEF IsDepths
  <2>. HIDE DEF Q
  <2>. DEFINE g == [i \in 0..k |-> IF i = k THEN f[k - 1] + Q(k) ELSE f[i]]
              h == [i \in 0..k |-> IF i = 0 THEN 0 ELSE g[i - 1] + Q(i)]
  <2>3. ASSUME NEW i \in 0..k PROVE g[i] = h[i]
    <3>1. CASE i = k
      BY <3>1
    <3>2. CASE i # k
      <4>1. i \in 0..(k - 1) /\ g[i] = f[i]
        BY <3>2
      <4>2. i # 0 => i - 1 \in 0..k /\ g[i - 1] = f[i - 1]
        BY <3>2
      <4>. QED
        BY <4>1, <4>2, <2>2
    <3>. QED BY <3>1, <3>2
  <2>4. g = h
    BY <2>3
  <2>5. IsDepths(levels, k, g)
    <3>. HIDE DEF g
    <3>. QED BY <2>4 DEF IsDepths, Q
  <2>. QED
    BY <2>5
<1>3. n \in P
  <2>. HIDE DEF P
  <2>1. P \in SUBSET (0..n)
    BY DEF P
  <2>. QED BY <1>1, <1>2, <2>1, UpTo
<1>. QED
  BY <1>3

Smaller(m, n) == IF m < n THEN m ELSE n

\* The depth of a side is a number, and a walk takes all of it that it needs.
LEMMA DepthFilled ==
    ASSUME NEW book, BestFirst(book), NEW side, NEW q \in Nat
    PROVE  LET levels == Levels(book, side)
           IN  /\ real_depth(book, side) \in Nat
               /\ Filled(levels, q, Len(levels)) = Smaller(real_depth(book, side), q)
<1>. DEFINE levels == Levels(book, side)
            f == CHOOSE f : IsDepths(levels, Len(levels), f)
            P == {i \in 0..Len(levels) : f[i] \in Nat /\ Filled(levels, q, i) = Smaller(f[i], q)}
<1>1. levels \in Seq(Level)
  BY DEF BestFirst, Levels
<1>2. real_depth(book, side) = f[Len(levels)]
  BY DEF real_depth, SumOver, IsDepths
<1>. HIDE DEF levels
<1>3. Len(levels) \in Nat
  BY <1>1
<1>4. IsDepths(levels, Len(levels), f)
  BY <1>3, DepthsExist
<1>. HIDE DEF f
<1>5. 0 \in P
  <2>1. Walk(levels, q)[0] = [remaining |-> q, cost |-> 0]
    BY <1>3, WalkIs
  <2>2. Filled(levels, q, 0) = 0
    BY <2>1 DEF Filled
  <2>3. f[0] = 0
    BY <1>3, <1>4 DEF IsDepths
  <2>. QED
    BY <1>3, <2>2, <2>3 DEF Smaller
<1>6. ASSUME NEW i \in 1..Len(levels), i - 1 \in P PROVE i \in P
  <2>1. f[i] = f[i - 1] + (IF is_real(levels[i]) THEN levels[i].quantity ELSE 0)
    BY <1>4 DEF IsDepths
  <2>2. levels[i] \in Level
    BY <1>1
  <2>3. levels[i].quantity \in Nat /\ is_real(levels[i])
    BY <2>2 DEF Level, is_real
  <2>. DEFINE k == levels[i].quantity
              m == f[i - 1]
              t == Filled(levels, q, i - 1)
  <2>4. m \in Nat /\ t = Smaller(m, q) /\ k \in Nat /\ f[i] = m + k
    BY <1>6, <2>1, <2>3
  <2>5. PICK x \in Nat : /\ x <= k /\ x <= q - t
                         /\ x = q - t \/ x = k
                         /\ Filled(levels, q, i) = t + x
    BY <1>1, WalkStep
  <2>. HIDE DEF k, m, t
  <2>6. m + k \in Nat /\ t + x = Smaller(m + k, q)
    BY <2>4, <2>5 DEF Smaller
  <2>. QED
    BY <2>4, <2>5, <2>6
<1>7. \A i \in 0..Len(levels) : i \in P
  <2>. HIDE DEF P
  <2>1. P \in SUBSET (0..Len(levels))
    BY DEF P
  <2>. QED BY <1>3, <1>5, <1>6, <2>1, UpTo
<1>8. f[Len(levels)] \in Nat /\ Filled(levels, q, Len(levels)) = Smaller(f[Len(levels)], q)
  BY <1>3, <1>7
<1>. QED
  BY <1>2, <1>8 DEF levels

LEMMA DepthIsNumber ==
    ASSUME NEW book, BestFirst(book), NEW side
    PROVE  real_depth(book, side) \in Int
<1>1. 0 \in Nat
  OBVIOUS
<1>2. real_depth(book, side) \in Nat
  BY <1>1, DepthFilled
<1>. QED
  BY <1>2

\* An order takes what it asks for or all there is: fill_price leaves an order
\* partly unfilled only where real_depth is smaller, the figure that the check
\* of the depth uses.
THEOREM FillsWhatIsThere ==
    ASSUME NEW book, BestFirst(book), NEW side, NEW q \in Nat
    PROVE  fill_price(book, side, q).filled = Smaller(real_depth(book, side), q)
<1>. DEFINE levels == Levels(book, side)
            end == Walk(levels, q)[Len(levels)]
<1>1. real_depth(book, side) \in Nat
      /\ Filled(levels, q, Len(levels)) = Smaller(real_depth(book, side), q)
  BY DepthFilled
<1>2. fill_price(book, side, q) = IF q <= 0 \/ q - end.remaining = 0
         THEN [price |-> NoPrice, filled |-> 0]
         ELSE [price |-> [n |-> end.cost, d |-> q - end.remaining], filled |-> q - end.remaining]
  BY DEF fill_price
<1>3. Filled(levels, q, Len(levels)) = q - end.remaining
  BY DEF Filled
<1>. HIDE DEF end, levels
<1>4. CASE q <= 0 \/ q - end.remaining = 0
  <2>1. fill_price(book, side, q).filled = 0
    BY <1>2, <1>4
  <2>. QED BY <1>1, <1>3, <1>4, <2>1 DEF Smaller
<1>5. CASE ~(q <= 0 \/ q - end.remaining = 0)
  BY <1>1, <1>2, <1>3, <1>5
<1>. QED
  BY <1>4, <1>5

\* The same loss, spread over fewer contracts.
LEMMA LessSlippage ==
    ASSUME NEW ca \in Int, NEW cb \in Int, NEW a \in Nat \ {0}, NEW b \in Nat \ {0},
           NEW p \in Int, NEW pct \in Int
    PROVE  /\ cb * a <= ca * b /\ (p * b - cb) * 100 <= pct * p * b =>
                 (p * a - ca) * 100 <= pct * p * a
           /\ ca * b <= cb * a /\ (cb - p * b) * 100 <= pct * p * b =>
                 (ca - p * a) * 100 <= pct * p * a
<1>0. ASSUME NEW x \in Int, NEW y \in Int, x * b <= y * b PROVE x <= y
  <2>1. ASSUME x > y PROVE FALSE
    <3>1. \A m, n \in Nat \ {0} : m * n > 0
      OBVIOUS
    <3>2. (x - y) * b > 0
      BY <2>1, <3>1
    <3>. QED BY <3>2, <1>0
  <2>. QED BY <2>1
<1>. DEFINE Y == pct * p * a
<1>1. \A m, n \in Int, k \in Nat \ {0} : m <= n => m * k <= n * k
  <2>1. SUFFICES ASSUME NEW m \in Int, NEW n \in Int, NEW k \in Nat \ {0}, m <= n
                 PROVE  m * k <= n * k
    OBVIOUS
  <2>2. \A x, y \in Nat : x * y >= 0
    OBVIOUS
  <2>3. (n - m) * k >= 0
    BY <2>1, <2>2
  <2>. QED BY <2>3
<1>2. ASSUME cb * a <= ca * b, (p * b - cb) * 100 <= pct * p * b
      PROVE  (p * a - ca) * 100 <= Y
  <2>1. ((p * b - cb) * 100) * a <= (pct * p * b) * a
    BY <1>1, <1>2
  <2>2. ((p * a - ca) * 100) * b <= ((p * b - cb) * 100) * a
    BY <1>2
  <2>3. ((p * a - ca) * 100) * b <= Y * b
    BY <2>1, <2>2
  <2>. QED BY <1>0, <2>3
<1>3. ASSUME ca * b <= cb * a, (cb - p * b) * 100 <= pct * p * b
      PROVE  (ca - p * a) * 100 <= Y
  <2>1. ((cb - p * b) * 100) * a <= (pct * p * b) * a
    BY <1>1, <1>3
  <2>2. ((ca - p * a) * 100) * b <= ((cb - p * b) * 100) * a
    BY <1>3
  <2>3. ((ca - p * a) * 100) * b <= Y * b
    BY <2>1, <2>2
  <2>. QED BY <1>0, <2>3
<1>. QED
  BY <1>2, <1>3

LEMMA OnlyTradable ==
    ASSUME NEW obs, NEW history
    PROVE  evaluate(obs, history) = "tradable" <=>
             \A c \in Checks(obs, history) : c # "failed" /\ c # "unknown"
BY DEF evaluate

\* Only what was seen in a book of its own can be tradable: the first level of
\* the chain has no age.
LEMMA TradableHasBook ==
    ASSUME NEW contract, NEW book, NEW age, NEW side, NEW q, NEW history,
           evaluate(Observe(contract, book, age, side, q), history) = "tradable"
    PROVE  contract.known /\ book.known /\ contract.ins_code
<1>. DEFINE obs == Observe(contract, book, age, side, q)
<1>1. CheckAge(obs) \in Checks(obs, history)
  BY DEF Checks
<1>2. CheckAge(obs) # "unknown"
  BY <1>1, OnlyTradable
<1>3. obs.age # None
  BY <1>2 DEF CheckAge, Graded
<1>4. contract.known
  BY <1>3 DEF Observe
<1>5. obs.age = (IF book.known /\ contract.ins_code
                 THEN BookData(book, Opposite(side), q, age)
                 ELSE LevelOneData(contract, Opposite(side), q)).age
  BY <1>4 DEF Observe
<1>. HIDE DEF obs
<1>6. LevelOneData(contract, Opposite(side), q).age = None
  BY DEF LevelOneData
<1>. QED
  BY <1>3, <1>4, <1>5, <1>6

LEMMA ObserveIs ==
    ASSUME NEW contract, NEW book, NEW age, NEW side, NEW q,
           contract.known, book.known, contract.ins_code
    PROVE  LET obs == Observe(contract, book, age, side, q)
               exit == Opposite(side)
               out == fill_price(book, exit, q)
           IN  /\ obs.side = side /\ obs.quantity = q
               /\ obs.bid = OrOther(best_bid(book), contract.bid)
               /\ obs.ask = OrOther(best_ask(book), contract.ask)
               /\ obs.depth = real_depth(book, exit)
               /\ obs.fill = IF out.filled >= q THEN out.price ELSE NoPrice
               /\ obs.best_exit = best(book, exit)
               /\ obs.age = age
               /\ obs.open_interest = contract.open_interest
               /\ obs.trades_today = contract.trades_today
               /\ obs.days_to_expiry = contract.days_to_expiry
<1>. DEFINE exit == Opposite(side)
            data == BookData(book, exit, q, age)
            obs == Observe(contract, book, age, side, q)
<1>1. /\ data.depth = real_depth(book, exit)
      /\ data.fill = LET out == fill_price(book, exit, q)
                     IN  IF out.filled >= q THEN out.price ELSE NoPrice
      /\ data.best_exit = best(book, exit)
      /\ data.bid = best_bid(book) /\ data.ask = best_ask(book) /\ data.age = age
  BY DEF BookData
<1>. HIDE DEF data, exit
<1>2. /\ obs.side = side /\ obs.quantity = q
      /\ obs.bid = OrOther(data.bid, contract.bid)
      /\ obs.ask = OrOther(data.ask, contract.ask)
      /\ obs.depth = data.depth /\ obs.fill = data.fill /\ obs.best_exit = data.best_exit
      /\ obs.age = data.age /\ obs.open_interest = contract.open_interest
      /\ obs.trades_today = contract.trades_today
      /\ obs.days_to_expiry = contract.days_to_expiry
  BY DEF Observe, data, exit
<1>. HIDE DEF obs
<1>. QED
  BY <1>1, <1>2 DEF obs, exit

\* An order that was found tradable stays so at every smaller size, on the same
\* book at the same moment (evaluate_symbol, evaluate): depth and slippage are
\* the only checks that look at the size, and both improve.
THEOREM SmallerStaysTradable ==
    ASSUME NEW contract, NEW book, book.known => BestFirst(book), NEW age,
           NEW side \in {"buy", "sell"}, NEW history,
           NEW a \in Nat \ {0}, NEW b \in Nat, a <= b,
           evaluate(Observe(contract, book, age, side, b), history) = "tradable"
    PROVE  evaluate(Observe(contract, book, age, side, a), history) = "tradable"
<1>. DEFINE exit == Opposite(side)
            oa == Observe(contract, book, age, side, a)
            ob == Observe(contract, book, age, side, b)
            fa == fill_price(book, exit, a)
            fb == fill_price(book, exit, b)
            p == best(book, exit)
            Passed(c) == c # "failed" /\ c # "unknown"
<1>1. contract.known /\ book.known /\ contract.ins_code /\ BestFirst(book)
  BY TradableHasBook
<1>2. /\ oa.side = side /\ oa.quantity = a /\ oa.bid = ob.bid /\ oa.ask = ob.ask
      /\ oa.depth = real_depth(book, exit) /\ ob.depth = real_depth(book, exit)
      /\ oa.fill = (IF fa.filled >= a THEN fa.price ELSE NoPrice)
      /\ ob.fill = (IF fb.filled >= b THEN fb.price ELSE NoPrice)
      /\ oa.best_exit = p /\ ob.best_exit = p /\ ob.side = side /\ ob.quantity = b
      /\ oa.age = ob.age /\ oa.open_interest = ob.open_interest
      /\ oa.trades_today = ob.trades_today /\ oa.days_to_expiry = ob.days_to_expiry
  BY <1>1, ObserveIs
<1>3. \A c \in Checks(ob, history) : Passed(c)
  BY OnlyTradable
<1>. HIDE DEF oa, ob, fa, fb, exit, p
<1>4. /\ Passed(AtLeast(ob.days_to_expiry, Thresholds.min_days_to_expiry))
      /\ Passed(AtLeast(ob.open_interest, Thresholds.min_open_interest))
      /\ Passed(AtLeast(ob.trades_today, Thresholds.min_trades_today))
      /\ Passed(CheckSpread(ob)) /\ Passed(CheckDepth(ob)) /\ Passed(CheckSlippage(ob))
      /\ Passed(CheckAge(ob)) /\ Passed(CheckContinuity(history))
  BY <1>3 DEF Checks
<1>5. Passed(CheckDepth(oa))
  <2>1. real_depth(book, exit) \in Int
    BY <1>1, DepthIsNumber
  <2>2. /\ ob.depth # None /\ ob.quantity > 0
        /\ ob.depth >= Thresholds.min_depth_ratio * ob.quantity
    BY <1>4 DEF CheckDepth, Graded
  <2>3. \A r, k \in Nat : r * k >= 0
    OBVIOUS
  <2>4. Thresholds.min_depth_ratio * (b - a) >= 0
    BY <2>3, ThresholdsAssumption
  <2>5. Thresholds.min_depth_ratio * a <= Thresholds.min_depth_ratio * b
    BY <2>4, ThresholdsAssumption
  <2>6. oa.depth >= Thresholds.min_depth_ratio * oa.quantity
    BY <1>2, <2>1, <2>2, <2>5, ThresholdsAssumption
  <2>7. oa.depth # None /\ oa.quantity > 0
    BY <1>2, <2>2
  <2>. QED
    BY <2>6, <2>7 DEF CheckDepth, Graded
<1>6. Passed(CheckSlippage(oa))
  <2>0. exit = IF side = "buy" THEN "sell" ELSE "buy"
    BY DEF exit, Opposite
  <2>1. ~Missing(ob.fill.n) /\ ~Missing(p)
    BY <1>2, <1>4 DEF CheckSlippage, Graded
  <2>2. fb.filled >= b /\ ob.fill = fb.price
    BY <1>2, <2>1 DEF Missing, NoPrice
  <2>3. /\ fa.filled = a /\ fa.price.d = a /\ fa.price.n \in Nat \ {0}
        /\ fb.filled = b /\ fb.price.d = b /\ fb.price.n \in Nat \ {0}
        /\ IF exit = "sell" THEN fa.price.n * b >= fb.price.n * a
                            ELSE fa.price.n * b <= fb.price.n * a
    BY <1>1, <2>0, <2>2, SmallerFillsBetter DEF fa, fb
  <2>4. p \in Int
    <3>1. Levels(book, exit) \in Seq(Level)
      BY <1>1 DEF BestFirst, Levels
    <3>. DEFINE levels == Levels(book, exit)
    <3>2. p = IF levels = <<>> THEN None ELSE levels[1].price
      BY DEF p, best
    <3>. HIDE DEF levels
    <3>3. levels # <<>> => levels[1] \in Level
      BY <3>1 DEF levels
    <3>. QED BY <3>2, <3>3 DEF None, Level
  <2>5. oa.fill = fa.price
    BY <1>2, <2>3
  <2>. DEFINE ca == fa.price.n
              cb == fb.price.n
              pct == Thresholds.max_slippage_pct
  <2>6. ca \in Int /\ cb \in Int /\ b \in Nat \ {0} /\ pct \in Int
    BY <2>3, ThresholdsAssumption
  <2>7. CASE side = "buy"
    <3>1. (p * b - cb) * 100 <= pct * p * b
      BY <1>2, <1>4, <2>2, <2>3, <2>7 DEF CheckSlippage, Graded
    <3>2. cb * a <= ca * b
      BY <2>0, <2>3, <2>7
    <3>. HIDE DEF ca, cb, pct
    <3>3. (p * a - ca) * 100 <= pct * p * a
      BY <2>4, <2>6, <3>1, <3>2, LessSlippage
    <3>. QED
      BY <1>2, <2>1, <2>3, <2>5, <2>7, <3>3 DEF CheckSlippage, Graded, Missing, None, ca, pct
  <2>8. CASE side = "sell"
    <3>1. (cb - p * b) * 100 <= pct * p * b
      BY <1>2, <1>4, <2>2, <2>3, <2>8 DEF CheckSlippage, Graded
    <3>2. ca * b <= cb * a
      BY <2>0, <2>3, <2>8
    <3>. HIDE DEF ca, cb, pct
    <3>3. (ca - p * a) * 100 <= pct * p * a
      BY <2>4, <2>6, <3>1, <3>2, LessSlippage
    <3>. QED
      BY <1>2, <2>1, <2>3, <2>5, <2>8, <3>3 DEF CheckSlippage, Graded, Missing, None, ca, pct
  <2>. QED BY <2>7, <2>8
<1>7. /\ Passed(CheckSpread(oa)) /\ Passed(CheckAge(oa))
      /\ Passed(AtLeast(oa.days_to_expiry, Thresholds.min_days_to_expiry))
      /\ Passed(AtLeast(oa.open_interest, Thresholds.min_open_interest))
      /\ Passed(AtLeast(oa.trades_today, Thresholds.min_trades_today))
  BY <1>2, <1>4 DEF CheckSpread, CheckAge
<1>8. \A c \in Checks(oa, history) : Passed(c)
  <2>. HIDE DEF Passed
  <2>. QED BY <1>4, <1>5, <1>6, <1>7 DEF Checks
<1>. QED
  BY <1>8, OnlyTradable DEF oa

----------------------------------------------------------------------------
(* The units of a batch *)

LEMMA AsSequence ==
    ASSUME NEW S, NEW n \in Nat, NEW f \in [1..n -> S]
    PROVE  f \in Seq(S) /\ Len(f) = n /\ DOMAIN f = 1..n
OBVIOUS

IsSplit(raw, n, f) ==
    f = [i \in 0..n |-> IF i = 0 THEN [singles |-> <<>>, groups |-> <<>>]
                        ELSE Enter(f[i - 1], raw[i])]

LEMMA SplitExists ==
    ASSUME NEW raw, NEW n \in Nat
    PROVE  \E f : IsSplit(raw, n, f)
<1>. DEFINE P == {k \in 0..n : \E f : IsSplit(raw, k, f)}
<1>1. 0 \in P
  <2>. DEFINE f == [i \in 0..0 |-> [singles |-> <<>>, groups |-> <<>>]]
  <2>1. IsSplit(raw, 0, f)
    BY DEF IsSplit
  <2>. QED
    BY <2>1
<1>2. ASSUME NEW k \in 1..n, k - 1 \in P
      PROVE  k \in P
  <2>1. PICK f : IsSplit(raw, k - 1, f)
    BY <1>2
  <2>. DEFINE g == [i \in 0..k |-> IF i = k THEN Enter(f[k - 1], raw[k]) ELSE f[i]]
              h == [i \in 0..k |-> IF i = 0 THEN [singles |-> <<>>, groups |-> <<>>]
                                   ELSE Enter(g[i - 1], raw[i])]
  <2>2. ASSUME NEW i \in 0..k PROVE g[i] = h[i]
    <3>1. CASE i = k
      BY <3>1
    <3>2. CASE i # k
      <4>1. i \in 0..(k - 1) /\ g[i] = f[i]
        BY <3>2
      <4>2. i # 0 => i - 1 \in 0..k /\ g[i - 1] = f[i - 1]
        BY <3>2
      <4>3. f[i] = IF i = 0 THEN [singles |-> <<>>, groups |-> <<>>]
                   ELSE Enter(f[i - 1], raw[i])
        BY <2>1, <4>1 DEF IsSplit
      <4>. QED
        BY <4>1, <4>2, <4>3
    <3>. QED BY <3>1, <3>2
  <2>3. g = h
    BY <2>2
  <2>4. IsSplit(raw, k, g)
    <3>. HIDE DEF g
    <3>. QED BY <2>3 DEF IsSplit
  <2>. QED
    BY <2>4
<1>3. n \in P
  <2>. HIDE DEF P
  <2>1. P \in SUBSET (0..n)
    BY DEF P
  <2>. QED BY <1>1, <1>2, <2>1, UpTo
<1>. QED
  BY <1>3

LEMMA SplitIs ==
    ASSUME NEW raw, Len(raw) \in Nat
    PROVE  /\ Split(raw)[0] = [singles |-> <<>>, groups |-> <<>>]
           /\ \A i \in 1..Len(raw) : Split(raw)[i] = Enter(Split(raw)[i - 1], raw[i])
<1>1. Split(raw) = CHOOSE f : IsSplit(raw, Len(raw), f)
  BY DEF Split, IsSplit
<1>2. IsSplit(raw, Len(raw), Split(raw))
  BY <1>1, SplitExists
<1>. QED
  BY <1>2 DEF IsSplit

\* Single signals alone, the legs of a structure together, no structure twice.
GoodSplit(S, sp) ==
    /\ sp \in [singles : Seq(Seq(S)), groups : Seq(Seq(S))]
    /\ \A i \in DOMAIN sp.singles :
          Len(sp.singles[i]) = 1 /\ sp.singles[i][1].group = NoGroup
    /\ \A i \in DOMAIN sp.groups :
          /\ sp.groups[i] # <<>> /\ sp.groups[i][1].group # NoGroup
          /\ \A k \in DOMAIN sp.groups[i] : sp.groups[i][k].group = sp.groups[i][1].group
    /\ \A i, j \in DOMAIN sp.groups : i # j => sp.groups[i][1].group # sp.groups[j][1].group

LEMMA EnterKeeps ==
    ASSUME NEW S, NEW sp, GoodSplit(S, sp), NEW s \in S
    PROVE  GoodSplit(S, Enter(sp, s))
<1>. DEFINE new == Enter(sp, s)
            one == <<s>>
<1>0. one \in Seq(S) /\ Len(one) = 1 /\ one[1] = s /\ one # <<>>
      /\ (\A k \in DOMAIN one : one[k] = s)
  OBVIOUS
<1>1. sp.singles \in Seq(Seq(S)) /\ sp.groups \in Seq(Seq(S))
  BY DEF GoodSplit
<1>5. \A i \in DOMAIN sp.groups :
         /\ sp.groups[i] # <<>> /\ sp.groups[i][1].group # NoGroup
         /\ \A k \in DOMAIN sp.groups[i] : sp.groups[i][k].group = sp.groups[i][1].group
  BY DEF GoodSplit
<1>6. \A i, j \in DOMAIN sp.groups : i # j => sp.groups[i][1].group # sp.groups[j][1].group
  BY DEF GoodSplit
<1>2. CASE s.group = NoGroup
  <2>1. new = [singles |-> Append(sp.singles, one), groups |-> sp.groups]
    BY <1>2 DEF Enter, GoodSplit
  <2>. HIDE DEF one, new
  <2>2. /\ new.singles = Append(sp.singles, one) /\ new.groups = sp.groups
        /\ new \in [singles : Seq(Seq(S)), groups : Seq(Seq(S))]
    BY <2>1, <1>0, <1>1
  <2>3. \A i \in DOMAIN new.singles :
           \/ new.singles[i] = one
           \/ i \in DOMAIN sp.singles /\ new.singles[i] = sp.singles[i]
    BY <2>2, <1>0, <1>1
  <2>. QED
    BY <2>2, <2>3, <1>0, <1>2 DEF GoodSplit, new
<1>3. CASE s.group # NoGroup /\ \E i \in DOMAIN sp.groups : sp.groups[i][1].group = s.group
  <2>. DEFINE gs == [i \in DOMAIN sp.groups |-> IF sp.groups[i][1].group = s.group
                                                THEN Append(sp.groups[i], s) ELSE sp.groups[i]]
  <2>1. new = [singles |-> sp.singles, groups |-> gs]
    BY <1>3 DEF Enter, GoodSplit
  <2>2. ASSUME NEW i \in DOMAIN sp.groups
        PROVE  /\ gs[i] \in Seq(S) /\ gs[i] # <<>> /\ gs[i][1] = sp.groups[i][1]
               /\ \A k \in DOMAIN gs[i] : gs[i][k].group = gs[i][1].group
    <3>. DEFINE u == sp.groups[i]
    <3>1. /\ u \in Seq(S) /\ u # <<>>
          /\ \A k \in DOMAIN u : u[k].group = u[1].group
      BY <1>1 DEF GoodSplit
    <3>2. CASE u[1].group = s.group
      <4>1. gs[i] = Append(u, s)
        BY <3>2
      <4>. HIDE DEF u, gs
      <4>. QED BY <4>1, <3>1, <3>2 DEF u
    <3>3. CASE u[1].group # s.group
      <4>1. gs[i] = u
        BY <3>3
      <4>. HIDE DEF gs
      <4>. QED BY <4>1, <3>1
    <3>. QED BY <3>2, <3>3
  <2>3. gs \in Seq(Seq(S)) /\ DOMAIN gs = DOMAIN sp.groups
    <3>1. DOMAIN gs = 1..Len(sp.groups) /\ Len(sp.groups) \in Nat
      BY <1>1
    <3>2. \A i \in 1..Len(sp.groups) : gs[i] \in Seq(S)
      BY <2>2, <3>1
    <3>3. gs \in [1..Len(sp.groups) -> Seq(S)]
      BY <3>1, <3>2
    <3>. HIDE DEF gs
    <3>. QED BY <3>1, <3>3, AsSequence
  <2>. HIDE DEF gs, new
  <2>4. new.singles = sp.singles /\ new.groups = gs
        /\ new \in [singles : Seq(Seq(S)), groups : Seq(Seq(S))]
    BY <2>1, <2>3, <1>1
  <2>5. \A i, j \in DOMAIN gs : i # j => gs[i][1].group # gs[j][1].group
    <3>1. \A i \in DOMAIN gs : i \in DOMAIN sp.groups /\ gs[i][1] = sp.groups[i][1]
      BY <2>2, <2>3
    <3>. QED BY <3>1, <1>6
  <2>6. \A i \in DOMAIN gs : gs[i] # <<>> /\ gs[i][1].group # NoGroup
                             /\ \A k \in DOMAIN gs[i] : gs[i][k].group = gs[i][1].group
    BY <2>2, <2>3, <1>5
  <2>7. GoodSplit(S, new)
    BY <2>4, <2>5, <2>6 DEF GoodSplit
  <2>. QED
    BY <2>7 DEF new
<1>4. CASE s.group # NoGroup /\ ~\E i \in DOMAIN sp.groups : sp.groups[i][1].group = s.group
  <2>1. new = [singles |-> sp.singles, groups |-> Append(sp.groups, one)]
    BY <1>4 DEF Enter, GoodSplit
  <2>. HIDE DEF one, new
  <2>2. /\ new.singles = sp.singles /\ new.groups = Append(sp.groups, one)
        /\ new \in [singles : Seq(Seq(S)), groups : Seq(Seq(S))]
    BY <2>1, <1>0, <1>1
  <2>3. /\ DOMAIN new.groups = 1..(Len(sp.groups) + 1) /\ DOMAIN sp.groups = 1..Len(sp.groups)
        /\ Len(sp.groups) \in Nat
        /\ \A i \in DOMAIN sp.groups : new.groups[i] = sp.groups[i]
        /\ new.groups[Len(sp.groups) + 1] = one
    <3>1. ASSUME NEW T, NEW q \in Seq(T), NEW t \in T
          PROVE  /\ DOMAIN Append(q, t) = 1..(Len(q) + 1) /\ DOMAIN q = 1..Len(q)
                 /\ Len(q) \in Nat
                 /\ \A i \in DOMAIN q : Append(q, t)[i] = q[i]
                 /\ Append(q, t)[Len(q) + 1] = t
      OBVIOUS
    <3>2. /\ DOMAIN Append(sp.groups, one) = 1..(Len(sp.groups) + 1)
          /\ DOMAIN sp.groups = 1..Len(sp.groups) /\ Len(sp.groups) \in Nat
          /\ \A i \in DOMAIN sp.groups : Append(sp.groups, one)[i] = sp.groups[i]
          /\ Append(sp.groups, one)[Len(sp.groups) + 1] = one
      BY <1>0, <1>1, <3>1
    <3>. QED BY <2>2, <3>2
  <2>4. \A i \in DOMAIN new.groups : \/ i \in DOMAIN sp.groups /\ new.groups[i] = sp.groups[i]
                                     \/ i = Len(sp.groups) + 1 /\ new.groups[i] = one
    BY <2>3
  <2>5. ASSUME NEW i \in DOMAIN new.groups, NEW j \in DOMAIN new.groups, i # j
        PROVE  new.groups[i][1].group # new.groups[j][1].group
    <3>1. CASE i \in DOMAIN sp.groups /\ j \in DOMAIN sp.groups
      BY <3>1, <2>3, <2>5, <1>6
    <3>2. CASE i \in DOMAIN sp.groups /\ j \notin DOMAIN sp.groups
      BY <3>2, <2>4, <1>0, <1>4
    <3>3. CASE i \notin DOMAIN sp.groups
      <4>1. j \in DOMAIN sp.groups
        BY <3>3, <2>4, <2>5
      <4>. QED BY <4>1, <3>3, <2>4, <1>0, <1>4
    <3>. QED BY <3>1, <3>2, <3>3
  <2>6. ASSUME NEW i \in DOMAIN new.groups
        PROVE  /\ new.groups[i] # <<>> /\ new.groups[i][1].group # NoGroup
               /\ \A k \in DOMAIN new.groups[i] : new.groups[i][k].group = new.groups[i][1].group
    <3>1. CASE new.groups[i] = one
      BY <3>1, <1>0, <1>4
    <3>2. CASE i \in DOMAIN sp.groups /\ new.groups[i] = sp.groups[i]
      BY <3>2, <1>5
    <3>. QED BY <3>1, <3>2, <2>4
  <2>7. GoodSplit(S, new)
    BY <2>2, <2>5, <2>6 DEF GoodSplit
  <2>. QED
    BY <2>7 DEF new
<1>. QED
  BY <1>2, <1>3, <1>4

LEMMA SplitGood ==
    ASSUME NEW S, NEW raw \in Seq(S)
    PROVE  GoodSplit(S, Split(raw)[Len(raw)])
<1>. DEFINE sp == Split(raw)
            P == {i \in 0..Len(raw) : GoodSplit(S, sp[i])}
<1>0. Len(raw) \in Nat /\ <<>> \in Seq(Seq(S)) /\ DOMAIN <<>> = {}
  OBVIOUS
<1>1. sp[0] = [singles |-> <<>>, groups |-> <<>>]
      /\ \A i \in 1..Len(raw) : sp[i] = Enter(sp[i - 1], raw[i])
  BY <1>0, SplitIs
<1>. HIDE DEF sp
<1>2. 0 \in P
  <2>1. sp[0].singles = <<>> /\ sp[0].groups = <<>>
        /\ sp[0] \in [singles : Seq(Seq(S)), groups : Seq(Seq(S))]
    BY <1>0, <1>1
  <2>. QED
    BY <1>0, <2>1 DEF GoodSplit
<1>3. ASSUME NEW i \in 1..Len(raw), i - 1 \in P PROVE i \in P
  <2>1. raw[i] \in S /\ GoodSplit(S, sp[i - 1])
    BY <1>3
  <2>. QED
    BY <1>1, <2>1, EnterKeeps
<1>4. \A i \in 0..Len(raw) : i \in P
  <2>. HIDE DEF P
  <2>1. P \in SUBSET (0..Len(raw))
    BY DEF P
  <2>. QED BY <1>0, <1>2, <1>3, <2>1, UpTo
<1>. QED
  BY <1>0, <1>4 DEF sp

\* Whatever the order of a batch, its units are single signals and structures.
LEMMA UnitsAre ==
    ASSUME NEW S, NEW raw \in Seq(S),
           \A s, t \in S : s.group = t.group /\ s.group # NoGroup =>
              s.strategy = t.strategy /\ s.leg_count = t.leg_count
    PROVE  /\ Units(raw) \in Seq(Seq(S))
           /\ \A i \in DOMAIN Units(raw) :
                 LET u == Units(raw)[i]
                 IN  /\ u # <<>> /\ (u[1].group = NoGroup => Len(u) = 1)
                     /\ \A k \in DOMAIN u : /\ u[k].group = u[1].group
                                            /\ u[k].strategy = u[1].strategy
                                            /\ u[k].leg_count = u[1].leg_count
           /\ \A i, j \in DOMAIN Units(raw) : i # j /\ Units(raw)[i][1].group # NoGroup =>
                 Units(raw)[i][1].group # Units(raw)[j][1].group
<1>. DEFINE sp == Split(raw)[Len(raw)]
            A == sp.singles
            B == sp.groups
            us == A \o B
<1>1. GoodSplit(S, sp)
  BY SplitGood
<1>. HIDE DEF sp
<1>2. A \in Seq(Seq(S)) /\ B \in Seq(Seq(S))
  BY <1>1 DEF GoodSplit
<1>3. \A i \in DOMAIN A : Len(A[i]) = 1 /\ A[i][1].group = NoGroup
  BY <1>1 DEF GoodSplit
<1>4. \A i \in DOMAIN B : /\ B[i] # <<>> /\ B[i][1].group # NoGroup
                          /\ \A k \in DOMAIN B[i] : B[i][k].group = B[i][1].group
  BY <1>1 DEF GoodSplit
<1>5. \A i, j \in DOMAIN B : i # j => B[i][1].group # B[j][1].group
  BY <1>1 DEF GoodSplit
<1>6. Units(raw) = us
  BY DEF Units, sp
<1>. HIDE DEF A, B
<1>7. /\ us \in Seq(Seq(S)) /\ Len(A) \in Nat
      /\ \A i \in DOMAIN us : \/ i \in DOMAIN A /\ us[i] = A[i]
                              \/ i - Len(A) \in DOMAIN B /\ us[i] = B[i - Len(A)] /\ i \in Nat
  BY <1>2
<1>. HIDE DEF us
<1>8. ASSUME NEW i \in DOMAIN us
      PROVE  /\ us[i] # <<>> /\ (us[i][1].group = NoGroup => Len(us[i]) = 1)
             /\ \A k \in DOMAIN us[i] : /\ us[i][k].group = us[i][1].group
                                        /\ us[i][k].strategy = us[i][1].strategy
                                        /\ us[i][k].leg_count = us[i][1].leg_count
  <2>. DEFINE u == us[i]
  <2>1. u \in Seq(S)
    BY <1>7
  <2>2. CASE i \in DOMAIN A /\ us[i] = A[i]
    <3>1. Len(u) = 1
      BY <1>3, <2>2
    <3>. HIDE DEF u
    <3>2. u # <<>> /\ DOMAIN u = {1}
      BY <2>1, <3>1
    <3>. QED BY <3>1, <3>2 DEF u
  <2>3. CASE i - Len(A) \in DOMAIN B /\ us[i] = B[i - Len(A)]
    <3>1. u # <<>> /\ u[1].group # NoGroup /\ \A k \in DOMAIN u : u[k].group = u[1].group
      BY <1>4, <2>3
    <3>. HIDE DEF u
    <3>2. u[1] \in S /\ \A k \in DOMAIN u : u[k] \in S
      BY <2>1, <3>1
    <3>. QED BY <3>1, <3>2 DEF u
  <2>. QED BY <1>7, <2>2, <2>3
<1>9. ASSUME NEW i \in DOMAIN us, NEW j \in DOMAIN us, i # j, us[i][1].group # NoGroup
      PROVE  us[i][1].group # us[j][1].group
  <2>1. i - Len(A) \in DOMAIN B /\ us[i] = B[i - Len(A)] /\ i \in Nat
    BY <1>3, <1>7, <1>9
  <2>2. CASE j \in DOMAIN A /\ us[j] = A[j]
    BY <1>3, <1>9, <2>2
  <2>3. CASE j - Len(A) \in DOMAIN B /\ us[j] = B[j - Len(A)] /\ j \in Nat
    <3>1. i - Len(A) # j - Len(A)
      BY <1>7, <1>9, <2>1, <2>3
    <3>. QED BY <1>5, <2>1, <2>3, <3>1
  <2>. QED BY <1>7, <2>2, <2>3
<1>. QED
  BY <1>6, <1>7, <1>8, <1>9

\* The units of a batch of the strategy in turn.
LEMMA UnitsDrawn ==
    ASSUME TypeOK, NEW x \in DOMAIN Batches, NEW raw \in Batches[x]
    PROVE  /\ IsUnits(Units(Drawn(raw)))
           /\ \A i \in DOMAIN Units(Drawn(raw)) :
                 LET g == Units(Drawn(raw))[i][1].group
                 IN  g # NoGroup => g[2] = Len(todo) /\ g[3] = Len(turns)
<1>. DEFINE d == Drawn(raw)
            S == {d[i] : i \in DOMAIN raw}
            us == Units(d)
            R == Signal(STRING)
<1>0. raw \in Seq(R)
  BY GeneratorAssumption
<1>1. \A i, j \in DOMAIN raw : raw[i].group = raw[j].group /\ raw[i].group # "" =>
         raw[i].strategy = raw[j].strategy /\ raw[i].leg_count = raw[j].leg_count
  BY GeneratorAssumption
<1>2. Len(todo) \in Nat /\ Len(turns) \in Nat
  BY DEF TypeOK
<1>. HIDE DEF R
<1>3. ASSUME NEW i \in DOMAIN raw
      PROVE  /\ d[i] = [raw[i] EXCEPT !.group = IF raw[i].group = "" THEN NoGroup
                                                ELSE <<raw[i].group, Len(todo), Len(turns)>>]
             /\ d[i].group = IF raw[i].group = "" THEN NoGroup
                             ELSE <<raw[i].group, Len(todo), Len(turns)>>
             /\ d[i].strategy = raw[i].strategy /\ d[i].leg_count = raw[i].leg_count
             /\ d[i] \in Sig
  <2>0. raw[i] \in R
    BY <1>0
  <2>1. raw[i] \in Signal(STRING)
    BY <2>0 DEF R
  <2>2. d[i] = [raw[i] EXCEPT !.group = IF raw[i].group = "" THEN NoGroup
                                        ELSE <<raw[i].group, Len(todo), Len(turns)>>]
    BY DEF Drawn
  <2>. HIDE DEF d
  <2>3. /\ d[i].group = IF raw[i].group = "" THEN NoGroup
                        ELSE <<raw[i].group, Len(todo), Len(turns)>>
        /\ d[i].strategy = raw[i].strategy /\ d[i].leg_count = raw[i].leg_count
    BY <2>1, <2>2 DEF Signal
  <2>4. (IF raw[i].group = "" THEN NoGroup ELSE <<raw[i].group, Len(todo), Len(turns)>>)
          \in Ids \cup {NoGroup}
    BY <1>2, <2>1 DEF Ids, Signal
  <2>5. d[i] \in Sig
    BY <2>1, <2>2, <2>4 DEF Signal, Sig
  <2>. QED BY <2>2, <2>3, <2>5
<1>4. d \in Seq(S)
  <2>1. DOMAIN raw = 1..Len(raw) /\ Len(raw) \in Nat
    BY <1>0
  <2>2. DOMAIN d = DOMAIN raw
    BY DEF Drawn
  <2>3. d \in [1..Len(raw) -> S]
    BY <2>1, <2>2 DEF Drawn
  <2>. HIDE DEF d, S
  <2>. QED BY <2>1, <2>3, AsSequence
<1>. HIDE DEF d
<1>5. \A s, t \in S : s.group = t.group /\ s.group # NoGroup =>
              s.strategy = t.strategy /\ s.leg_count = t.leg_count
  <2>1. SUFFICES ASSUME NEW i \in DOMAIN raw, NEW j \in DOMAIN raw,
                        d[i].group = d[j].group, d[i].group # NoGroup
                 PROVE  d[i].strategy = d[j].strategy /\ d[i].leg_count = d[j].leg_count
    OBVIOUS
  <2>2. raw[i].group # "" /\ raw[j].group # ""
    BY <1>3, <2>1
  <2>3. /\ d[i].group = <<raw[i].group, Len(todo), Len(turns)>>
        /\ d[j].group = <<raw[j].group, Len(todo), Len(turns)>>
    BY <1>3, <2>2
  <2>4. raw[i].group = raw[j].group
    <3>1. d[i].group[1] = raw[i].group /\ d[j].group[1] = raw[j].group
      BY <2>3
    <3>. QED BY <2>1, <3>1
  <2>5. raw[i].strategy = raw[j].strategy /\ raw[i].leg_count = raw[j].leg_count
    BY <1>1, <2>2, <2>4
  <2>. QED BY <1>3, <2>5
<1>6. S \subseteq Sig
  BY <1>3
<1>7. \A s \in S : s.group # NoGroup => s.group[2] = Len(todo) /\ s.group[3] = Len(turns)
  <2>1. SUFFICES ASSUME NEW i \in DOMAIN raw, d[i].group # NoGroup
                 PROVE  d[i].group[2] = Len(todo) /\ d[i].group[3] = Len(turns)
    OBVIOUS
  <2>2. d[i].group = <<raw[i].group, Len(todo), Len(turns)>>
    BY <1>3, <2>1
  <2>. QED BY <2>2
<1>. HIDE DEF S
<1>8. /\ us \in Seq(Seq(S))
      /\ \A i \in DOMAIN us :
            /\ us[i] # <<>> /\ (us[i][1].group = NoGroup => Len(us[i]) = 1)
            /\ \A k \in DOMAIN us[i] : /\ us[i][k].group = us[i][1].group
                                       /\ us[i][k].strategy = us[i][1].strategy
                                       /\ us[i][k].leg_count = us[i][1].leg_count
      /\ \A i, j \in DOMAIN us : i # j /\ us[i][1].group # NoGroup =>
            us[i][1].group # us[j][1].group
  BY <1>4, <1>5, UnitsAre
<1>. HIDE DEF us
<1>9. ASSUME NEW i \in DOMAIN us PROVE us[i] \in Seq(Sig) /\ us[i][1] \in S
  <2>1. us[i] \in Seq(S) /\ us[i] # <<>>
    BY <1>8
  <2>. DEFINE u == us[i]
  <2>. HIDE DEF u
  <2>2. u \in Seq(S) /\ u # <<>>
    BY <2>1 DEF u
  <2>3. u \in Seq(Sig) /\ u[1] \in S
    BY <1>6, <2>2
  <2>. QED BY <2>3 DEF u
<1>10. us \in Seq(Seq(Sig))
  <2>1. DOMAIN us = 1..Len(us) /\ Len(us) \in Nat
    BY <1>8
  <2>2. us \in [1..Len(us) -> Seq(Sig)]
    BY <1>8, <1>9, <2>1
  <2>. QED BY <2>1, <2>2, AsSequence
<1>11. IsUnits(us)
  BY <1>8, <1>9, <1>10 DEF IsUnits, IsUnit
<1>. QED
  BY <1>7, <1>9, <1>11 DEF us, d

----------------------------------------------------------------------------
(* The quantities of a unit *)

LEMMA LimitsTyped ==
    /\ Limits.equity \in Nat /\ Limits.risk_pct \in Nat /\ Limits.position_pct \in Nat
    /\ Limits.stop_loss_pct \in Nat /\ Limits.max_contracts \in Nat /\ FeePct \in Nat
    /\ PerOrder \in Nat
<1>1. \A f \in {"equity", "risk_pct", "position_pct", "stop_loss_pct", "max_contracts"} :
         Limits[f] \in Nat
  BY GeneratorAssumption
<1>2. \A c \in {DedupeWindow, BookTtl, FeePct, PerOrder, MaxClock, MaxFaults} : c \in Nat
  BY GeneratorAssumption
<1>. QED
  BY <1>1, <1>2

LEMMA QtyBounds ==
    ASSUME NEW s \in Sig
    PROVE  suggested_qty(s) \in Nat /\ suggested_qty(s) <= Limits.max_contracts
<1>. DEFINE cost == s.price * s.size
            loss == IF s.side = "buy" THEN Limits.stop_loss_pct ELSE 200
            perContract == cost * (loss + FeePct) + 200 * PerOrder
            budget == Limits.equity * Limits.risk_pct
            byRisk == IF perContract > 0 THEN budget \div perContract
                      ELSE IF budget > 0 THEN Limits.max_contracts ELSE 0
            byExposure == (Limits.equity * Limits.position_pct) \div (cost * 100)
            three == {byRisk, byExposure, Limits.max_contracts}
<1>0. s.price \in Int /\ s.size \in Int
  BY DEF Sig, Signal
<1>1. CASE s.price <= 0 \/ s.size <= 0
  BY <1>1, LimitsTyped DEF suggested_qty
<1>2. CASE ~(s.price <= 0 \/ s.size <= 0)
  <2>0. \A m, n \in Nat \ {0} : m * n \in Nat \ {0}
    OBVIOUS
  <2>1. s.price \in Nat \ {0} /\ s.size \in Nat \ {0}
    BY <1>0, <1>2
  <2>2. cost \in Nat \ {0}
    BY <2>0, <2>1
  <2>3. \A m, n \in Nat : m * n \in Nat
    OBVIOUS
  <2>4. \A m \in Nat, n \in Nat \ {0} : m \div n \in Nat
    OBVIOUS
  <2>. HIDE DEF cost
  <2>5. perContract \in Nat
    <3>1. loss + FeePct \in Nat
      BY LimitsTyped
    <3>. HIDE DEF loss
    <3>2. cost * (loss + FeePct) \in Nat /\ 200 * PerOrder \in Nat
      BY <2>2, <2>3, <3>1, LimitsTyped
    <3>. QED BY <3>2
  <2>. HIDE DEF perContract
  <2>6. budget \in Nat /\ Limits.equity * Limits.position_pct \in Nat
    BY <2>3, LimitsTyped
  <2>. HIDE DEF budget
  <2>7. byRisk \in Nat
    BY <2>4, <2>5, <2>6, LimitsTyped
  <2>8. byExposure \in Nat
    <3>1. cost * 100 \in Nat \ {0}
      BY <2>2
    <3>. QED BY <2>4, <2>6, <3>1
  <2>9. suggested_qty(s) = Least(three)
    BY <1>2 DEF suggested_qty, cost, perContract, budget
  <2>. HIDE DEF byRisk, byExposure
  <2>10. three \in SUBSET Nat /\ three # {} /\ Limits.max_contracts \in three
    BY <2>7, <2>8, LimitsTyped
  <2>. HIDE DEF three
  <2>11. Least(three) \in three /\ \A y \in three : Least(three) <= y
    BY <2>10, LeastIs
  <2>. QED BY <2>9, <2>10, <2>11
<1>. QED
  BY <1>1, <1>2

\* The size of a structure fits every one of its legs.
LEMMA BaseFits ==
    ASSUME NEW out \in Seq(Entry), out # <<>>
    PROVE  /\ base_qty(out) \in Nat
           /\ \A i \in DOMAIN out : /\ base_qty(out) * out[i].sig.ratio <= out[i].qty
                                    /\ base_qty(out) <= out[i].qty
<1>. DEFINE all == {out[i].qty \div Ratio(out[i].sig) : i \in DOMAIN out}
<1>1. ASSUME NEW i \in DOMAIN out
      PROVE  /\ out[i].qty \in Nat /\ out[i].sig.ratio \in Nat \ {0}
             /\ Ratio(out[i].sig) = out[i].sig.ratio
  <2>1. out[i] \in Entry
    OBVIOUS
  <2>2. out[i].qty \in Nat /\ out[i].sig \in Sig
    BY <2>1 DEF Entry
  <2>3. out[i].sig.ratio \in Nat \ {0}
    BY <2>2 DEF Sig, Signal
  <2>. QED BY <2>2, <2>3 DEF Ratio
<1>2. \A m \in Nat, n \in Nat \ {0} :
         /\ m \div n \in Nat /\ (m \div n) * n <= m /\ m \div n <= m
  <2>1. SUFFICES ASSUME NEW m \in Nat, NEW n \in Nat \ {0}
                 PROVE  m \div n \in Nat /\ (m \div n) * n <= m /\ m \div n <= m
    OBVIOUS
  <2>2. m \div n \in Nat /\ (m \div n) * n <= m
    OBVIOUS
  <2>3. \A k \in Nat : k <= k * n
    OBVIOUS
  <2>. QED BY <2>2, <2>3
<1>3. all \in SUBSET Nat
  BY <1>1, <1>2
<1>4. all # {}
  <2>1. 1 \in DOMAIN out
    OBVIOUS
  <2>. QED BY <2>1
<1>5. base_qty(out) = Least(all)
  BY DEF base_qty
<1>6. base_qty(out) \in Nat /\ \A y \in all : base_qty(out) <= y
  <2>. HIDE DEF all
  <2>1. Least(all) \in all /\ \A y \in all : Least(all) <= y
    BY <1>3, <1>4, LeastIs
  <2>. QED BY <1>3, <1>5, <2>1
<1>7. ASSUME NEW i \in DOMAIN out
      PROVE  /\ base_qty(out) * out[i].sig.ratio <= out[i].qty
             /\ base_qty(out) <= out[i].qty
  <2>. DEFINE b == base_qty(out)
              q == out[i].qty
              r == out[i].sig.ratio
  <2>1. b \in Nat /\ b <= q \div r
    BY <1>1, <1>6
  <2>2. q \in Nat /\ r \in Nat \ {0}
    BY <1>1
  <2>. HIDE DEF b, q, r
  <2>3. q \div r \in Nat /\ (q \div r) * r <= q /\ q \div r <= q
    BY <1>2, <2>2
  <2>4. \A m, n \in Nat, k \in Nat \ {0} : m <= n => m * k <= n * k
    <3>1. SUFFICES ASSUME NEW m \in Nat, NEW n \in Nat, NEW k \in Nat \ {0}, m <= n
                   PROVE  m * k <= n * k
      OBVIOUS
    <3>2. \A x, y \in Nat : x * y >= 0
      OBVIOUS
    <3>3. (n - m) * k >= 0
      BY <3>1, <3>2
    <3>. QED BY <3>3
  <2>5. b * r <= (q \div r) * r
    BY <2>1, <2>2, <2>3, <2>4
  <2>6. b * r \in Nat /\ (q \div r) * r \in Nat
    BY <2>1, <2>2, <2>3
  <2>7. b * r <= q /\ b <= q
    BY <2>1, <2>2, <2>3, <2>5, <2>6
  <2>. QED BY <2>7 DEF b, q, r
<1>. QED
  BY <1>6, <1>7

LEMMA BooksGood == \A bk \in Books : bk.known => BestFirst(bk)
<1>1. \A m \in Markets : \A o \in Options : m[o].known => BestFirst(m[o])
  BY GeneratorAssumption
<1>. QED
  BY <1>1 DEF Books, NoBook

\* A unit that passed whole, and its legs as they were screened.
Screened(u, out) ==
    /\ IsUnit(u) /\ out \in Seq(Entry) /\ Len(out) = Len(u)
    /\ \A i \in DOMAIN out : /\ out[i].sig = u[i]
                             /\ out[i].qty <= Limits.max_contracts
                             /\ Tradable(out[i])

\* What is returned of it.
Final(u, fin) ==
    /\ fin \in Seq(Entry) /\ Len(fin) = Len(u)
    /\ \A i \in DOMAIN fin : fin[i].sig = u[i] /\ Tradable(fin[i])
    /\ u[1].group # NoGroup =>
          \E b \in 1..Limits.max_contracts :
             \A i \in DOMAIN fin : fin[i].qty = b * fin[i].sig.ratio

LEMMA SizedFinal ==
    ASSUME NEW u, NEW out, Screened(u, out), base_qty(out) > 0
    PROVE  Final(u, Sized(out))
<1>. DEFINE b == base_qty(out)
            fin == Sized(out)
<1>1. /\ u \in Seq(Sig) /\ u # <<>> /\ out \in Seq(Entry) /\ Len(out) = Len(u)
      /\ \A i \in DOMAIN out : out[i].sig = u[i]
  BY DEF Screened, IsUnit
<1>2. out # <<>> /\ 1 \in DOMAIN out
  BY <1>1
<1>3. CASE u[1].group = NoGroup
  <2>1. out[1].sig = u[1]
    BY <1>1, <1>2
  <2>2. fin = out
    BY <2>1, <1>3 DEF Sized
  <2>. QED
    BY <2>2, <1>3 DEF Screened, Final
<1>4. CASE u[1].group # NoGroup
  <2>0. out[1].sig = u[1]
    BY <1>1, <1>2
  <2>1. fin = [i \in DOMAIN out |-> [out[i] EXCEPT !.qty = b * out[i].sig.ratio]]
    BY <2>0, <1>4 DEF Sized
  <2>2. b \in Nat /\ b > 0
    BY <1>1, <1>2, BaseFits
  <2>. HIDE DEF b, fin
  <2>3. ASSUME NEW i \in DOMAIN out
        PROVE  /\ fin[i] \in Entry /\ fin[i].sig = u[i] /\ fin[i].qty = b * fin[i].sig.ratio
               /\ Tradable(fin[i])
    <3>1. out[i] \in Entry
      BY <1>1
    <3>2. out[i].sig \in Sig /\ out[i].qty \in Nat /\ out[i].got \in Copy
      BY <3>1 DEF Entry
    <3>3. out[i].sig.ratio \in Nat \ {0} /\ out[i].sig.side \in {"buy", "sell"}
      BY <3>2 DEF Sig, Signal
    <3>4. \A m, n \in Nat \ {0} : m * n \in Nat \ {0}
      OBVIOUS
    <3>5. b * out[i].sig.ratio \in Nat \ {0}
      BY <2>2, <3>3, <3>4
    <3>6. b * out[i].sig.ratio <= out[i].qty
      BY <1>1, <1>2, BaseFits DEF b
    <3>7. fin[i] = [out[i] EXCEPT !.qty = b * out[i].sig.ratio]
      BY <2>1
    <3>8. /\ fin[i] \in Entry /\ fin[i].sig = out[i].sig /\ fin[i].got = out[i].got
          /\ fin[i].qty = b * out[i].sig.ratio
      BY <3>1, <3>5, <3>7 DEF Entry
    <3>9. Tradable(out[i])
      BY DEF Screened
    <3>10. Verdict(out[i].sig, b * out[i].sig.ratio, out[i].got) = "tradable"
      <4>. DEFINE s == out[i].sig
                  q == out[i].qty
                  k == b * s.ratio
                  bk == out[i].got.book
                  age == clock - out[i].got.at
      <4>1. bk \in Books
        BY <3>2 DEF Copy
      <4>2. bk.known => BestFirst(bk)
        BY <4>1, BooksGood
      <4>3. evaluate(Observe(Contracts[s.sym], bk, age, s.side, q), Histories[s.sym]) = "tradable"
        BY <3>9 DEF Tradable, Verdict
      <4>4. k \in Nat \ {0} /\ q \in Nat /\ k <= q /\ s.side \in {"buy", "sell"}
        BY <3>2, <3>3, <3>5, <3>6
      <4>5. \A contract, history :
               evaluate(Observe(contract, bk, age, s.side, q), history) = "tradable" =>
               evaluate(Observe(contract, bk, age, s.side, k), history) = "tradable"
        <5>. HIDE DEF bk, age, q, k, s
        <5>. QED BY <4>2, <4>4, SmallerStaysTradable
      <4>6. evaluate(Observe(Contracts[s.sym], bk, age, s.side, k), Histories[s.sym]) = "tradable"
        BY <4>3, <4>5
      <4>. QED BY <4>6 DEF Verdict
    <3>11. Tradable(fin[i])
      BY <3>5, <3>8, <3>10 DEF Tradable
    <3>. QED
      BY <1>1, <3>8, <3>11
  <2>4. fin \in Seq(Entry) /\ Len(fin) = Len(u) /\ DOMAIN fin = DOMAIN out
    <3>1. DOMAIN out = 1..Len(out) /\ Len(out) \in Nat
      BY <1>1
    <3>2. fin \in [1..Len(out) -> Entry]
      BY <2>1, <2>3, <3>1
    <3>. QED BY <1>1, <3>1, <3>2, AsSequence
  <2>5. b \in 1..Limits.max_contracts
    <3>1. out[1] \in Entry
      BY <1>1, <1>2
    <3>2. out[1].qty \in Nat /\ out[1].qty <= Limits.max_contracts
      BY <1>2, <3>1 DEF Screened, Entry
    <3>3. b <= out[1].qty
      BY <1>1, <1>2, BaseFits DEF b
    <3>. QED
      BY <2>2, <3>2, <3>3, LimitsTyped
  <2>6. Final(u, fin)
    BY <2>3, <2>4, <2>5 DEF Final
  <2>. QED
    BY <2>6 DEF fin
<1>. QED
  BY <1>3, <1>4

----------------------------------------------------------------------------
(* Results and their structures *)

LEMMA Concatenated ==
    ASSUME NEW x \in Seq(Entry), NEW y \in Seq(Entry)
    PROVE  /\ x \o y \in Seq(Entry) /\ Len(x \o y) = Len(x) + Len(y)
           /\ DOMAIN x = 1..Len(x) /\ DOMAIN y = 1..Len(y) /\ DOMAIN (x \o y) = 1..(Len(x) + Len(y))
           /\ Len(x) \in Nat /\ Len(y) \in Nat
           /\ \A i \in DOMAIN x : i \in DOMAIN (x \o y) /\ (x \o y)[i] = x[i]
           /\ \A i \in DOMAIN y : Len(x) + i \in DOMAIN (x \o y) /\ (x \o y)[Len(x) + i] = y[i]
           /\ \A i \in DOMAIN (x \o y) : i \in DOMAIN x \/ i - Len(x) \in DOMAIN y
OBVIOUS

LEMMA GroupsTogether ==
    ASSUME NEW x \in Seq(Entry), NEW y \in Seq(Entry)
    PROVE  GroupsOf(x \o y) = GroupsOf(x) \cup GroupsOf(y)
<1>. DEFINE z == x \o y
<1>1. /\ Len(x) \in Nat /\ DOMAIN x = 1..Len(x) /\ DOMAIN y = 1..Len(y)
      /\ \A i \in DOMAIN x : i \in DOMAIN z /\ z[i] = x[i]
      /\ \A i \in DOMAIN y : Len(x) + i \in DOMAIN z /\ z[Len(x) + i] = y[i]
      /\ \A i \in DOMAIN z : i \in DOMAIN x \/ i - Len(x) \in DOMAIN y
      /\ DOMAIN z = 1..(Len(x) + Len(y)) /\ Len(y) \in Nat
  BY Concatenated
<1>. HIDE DEF z
<1>2. \A i \in DOMAIN z : i - Len(x) \in DOMAIN y => z[i] = y[i - Len(x)]
  BY <1>1
<1>3. ASSUME NEW g \in GroupsOf(z) PROVE g \in GroupsOf(x) \cup GroupsOf(y)
  BY <1>1, <1>2 DEF GroupsOf
<1>4. ASSUME NEW g \in GroupsOf(x) \cup GroupsOf(y) PROVE g \in GroupsOf(z)
  BY <1>1 DEF GroupsOf
<1>. QED
  BY <1>3, <1>4 DEF z

\* The key an entry stands for.
KeyAt(out, i) ==
    IF out[i].sig.group = NoGroup THEN dedupe_key(out[i].sig)
    ELSE <<out[i].sig.strategy, "group", {LegOf(out[j].sig) : j \in Same(out, i)}>>

LEMMA KeysAre == ASSUME NEW out PROVE KeysOf(out) = {KeyAt(out, i) : i \in DOMAIN out}
BY DEF KeysOf, KeyAt, Same

\* Two results with no structure in common keep their structures, side by side.
LEMMA SameTogether ==
    ASSUME NEW x \in Seq(Entry), NEW y \in Seq(Entry), GroupsOf(x) \cap GroupsOf(y) = {}
    PROVE  /\ \A i \in DOMAIN x : x[i].sig.group # NoGroup => Same(x \o y, i) = Same(x, i)
           /\ \A i \in DOMAIN y : y[i].sig.group # NoGroup =>
                 Same(x \o y, Len(x) + i) = {Len(x) + j : j \in Same(y, i)}
<1>. DEFINE z == x \o y
<1>1. /\ Len(x) \in Nat /\ DOMAIN x = 1..Len(x) /\ DOMAIN y = 1..Len(y)
      /\ \A i \in DOMAIN x : i \in DOMAIN z /\ z[i] = x[i]
      /\ \A i \in DOMAIN y : Len(x) + i \in DOMAIN z /\ z[Len(x) + i] = y[i]
      /\ \A i \in DOMAIN z : i \in DOMAIN x \/ i - Len(x) \in DOMAIN y
      /\ DOMAIN z = 1..(Len(x) + Len(y)) /\ Len(y) \in Nat
  BY Concatenated
<1>. HIDE DEF z
<1>2. \A i \in DOMAIN z : i - Len(x) \in DOMAIN y => z[i] = y[i - Len(x)]
  BY <1>1
<1>3. \A i \in DOMAIN x : \A j \in DOMAIN y :
         x[i].sig.group # NoGroup => x[i].sig.group # y[j].sig.group
  BY DEF GroupsOf
<1>4. ASSUME NEW i \in DOMAIN x, x[i].sig.group # NoGroup
      PROVE  Same(z, i) = Same(x, i)
  <2>1. ASSUME NEW j \in Same(z, i) PROVE j \in Same(x, i)
    BY <1>1, <1>2, <1>3, <1>4, <2>1 DEF Same
  <2>2. ASSUME NEW j \in Same(x, i) PROVE j \in Same(z, i)
    BY <1>1 DEF Same
  <2>. QED BY <2>1, <2>2
<1>5. ASSUME NEW i \in DOMAIN y, y[i].sig.group # NoGroup
      PROVE  Same(z, Len(x) + i) = {Len(x) + j : j \in Same(y, i)}
  <2>1. ASSUME NEW j \in Same(z, Len(x) + i)
        PROVE  j - Len(x) \in Same(y, i) /\ j = Len(x) + (j - Len(x))
    BY <1>1, <1>2, <1>3, <1>5, <2>1 DEF Same
  <2>2. ASSUME NEW j \in Same(y, i) PROVE Len(x) + j \in Same(z, Len(x) + i)
    BY <1>1 DEF Same
  <2>. QED BY <2>1, <2>2
<1>. QED
  BY <1>4, <1>5 DEF z

LEMMA KeysTogether ==
    ASSUME NEW x \in Seq(Entry), NEW y \in Seq(Entry), GroupsOf(x) \cap GroupsOf(y) = {}
    PROVE  KeysOf(x \o y) = KeysOf(x) \cup KeysOf(y)
<1>. DEFINE z == x \o y
<1>1. /\ Len(x) \in Nat /\ DOMAIN x = 1..Len(x) /\ DOMAIN y = 1..Len(y)
      /\ \A i \in DOMAIN x : i \in DOMAIN z /\ z[i] = x[i]
      /\ \A i \in DOMAIN y : Len(x) + i \in DOMAIN z /\ z[Len(x) + i] = y[i]
      /\ \A i \in DOMAIN z : i \in DOMAIN x \/ i - Len(x) \in DOMAIN y
      /\ DOMAIN z = 1..(Len(x) + Len(y)) /\ Len(y) \in Nat
  BY Concatenated
<1>2. /\ \A i \in DOMAIN x : x[i].sig.group # NoGroup => Same(z, i) = Same(x, i)
      /\ \A i \in DOMAIN y : y[i].sig.group # NoGroup =>
            Same(z, Len(x) + i) = {Len(x) + j : j \in Same(y, i)}
  BY SameTogether
<1>. HIDE DEF z
<1>3. ASSUME NEW i \in DOMAIN x PROVE KeyAt(z, i) = KeyAt(x, i)
  <2>1. z[i] = x[i]
    BY <1>1
  <2>2. CASE x[i].sig.group = NoGroup
    BY <2>1, <2>2 DEF KeyAt
  <2>3. CASE x[i].sig.group # NoGroup
    <3>1. Same(z, i) = Same(x, i)
      BY <1>2, <2>3
    <3>2. \A j \in Same(x, i) : z[j] = x[j]
      BY <1>1 DEF Same
    <3>3. {LegOf(z[j].sig) : j \in Same(z, i)} = {LegOf(x[j].sig) : j \in Same(x, i)}
      BY <3>1, <3>2
    <3>. QED BY <2>1, <2>3, <3>3 DEF KeyAt
  <2>. QED BY <2>2, <2>3
<1>4. ASSUME NEW i \in DOMAIN y PROVE KeyAt(z, Len(x) + i) = KeyAt(y, i)
  <2>1. z[Len(x) + i] = y[i]
    BY <1>1
  <2>2. CASE y[i].sig.group = NoGroup
    BY <2>1, <2>2 DEF KeyAt
  <2>3. CASE y[i].sig.group # NoGroup
    <3>1. Same(z, Len(x) + i) = {Len(x) + j : j \in Same(y, i)}
      BY <1>2, <2>3
    <3>2. \A j \in Same(y, i) : z[Len(x) + j] = y[j]
      BY <1>1 DEF Same
    <3>3. {LegOf(z[j].sig) : j \in Same(z, Len(x) + i)} = {LegOf(y[j].sig) : j \in Same(y, i)}
      <4>1. \A j \in Same(z, Len(x) + i) : \E k \in Same(y, i) : z[j] = y[k]
        BY <3>1, <3>2
      <4>2. \A k \in Same(y, i) : \E j \in Same(z, Len(x) + i) : z[j] = y[k]
        BY <3>1, <3>2
      <4>. QED BY <4>1, <4>2
    <3>. QED BY <2>1, <2>3, <3>3 DEF KeyAt
  <2>. QED BY <2>2, <2>3
<1>5. {KeyAt(z, i) : i \in DOMAIN z} =
      {KeyAt(x, i) : i \in DOMAIN x} \cup {KeyAt(y, i) : i \in DOMAIN y}
  <2>1. ASSUME NEW i \in DOMAIN z
        PROVE  \/ \E j \in DOMAIN x : KeyAt(z, i) = KeyAt(x, j)
               \/ \E j \in DOMAIN y : KeyAt(z, i) = KeyAt(y, j)
    <3>1. CASE i \in DOMAIN x
      BY <1>3, <3>1
    <3>2. CASE i - Len(x) \in DOMAIN y
      <4>1. i = Len(x) + (i - Len(x))
        BY <1>1
      <4>. QED BY <1>4, <3>2, <4>1
    <3>. QED BY <1>1, <3>1, <3>2
  <2>2. \A j \in DOMAIN x : \E i \in DOMAIN z : KeyAt(z, i) = KeyAt(x, j)
    BY <1>1, <1>3
  <2>3. \A j \in DOMAIN y : \E i \in DOMAIN z : KeyAt(z, i) = KeyAt(y, j)
    BY <1>1, <1>4
  <2>. QED BY <2>1, <2>2, <2>3
<1>. QED
  BY <1>5, KeysAre DEF z

\* What is returned of a unit stands for its key.
LEMMA FinalKeys ==
    ASSUME NEW u, IsUnit(u), NEW fin, Final(u, fin)
    PROVE  /\ KeysOf(fin) = {KeyOf(u)}
           /\ GroupsOf(fin) = {u[1].group} \ {NoGroup}
<1>1. /\ u \in Seq(Sig) /\ u # <<>> /\ fin \in Seq(Entry) /\ Len(fin) = Len(u)
      /\ \A i \in DOMAIN fin : fin[i].sig = u[i]
  BY DEF IsUnit, Final
<1>2. DOMAIN fin = DOMAIN u /\ 1 \in DOMAIN u /\ 1 \in DOMAIN fin /\ DOMAIN u = 1..Len(u)
  BY <1>1
<1>3. \A i \in DOMAIN fin : /\ fin[i].sig = u[i]
                            /\ fin[i].sig.group = u[1].group
                            /\ fin[i].sig.strategy = u[1].strategy
  BY <1>1, <1>2 DEF IsUnit
<1>4. GroupsOf(fin) = {u[1].group} \ {NoGroup}
  BY <1>2, <1>3 DEF GroupsOf
<1>5. ASSUME NEW i \in DOMAIN fin PROVE KeyAt(fin, i) = KeyOf(u)
  <2>1. CASE u[1].group = NoGroup
    <3>1. i = 1
      BY <1>2, <2>1 DEF IsUnit
    <3>2. fin[i].sig = u[1]
      BY <1>3, <3>1
    <3>. QED BY <2>1, <3>2 DEF KeyAt, KeyOf
  <2>2. CASE u[1].group # NoGroup
    <3>1. Same(fin, i) = DOMAIN u
      BY <1>2, <1>3 DEF Same
    <3>2. \A j \in DOMAIN u : fin[j].sig = u[j]
      BY <1>2, <1>3
    <3>3. {LegOf(fin[j].sig) : j \in Same(fin, i)} = {LegOf(u[j]) : j \in DOMAIN u}
      BY <3>1, <3>2
    <3>4. fin[i].sig.group # NoGroup /\ fin[i].sig.strategy = u[1].strategy
      BY <1>3, <2>2
    <3>. QED BY <2>2, <3>3, <3>4 DEF KeyAt, KeyOf, group_dedupe_key
  <2>. QED BY <2>1, <2>2
<1>6. KeysOf(fin) = {KeyOf(u)}
  BY <1>2, <1>5, KeysAre
<1>. QED
  BY <1>4, <1>6

LEMMA WholeTogether ==
    ASSUME NEW x \in Seq(Entry), Whole(x), NEW u, IsUnit(u), NEW fin, Final(u, fin),
           u[1].group = NoGroup \/ Len(u) = u[1].leg_count, u[1].group \notin GroupsOf(x)
    PROVE  Whole(x \o fin)
<1>. DEFINE z == x \o fin
<1>1. /\ u \in Seq(Sig) /\ u # <<>> /\ fin \in Seq(Entry) /\ Len(fin) = Len(u)
      /\ \A i \in DOMAIN fin : fin[i].sig = u[i]
  BY DEF IsUnit, Final
<1>2. /\ Len(x) \in Nat /\ DOMAIN x = 1..Len(x) /\ DOMAIN fin = 1..Len(fin)
      /\ \A i \in DOMAIN x : i \in DOMAIN z /\ z[i] = x[i]
      /\ \A i \in DOMAIN fin : Len(x) + i \in DOMAIN z /\ z[Len(x) + i] = fin[i]
      /\ \A i \in DOMAIN z : i \in DOMAIN x \/ i - Len(x) \in DOMAIN fin
      /\ DOMAIN z = 1..(Len(x) + Len(fin)) /\ Len(fin) \in Nat
  BY <1>1, Concatenated
<1>3. GroupsOf(x) \cap GroupsOf(fin) = {}
  BY FinalKeys
<1>4. /\ \A i \in DOMAIN x : x[i].sig.group # NoGroup => Same(z, i) = Same(x, i)
      /\ \A i \in DOMAIN fin : fin[i].sig.group # NoGroup =>
            Same(z, Len(x) + i) = {Len(x) + j : j \in Same(fin, i)}
  BY <1>1, <1>3, SameTogether
<1>. HIDE DEF z
<1>5. ASSUME NEW i \in DOMAIN z, z[i].sig.group # NoGroup
      PROVE  /\ Cardinality(Same(z, i)) = z[i].sig.leg_count
             /\ \E b \in 1..Limits.max_contracts :
                   \A j \in Same(z, i) : z[j].qty = b * z[j].sig.ratio
  <2>1. CASE i \in DOMAIN x
    <3>1. z[i] = x[i] /\ Same(z, i) = Same(x, i) /\ \A j \in Same(x, i) : z[j] = x[j]
      BY <1>2, <1>4, <1>5, <2>1 DEF Same
    <3>. QED BY <1>5, <2>1, <3>1 DEF Whole
  <2>2. CASE i - Len(x) \in DOMAIN fin
    <3>. DEFINE k == i - Len(x)
    <3>1. k \in DOMAIN fin /\ i = Len(x) + k /\ z[i] = fin[k]
      BY <1>2, <2>2
    <3>. HIDE DEF k
    <3>2. /\ fin[k].sig.group = u[1].group /\ fin[k].sig.leg_count = u[1].leg_count
          /\ \A j \in DOMAIN fin : fin[j].sig.group = u[1].group
      <4>1. DOMAIN fin = DOMAIN u
        BY <1>1, <1>2
      <4>. QED BY <1>1, <3>1, <4>1 DEF IsUnit
    <3>3. Same(fin, k) = DOMAIN fin
      BY <3>2 DEF Same
    <3>4. Same(z, i) = {Len(x) + j : j \in 1..Len(fin)}
      BY <1>2, <1>4, <1>5, <3>1, <3>3
    <3>5. Same(z, i) = (Len(x) + 1)..(Len(x) + Len(fin))
      <4>1. \A m \in (Len(x) + 1)..(Len(x) + Len(fin)) : m - Len(x) \in 1..Len(fin)
                                                         /\ m = Len(x) + (m - Len(x))
        BY <1>2
      <4>2. \A j \in 1..Len(fin) : Len(x) + j \in (Len(x) + 1)..(Len(x) + Len(fin))
        BY <1>2
      <4>. QED BY <3>4, <4>1, <4>2
    <3>6. Cardinality(Same(z, i)) = Len(fin)
      <4>. DEFINE a == Len(x) + 1
                  b == Len(x) + Len(fin)
      <4>1. a \in Int /\ b \in Int /\ b - a + 1 = Len(fin) /\ (a > b => Len(fin) = 0)
        BY <1>2
      <4>2. Cardinality(a..b) = IF a > b THEN 0 ELSE b - a + 1
        <5>. HIDE DEF a, b
        <5>. QED BY <4>1, FS_Interval
      <4>. QED BY <3>5, <4>1, <4>2
    <3>7. Len(u) = u[1].leg_count
      BY <1>5, <3>1, <3>2
    <3>8. PICK b \in 1..Limits.max_contracts : \A j \in DOMAIN fin : fin[j].qty = b * fin[j].sig.ratio
      BY <1>5, <3>1, <3>2 DEF Final
    <3>9. ASSUME NEW j \in Same(z, i) PROVE z[j].qty = b * z[j].sig.ratio
      <4>1. j - Len(x) \in DOMAIN fin /\ j = Len(x) + (j - Len(x))
        BY <1>2, <3>5
      <4>2. z[j] = fin[j - Len(x)]
        BY <1>2, <4>1
      <4>. QED BY <3>8, <4>1, <4>2
    <3>. QED BY <1>1, <3>1, <3>2, <3>6, <3>7, <3>9
  <2>. QED BY <1>2, <2>1, <2>2
<1>6. Whole(z)
  BY <1>5 DEF Whole
<1>. QED
  BY <1>6 DEF z

LEMMA NothingYet == KeysOf(<<>>) = {} /\ GroupsOf(<<>>) = {} /\ Whole(<<>>)
<1>1. DOMAIN <<>> = {}
  OBVIOUS
<1>2. KeysOf(<<>>) = {}
  BY <1>1, KeysAre
<1>. QED
  BY <1>1, <1>2 DEF GroupsOf, Whole

----------------------------------------------------------------------------
(* The steps of a pass *)

LEMMA TailUnits ==
    ASSUME NEW us, IsUnits(us), us # <<>>
    PROVE  /\ IsUnits(Tail(us)) /\ IsUnit(Head(us)) /\ Head(us) = us[1] /\ 1 \in DOMAIN us
           /\ \A i \in DOMAIN Tail(us) : i + 1 \in DOMAIN us /\ Tail(us)[i] = us[i + 1] /\ i + 1 # 1
<1>1. us \in Seq(Seq(Sig))
  BY DEF IsUnits
<1>. DEFINE t == Tail(us)
<1>2. /\ t \in Seq(Seq(Sig)) /\ Head(us) = us[1] /\ 1 \in DOMAIN us
      /\ \A i \in DOMAIN t : i + 1 \in DOMAIN us /\ t[i] = us[i + 1] /\ i + 1 # 1 /\ i \in Int
  BY <1>1
<1>. HIDE DEF t
<1>3. \A i \in DOMAIN t : IsUnit(t[i])
  BY <1>2 DEF IsUnits
<1>4. \A i, j \in DOMAIN t : i # j /\ t[i][1].group # NoGroup => t[i][1].group # t[j][1].group
  <2>1. SUFFICES ASSUME NEW i \in DOMAIN t, NEW j \in DOMAIN t, i # j, t[i][1].group # NoGroup
                 PROVE  t[i][1].group # t[j][1].group
    OBVIOUS
  <2>2. i + 1 # j + 1
    BY <1>2, <2>1
  <2>3. t[i] = us[i + 1] /\ t[j] = us[j + 1] /\ i + 1 \in DOMAIN us /\ j + 1 \in DOMAIN us
    BY <1>2, <2>1
  <2>4. \A k, l \in DOMAIN us : k # l /\ us[k][1].group # NoGroup => us[k][1].group # us[l][1].group
    BY DEF IsUnits
  <2>. QED BY <2>1, <2>2, <2>3, <2>4
<1>5. IsUnits(t)
  BY <1>2, <1>3, <1>4 DEF IsUnits
<1>. QED
  BY <1>2, <1>5 DEF t, IsUnits

LEMMA SeenTyped == ASSUME TypeOK PROVE Seen \subseteq Ids
<1>1. ASSUME NEW out \in Seq(Entry), NEW g \in GroupsOf(out) PROVE g \in Ids
  <2>1. PICK i \in DOMAIN out : g = out[i].sig.group /\ g # NoGroup
    BY DEF GroupsOf
  <2>2. out[i] \in Entry
    OBVIOUS
  <2>3. out[i].sig \in Sig
    BY <2>2 DEF Entry
  <2>4. out[i].sig.group \in Ids \cup {NoGroup}
    BY <2>3 DEF Sig, Signal
  <2>. QED BY <2>1, <2>4
<1>2. signals \in Seq(Entry) /\ collected \in Seq(Entry) /\ dropped \in Seq(Ids)
  BY DEF TypeOK
<1>3. ToSet(dropped) \subseteq Ids
  BY <1>2 DEF ToSet
<1>. QED
  BY <1>1, <1>2, <1>3 DEF Seen

LEMMA IdTyped == ASSUME NEW g \in Ids PROVE g[2] \in Nat /\ g[3] \in Nat
BY DEF Ids

\* What was met stays met while the turns go by.
LEMMA PastStays ==
    ASSUME TypeOK, NEW g \in Seen, Past(g), todo' = todo,
           \/ ~context /\ context'
           \/ context' = context /\ turns' = turns
           \/ context' = context /\ turns # <<>> /\ turns' = Tail(turns)
    PROVE  Past(g)'
<1>1. g[2] \in Nat /\ g[3] \in Nat
  BY SeenTyped, IdTyped
<1>2. Len(todo) \in Nat
  BY DEF TypeOK
<1>3. turns \in Seq(ToSet(Strategies))
  BY DEF TypeOK
<1>4. Len(turns) \in Nat /\ (turns # <<>> => Len(Tail(turns)) = Len(turns) - 1)
  BY <1>3
<1>. QED
  BY <1>1, <1>2, <1>4 DEF Past

\* ... and when the next symbol's turn comes.
LEMMA PastSymbol ==
    ASSUME TypeOK, NEW g \in Seen, Past(g), todo # <<>>, todo' = Tail(todo)
    PROVE  Past(g)'
<1>1. g[2] \in Nat /\ g[3] \in Nat
  BY SeenTyped, IdTyped
<1>2. todo \in Seq(ToSet(Symbols))
  BY DEF TypeOK
<1>3. Len(todo) \in Nat /\ Len(Tail(todo)) = Len(todo) - 1
  BY <1>2
<1>. QED
  BY <1>1, <1>3 DEF Past

\* Steps that return nothing leave what is said of the results.
LEMMA ResultsStay ==
    ASSUME Inv, UNCHANGED <<clock, pc, signals, collected, last, delivered, orphaned>>
    PROVE  TradableInv' /\ WholeInv' /\ MemoryInv'
<1>1. TradableInv'
  BY DEF Inv, TradableInv, Tradable, Verdict
<1>2. WholeInv'
  BY DEF Inv, WholeInv
<1>3. MemoryInv'
  BY DEF Inv, MemoryInv, Now, Agree
<1>. QED
  BY <1>1, <1>2, <1>3

\* A unit that was processed: its structure may now be met, and no unit that
\* is left has it.
LEMMA UnitDone ==
    ASSUME Inv, units # <<>>, units' = Tail(units), sized' = <<>>,
           UNCHANGED <<pc, todo, context, turns>>,
           Seen' \subseteq Seen \cup ({unit[1].group} \ {NoGroup})
    PROVE  /\ IsUnits(units)' /\ IsUnit(unit) /\ pc = "pass" /\ context
           /\ unit[1].group \notin Seen
           /\ SizedInv'
           /\ \A i \in DOMAIN units' : units'[i][1].group # NoGroup =>
                 /\ units'[i][1].group[2] = Len(todo')
                 /\ units'[i][1].group[3] = Len(turns') + 1
                 /\ units'[i][1].group \notin Seen'
           /\ \A g \in Seen' : Past(g)'
<1>1. TypeOK /\ PhaseInv /\ GroupInv
  BY DEF Inv
<1>2. IsUnits(units) /\ context /\ pc = "pass" /\ turns \in Seq(ToSet(Strategies))
  BY <1>1 DEF TypeOK, PhaseInv
<1>3. /\ IsUnits(Tail(units)) /\ IsUnit(unit) /\ unit = units[1] /\ 1 \in DOMAIN units
      /\ \A i \in DOMAIN Tail(units) :
            i + 1 \in DOMAIN units /\ Tail(units)[i] = units[i + 1] /\ i + 1 # 1
  BY <1>2, TailUnits DEF unit
<1>4. IsUnits(units')
  BY <1>3
<1>5. \A i \in DOMAIN units : units[i][1].group # NoGroup =>
          /\ units[i][1].group[2] = Len(todo)
          /\ units[i][1].group[3] = Len(turns) + 1
          /\ units[i][1].group \notin Seen
  BY <1>1 DEF GroupInv
<1>6. NoGroup \notin Seen
  <2>1. NoGroup \notin ToSet(dropped)
    <3>1. dropped \in Seq(Ids)
      BY <1>1 DEF TypeOK
    <3>2. NoGroup \notin Ids
      BY DEF NoGroup, Ids
    <3>. QED BY <3>1, <3>2 DEF ToSet
  <2>. QED BY <2>1 DEF Seen, GroupsOf
<1>7. unit[1].group \notin Seen
  BY <1>3, <1>5, <1>6
<1>8. ASSUME NEW i \in DOMAIN units', units'[i][1].group # NoGroup
      PROVE  /\ units'[i][1].group[2] = Len(todo')
             /\ units'[i][1].group[3] = Len(turns') + 1
             /\ units'[i][1].group \notin Seen'
  <2>1. i + 1 \in DOMAIN units /\ units'[i] = units[i + 1] /\ i + 1 # 1
    BY <1>3
  <2>2. units[i + 1][1].group # units[1][1].group
    BY <1>2, <1>3, <1>8, <2>1 DEF IsUnits
  <2>. QED BY <1>3, <1>5, <1>8, <2>1, <2>2
<1>9. ASSUME NEW g \in Seen' PROVE Past(g)'
  <2>1. CASE g \in Seen
    <3>1. Past(g)
      BY <1>1, <2>1 DEF GroupInv
    <3>. QED BY <1>1, <2>1, <3>1, PastStays
  <2>2. CASE g = units[1][1].group /\ g # NoGroup
    <3>1. g[2] = Len(todo) /\ g[3] = Len(turns) + 1 /\ Len(turns) \in Nat
      BY <1>2, <1>3, <1>5, <2>2
    <3>. QED BY <1>2, <3>1 DEF Past
  <2>. QED BY <1>3, <1>9, <2>1, <2>2
<1>10. SizedInv'
  <2>1. units' # <<>> => Len(units'[1]) \in Nat /\ units'[1] = Head(units')
    <3>1. SUFFICES ASSUME units' # <<>>
                   PROVE Len(units'[1]) \in Nat /\ units'[1] = Head(units')
      OBVIOUS
    <3>2. IsUnit(Head(units')) /\ Head(units') = units'[1]
      BY <1>4, <3>1, TailUnits
    <3>3. Head(units') \in Seq(Sig)
      BY <3>2 DEF IsUnit
    <3>4. \A q \in Seq(Sig) : Len(q) \in Nat
      OBVIOUS
    <3>. QED BY <3>2, <3>3, <3>4
  <2>. QED BY <2>1 DEF SizedInv, unit
<1>. QED
  BY <1>2, <1>3, <1>4, <1>7, <1>8, <1>9, <1>10

LEMMA InitInv == Init => Inv
<1>. SUFFICES ASSUME Init PROVE Inv
  OBVIOUS
<1>. USE DEF Init
<1>1. TypeOK
  <2>1. IsUnits(units)
    BY DEF IsUnits
  <2>2. \A o \in Options : market[o] \in Books
    BY DEF Books
  <2>3. [at |-> Never, book |-> NoBook] \in Copy
    BY DEF Copy, Books, Never
  <2>4. cache \in [Options -> Copy]
    BY <2>3
  <2>5. last \in [DOMAIN last -> Nat] /\ delivered \in [DOMAIN delivered -> Nat]
    OBVIOUS
  <2>6. /\ todo \in Seq(ToSet(Symbols)) /\ turns \in Seq(ToSet(Strategies))
        /\ sized \in Seq(Entry) /\ collected \in Seq(Entry) /\ signals \in Seq(Entry)
        /\ dropped \in Seq(Ids)
    OBVIOUS
  <2>7. clock \in Nat /\ pc \in {"idle", "pass"} /\ context \in BOOLEAN
    OBVIOUS
  <2>. QED
    <3>. USE <2>1, <2>2, <2>4, <2>5, <2>6, <2>7
    <3>. HIDE DEF Init
    <3>. QED BY DEF TypeOK
<1>2. PhaseInv /\ SizedInv /\ TradableInv
  BY DEF PhaseInv, SizedInv, TradableInv
<1>3. Seen = {}
  BY NothingYet DEF Seen, ToSet
<1>4. GroupInv
  BY <1>3, NothingYet DEF GroupInv
<1>5. WholeInv
  BY NothingYet DEF WholeInv
<1>6. MemoryInv
  BY DEF MemoryInv
<1>. QED
  BY <1>1, <1>2, <1>4, <1>5, <1>6 DEF Inv

LEMMA BeginPassInv == ASSUME Inv, BeginPass PROVE Inv'
<1>. USE DEF BeginPass
<1>1. TypeOK /\ PhaseInv /\ MemoryInv
  BY DEF Inv
<1>2. ~context /\ turns = <<>> /\ units = <<>> /\ collected = <<>> /\ sized = <<>>
  BY <1>1 DEF PhaseInv
<1>3. TypeOK'
  <2>1. Symbols \in Seq(ToSet(Symbols))
    <3>1. Symbols \in Seq(STRING)
      BY GeneratorAssumption
    <3>. QED BY <3>1 DEF ToSet
  <2>2. \A o \in Options : market'[o] \in Books
    BY DEF Books
  <2>. QED BY <1>1, <2>1, <2>2 DEF TypeOK
<1>4. PhaseInv' /\ SizedInv' /\ TradableInv'
  BY <1>2 DEF PhaseInv, SizedInv, TradableInv
<1>5. Seen' = {}
  BY <1>2, NothingYet DEF Seen, ToSet
<1>6. GroupInv'
  BY <1>2, <1>5, NothingYet DEF GroupInv
<1>7. WholeInv'
  BY <1>2, NothingYet DEF WholeInv
<1>8. MemoryInv'
  <2>1. Now' = {}
    BY <1>2, NothingYet DEF Now
  <2>2. clock \in Nat /\ last \in [DOMAIN last -> Nat]
    BY <1>1 DEF TypeOK
  <2>3. \A k \in DOMAIN last : last[k] <= clock'
    BY <1>1, <2>2 DEF MemoryInv
  <2>4. \A k \in (DOMAIN last \cup DOMAIN delivered) \ orphaned : Agree(k)
    BY <1>1 DEF MemoryInv
  <2>. QED BY <1>1, <2>1, <2>3, <2>4 DEF MemoryInv, Agree
<1>. QED
  BY <1>3, <1>4, <1>6, <1>7, <1>8 DEF Inv

LEMMA BuildContextInv == ASSUME Inv, BuildContext PROVE Inv'
<1>. USE DEF BuildContext, genVars
<1>1. TypeOK /\ PhaseInv /\ GroupInv /\ SizedInv
  BY DEF Inv
<1>2. turns = <<>> /\ units = <<>> /\ collected = <<>> /\ sized = <<>>
  BY <1>1 DEF PhaseInv
<1>3. TypeOK'
  <2>1. Strategies \in Seq(ToSet(Strategies))
    <3>1. Strategies \in Seq(STRING)
      BY GeneratorAssumption
    <3>. QED BY <3>1 DEF ToSet
  <2>. QED BY <1>1, <2>1 DEF TypeOK
<1>4. PhaseInv' /\ SizedInv'
  BY <1>1, <1>2 DEF PhaseInv, SizedInv
<1>5. Seen' = Seen
  BY DEF Seen
<1>6. \A g \in Seen : Past(g)'
  BY <1>1, PastStays DEF GroupInv
<1>7. GroupInv'
  BY <1>1, <1>2, <1>5, <1>6 DEF GroupInv
<1>8. TradableInv' /\ WholeInv' /\ MemoryInv'
  BY ResultsStay
<1>. QED
  BY <1>3, <1>4, <1>7, <1>8 DEF Inv

LEMMA RunStrategyInv == ASSUME Inv, RunStrategy PROVE Inv'
<1>. USE DEF RunStrategy, Turn, genVars
<1>1. TypeOK /\ PhaseInv /\ GroupInv
  BY DEF Inv
<1>2. context /\ todo # <<>> /\ turns # <<>> /\ units = <<>> /\ sized = <<>>
  BY <1>1 DEF PhaseInv
<1>3. todo \in Seq(ToSet(Symbols)) /\ turns \in Seq(ToSet(Strategies))
  BY <1>1 DEF TypeOK
<1>4. /\ Head(todo) \in ToSet(Symbols) /\ Head(turns) \in ToSet(Strategies)
      /\ Tail(turns) \in Seq(ToSet(Strategies)) /\ Len(Tail(turns)) = Len(turns) - 1
      /\ Len(turns) \in Nat /\ Len(todo) \in Nat
  BY <1>2, <1>3
<1>5. <<Head(todo), Head(turns)>> \in DOMAIN Batches
  <2>1. \A x \in ToSet(Symbols) \X ToSet(Strategies) : x \in DOMAIN Batches
    BY GeneratorAssumption
  <2>. QED BY <1>4, <2>1
<1>6. PICK raw \in Batches[<<Head(todo), Head(turns)>>] : units' = Units(Drawn(raw))
  OBVIOUS
<1>. DEFINE us == Units(Drawn(raw))
<1>7. /\ IsUnits(us)
      /\ \A i \in DOMAIN us : us[i][1].group # NoGroup =>
            us[i][1].group[2] = Len(todo) /\ us[i][1].group[3] = Len(turns)
  BY <1>1, <1>5, UnitsDrawn
<1>. HIDE DEF us
<1>8. units' = us
  BY <1>6 DEF us
<1>9. TypeOK'
  BY <1>1, <1>4, <1>7, <1>8 DEF TypeOK
<1>10. PhaseInv'
  BY <1>1, <1>2 DEF PhaseInv
<1>11. SizedInv'
  <2>1. ASSUME us # <<>> PROVE Len(Head(us)) \in Nat
    <3>1. Head(us) \in Seq(Sig)
      BY <1>7, <2>1, TailUnits DEF IsUnit
    <3>. QED BY <3>1
  <2>. QED BY <1>2, <1>8, <2>1 DEF SizedInv, unit
<1>12. Seen' = Seen
  BY DEF Seen
<1>13. \A g \in Seen : Past(g)'
  BY <1>1, PastStays DEF GroupInv
<1>14. ASSUME NEW i \in DOMAIN us, us[i][1].group # NoGroup
       PROVE  us[i][1].group \notin Seen
  <2>1. us[i][1].group[2] = Len(todo) /\ us[i][1].group[3] = Len(turns)
    BY <1>7, <1>14
  <2>2. ~Past(us[i][1].group)
    BY <1>4, <2>1 DEF Past
  <2>. QED BY <1>1, <2>2 DEF GroupInv
<1>15. Len(turns) = Len(turns') + 1
  BY <1>4
<1>16. GroupInv'
  BY <1>1, <1>7, <1>8, <1>12, <1>13, <1>14, <1>15 DEF GroupInv
<1>17. TradableInv' /\ WholeInv' /\ MemoryInv'
  BY ResultsStay
<1>. QED
  BY <1>9, <1>10, <1>11, <1>16, <1>17 DEF Inv

LEMMA StrategyRaisesInv == ASSUME Inv, StrategyRaises PROVE Inv'
<1>. USE DEF StrategyRaises, Turn, genVars
<1>1. TypeOK /\ PhaseInv /\ GroupInv
  BY DEF Inv
<1>2. context /\ turns # <<>> /\ units = <<>> /\ sized = <<>>
  BY <1>1 DEF PhaseInv
<1>3. turns \in Seq(ToSet(Strategies))
  BY <1>1 DEF TypeOK
<1>4. Tail(turns) \in Seq(ToSet(Strategies))
  BY <1>2, <1>3
<1>5. TypeOK'
  BY <1>1, <1>4 DEF TypeOK
<1>6. PhaseInv' /\ SizedInv'
  BY <1>1, <1>2 DEF PhaseInv, SizedInv
<1>7. Seen' = Seen
  BY DEF Seen
<1>8. \A g \in Seen : Past(g)'
  BY <1>1, PastStays DEF GroupInv
<1>9. GroupInv'
  BY <1>1, <1>2, <1>7, <1>8 DEF GroupInv
<1>10. TradableInv' /\ WholeInv' /\ MemoryInv'
  BY ResultsStay
<1>. QED
  BY <1>5, <1>6, <1>9, <1>10 DEF Inv

\* A unit is given up, and its structure perhaps noted as dropped.
LEMMA GivenUpInv ==
    ASSUME Inv, units # <<>>, GiveUpUnit, UNCHANGED <<quietVars, collected, last>>,
           cache' \in [Options -> Copy],
           \/ dropped' = dropped
           \/ unit[1].group # NoGroup /\ dropped' = Append(dropped, unit[1].group)
    PROVE  Inv'
<1>. USE DEF GiveUpUnit, quietVars
<1>1. TypeOK /\ PhaseInv /\ GroupInv
  BY DEF Inv
<1>2. IsUnit(unit)
  BY <1>1, TailUnits DEF TypeOK, unit
<1>3. dropped \in Seq(Ids)
  BY <1>1 DEF TypeOK
<1>4. unit[1].group # NoGroup => unit[1].group \in Ids
  <2>1. unit \in Seq(Sig) /\ 1 \in DOMAIN unit
    BY <1>2 DEF IsUnit
  <2>2. unit[1] \in Sig
    BY <2>1
  <2>. QED BY <2>2 DEF Sig, Signal
<1>5. /\ dropped' \in Seq(Ids)
      /\ \/ ToSet(dropped') = ToSet(dropped)
         \/ unit[1].group # NoGroup /\ ToSet(dropped') = ToSet(dropped) \cup {unit[1].group}
  <2>1. CASE dropped' = dropped
    BY <1>3, <2>1
  <2>2. CASE unit[1].group # NoGroup /\ dropped' = Append(dropped, unit[1].group)
    <3>. DEFINE g == unit[1].group
    <3>1. g \in Ids
      BY <1>4, <2>2
    <3>. HIDE DEF g
    <3>2. /\ Append(dropped, g) \in Seq(Ids)
          /\ DOMAIN Append(dropped, g) = 1..(Len(dropped) + 1)
          /\ DOMAIN dropped = 1..Len(dropped) /\ Len(dropped) \in Nat
          /\ Append(dropped, g)[Len(dropped) + 1] = g
          /\ \A i \in DOMAIN dropped : Append(dropped, g)[i] = dropped[i]
      BY <1>3, <3>1
    <3>3. \A i \in 1..(Len(dropped) + 1) : i \in 1..Len(dropped) \/ i = Len(dropped) + 1
      BY <3>2
    <3>4. /\ \A i \in 1..Len(dropped) : i \in 1..(Len(dropped) + 1)
          /\ Len(dropped) + 1 \in 1..(Len(dropped) + 1)
      BY <3>2
    <3>5. ToSet(Append(dropped, g)) = ToSet(dropped) \cup {g}
      BY <3>2, <3>3, <3>4 DEF ToSet
    <3>. QED BY <2>2, <3>2, <3>5 DEF g
  <2>. QED BY <2>1, <2>2
<1>6. Seen' \subseteq Seen \cup ({unit[1].group} \ {NoGroup})
  BY <1>5 DEF Seen
<1>7. /\ IsUnits(units)' /\ pc = "pass" /\ context
      /\ unit[1].group \notin Seen
      /\ SizedInv'
      /\ \A i \in DOMAIN units' : units'[i][1].group # NoGroup =>
            /\ units'[i][1].group[2] = Len(todo')
            /\ units'[i][1].group[3] = Len(turns') + 1
            /\ units'[i][1].group \notin Seen'
      /\ \A g \in Seen' : Past(g)'
  BY <1>6, UnitDone
<1>8. TypeOK'
  <2>1. sized' \in Seq(Entry)
    OBVIOUS
  <2>. QED BY <1>1, <1>5, <1>7, <2>1 DEF TypeOK
<1>9. PhaseInv'
  BY <1>1, <1>7 DEF PhaseInv
<1>10. GroupInv'
  <2>1. GroupsOf(signals)' = GroupsOf(signals) /\ GroupsOf(collected)' = GroupsOf(collected)
    BY DEF GroupsOf
  <2>2. (GroupsOf(signals) \cup GroupsOf(collected)) \cap ToSet(dropped') = {}
    BY <1>1, <1>5, <1>7 DEF GroupInv, Seen
  <2>. QED BY <1>1, <1>7, <2>1, <2>2 DEF GroupInv
<1>11. TradableInv' /\ WholeInv' /\ MemoryInv'
  BY ResultsStay
<1>. QED
  BY <1>7, <1>8, <1>9, <1>10, <1>11 DEF Inv

\* The leg in turn belongs to the unit, and is a signal.
LEMMA LegTyped ==
    ASSUME Inv, AtLeg
    PROVE  leg \in Sig /\ leg.group = unit[1].group /\ Len(sized) + 1 \in DOMAIN unit
<1>1. IsUnit(unit) /\ sized \in Seq(Entry)
  BY TailUnits DEF Inv, TypeOK, AtLeg, unit
<1>2. unit \in Seq(Sig) /\ Len(sized) \in Nat /\ Len(sized) < Len(unit)
  BY <1>1 DEF IsUnit, AtLeg
<1>3. Len(sized) + 1 \in DOMAIN unit
  BY <1>2
<1>4. unit[Len(sized) + 1] \in Sig
  BY <1>2, <1>3
<1>5. unit[Len(sized) + 1].group = unit[1].group
  BY <1>1, <1>3 DEF IsUnit
<1>. QED
  BY <1>3, <1>4, <1>5 DEF leg

LEMMA RejectedInv ==
    ASSUME Inv, AtLeg, Rejected, UNCHANGED <<quietVars, collected, last>>,
           cache' \in [Options -> Copy]
    PROVE  Inv'
<1>1. leg.group = unit[1].group
  BY LegTyped
<1>2. \/ dropped' = dropped
      \/ unit[1].group # NoGroup /\ dropped' = Append(dropped, unit[1].group)
  BY <1>1 DEF Rejected
<1>3. units # <<>> /\ GiveUpUnit
  BY DEF AtLeg, Rejected
<1>. QED
  BY <1>2, <1>3, GivenUpInv

LEMMA FetchedTyped ==
    ASSUME TypeOK, NEW s \in Sig
    PROVE  s.sym \in Options /\ Fetched(s.sym) \in Copy
<1>1. s.sym \in Options
  BY DEF Sig, Signal
<1>2. cache[s.sym] \in Copy /\ market[s.sym] \in Books /\ clock \in Nat
  BY <1>1 DEF TypeOK
<1>3. [at |-> IF market[s.sym].known THEN clock ELSE Never, book |-> market[s.sym]] \in Copy
  BY <1>2 DEF Copy, Never
<1>. QED
  BY <1>1, <1>2, <1>3 DEF Fetched

LEMMA ScreenLegInv == ASSUME Inv, ScreenLeg PROVE Inv'
<1>. DEFINE got == Fetched(leg.sym)
            verdict == Verdict(leg, suggested_qty(leg), got)
<1>1. /\ AtLeg /\ suggested_qty(leg) > 0
      /\ cache' = IF got.book.known THEN [cache EXCEPT ![leg.sym] = got] ELSE cache
      /\ \/ /\ verdict = "tradable"
            /\ sized' = Append(sized, [sig |-> leg, qty |-> suggested_qty(leg), got |-> got])
            /\ UNCHANGED <<units, dropped>>
         \/ verdict # "tradable" /\ Rejected
      /\ UNCHANGED <<quietVars, collected, last, faults>>
  BY DEF ScreenLeg
<1>2. TypeOK /\ PhaseInv /\ GroupInv /\ SizedInv
  BY DEF Inv
<1>3. /\ leg \in Sig /\ leg.group = unit[1].group /\ Len(sized) + 1 \in DOMAIN unit
  BY <1>1, LegTyped
<1>4. leg.sym \in Options /\ got \in Copy
  BY <1>2, <1>3, FetchedTyped
<1>5. cache' \in [Options -> Copy]
  <2>1. cache \in [Options -> Copy]
    BY <1>2 DEF TypeOK
  <2>. HIDE DEF got
  <2>. QED BY <1>1, <1>4, <2>1
<1>6. CASE Rejected
  BY <1>1, <1>5, <1>6, RejectedInv
<1>7. CASE /\ verdict = "tradable"
           /\ sized' = Append(sized, [sig |-> leg, qty |-> suggested_qty(leg), got |-> got])
           /\ UNCHANGED <<units, dropped>>
  <2>. DEFINE e == [sig |-> leg, qty |-> suggested_qty(leg), got |-> got]
  <2>1. /\ suggested_qty(leg) \in Nat /\ suggested_qty(leg) <= Limits.max_contracts
        /\ suggested_qty(leg) >= 1
    BY <1>1, <1>3, QtyBounds
  <2>2. e \in Entry
    BY <1>3, <1>4, <2>1 DEF Entry
  <2>3. Tradable(e) /\ e.sig = leg /\ e.qty <= Limits.max_contracts
    BY <1>7, <2>1 DEF Tradable
  <2>4. sized' = Append(sized, e)
    BY <1>7
  <2>. HIDE DEF e, got, verdict
  <2>5. units' = units /\ dropped' = dropped
    BY <1>7
  <2>6. sized \in Seq(Entry) /\ unit \in Seq(Sig) /\ Len(sized) \in Nat
    <3>1. IsUnit(unit)
      BY <1>1, <1>2, TailUnits DEF TypeOK, AtLeg, unit
    <3>2. sized \in Seq(Entry)
      BY <1>2 DEF TypeOK
    <3>. QED BY <3>1, <3>2 DEF IsUnit
  <2>7. /\ sized' \in Seq(Entry) /\ Len(sized') = Len(sized) + 1
        /\ DOMAIN sized' = 1..(Len(sized) + 1) /\ DOMAIN sized = 1..Len(sized)
        /\ sized'[Len(sized) + 1] = e
        /\ \A i \in DOMAIN sized : sized'[i] = sized[i]
    BY <2>2, <2>4, <2>6
  <2>. USE <2>5 DEF quietVars
  <2>8. UNCHANGED <<clock, market, pc, todo, context, turns, units, signals, collected, last,
                    dropped, delivered, orphaned>>
    BY <1>1
  <2>9. TypeOK'
    BY <1>2, <1>5, <2>7, <2>8 DEF TypeOK
  <2>10. PhaseInv'
    <3>1. units # <<>>
      BY <1>1 DEF AtLeg
    <3>. QED BY <1>2, <2>8, <3>1 DEF PhaseInv
  <2>11. SizedInv'
    <3>1. unit' = unit
      BY <2>8 DEF unit
    <3>2. Len(sized) + 1 <= Len(unit) /\ unit[Len(sized) + 1] = leg
      BY <1>3, <2>6 DEF leg
    <3>3. ASSUME NEW i \in DOMAIN sized'
          PROVE  /\ sized'[i].sig = unit[i]
                 /\ sized'[i].qty <= Limits.max_contracts
                 /\ Tradable(sized'[i])
      <4>1. CASE i \in DOMAIN sized
        <5>1. /\ sized[i].sig = unit[i] /\ sized[i].qty <= Limits.max_contracts
              /\ Tradable(sized[i])
          BY <1>1, <1>2, <4>1 DEF SizedInv, AtLeg
        <5>. QED BY <2>7, <4>1, <5>1
      <4>2. CASE i = Len(sized) + 1
        BY <2>3, <2>7, <3>2, <4>2
      <4>3. i \in DOMAIN sized \/ i = Len(sized) + 1
        BY <2>6, <2>7
      <4>. QED BY <4>1, <4>2, <4>3
    <3>4. \A i \in DOMAIN sized' : Tradable(sized[i])'
      BY <2>8, <3>3 DEF Tradable, Verdict
    <3>. QED BY <2>7, <3>1, <3>2, <3>3, <3>4 DEF SizedInv
  <2>12. GroupInv'
    BY <1>2, <2>8 DEF GroupInv, Seen, Past, GroupsOf
  <2>13. TradableInv' /\ WholeInv' /\ MemoryInv'
    BY <2>8, ResultsStay
  <2>. QED
    BY <2>9, <2>10, <2>11, <2>12, <2>13 DEF Inv
<1>. QED
  BY <1>1, <1>6, <1>7

\* The unit is returned: it joins what was collected, and its key is remembered.
LEMMA EmitInv ==
    ASSUME Inv, Processed, GiveUpUnit, base_qty(sized) > 0, ~is_duplicate(KeyOf(unit)),
           collected' = collected \o Sized(sized), last' = Put(last, KeyOf(unit), clock),
           UNCHANGED <<quietVars, cache, records, dropped, faults>>
    PROVE  Inv'
<1>. DEFINE fin == Sized(sized)
            K == KeyOf(unit)
<1>1. TypeOK /\ PhaseInv /\ SizedInv /\ TradableInv /\ GroupInv /\ WholeInv /\ MemoryInv
  BY DEF Inv
<1>2. units # <<>> /\ whole /\ Len(sized) = Len(unit) /\ units' = Tail(units) /\ sized' = <<>>
  BY DEF Processed, GiveUpUnit
<1>3. UNCHANGED <<clock, market, pc, todo, context, turns, signals, cache, dropped,
                  delivered, orphaned>>
  BY DEF quietVars
<1>4. signals \in Seq(Entry) /\ collected \in Seq(Entry) /\ sized \in Seq(Entry)
  BY <1>1 DEF TypeOK
<1>5. IsUnit(unit)
  BY <1>1, <1>2, TailUnits DEF TypeOK, unit
<1>6. Screened(unit, sized)
  BY <1>1, <1>2, <1>4, <1>5 DEF Screened, SizedInv
<1>7. Final(unit, fin)
  BY <1>6, SizedFinal
<1>8. collected' = collected \o fin
  OBVIOUS
<1>9. last' = Put(last, K, clock)
  OBVIOUS
<1>10. ~(K \in DOMAIN last /\ clock - last[K] < DedupeWindow)
  BY DEF is_duplicate
<1>. HIDE DEF fin, K
<1>11. fin \in Seq(Entry) /\ collected' \in Seq(Entry)
  <2>1. fin \in Seq(Entry)
    BY <1>7 DEF Final
  <2>. QED BY <1>4, <1>8, <2>1
<1>12. GroupsOf(fin) = {unit[1].group} \ {NoGroup} /\ KeysOf(fin) = {K}
  BY <1>5, <1>7, FinalKeys DEF K
<1>13. GroupsOf(collected') = GroupsOf(collected) \cup GroupsOf(fin)
  BY <1>4, <1>8, <1>11, GroupsTogether
<1>14. GroupsOf(signals)' = GroupsOf(signals) /\ GroupsOf(collected)' = GroupsOf(collected')
  BY <1>3 DEF GroupsOf
<1>15. Seen' \subseteq Seen \cup ({unit[1].group} \ {NoGroup})
  BY <1>3, <1>12, <1>13, <1>14 DEF Seen
<1>16. /\ IsUnits(units)' /\ pc = "pass" /\ context
       /\ unit[1].group \notin Seen
       /\ SizedInv'
       /\ \A i \in DOMAIN units' : units'[i][1].group # NoGroup =>
             /\ units'[i][1].group[2] = Len(todo')
             /\ units'[i][1].group[3] = Len(turns') + 1
             /\ units'[i][1].group \notin Seen'
       /\ \A g \in Seen' : Past(g)'
  BY <1>2, <1>3, <1>15, UnitDone
<1>17. TypeOK'
  <2>1. sized' \in Seq(Entry)
    BY <1>2
  <2>2. last' \in [DOMAIN last' -> Nat]
    <3>1. clock \in Nat /\ last \in [DOMAIN last -> Nat]
      BY <1>1 DEF TypeOK
    <3>. QED BY <1>9, <3>1 DEF Put
  <2>. QED BY <1>1, <1>3, <1>11, <1>16, <2>1, <2>2 DEF TypeOK
<1>18. PhaseInv'
  BY <1>1, <1>2, <1>3, <1>16 DEF PhaseInv
<1>19. TradableInv'
  <2>1. \A i \in DOMAIN collected' : Tradable(collected'[i])
    <3>1. ASSUME NEW i \in DOMAIN collected' PROVE Tradable(collected'[i])
      <4>1. CASE i \in DOMAIN collected
        <5>1. collected'[i] = collected[i]
          BY <1>4, <1>8, <1>11, <4>1, Concatenated
        <5>. QED BY <1>1, <4>1, <5>1 DEF TradableInv
      <4>2. CASE i - Len(collected) \in DOMAIN fin
        <5>1. collected'[i] = fin[i - Len(collected)]
          BY <1>4, <1>8, <1>11, <4>2
        <5>. QED BY <1>7, <4>2, <5>1 DEF Final
      <4>3. i \in DOMAIN collected \/ i - Len(collected) \in DOMAIN fin
        BY <1>4, <1>8, <1>11, Concatenated
      <4>. QED BY <4>1, <4>2, <4>3
    <3>. QED BY <3>1
  <2>. QED BY <1>1, <1>3, <2>1 DEF TradableInv, Tradable, Verdict
<1>20. GroupInv'
  <2>1. GroupsOf(signals)' \cap GroupsOf(collected)' = {}
    BY <1>1, <1>12, <1>13, <1>14, <1>16 DEF GroupInv, Seen
  <2>2. (GroupsOf(signals)' \cup GroupsOf(collected)') \cap ToSet(dropped)' = {}
    <3>1. ToSet(dropped)' = ToSet(dropped)
      BY <1>3
    <3>. QED BY <1>1, <1>12, <1>13, <1>14, <1>16, <3>1 DEF GroupInv, Seen
  <2>. QED BY <1>16, <2>1, <2>2 DEF GroupInv
<1>21. WholeInv'
  <2>. DEFINE x == signals \o collected
  <2>1. x \in Seq(Entry) /\ Whole(x)
    BY <1>1, <1>4 DEF WholeInv
  <2>2. GroupsOf(x) = GroupsOf(signals) \cup GroupsOf(collected)
    BY <1>4, GroupsTogether
  <2>3. unit[1].group \notin GroupsOf(x)
    BY <1>16, <2>2 DEF Seen
  <2>4. x \o fin = signals \o collected'
    <3>0. signals \in Seq(Entry) /\ collected \in Seq(Entry) /\ fin \in Seq(Entry)
      BY <1>4, <1>11
    <3>. HIDE DEF x
    <3>1. (signals \o collected) \o fin = signals \o (collected \o fin)
      BY ONLY <3>0, ConcatAssociative
    <3>. USE DEF x
    <3>. QED BY <1>8, <3>1
  <2>. HIDE DEF x
  <2>5. Whole(x \o fin)
    BY <1>2, <1>5, <1>7, <2>1, <2>3, WholeTogether DEF whole
  <2>. QED BY <1>1, <1>3, <2>4, <2>5 DEF WholeInv
<1>22. MemoryInv'
  <2>1. KeysOf(collected') = KeysOf(collected) \cup {K}
    <3>1. GroupsOf(collected) \cap GroupsOf(fin) = {}
      BY <1>12, <1>16 DEF Seen
    <3>. QED BY <1>4, <1>8, <1>11, <1>12, <3>1, KeysTogether
  <2>2. Now' = Now \cup {K}
    <3>1. Now' = KeysOf(signals') \cup KeysOf(collected')
      BY DEF Now
    <3>. QED BY <1>3, <2>1, <3>1 DEF Now
  <2>3. DOMAIN last' = DOMAIN last \cup {K}
    BY <1>9 DEF Put
  <2>4. last'[K] = clock /\ \A k \in DOMAIN last : k # K => last'[k] = last[k]
    BY <1>9 DEF Put
  <2>5. /\ clock \in Nat /\ last \in [DOMAIN last -> Nat]
        /\ delivered \in [DOMAIN delivered -> Nat] /\ DedupeWindow \in Nat
    BY <1>1, GeneratorAssumption DEF TypeOK
  <2>6. /\ \A k \in DOMAIN delivered : k \in DOMAIN last /\ delivered[k] <= last[k]
        /\ \A k \in DOMAIN last : last[k] <= clock
        /\ \A k \in Now : /\ k \in DOMAIN last /\ last[k] = clock
                          /\ k \in DOMAIN delivered => clock - delivered[k] >= DedupeWindow
        /\ \A k \in (DOMAIN last \cup DOMAIN delivered) \ (Now \cup orphaned) : Agree(k)
    BY <1>1, <1>16 DEF MemoryInv
  <2>7. K \in DOMAIN delivered => clock - delivered[K] >= DedupeWindow /\ delivered[K] <= clock
    <3>1. SUFFICES ASSUME K \in DOMAIN delivered
                   PROVE  clock - delivered[K] >= DedupeWindow /\ delivered[K] <= clock
      OBVIOUS
    <3>2. /\ K \in DOMAIN last /\ delivered[K] <= last[K] /\ last[K] <= clock
          /\ delivered[K] \in Nat /\ last[K] \in Nat
      BY <2>5, <2>6, <3>1
    <3>3. clock - last[K] >= DedupeWindow
      BY <1>10, <2>5, <3>2
    <3>. QED BY <2>5, <3>2, <3>3
  <2>8. \A k \in DOMAIN delivered : k \in DOMAIN last' /\ delivered[k] <= last'[k]
    BY <2>3, <2>4, <2>6, <2>7
  <2>9. \A k \in DOMAIN last' : last'[k] <= clock
    BY <2>3, <2>4, <2>5, <2>6
  <2>10. \A k \in Now' : /\ k \in DOMAIN last' /\ last'[k] = clock
                         /\ k \in DOMAIN delivered => clock - delivered[k] >= DedupeWindow
    BY <2>2, <2>3, <2>4, <2>6, <2>7
  <2>11. \A k \in (DOMAIN last' \cup DOMAIN delivered) \ (Now' \cup orphaned) :
            k \in DOMAIN last' \cap DOMAIN delivered /\ last'[k] = delivered[k]
    BY <2>2, <2>3, <2>4, <2>6 DEF Agree
  <2>. QED BY <1>3, <1>16, <2>8, <2>9, <2>10, <2>11 DEF MemoryInv, Agree
<1>. QED
  BY <1>16, <1>17, <1>18, <1>19, <1>20, <1>21, <1>22 DEF Inv

LEMMA FinishUnitInv == ASSUME Inv, FinishUnit PROVE Inv'
<1>. USE DEF FinishUnit
<1>1. CASE base_qty(sized) > 0 /\ ~is_duplicate(KeyOf(unit))
  BY <1>1, EmitInv
<1>2. CASE ~(base_qty(sized) > 0 /\ ~is_duplicate(KeyOf(unit)))
  <2>1. units # <<>> /\ UNCHANGED <<quietVars, collected, last, cache, dropped>>
    BY <1>2 DEF Processed
  <2>2. cache' \in [Options -> Copy]
    BY <2>1 DEF Inv, TypeOK
  <2>. QED BY <2>1, <2>2, GivenUpInv
<1>. QED
  BY <1>1, <1>2

\* The next symbol: what was met is over, whatever is kept of it.
LEMMA SymbolOver ==
    ASSUME Inv, todo # <<>>, todo' = Tail(todo), ~context', turns' = <<>>, units' = <<>>,
           sized' = <<>>, collected' = <<>>, pc = "pass",
           signals' \in Seq(Entry), GroupsOf(signals') \subseteq GroupsOf(signals) \cup GroupsOf(collected),
           UNCHANGED <<clock, market, pc, cache, last, dropped, delivered>>
    PROVE  TypeOK' /\ PhaseInv' /\ SizedInv' /\ GroupInv'
<1>1. TypeOK /\ PhaseInv /\ GroupInv
  BY DEF Inv
<1>2. TypeOK'
  <2>1. todo \in Seq(ToSet(Symbols))
    BY <1>1 DEF TypeOK
  <2>2. todo' \in Seq(ToSet(Symbols))
    BY <2>1
  <2>3. turns' \in Seq(ToSet(Strategies)) /\ sized' \in Seq(Entry) /\ collected' \in Seq(Entry)
    OBVIOUS
  <2>4. IsUnits(units')
    BY DEF IsUnits
  <2>5. context' \in BOOLEAN
    <3>1. context' = FALSE
      OBVIOUS
    <3>. QED BY <3>1
  <2>. QED BY <1>1, <2>2, <2>3, <2>4, <2>5 DEF TypeOK
<1>3. PhaseInv' /\ SizedInv'
  BY DEF PhaseInv, SizedInv
<1>4. GroupsOf(signals)' = GroupsOf(signals') /\ GroupsOf(collected)' = {}
  <2>1. GroupsOf(collected)' = GroupsOf(<<>>)
    OBVIOUS
  <2>. QED BY <2>1, NothingYet
<1>5. Seen' \subseteq Seen
  BY <1>4 DEF Seen
<1>6. \A g \in Seen' : Past(g)'
  BY <1>1, <1>5, PastSymbol DEF GroupInv
<1>7. GroupInv'
  <2>1. ToSet(dropped)' = ToSet(dropped)
    OBVIOUS
  <2>. QED BY <1>1, <1>4, <1>6, <2>1 DEF GroupInv
<1>. QED
  BY <1>2, <1>3, <1>7

LEMMA SymbolFailsInv == ASSUME Inv, SymbolFails PROVE Inv'
<1>. USE DEF SymbolFails, genVars
<1>1. TypeOK /\ TradableInv /\ WholeInv /\ MemoryInv
  BY DEF Inv
<1>2. signals \in Seq(Entry)
  BY <1>1 DEF TypeOK
<1>3. TypeOK' /\ PhaseInv' /\ SizedInv' /\ GroupInv'
  BY <1>2, SymbolOver
<1>4. TradableInv'
  BY <1>1 DEF TradableInv, Tradable, Verdict
<1>5. WholeInv'
  <2>1. signals \o <<>> = signals
    BY <1>2
  <2>. QED BY <1>1, <2>1 DEF WholeInv
<1>6. MemoryInv'
  <2>1. Now' = KeysOf(signals)
    <3>1. Now' = KeysOf(signals') \cup KeysOf(collected')
      BY DEF Now
    <3>. QED BY <3>1, NothingYet
  <2>2. Now' \subseteq Now /\ Now \subseteq Now' \cup orphaned'
    BY <2>1 DEF Now
  <2>. QED BY <1>1, <2>2 DEF MemoryInv, Agree
<1>. QED
  BY <1>3, <1>4, <1>5, <1>6 DEF Inv

LEMMA EndSymbolInv == ASSUME Inv, EndSymbol PROVE Inv'
<1>. USE DEF EndSymbol, genVars
<1>1. TypeOK /\ PhaseInv /\ TradableInv /\ GroupInv /\ WholeInv /\ MemoryInv
  BY DEF Inv
<1>2. signals \in Seq(Entry) /\ collected \in Seq(Entry)
  BY <1>1 DEF TypeOK
<1>3. signals' = signals \o collected /\ signals' \in Seq(Entry)
  BY <1>2
<1>4. GroupsOf(signals') = GroupsOf(signals) \cup GroupsOf(collected)
  BY <1>2, <1>3, GroupsTogether
<1>5. TypeOK' /\ PhaseInv' /\ SizedInv' /\ GroupInv'
  <2>1. todo # <<>> /\ sized = <<>>
    BY <1>1 DEF PhaseInv
  <2>. QED BY <1>3, <1>4, <2>1, SymbolOver
<1>6. TradableInv'
  <2>1. ASSUME NEW i \in DOMAIN signals' PROVE Tradable(signals'[i])
    <3>1. CASE i \in DOMAIN signals
      <4>1. signals'[i] = signals[i]
        BY <1>2, <1>3, <3>1, Concatenated
      <4>. QED BY <1>1, <3>1, <4>1 DEF TradableInv
    <3>2. CASE i - Len(signals) \in DOMAIN collected
      <4>1. signals'[i] = collected[i - Len(signals)]
        BY <1>2, <1>3, <3>2
      <4>. QED BY <1>1, <3>2, <4>1 DEF TradableInv
    <3>3. i \in DOMAIN signals \/ i - Len(signals) \in DOMAIN collected
      BY <1>2, <1>3, Concatenated
    <3>. QED BY <3>1, <3>2, <3>3
  <2>2. clock' = clock /\ collected' = <<>>
    OBVIOUS
  <2>. QED BY <2>1, <2>2 DEF TradableInv, Tradable, Verdict
<1>7. WholeInv'
  <2>1. signals' \o <<>> = signals'
    BY <1>3
  <2>2. Whole(signals')
    BY <1>1, <1>3 DEF WholeInv
  <2>. QED BY <2>1, <2>2 DEF WholeInv
<1>8. MemoryInv'
  <2>1. KeysOf(signals') = KeysOf(signals) \cup KeysOf(collected)
    BY <1>1, <1>2, <1>3, KeysTogether DEF GroupInv
  <2>2. Now' = Now
    <3>1. Now' = KeysOf(signals') \cup KeysOf(collected')
      BY DEF Now
    <3>. QED BY <2>1, <3>1, NothingYet DEF Now
  <2>. QED BY <1>1, <2>2 DEF MemoryInv, Agree
<1>. QED
  BY <1>5, <1>6, <1>7, <1>8 DEF Inv

\* What a pass returns of a key, and when the key was returned before.
LEMMA EndPassKeys ==
    ASSUME Inv, EndPass
    PROVE  /\ delivered' = [k \in DOMAIN delivered \cup KeysOf(signals) |->
                               IF k \in KeysOf(signals) THEN clock ELSE delivered[k]]
           /\ orphaned' = orphaned \ KeysOf(signals)
           /\ Now = KeysOf(signals) /\ collected = <<>>
<1>1. collected = <<>>
  BY DEF Inv, PhaseInv, EndPass
<1>. QED
  BY <1>1, NothingYet DEF EndPass, Now

LEMMA EndPassInv == ASSUME Inv, EndPass PROVE Inv'
<1>. DEFINE keys == KeysOf(signals)
<1>1. TypeOK /\ PhaseInv /\ SizedInv /\ TradableInv /\ GroupInv /\ WholeInv /\ MemoryInv
  BY DEF Inv
<1>2. /\ pc = "pass" /\ pc' = "idle" /\ todo = <<>>
      /\ UNCHANGED <<clock, market, todo, context, turns, units, sized, collected, signals,
                     cache, last, dropped>>
  BY DEF EndPass, passVars, genVars
<1>3. /\ delivered' = [k \in DOMAIN delivered \cup keys |->
                          IF k \in keys THEN clock ELSE delivered[k]]
      /\ orphaned' = orphaned \ keys /\ Now = keys
  BY EndPassKeys
<1>. HIDE DEF keys
<1>4. /\ clock \in Nat /\ delivered \in [DOMAIN delivered -> Nat]
      /\ last \in [DOMAIN last -> Nat]
  BY <1>1 DEF TypeOK
<1>5. TypeOK'
  <2>1. delivered' \in [DOMAIN delivered' -> Nat]
    BY <1>3, <1>4
  <2>. QED BY <1>1, <1>2, <2>1 DEF TypeOK
<1>6. PhaseInv'
  BY <1>1, <1>2 DEF PhaseInv
<1>7. SizedInv' /\ TradableInv' /\ WholeInv'
  BY <1>1, <1>2 DEF SizedInv, TradableInv, WholeInv, Tradable, Verdict, unit
<1>8. GroupInv'
  <2>1. GroupsOf(signals)' = GroupsOf(signals) /\ GroupsOf(collected)' = GroupsOf(collected)
    BY <1>2 DEF GroupsOf
  <2>2. Seen' = Seen
    BY <1>2, <2>1 DEF Seen
  <2>3. \A g \in Seen : Past(g)'
    BY <1>1, <1>2 DEF GroupInv, Past
  <2>4. GroupInv
    BY <1>1
  <2>. QED
    BY <1>2, <2>1, <2>2, <2>3, <2>4 DEF GroupInv
<1>9. MemoryInv'
  <2>1. /\ \A k \in DOMAIN delivered : k \in DOMAIN last /\ delivered[k] <= last[k]
        /\ \A k \in DOMAIN last : last[k] <= clock
        /\ \A k \in keys : k \in DOMAIN last /\ last[k] = clock
        /\ \A k \in (DOMAIN last \cup DOMAIN delivered) \ (keys \cup orphaned) :
              k \in DOMAIN last \cap DOMAIN delivered /\ last[k] = delivered[k]
    BY <1>1, <1>2, <1>3 DEF MemoryInv, Agree
  <2>2. \A k \in DOMAIN delivered' : k \in DOMAIN last /\ delivered'[k] <= last[k]
    BY <1>3, <1>4, <2>1
  <2>3. \A k \in (DOMAIN last \cup DOMAIN delivered') \ orphaned' :
           k \in DOMAIN last \cap DOMAIN delivered' /\ last[k] = delivered'[k]
    BY <1>3, <2>1
  <2>. QED BY <1>2, <2>1, <2>2, <2>3 DEF MemoryInv, Agree
<1>. QED
  BY <1>5, <1>6, <1>7, <1>8, <1>9 DEF Inv

LEMMA StepInv == Inv /\ [Next]_vars => Inv'
<1>. SUFFICES ASSUME Inv, [Next]_vars PROVE Inv'
  OBVIOUS
<1>0. cache \in [Options -> Copy]
  BY DEF Inv, TypeOK
<1>1. CASE BeginPass BY <1>1, BeginPassInv
<1>2. CASE BuildContext BY <1>2, BuildContextInv
<1>3. CASE RunStrategy BY <1>3, RunStrategyInv
<1>4. CASE StrategyRaises BY <1>4, StrategyRaisesInv
<1>5. CASE IncompleteGroup
  <2>1. /\ units # <<>> /\ GiveUpUnit /\ UNCHANGED <<quietVars, collected, last>>
        /\ cache' = cache /\ dropped' = dropped
    BY <1>5 DEF IncompleteGroup, genVars
  <2>. QED BY <1>0, <2>1, GivenUpInv
<1>6. CASE RejectLeg
  BY <1>0, <1>6, RejectedInv DEF RejectLeg
<1>7. CASE ScreenLeg BY <1>7, ScreenLegInv
<1>8. CASE ScreeningRaises
  BY <1>0, <1>8, RejectedInv DEF ScreeningRaises
<1>9. CASE FinishUnit BY <1>9, FinishUnitInv
<1>10. CASE SymbolFails BY <1>10, SymbolFailsInv
<1>11. CASE EndSymbol BY <1>11, EndSymbolInv
<1>12. CASE EndPass BY <1>12, EndPassInv
<1>13. CASE UNCHANGED vars
  <2>1. UNCHANGED <<clock, market, pc, todo, context, turns, units, sized, collected, signals,
                    cache, last, dropped, delivered, orphaned>>
    BY <1>13 DEF vars, passVars, genVars
  <2>2. TypeOK' /\ PhaseInv' /\ SizedInv'
    BY <2>1 DEF Inv, TypeOK, PhaseInv, SizedInv, Tradable, Verdict, unit
  <2>3. GroupInv'
    BY <2>1 DEF Inv, GroupInv, Seen, Past, GroupsOf
  <2>4. TradableInv' /\ WholeInv' /\ MemoryInv'
    BY <2>1, ResultsStay
  <2>. QED BY <2>2, <2>3, <2>4 DEF Inv
<1>. QED
  BY <1>1, <1>2, <1>3, <1>4, <1>5, <1>6, <1>7, <1>8, <1>9, <1>10, <1>11, <1>12, <1>13 DEF Next

\* Throughout every pass: units are single signals or the legs of one structure,
\* what passed is tradable at its size, no structure is met twice, results are
\* whole, and what is remembered of a key is its last return or one to come.
THEOREM GeneratorInvariant == Spec => []Inv
<1>. QED
  BY InitInv, StepInv, PTL DEF Spec

\* Every returned signal is tradable at the size it is returned with, although
\* _process_batch screens each leg at its own size and cuts it down afterwards.
THEOREM ReturnsTradable == Spec => []EmittedIsTradable
<1>1. Inv => EmittedIsTradable
  BY DEF Inv, TradableInv, Tradable, EmittedIsTradable
<1>. QED
  BY <1>1, GeneratorInvariant, PTL

\* A structure is returned with all the legs it announces, in the proportion of
\* their ratios, or not at all; none that was dropped is returned.
THEOREM ReturnsWhole == Spec => []StructuresWhole
<1>1. ASSUME Inv PROVE StructuresWhole
  <2>1. SUFFICES ASSUME NEW i \in DOMAIN signals, signals[i].sig.group # NoGroup
                 PROVE  /\ signals[i].sig.group \notin ToSet(dropped)
                        /\ Cardinality(Same(signals, i)) = signals[i].sig.leg_count
                        /\ \E b \in 1..Limits.max_contracts :
                              \A j \in Same(signals, i) : signals[j].qty = b * signals[j].sig.ratio
    BY DEF StructuresWhole, Same
  <2>2. signals[i].sig.group \in GroupsOf(signals)
    BY <2>1 DEF GroupsOf
  <2>3. signals[i].sig.group \notin ToSet(dropped)
    BY <1>1, <2>2 DEF Inv, GroupInv
  <2>. QED BY <1>1, <2>1, <2>3 DEF Inv, WholeInv, Whole
<1>. QED
  BY <1>1, GeneratorInvariant, PTL

\* Returns of one key are at least the window of _is_duplicate apart, and after
\* each pass _last_emitted holds exactly the returns, except for signals that an
\* exception of a later signal of the same symbol took with it.
THEOREM RepeatsAreSpaced == Spec => RepeatsSpaced
<1>. DEFINE A == /\ \A k \in DOMAIN delivered : delivered'[k] # delivered[k] =>
                       delivered'[k] - delivered[k] >= DedupeWindow
                 /\ pc' = "idle" => \A k \in (DOMAIN last' \cup DOMAIN delivered') \ orphaned' :
                       k \in DOMAIN last' \cap DOMAIN delivered' /\ last'[k] = delivered'[k]
<1>1. ASSUME Inv, Inv', [Next]_vars PROVE [A]_vars
  <2>1. CASE UNCHANGED vars
    BY <2>1
  <2>2. CASE Next
    <3>1. ASSUME NEW k \in DOMAIN delivered, delivered'[k] # delivered[k]
          PROVE  delivered'[k] - delivered[k] >= DedupeWindow
      <4>1. CASE ~EndPass
        <5>1. delivered' = delivered
          BY <2>2, <4>1 DEF Next, BeginPass, BuildContext, RunStrategy, StrategyRaises,
             IncompleteGroup, RejectLeg, ScreenLeg, ScreeningRaises, FinishUnit, SymbolFails,
             EndSymbol, quietVars
        <5>. QED BY <3>1, <5>1
      <4>2. CASE EndPass
        <5>1. /\ delivered' = [q \in DOMAIN delivered \cup KeysOf(signals) |->
                                  IF q \in KeysOf(signals) THEN clock ELSE delivered[q]]
              /\ Now = KeysOf(signals)
          BY <1>1, <4>2, EndPassKeys
        <5>2. k \in Now /\ delivered'[k] = clock
          BY <3>1, <5>1
        <5>3. pc = "pass"
          BY <4>2 DEF EndPass
        <5>. QED BY <1>1, <3>1, <5>2, <5>3 DEF Inv, MemoryInv
      <4>. QED BY <4>1, <4>2
    <3>2. ASSUME pc' = "idle"
          PROVE  \A k \in (DOMAIN last' \cup DOMAIN delivered') \ orphaned' :
                    k \in DOMAIN last' \cap DOMAIN delivered' /\ last'[k] = delivered'[k]
      BY <1>1, <3>2 DEF Inv, MemoryInv, Agree
    <3>. QED BY <3>1, <3>2
  <2>. QED BY <1>1, <2>1, <2>2
<1>2. Spec => [][A]_vars
  <2>. HIDE DEF A
  <2>. QED BY <1>1, GeneratorInvariant, PTL DEF Spec
<1>. QED
  BY <1>2 DEF RepeatsSpaced
============================================================================
