------------------------- MODULE PaperBrokerProofs -------------------------
(***************************************************************************)
(* Proofs about PaperBroker for every set of symbols, prices, quantities,  *)
(* fee schedules, contract sizes and expiries.                             *)
(***************************************************************************)
EXTENDS PaperProperties, FiniteSetTheorems, WellFoundedInduction, TLAPS

----------------------------------------------------------------------------
(* Sums over finite sets: what SumFunction of the community modules        *)
(* computes, for every finite domain.  The library's induction theorems    *)
(* take the property as a parameter; here a claim about all finite sets is *)
(* proved on a minimal counterexample, which the well-foundedness of the   *)
(* strict subset ordering provides.                                        *)

\* One unfolding of the sum of f over the set s, where g has the smaller sums.
Pick(s) == CHOOSE x \in s : TRUE
Unfold(f, g, s) == IF s = {} THEN 0 ELSE f[Pick(s)] + g[s \ {Pick(s)}]
IsSums(f, T, g) == g = [s \in SUBSET T |-> Unfold(f, g, s)]
Sums(f, T) == CHOOSE g : IsSums(f, T, g)

\* Every nonempty set of subsets of a finite set has a minimal member, which
\* is how the lemmas below argue by induction.
LEMMA MinimalSubset ==
    ASSUME NEW S, IsFiniteSet(S), NEW X \in SUBSET (SUBSET S), X # {}
    PROVE  \E T \in X : \A U \in SUBSET T : U # T => U \notin X
<1>1. IsWellFoundedOn(StrictSubsetOrdering(S), SUBSET S)
  BY FS_StrictSubsetOrderingWellFounded, FS_FiniteSubsetsOfFinite
<1>2. PICK T \in X : \A U \in X : <<U, T>> \notin StrictSubsetOrdering(S)
  BY <1>1, WFMin
<1>. QED
  BY <1>2 DEF StrictSubsetOrdering

LEMMA PickIn == ASSUME NEW s, s # {} PROVE Pick(s) \in s
BY DEF Pick

\* Two unfoldings agree where both are defined.
LEMMA SumsAgree ==
    ASSUME NEW f, NEW U, IsFiniteSet(U), NEW V, U \subseteq V, NEW g, NEW h,
           IsSums(f, U, g), IsSums(f, V, h)
    PROVE  \A W \in SUBSET U : g[W] = h[W]
<1>. DEFINE Bad == {W \in SUBSET U : g[W] # h[W]}
<1>1. SUFFICES ASSUME Bad # {} PROVE FALSE
  OBVIOUS
<1>0. Bad \in SUBSET (SUBSET U)
  OBVIOUS
<1>2. PICK W \in Bad : \A X \in SUBSET W : X # W => X \notin Bad
  <2>. HIDE DEF Bad
  <2>. QED BY <1>0, <1>1, MinimalSubset
<1>3. W \in SUBSET U /\ W \in SUBSET V
  OBVIOUS
<1>4. g[W] = Unfold(f, g, W) /\ h[W] = Unfold(f, h, W)
  BY <1>3 DEF IsSums
<1>5. CASE W = {}
  BY <1>4, <1>5 DEF Unfold
<1>6. CASE W # {}
  <2>1. W \ {Pick(W)} \in SUBSET W /\ W \ {Pick(W)} # W
    BY <1>6, PickIn
  <2>2. g[W \ {Pick(W)}] = h[W \ {Pick(W)}]
    BY <2>1, <1>2
  <2>. QED
    BY <2>2, <1>4 DEF Unfold
<1>. QED
  BY <1>5, <1>6

LEMMA SumsExist ==
    ASSUME NEW f, NEW S, IsFiniteSet(S)
    PROVE  \E g : IsSums(f, S, g)
<1>. DEFINE Has(T) == \E g : IsSums(f, T, g)
            Bad == {T \in SUBSET S : ~Has(T)}
<1>1. SUFFICES ASSUME Bad # {} PROVE FALSE
  OBVIOUS
<1>0. Bad \in SUBSET (SUBSET S)
  OBVIOUS
<1>2. PICK T \in Bad : \A U \in SUBSET T : U # T => U \notin Bad
  <2>. HIDE DEF Bad
  <2>. QED BY <1>0, <1>1, MinimalSubset
<1>3. IsFiniteSet(T)
  BY FS_Subset
<1>. DEFINE G(U) == Sums(f, U)
            h == [s \in SUBSET T |-> IF s = T THEN Unfold(f, G(T \ {Pick(T)}), T) ELSE G(s)[s]]
<1>4. ASSUME NEW U \in SUBSET T, U # T
      PROVE  IsSums(f, U, G(U))
  <2>1. Has(U)
    BY <1>2, <1>4
  <2>. QED
    BY <2>1 DEF Sums
<1>5. ASSUME NEW V \in SUBSET T, V # T, NEW U \in SUBSET V
      PROVE  G(V)[U] = G(U)[U]
  <2>1. U # T /\ U \in SUBSET T /\ IsFiniteSet(U)
    BY <1>5, <1>3, FS_Subset
  <2>2. IsSums(f, U, G(U)) /\ IsSums(f, V, G(V))
    BY <2>1, <1>4, <1>5
  <2>4. U \in SUBSET U /\ U \subseteq V
    OBVIOUS
  <2>. HIDE DEF G
  <2>5. \A W \in SUBSET U : G(U)[W] = G(V)[W]
    BY <2>1, <2>2, <2>4, SumsAgree
  <2>. QED
    BY <2>4, <2>5
<1>. HIDE DEF G
<1>6. ASSUME NEW s \in SUBSET T
      PROVE  h[s] = Unfold(f, h, s)
  <2>1. CASE s = {}
    <3>1. CASE s = T
      BY <2>1, <3>1 DEF Unfold
    <3>2. CASE s # T
      <4>1. G(s)[s] = Unfold(f, G(s), s)
        BY <1>4, <3>2 DEF IsSums
      <4>. QED
        BY <4>1, <3>2, <2>1 DEF Unfold
    <3>. QED BY <3>1, <3>2
  <2>2. CASE s # {}
    <3>. DEFINE W == s \ {Pick(s)}
    <3>1. W \in SUBSET T /\ W # T /\ W \in SUBSET s
      BY <2>2, PickIn
    <3>2. h[W] = G(W)[W]
      BY <3>1
    <3>3. CASE s = T
      <4>1. h[s] = f[Pick(s)] + G(W)[W]
        BY <3>3, <2>2 DEF Unfold
      <4>. QED
        BY <4>1, <3>2, <2>2 DEF Unfold
    <3>4. CASE s # T
      <4>1. h[s] = G(s)[s]
        BY <3>4
      <4>2. G(s)[s] = Unfold(f, G(s), s)
        BY <3>4, <1>4 DEF IsSums
      <4>3. G(s)[W] = G(W)[W]
        BY <3>1, <3>4, <1>5
      <4>. QED
        BY <4>1, <4>2, <4>3, <3>2, <2>2 DEF Unfold
    <3>. QED BY <3>3, <3>4
  <2>. QED BY <2>1, <2>2
<1>7. h = [s \in SUBSET T |-> Unfold(f, h, s)]
  <2>. DEFINE k == [s \in SUBSET T |-> Unfold(f, h, s)]
  <2>1. \A s \in SUBSET T : h[s] = k[s]
    BY <1>6
  <2>. QED BY <2>1
<1>. QED
  BY <1>7 DEF IsSums

LEMMA SumsUnfold ==
    ASSUME NEW f, NEW S, IsFiniteSet(S), NEW s \in SUBSET S
    PROVE  Sums(f, S)[s] = Unfold(f, Sums(f, S), s)
<1>1. IsSums(f, S, Sums(f, S))
  BY SumsExist DEF Sums
<1>. QED
  BY <1>1 DEF IsSums

LEMMA SumIs == ASSUME NEW f PROVE SumFunction(f) = Sums(f, DOMAIN f)[DOMAIN f]
BY DEF SumFunction, SumFunctionOnSet, FoldFunctionOnSet, MapThenFoldSet, Sums, IsSums, Unfold, Pick

LEMMA SumsInt ==
    ASSUME NEW S, IsFiniteSet(S), NEW f \in [S -> Int], NEW T \in SUBSET S
    PROVE  Sums(f, S)[T] \in Int
<1>. DEFINE F == Sums(f, S)
            Bad == {W \in SUBSET S : F[W] \notin Int}
<1>1. SUFFICES ASSUME Bad # {} PROVE FALSE
  OBVIOUS
<1>0. Bad \in SUBSET (SUBSET S)
  OBVIOUS
<1>2. PICK W \in Bad : \A X \in SUBSET W : X # W => X \notin Bad
  <2>. HIDE DEF Bad
  <2>. QED BY <1>0, <1>1, MinimalSubset
<1>3. F[W] = Unfold(f, F, W)
  BY SumsUnfold
<1>4. CASE W = {}
  BY <1>3, <1>4 DEF Unfold
<1>5. CASE W # {}
  <2>1. Pick(W) \in W
    BY <1>5, PickIn
  <2>2. F[W \ {Pick(W)}] \in Int
    BY <2>1, <1>2
  <2>3. f[Pick(W)] \in Int
    BY <2>1
  <2>. QED
    BY <2>2, <2>3, <1>3, <1>5 DEF Unfold
<1>. QED
  BY <1>4, <1>5

\* A total moves by as much as the only entry that changed.
LEMMA SumMoves ==
    ASSUME NEW S, IsFiniteSet(S), NEW f \in [S -> Int], NEW h \in [S -> Int], NEW x \in S,
           \A y \in S \ {x} : h[y] = f[y]
    PROVE  SumFunction(h) = SumFunction(f) + (h[x] - f[x])
<1>. DEFINE F == Sums(f, S)
            H == Sums(h, S)
            Moved(W) == IF x \in W THEN h[x] - f[x] ELSE 0
            Bad == {W \in SUBSET S : H[W] # F[W] + Moved(W)}
<1>1. ASSUME Bad # {} PROVE FALSE
  <2>0. Bad \in SUBSET (SUBSET S)
    OBVIOUS
  <2>1. PICK W \in Bad : \A X \in SUBSET W : X # W => X \notin Bad
    <3>. HIDE DEF Bad
    <3>. QED BY <1>1, <2>0, MinimalSubset
  <2>2. F[W] = Unfold(f, F, W) /\ H[W] = Unfold(h, H, W)
    BY SumsUnfold
  <2>3. CASE W = {}
    BY <2>2, <2>3 DEF Unfold
  <2>4. CASE W # {}
    <3>. DEFINE p == Pick(W)
                R == W \ {p}
    <3>1. p \in W /\ p \in S
      BY <2>4, PickIn
    <3>2. H[R] = F[R] + Moved(R)
      BY <3>1, <2>1
    <3>3. F[W] = f[p] + F[R] /\ H[W] = h[p] + H[R]
      BY <2>2, <2>4 DEF Unfold
    <3>4. F[R] \in Int /\ H[R] \in Int
      BY SumsInt
    <3>5. f[p] \in Int /\ h[p] \in Int /\ f[x] \in Int /\ h[x] \in Int
      BY <3>1
    <3>6. CASE p = x
      <4>1. Moved(R) = 0 /\ Moved(W) = h[x] - f[x]
        BY <3>6, <3>1
      <4>. HIDE DEF F, H, Moved, p, R
      <4>. QED
        BY <4>1, <3>2, <3>3, <3>4, <3>5, <3>6
    <3>7. CASE p # x
      <4>1. Moved(R) = Moved(W) /\ h[p] = f[p] /\ Moved(W) \in Int
        BY <3>7, <3>1
      <4>. HIDE DEF F, H, Moved, p, R
      <4>. QED
        BY <4>1, <3>2, <3>3, <3>4, <3>5
    <3>. QED
      BY <3>6, <3>7
  <2>. QED
    BY <2>3, <2>4
<1>2. H[S] = F[S] + Moved(S)
  BY <1>1
<1>. QED
  BY <1>2, SumIs

LEMMA SumInt ==
    ASSUME NEW S, IsFiniteSet(S), NEW f \in [S -> Int]
    PROVE  SumFunction(f) \in Int
BY SumIs, SumsInt

\* A sum of naturals is at least each of its terms.
LEMMA SumsBound ==
    ASSUME NEW S, IsFiniteSet(S), NEW f \in [S -> Nat], NEW T \in SUBSET S
    PROVE  Sums(f, S)[T] \in Nat /\ \A x \in T : f[x] <= Sums(f, S)[T]
<1>. DEFINE F == Sums(f, S)
            Good(W) == F[W] \in Nat /\ \A x \in W : f[x] <= F[W]
            Bad == {W \in SUBSET S : ~Good(W)}
<1>1. SUFFICES ASSUME Bad # {} PROVE FALSE
  OBVIOUS
<1>0. Bad \in SUBSET (SUBSET S)
  OBVIOUS
<1>2. PICK W \in Bad : \A X \in SUBSET W : X # W => X \notin Bad
  <2>. HIDE DEF Bad
  <2>. QED BY <1>0, <1>1, MinimalSubset
<1>3. F[W] = Unfold(f, F, W)
  BY SumsUnfold
<1>4. CASE W = {}
  BY <1>3, <1>4 DEF Unfold
<1>5. CASE W # {}
  <2>. DEFINE p == Pick(W)
              R == W \ {p}
  <2>1. p \in W /\ p \in S
    BY <1>5, PickIn
  <2>2. Good(R)
    BY <2>1, <1>2
  <2>3. F[W] = f[p] + F[R] /\ f[p] \in Nat
    BY <2>1, <1>3, <1>5 DEF Unfold
  <2>4. F[W] \in Nat /\ f[p] <= F[W]
    <3>. HIDE DEF F, p, R
    <3>. QED BY <2>2, <2>3
  <2>5. ASSUME NEW x \in R PROVE f[x] <= F[W]
    <3>1. f[x] \in Nat /\ f[x] <= F[R] /\ F[R] \in Nat
      BY <2>2
    <3>. HIDE DEF F, p, R
    <3>. QED BY <2>3, <3>1
  <2>6. Good(W)
    BY <2>4, <2>5
  <2>. QED
    BY <2>6
<1>. QED
  BY <1>4, <1>5

LEMMA SumsVanish ==
    ASSUME NEW S, IsFiniteSet(S), NEW f \in [S -> Nat], \A x \in S : f[x] = 0,
           NEW T \in SUBSET S
    PROVE  Sums(f, S)[T] = 0
<1>. DEFINE F == Sums(f, S)
            Bad == {W \in SUBSET S : F[W] # 0}
<1>1. SUFFICES ASSUME Bad # {} PROVE FALSE
  OBVIOUS
<1>0. Bad \in SUBSET (SUBSET S)
  OBVIOUS
<1>2. PICK W \in Bad : \A X \in SUBSET W : X # W => X \notin Bad
  <2>. HIDE DEF Bad
  <2>. QED BY <1>0, <1>1, MinimalSubset
<1>3. F[W] = Unfold(f, F, W)
  BY SumsUnfold
<1>4. CASE W = {}
  BY <1>3, <1>4 DEF Unfold
<1>5. CASE W # {}
  <2>1. Pick(W) \in W
    BY <1>5, PickIn
  <2>2. F[W \ {Pick(W)}] = 0 /\ f[Pick(W)] = 0
    BY <2>1, <1>2
  <2>. QED
    BY <2>2, <1>3, <1>5 DEF Unfold
<1>. QED
  BY <1>4, <1>5

\* A sum of naturals vanishes exactly when all its terms do.
LEMMA SumZero ==
    ASSUME NEW S, IsFiniteSet(S), NEW f \in [S -> Nat]
    PROVE  /\ SumFunction(f) \in Nat
           /\ SumFunction(f) = 0 <=> \A x \in S : f[x] = 0
<1>1. SumFunction(f) = Sums(f, S)[S]
  BY SumIs
<1>2. Sums(f, S)[S] \in Nat /\ \A x \in S : f[x] <= Sums(f, S)[S]
  BY SumsBound
<1>3. (\A x \in S : f[x] = 0) => Sums(f, S)[S] = 0
  BY SumsVanish
<1>4. ASSUME Sums(f, S)[S] = 0, NEW x \in S PROVE f[x] = 0
  <2>1. f[x] \in Nat
    OBVIOUS
  <2>. QED BY <2>1, <1>2, <1>4
<1>. QED
  BY <1>1, <1>2, <1>3, <1>4

----------------------------------------------------------------------------
(* The account *)

USE RateBaseAssumption, ToleranceAssumption

\* What the assumptions on the constants say of single inputs.
LEMMA Inputs ==
    /\ \A quantity \in Quantities : quantity \in Nat
    /\ \A price \in Prices : price \in Nat
    /\ \A price \in SettlePrices : price \in Int
    /\ \A f \in FeeSchedules : f \in FeeSchedule
BY BrokerAssumption

----------------------------------------------------------------------------
(* Arithmetic *)

\* A proportional share of a total is never negative and never exceeds it.
LEMMA ShareBounds ==
    ASSUME NEW total \in Nat, NEW closing \in Nat, NEW held \in Nat
    PROVE  allocate_entry_fee(total, closing, held) \in 0 .. total
<1>1. CASE held = 0
  BY <1>1 DEF allocate_entry_fee
<1>2. CASE held > 0 /\ closing >= held
  BY <1>2 DEF allocate_entry_fee
<1>3. CASE held > 0 /\ closing < held
  <2>1. total * closing \in Nat /\ total * closing <= total * held
    BY <1>3
  <2>2. (total * closing) \div held \in Nat /\ (total * closing) \div held <= total
    BY <1>3, <2>1
  <2>. QED
    BY <1>3, <2>2 DEF allocate_entry_fee
<1>. QED
  BY <1>1, <1>2, <1>3

\* A rate applied to an amount, plus a fixed fee, is a natural number.
LEMMA RateCostNat ==
    ASSUME NEW notional \in Nat, NEW rate \in Nat, NEW per_order \in Nat
    PROVE  RateCost(notional, rate, per_order) \in Nat
<1>1. notional * rate \in Nat
  OBVIOUS
<1>2. (notional * rate) \div RateBase \in Nat
  BY <1>1
<1>. QED
  BY <1>2 DEF RateCost

\* Under rates that are not known, every cost is zero: an unknown cost is
\* always booked as the zero that was charged.
LEMMA UnknownCostIsZero ==
    ASSUME NEW f \in FeeSchedule, NEW notional \in Nat, ~ rates_known(f)
    PROVE  entry_cost(f, notional) = 0 /\ exit_cost(f, notional) = 0
<1>1. /\ f.buy_rate = 0 /\ f.sell_rate = 0
      /\ f.sell_tax_rate = 0 /\ f.per_order = 0
  BY DEF rates_known, is_zero
<1>2. RateCost(notional, 0, 0) = 0
  BY DEF RateCost
<1>. QED
  BY <1>1, <1>2 DEF entry_cost, exit_cost, SellSideRate

\* Fees of any schedule on any amount are natural numbers.
LEMMA FeesNat ==
    ASSUME NEW f \in FeeSchedule, NEW notional \in Nat
    PROVE  entry_cost(f, notional) \in Nat /\ exit_cost(f, notional) \in Nat
<1>1. /\ f.buy_rate \in Nat /\ f.per_order \in Nat
      /\ SellSideRate(f) \in Nat
  BY DEF FeeSchedule, SellSideRate
<1>. QED
  BY <1>1, RateCostNat DEF entry_cost, exit_cost

----------------------------------------------------------------------------
(* Rows and statements keep their types *)

LEMMA BoughtPositionType ==
    ASSUME NEW row \in Position, NEW filled \in Nat, NEW price \in Nat,
           NEW fee \in Nat, NEW known \in BOOLEAN
    PROVE  BoughtPosition(row, filled, price, fee, known) \in Position
<1>1. filled * price \in Nat
  OBVIOUS
<1>. QED
  BY <1>1 DEF BoughtPosition, Position

LEMMA RemainingPositionType ==
    ASSUME NEW row \in Position, NEW filled \in Nat, filled <= row.quantity
    PROVE  RemainingPosition(row, filled) \in Position
<1>1. /\ row.quantity \in Nat /\ row.cost \in Nat /\ row.entry_fees \in Nat
      /\ row.entry_fees_known \in BOOLEAN
  BY DEF Position
<1>2. allocate_entry_fee(row.cost, filled, row.quantity) \in 0 .. row.cost
  BY <1>1, ShareBounds
<1>3. allocate_entry_fee(row.entry_fees, filled, row.quantity) \in 0 .. row.entry_fees
  BY <1>1, ShareBounds
<1>. QED
  BY <1>1, <1>2, <1>3 DEF RemainingPosition, Position

Close == [quantity : Nat, gross : Int, entry_fee : Nat, entry_known : BOOLEAN,
          exit_fee : Nat, exit_known : BOOLEAN,
          reason : {"manual", "expiry_settlement"}]

LEMMA CloseType ==
    ASSUME NEW row \in Position, NEW quantity \in Nat, NEW price \in Nat,
           NEW n \in Nat, NEW fee \in Nat, NEW known \in BOOLEAN,
           NEW reason \in {"manual", "expiry_settlement"}
    PROVE  CloseOf(row, quantity, price, n, fee, known, reason) \in Close
<1>1. /\ row.quantity \in Nat /\ row.cost \in Nat /\ row.entry_fees \in Nat
      /\ row.entry_fees_known \in BOOLEAN
  BY DEF Position
<1>2. /\ allocate_entry_fee(row.cost, quantity, row.quantity) \in 0 .. row.cost
      /\ allocate_entry_fee(row.entry_fees, quantity, row.quantity) \in 0 .. row.entry_fees
  BY <1>1, ShareBounds
<1>3. \A p, q, a, m \in Int : (p * q - a) * m \in Int
  OBVIOUS
<1>. DEFINE g == (price * quantity
                     - allocate_entry_fee(row.cost, quantity, row.quantity)) * n
             e == allocate_entry_fee(row.entry_fees, quantity, row.quantity)
<1>4. CloseOf(row, quantity, price, n, fee, known, reason)
        = [quantity |-> quantity, gross |-> g, entry_fee |-> e,
           entry_known |-> row.entry_fees_known, exit_fee |-> fee,
           exit_known |-> known, reason |-> reason]
  BY DEF CloseOf
<1>5. g \in Int /\ e \in Nat
  BY <1>1, <1>2, <1>3
<1>. HIDE DEF g, e
<1>. QED
  BY <1>1, <1>4, <1>5 DEF Close

LEMMA NoPositionType == NoPosition \in Position
BY DEF NoPosition, Position

\* d is a well-formed account file with these contents.
Holds(d, cash, initial_balance, positions, trades, orders) ==
    /\ d \in Database
    /\ d.cash = cash
    /\ d.initial_balance = initial_balance
    /\ d.positions = positions
    /\ d.trades = trades
    /\ d.orders = orders

\* update_cash writes only the balance.
LEMMA UpdateCashFields ==
    ASSUME NEW d \in Database, NEW c \in Int
    PROVE  Holds(update_cash(d, c), c, d.initial_balance, d.positions, d.trades, d.orders)
BY DEF update_cash, Database, Holds

\* What upsert_position stores: a row without contracts is deleted.
Kept(row) == IF row.quantity <= 0 THEN NoPosition ELSE row

\* upsert_position and delete_position write only one row.
LEMMA UpsertFields ==
    ASSUME NEW d \in Database, NEW s \in Symbols, NEW row \in Position
    PROVE  Holds(upsert_position(d, s, row), d.cash, d.initial_balance,
                 [d.positions EXCEPT ![s] = Kept(row)], d.trades, d.orders)
<1>1. Kept(row) \in Position
  BY NoPositionType DEF Kept
<1>2. upsert_position(d, s, row) = [d EXCEPT !.positions[s] = Kept(row)]
  BY DEF upsert_position, Kept
<1>3. upsert_position(d, s, row).positions = [d.positions EXCEPT ![s] = Kept(row)]
  BY <1>2 DEF Database
<1>4. LET e == upsert_position(d, s, row)
      IN  /\ e \in Database
          /\ e.cash = d.cash
          /\ e.initial_balance = d.initial_balance
          /\ e.trades = d.trades
          /\ e.orders = d.orders
  BY <1>1, <1>2 DEF Database
<1>. QED
  BY <1>3, <1>4 DEF Holds

LEMMA DeleteFields ==
    ASSUME NEW d \in Database, NEW s \in Symbols
    PROVE  Holds(delete_position(d, s), d.cash, d.initial_balance,
                 [d.positions EXCEPT ![s] = NoPosition], d.trades, d.orders)
BY NoPositionType DEF delete_position, Database, Holds

LEMMA WithCloseType ==
    ASSUME NEW totals \in TradeTotals, NEW close \in Close
    PROVE  WithClose(totals, close) \in TradeTotals
BY DEF WithClose, TradeTotals, Close

\* record_trade writes only the trades of one symbol.
LEMMA RecordTradeFields ==
    ASSUME NEW d \in Database, NEW s \in Symbols, NEW close \in Close
    PROVE  Holds(record_trade(d, s, close), d.cash, d.initial_balance, d.positions,
                 [d.trades EXCEPT ![s] = WithClose(d.trades[s], close)], d.orders)
<1>1. d.trades[s] \in TradeTotals
  BY DEF Database
<1>2. WithClose(d.trades[s], close) \in TradeTotals
  BY <1>1, WithCloseType
<1>. QED
  BY <1>2 DEF record_trade, Database, Holds

\* save_order appends a row and adds a filled order to its symbol's totals.
LEMMA SaveOrderFields ==
    ASSUME NEW d \in Database, NEW s \in Symbols,
           NEW bought \in Nat, NEW sold \in Nat, NEW fee \in Nat
    PROVE  Holds(save_order(d, s, bought, sold, fee), d.cash, d.initial_balance,
                 d.positions, d.trades,
                 [d.orders EXCEPT ![s] = WithOrder(d.orders[s], bought, sold, fee)])
<1>. DEFINE logged == [d EXCEPT !.order_rows = @ + 1]
            o == WithOrder(d.orders[s], bought, sold, fee)
<1>1. /\ logged \in Database
      /\ logged.cash = d.cash
      /\ logged.initial_balance = d.initial_balance
      /\ logged.positions = d.positions
      /\ logged.trades = d.trades
      /\ logged.orders = d.orders
  BY DEF Database
<1>2. o \in OrderTotals
  <2>1. d.orders[s] \in OrderTotals
    BY DEF Database
  <2>. QED
    BY <2>1 DEF WithOrder, OrderTotals
<1>3. save_order(d, s, bought, sold, fee) = [logged EXCEPT !.orders[s] = o]
  BY <1>1 DEF save_order
<1>. HIDE DEF logged, o
<1>4. Holds(save_order(d, s, bought, sold, fee), logged.cash, logged.initial_balance,
            logged.positions, logged.trades, [logged.orders EXCEPT ![s] = o])
  BY <1>1, <1>2, <1>3 DEF Database, Holds
<1>. QED
  BY <1>1, <1>4 DEF o

LEMMA FreshType ==
    ASSUME NEW n \in Nat
    PROVE  FreshDatabase(n) \in Database
<1>1. NoTrades \in TradeTotals /\ NoOrders \in OrderTotals
  BY DEF NoTrades, TradeTotals, NoOrders, OrderTotals
<1>. QED
  BY <1>1, NoPositionType DEF FreshDatabase, Database

----------------------------------------------------------------------------
(* What each call leaves in the account file *)

\* The money of a fill and the fees on it are natural numbers.
LEMMA FillNat ==
    ASSUME TypeOK, NEW s \in Symbols, NEW quantity \in Quantities,
           NEW fill \in Fills(quantity)
    PROVE  /\ fill.filled \in Nat /\ fill.filled <= quantity /\ quantity \in Nat
           /\ fill.price \in Nat
           /\ Notional(s, fill) \in Nat
           /\ OrderFee("buy", s, fill) \in Nat
           /\ OrderFee("sell", s, fill) \in Nat
           /\ ~ rates_known(fees) => OrderFee("sell", s, fill) = 0
           /\ rates_known(fees) \in BOOLEAN
           /\ size[s] \in Nat
           /\ Notional(s, fill) = fill.filled * fill.price * size[s]
<1>1. /\ fill.filled \in Nat /\ fill.filled <= quantity /\ quantity \in Nat
      /\ fill.price \in Nat
  BY Inputs DEF Fills
<1>2. size[s] \in Nat /\ fees \in FeeSchedule
  BY Inputs DEF TypeOK
<1>3. Notional(s, fill) \in Nat
  <2>1. \A a, b, c \in Nat : a * b * c \in Nat
    OBVIOUS
  <2>. QED
    BY <1>1, <1>2, <2>1 DEF Notional
<1>4. /\ OrderFee("buy", s, fill) \in Nat
      /\ OrderFee("sell", s, fill) \in Nat
      /\ ~ rates_known(fees) => OrderFee("sell", s, fill) = 0
  BY <1>2, <1>3, FeesNat, UnknownCostIsZero DEF OrderFee
<1>5. rates_known(fees) \in BOOLEAN
  BY <1>2 DEF rates_known, is_zero, FeeSchedule
<1>. QED
  BY <1>1, <1>2, <1>3, <1>4, <1>5 DEF Notional

LEMMA BuyEffect ==
    ASSUME TypeOK, NEW s \in Symbols, NEW quantity \in Quantities,
           NEW contract \in ContractReplies, NEW fill \in Fills(quantity),
           Buy(s, quantity, contract, fill)
    PROVE  LET fee == OrderFee("buy", s, fill)
               row == BoughtPosition(db.positions[s], fill.filled, fill.price, fee,
                                     rates_known(fees))
           IN  /\ row \in Position /\ row.quantity > 0
               /\ Holds(db', db.cash - Notional(s, fill) - fee, db.initial_balance,
                        [db.positions EXCEPT ![s] = row], db.trades,
                        [db.orders EXCEPT ![s] =
                            WithOrder(db.orders[s], fill.filled, 0, fee)])
<1>. DEFINE n == fill.filled
            fee == OrderFee("buy", s, fill)
            row == BoughtPosition(db.positions[s], n, fill.price, fee, rates_known(fees))
            c == db.cash - Notional(s, fill) - fee
            d1 == update_cash(db, c)
            d2 == upsert_position(d1, s, row)
<1>1. /\ n \in Nat /\ n > 0 /\ fill.price \in Nat
      /\ Notional(s, fill) \in Nat /\ fee \in Nat /\ rates_known(fees) \in BOOLEAN
  BY FillNat DEF Buy, Accepted
<1>2. db \in Database /\ db.positions[s] \in Position /\ db.cash \in Int
  BY DEF TypeOK, Database
<1>3. row \in Position
  BY <1>1, <1>2, BoughtPositionType
<1>4. row.quantity > 0
  BY <1>1, <1>2 DEF BoughtPosition, Position
<1>5. c \in Int
  BY <1>1, <1>2
<1>6. db' = save_order(d2, s, n, 0, fee)
  BY DEF Buy
<1>. HIDE DEF n, fee, row, c
<1>7. Holds(d1, c, db.initial_balance, db.positions, db.trades, db.orders)
  BY <1>2, <1>5, UpdateCashFields
<1>. HIDE DEF d1
<1>8. Kept(row) = row
  BY <1>3, <1>4 DEF Kept, Position
<1>9. Holds(d2, d1.cash, d1.initial_balance, [d1.positions EXCEPT ![s] = row],
            d1.trades, d1.orders)
  BY <1>3, <1>7, <1>8, UpsertFields DEF Holds
<1>. HIDE DEF d2
<1>10. Holds(db', d2.cash, d2.initial_balance, d2.positions, d2.trades,
             [d2.orders EXCEPT ![s] = WithOrder(d2.orders[s], n, 0, fee)])
  <2>1. d2 \in Database /\ 0 \in Nat /\ n \in Nat /\ fee \in Nat
    BY <1>1, <1>9 DEF Holds
  <2>. QED
    BY <1>6, <2>1, SaveOrderFields
<1>11. Holds(db', c, db.initial_balance, [db.positions EXCEPT ![s] = row], db.trades,
             [db.orders EXCEPT ![s] = WithOrder(db.orders[s], n, 0, fee)])
  BY <1>7, <1>9, <1>10 DEF Holds
<1>. QED
  BY <1>3, <1>4, <1>11 DEF row, fee, c, n

LEMMA SellEffect ==
    ASSUME TypeOK, NEW s \in Symbols, NEW quantity \in Quantities,
           NEW contract \in ContractReplies, NEW fill \in Fills(quantity),
           Sell(s, quantity, contract, fill)
    PROVE  LET fee   == OrderFee("sell", s, fill)
               row   == RemainingPosition(db.positions[s], fill.filled)
               close == CloseOf(db.positions[s], fill.filled, fill.price, size[s], fee,
                                rates_known(fees), "manual")
           IN  /\ row \in Position /\ close \in Close
               /\ fill.filled > 0 /\ fill.filled <= db.positions[s].quantity
               /\ Holds(db', db.cash + Notional(s, fill) - fee, db.initial_balance,
                        [db.positions EXCEPT ![s] = Kept(row)],
                        [db.trades EXCEPT ![s] = WithClose(db.trades[s], close)],
                        [db.orders EXCEPT ![s] =
                            WithOrder(db.orders[s], 0, fill.filled, fee)])
<1>. DEFINE n == fill.filled
            fee == OrderFee("sell", s, fill)
            row == RemainingPosition(db.positions[s], n)
            close == CloseOf(db.positions[s], n, fill.price, size[s], fee,
                             rates_known(fees), "manual")
            c == db.cash + Notional(s, fill) - fee
            d1 == update_cash(db, c)
            d2 == upsert_position(d1, s, row)
            d3 == record_trade(d2, s, close)
<1>1. db \in Database /\ db.positions[s] \in Position /\ db.cash \in Int
      /\ db.positions[s].quantity \in Nat
  BY DEF TypeOK, Database, Position
<1>2. /\ n \in Nat /\ n > 0 /\ fill.price \in Nat
      /\ n <= db.positions[s].quantity
      /\ Notional(s, fill) \in Nat /\ fee \in Nat /\ rates_known(fees) \in BOOLEAN
      /\ size[s] \in Nat
  <2>1. /\ n \in Nat /\ n <= quantity /\ quantity \in Nat
        /\ fill.price \in Nat /\ Notional(s, fill) \in Nat /\ fee \in Nat
        /\ rates_known(fees) \in BOOLEAN /\ size[s] \in Nat
    BY FillNat
  <2>2. n > 0 /\ db.positions[s].quantity >= quantity
    BY DEF Sell, Accepted
  <2>. QED
    BY <1>1, <2>1, <2>2
<1>3. row \in Position
  BY <1>1, <1>2, RemainingPositionType
<1>4. close \in Close
  BY <1>1, <1>2, CloseType
<1>5. c \in Int
  BY <1>1, <1>2
<1>6. db' = save_order(d3, s, 0, n, fee)
  BY DEF Sell
<1>. HIDE DEF n, fee, row, close, c
<1>7. Holds(d1, c, db.initial_balance, db.positions, db.trades, db.orders)
  BY <1>1, <1>5, UpdateCashFields
<1>. HIDE DEF d1
<1>8. Holds(d2, d1.cash, d1.initial_balance, [d1.positions EXCEPT ![s] = Kept(row)],
            d1.trades, d1.orders)
  BY <1>3, <1>7, UpsertFields DEF Holds
<1>. HIDE DEF d2
<1>9. Holds(d3, d2.cash, d2.initial_balance, d2.positions,
            [d2.trades EXCEPT ![s] = WithClose(d2.trades[s], close)], d2.orders)
  BY <1>4, <1>8, RecordTradeFields DEF Holds
<1>. HIDE DEF d3
<1>10. Holds(db', d3.cash, d3.initial_balance, d3.positions, d3.trades,
             [d3.orders EXCEPT ![s] = WithOrder(d3.orders[s], 0, n, fee)])
  <2>1. d3 \in Database /\ 0 \in Nat /\ n \in Nat /\ fee \in Nat
    BY <1>2, <1>9 DEF Holds
  <2>. QED
    BY <1>6, <2>1, SaveOrderFields
<1>11. Holds(db', c, db.initial_balance, [db.positions EXCEPT ![s] = Kept(row)],
             [db.trades EXCEPT ![s] = WithClose(db.trades[s], close)],
             [db.orders EXCEPT ![s] = WithOrder(db.orders[s], 0, n, fee)])
  BY <1>7, <1>8, <1>9, <1>10 DEF Holds
<1>. QED
  BY <1>2, <1>3, <1>4, <1>11 DEF row, fee, close, c, n

LEMMA SettleEffect ==
    ASSUME TypeOK, NEW s \in Symbols, NEW price \in SettlePrices, Settle(s, price)
    PROVE  LET row      == db.positions[s]
               notional == price * row.quantity * size[s]
               fee      == exit_cost(fees, notional)
               close    == CloseOf(row, row.quantity, price, size[s], fee,
                                   rates_known(fees), "expiry_settlement")
           IN  /\ notional \in Nat /\ fee \in Nat /\ close \in Close
               /\ ~ rates_known(fees) => fee = 0
               /\ price \in Nat
               /\ Holds(db', db.cash + notional - fee, db.initial_balance,
                        [db.positions EXCEPT ![s] = NoPosition],
                        [db.trades EXCEPT ![s] = WithClose(db.trades[s], close)],
                        db.orders)
<1>. DEFINE row == db.positions[s]
            notional == price * row.quantity * size[s]
            fee == exit_cost(fees, notional)
            close == CloseOf(row, row.quantity, price, size[s], fee,
                             rates_known(fees), "expiry_settlement")
            c == db.cash + notional - fee
            d1 == update_cash(db, c)
            d2 == delete_position(d1, s)
<1>1. /\ db \in Database /\ row \in Position /\ row.quantity \in Nat /\ db.cash \in Int
      /\ size[s] \in Nat /\ fees \in FeeSchedule
  BY Inputs DEF TypeOK, Database, Position
<1>2. price \in Nat
  BY Inputs DEF Settle
<1>3. notional \in Nat
  <2>1. \A a, b, m \in Nat : a * b * m \in Nat
    OBVIOUS
  <2>. QED
    BY <1>1, <1>2, <2>1
<1>4. fee \in Nat /\ (~ rates_known(fees) => fee = 0) /\ rates_known(fees) \in BOOLEAN
  <2>1. rates_known(fees) \in BOOLEAN
    BY <1>1 DEF rates_known, is_zero, FeeSchedule
  <2>. QED
    BY <1>1, <1>3, <2>1, FeesNat, UnknownCostIsZero
<1>5. db' = record_trade(d2, s, close)
  BY DEF Settle
<1>6. c \in Int
  BY <1>1, <1>3, <1>4
<1>. HIDE DEF fee, notional, c
<1>7. close \in Close
  BY <1>1, <1>2, <1>4, CloseType
<1>. HIDE DEF close
<1>8. Holds(d1, c, db.initial_balance, db.positions, db.trades, db.orders)
  BY <1>1, <1>6, UpdateCashFields
<1>. HIDE DEF d1
<1>9. Holds(d2, d1.cash, d1.initial_balance, [d1.positions EXCEPT ![s] = NoPosition],
            d1.trades, d1.orders)
  BY <1>8, DeleteFields DEF Holds
<1>. HIDE DEF d2
<1>10. Holds(db', d2.cash, d2.initial_balance, d2.positions,
             [d2.trades EXCEPT ![s] = WithClose(d2.trades[s], close)], d2.orders)
  BY <1>5, <1>7, <1>9, RecordTradeFields DEF Holds
<1>11. Holds(db', c, db.initial_balance, [db.positions EXCEPT ![s] = NoPosition],
             [db.trades EXCEPT ![s] = WithClose(db.trades[s], close)], db.orders)
  BY <1>8, <1>9, <1>10 DEF Holds
<1>. QED
  BY <1>2, <1>3, <1>4, <1>7, <1>11 DEF close, fee, notional, c

LEMMA RejectEffect ==
    ASSUME TypeOK, NEW s \in Symbols, db' = save_order(db, s, 0, 0, 0)
    PROVE  Holds(db', db.cash, db.initial_balance, db.positions, db.trades, db.orders)
<1>1. db \in Database /\ db.orders \in [Symbols -> OrderTotals]
  BY DEF TypeOK, Database
<1>2. WithOrder(db.orders[s], 0, 0, 0) = db.orders[s]
  BY <1>1 DEF WithOrder, OrderTotals
<1>3. [db.orders EXCEPT ![s] = WithOrder(db.orders[s], 0, 0, 0)] = db.orders
  BY <1>1, <1>2
<1>. QED
  BY <1>1, <1>3, SaveOrderFields
LEMMA ResetEffect ==
    ASSUME TypeOK, Reset
    PROVE  Holds(db', db.initial_balance, db.initial_balance,
                 [s \in Symbols |-> NoPosition], [s \in Symbols |-> NoTrades],
                 [s \in Symbols |-> NoOrders])
<1>1. db.initial_balance \in Nat
  BY DEF TypeOK, Database
<1>. QED
  BY <1>1, FreshType DEF Reset, FreshDatabase, Holds

----------------------------------------------------------------------------
(* Type correctness *)

LEMMA InitType == Init => TypeOK
<1>1. FreshDatabase(InitialBalance) \in Database
  BY BrokerAssumption, FreshType
<1>2. ContractSize \in [Symbols -> Nat \ {0}] /\ 0 \in 0 .. LastDay
  BY BrokerAssumption
<1>. QED
  BY <1>1, <1>2 DEF Init, TypeOK

\* Only Environment changes something other than the account file.
LEMMA CallType ==
    ASSUME TypeOK, db' \in Database, UNCHANGED <<fees, size, today>>
    PROVE  TypeOK'
BY DEF TypeOK

LEMMA NextType == TypeOK /\ [Next]_vars => TypeOK'
<1>. SUFFICES ASSUME TypeOK, [Next]_vars PROVE TypeOK'
  OBVIOUS
<1>1. ASSUME NEW s \in Symbols, NEW quantity \in Quantities,
             NEW contract \in ContractReplies, NEW fill \in Fills(quantity),
             Buy(s, quantity, contract, fill)
      PROVE  TypeOK'
  BY <1>1, BuyEffect, CallType DEF Buy, Holds
<1>2. ASSUME NEW s \in Symbols, NEW quantity \in Quantities,
             NEW contract \in ContractReplies, NEW fill \in Fills(quantity),
             Sell(s, quantity, contract, fill)
      PROVE  TypeOK'
  BY <1>2, SellEffect, CallType DEF Sell, Holds
<1>3. ASSUME NEW s \in Symbols, NEW side, NEW quantity, NEW contract, NEW fill,
             Reject(s, side, quantity, contract, fill)
      PROVE  TypeOK'
  BY <1>3, RejectEffect, CallType DEF Reject, Holds
<1>4. ASSUME NEW s \in Symbols, NEW price \in SettlePrices, Settle(s, price)
      PROVE  TypeOK'
  BY <1>4, SettleEffect, CallType DEF Settle, Holds
<1>5. CASE Reset
  BY <1>5, ResetEffect, CallType DEF Reset, Holds
<1>6. CASE Environment
  BY <1>6, BrokerAssumption DEF Environment, TypeOK
<1>7. CASE UNCHANGED vars
  BY <1>7 DEF vars, TypeOK
<1>. QED
  BY <1>1, <1>2, <1>3, <1>4, <1>5, <1>6, <1>7 DEF Next, PlaceOrder

\* In every reachable state each row of the account file, the settings and the
\* calendar have their types: no sequence of partial fills, exits, settlements
\* and resets drives a quantity, a cost or a fee below zero.
THEOREM TypeCorrect == Spec => []TypeOK
<1>1. Init => TypeOK
  BY InitType
<1>2. TypeOK /\ [Next]_vars => TypeOK'
  BY NextType
<1>. QED
  BY <1>1, <1>2, PTL DEF Spec
----------------------------------------------------------------------------
(* Contracts and costs *)

\* A row without contracts is no row: nothing of a closed position is left to
\* be merged into the next one.  Without it CostCountedOnce is not inductive.
NoEmptyRow == \A s \in Symbols :
                  db.positions[s].quantity = 0 => db.positions[s] = NoPosition

BrokerInv == TypeOK /\ NoEmptyRow /\ QuantityConserved /\ CostCountedOnce

LEMMA InitInv == Init => BrokerInv
<1>. SUFFICES ASSUME Init PROVE BrokerInv
  OBVIOUS
<1>1. TypeOK
  BY InitType
<1>2. /\ db.positions = [s \in Symbols |-> NoPosition]
      /\ db.trades = [s \in Symbols |-> NoTrades]
      /\ db.orders = [s \in Symbols |-> NoOrders]
  BY DEF Init, FreshDatabase
<1>. QED
  BY <1>1, <1>2 DEF BrokerInv, NoEmptyRow, QuantityConserved, CostCountedOnce,
                    NoPosition, NoTrades, NoOrders

\* The rows of every other symbol are untouched, so the invariants of a symbol
\* follow from its own three rows.
LEMMA OneSymbol ==
    ASSUME BrokerInv, NEW s \in Symbols, NEW p, NEW t, NEW o,
           db' \in Database,
           db'.positions = [db.positions EXCEPT ![s] = p],
           db'.trades = [db.trades EXCEPT ![s] = t],
           db'.orders = [db.orders EXCEPT ![s] = o],
           p.quantity = 0 => p = NoPosition,
           o.bought = p.quantity + t.sold + t.settled,
           o.sold = t.sold,
           t.missing_entry = 0 =>
               o.fee_paid = p.entry_fees + t.entry_costs + t.exit_costs
    PROVE  NoEmptyRow' /\ QuantityConserved' /\ CostCountedOnce'
<1>1. /\ DOMAIN db.positions = Symbols
      /\ DOMAIN db.trades = Symbols
      /\ DOMAIN db.orders = Symbols
  BY DEF BrokerInv, TypeOK, Database
<1>2. ASSUME NEW q \in Symbols
      PROVE  /\ db'.positions[q] = IF q = s THEN p ELSE db.positions[q]
             /\ db'.trades[q] = IF q = s THEN t ELSE db.trades[q]
             /\ db'.orders[q] = IF q = s THEN o ELSE db.orders[q]
  BY <1>1
<1>3. NoEmptyRow'
  BY <1>2 DEF BrokerInv, NoEmptyRow
<1>4. QuantityConserved'
  BY <1>2 DEF BrokerInv, QuantityConserved
<1>5. CostCountedOnce'
  BY <1>2 DEF BrokerInv, CostCountedOnce
<1>. QED
  BY <1>3, <1>4, <1>5

\* The rows of a symbol and what the invariants say of them.
LEMMA RowsOf ==
    ASSUME BrokerInv, NEW s \in Symbols
    PROVE  LET p == db.positions[s]
               t == db.trades[s]
               o == db.orders[s]
           IN  /\ p \in Position /\ t \in TradeTotals /\ o \in OrderTotals
               /\ p.quantity = 0 => p = NoPosition
               /\ o.bought = p.quantity + t.sold + t.settled
               /\ o.sold = t.sold
               /\ t.missing_entry = 0 =>
                      o.fee_paid = p.entry_fees + t.entry_costs + t.exit_costs
BY DEF BrokerInv, TypeOK, Database, NoEmptyRow, QuantityConserved, CostCountedOnce

LEMMA BuyKeeps ==
    ASSUME BrokerInv, NEW s \in Symbols, NEW quantity \in Quantities,
           NEW contract \in ContractReplies, NEW fill \in Fills(quantity),
           Buy(s, quantity, contract, fill)
    PROVE  NoEmptyRow' /\ QuantityConserved' /\ CostCountedOnce'
<1>. DEFINE n == fill.filled
            fee == OrderFee("buy", s, fill)
            p == BoughtPosition(db.positions[s], n, fill.price, fee, rates_known(fees))
            t == db.trades[s]
            o == WithOrder(db.orders[s], n, 0, fee)
<1>1. TypeOK
  BY DEF BrokerInv
<1>2. n \in Nat /\ fee \in Nat
  BY <1>1, FillNat
<1>3. p \in Position /\ p.quantity > 0
  BY <1>1, BuyEffect
<1>4. /\ db' \in Database
      /\ db'.positions = [db.positions EXCEPT ![s] = p]
      /\ db'.trades = [db.trades EXCEPT ![s] = t]
      /\ db'.orders = [db.orders EXCEPT ![s] = o]
  <2>1. db.trades = [db.trades EXCEPT ![s] = t]
    BY <1>1 DEF TypeOK, Database
  <2>. QED
    BY <1>1, <2>1, BuyEffect DEF Holds
<1>5. /\ p.quantity = db.positions[s].quantity + n
      /\ p.entry_fees = db.positions[s].entry_fees + fee
  BY <1>2, RowsOf DEF BoughtPosition, NoPosition, Position
<1>6. /\ o.bought = db.orders[s].bought + n
      /\ o.sold = db.orders[s].sold
      /\ o.fee_paid = db.orders[s].fee_paid + fee
  BY RowsOf DEF WithOrder, OrderTotals
<1>. HIDE DEF n, fee, p, o
<1>7. /\ o.bought = p.quantity + t.sold + t.settled
      /\ o.sold = t.sold
      /\ t.missing_entry = 0 =>
            o.fee_paid = p.entry_fees + t.entry_costs + t.exit_costs
  BY <1>2, <1>5, <1>6, RowsOf DEF Position, TradeTotals, OrderTotals
<1>8. p.quantity = 0 => p = NoPosition
  BY <1>3 DEF Position
<1>. HIDE DEF t
<1>. QED
  BY <1>4, <1>7, <1>8, OneSymbol
\* Closing all that is held takes the whole of every running total along.
LEMMA WholeShare ==
    ASSUME NEW total \in Nat, NEW held \in Nat, held > 0
    PROVE  allocate_entry_fee(total, held, held) = total
BY DEF allocate_entry_fee

LEMMA SellKeeps ==
    ASSUME BrokerInv, NEW s \in Symbols, NEW quantity \in Quantities,
           NEW contract \in ContractReplies, NEW fill \in Fills(quantity),
           Sell(s, quantity, contract, fill)
    PROVE  NoEmptyRow' /\ QuantityConserved' /\ CostCountedOnce'
<1>. DEFINE n == fill.filled
            fee == OrderFee("sell", s, fill)
            old == db.positions[s]
            row == RemainingPosition(old, n)
            known == rates_known(fees)
            close == CloseOf(old, n, fill.price, size[s], fee, known, "manual")
            share == allocate_entry_fee(old.entry_fees, n, old.quantity)
            p == Kept(row)
            t == WithClose(db.trades[s], close)
            o == WithOrder(db.orders[s], 0, n, fee)
<1>1. TypeOK
  BY DEF BrokerInv
<1>2. /\ n \in Nat /\ fee \in Nat /\ (~ known => fee = 0) /\ known \in BOOLEAN
      /\ n > 0 /\ n <= old.quantity
  BY <1>1, FillNat, SellEffect
<1>3. /\ db' \in Database
      /\ db'.positions = [db.positions EXCEPT ![s] = p]
      /\ db'.trades = [db.trades EXCEPT ![s] = t]
      /\ db'.orders = [db.orders EXCEPT ![s] = o]
  BY <1>1, SellEffect DEF Holds
<1>4. /\ old \in Position /\ old.quantity \in Nat /\ old.entry_fees \in Nat
      /\ old.entry_fees_known \in BOOLEAN
  BY RowsOf DEF Position
<1>5. share \in 0 .. old.entry_fees /\ (n = old.quantity => share = old.entry_fees)
  BY <1>2, <1>4, ShareBounds, WholeShare
<1>6. row.quantity = old.quantity - n /\ row.entry_fees = old.entry_fees - share
  BY DEF RemainingPosition
<1>7. p.quantity = old.quantity - n /\ p.entry_fees = old.entry_fees - share
  <2>. HIDE DEF row, share, n
  <2>1. CASE n = old.quantity
    BY <1>2, <1>4, <1>5, <1>6, <2>1 DEF Kept, NoPosition
  <2>2. CASE n < old.quantity
    BY <1>2, <1>4, <1>5, <1>6, <2>2 DEF Kept
  <2>. QED
    BY <1>2, <1>4, <2>1, <2>2
<1>8. p.quantity = 0 => p = NoPosition
  <2>. HIDE DEF row, share, n
  <2>. QED
    BY <1>2, <1>4, <1>6, <1>7 DEF Kept
<1>9. /\ close.quantity = n /\ close.entry_fee = share /\ close.exit_fee = fee
      /\ close.entry_known = old.entry_fees_known /\ close.exit_known = known
      /\ close.reason = "manual"
  BY DEF CloseOf
<1>10. /\ t.sold = db.trades[s].sold + n
       /\ t.settled = db.trades[s].settled + 0
       /\ t.exit_costs = db.trades[s].exit_costs + fee
       /\ t.entry_costs = db.trades[s].entry_costs
                            + (IF old.entry_fees_known THEN share ELSE 0)
       /\ t.missing_entry = db.trades[s].missing_entry
                              + (IF old.entry_fees_known THEN 0 ELSE 1)
  <2>. HIDE DEF close, share, n, fee, known
  <2>. QED
    BY <1>2, <1>9 DEF WithClose
<1>11. /\ o.bought = db.orders[s].bought + 0
       /\ o.sold = db.orders[s].sold + n
       /\ o.fee_paid = db.orders[s].fee_paid + fee
  BY DEF WithOrder
<1>. HIDE DEF n, fee, row, known, close, share, p, t, o
<1>12. /\ o.bought = p.quantity + t.sold + t.settled
       /\ o.sold = t.sold
  BY <1>2, <1>4, <1>7, <1>10, <1>11, RowsOf DEF TradeTotals, OrderTotals
<1>13. t.missing_entry = 0 => o.fee_paid = p.entry_fees + t.entry_costs + t.exit_costs
  <2>1. /\ db.trades[s] \in TradeTotals /\ db.orders[s] \in OrderTotals
        /\ db.trades[s].missing_entry = 0 =>
             db.orders[s].fee_paid = old.entry_fees + db.trades[s].entry_costs
                                       + db.trades[s].exit_costs
    BY RowsOf
  <2>2. CASE ~ old.entry_fees_known
    <3>1. t.missing_entry = db.trades[s].missing_entry + 1
      BY <1>10, <2>2
    <3>. QED
      BY <2>1, <3>1 DEF TradeTotals
  <2>3. CASE old.entry_fees_known
    <3>1. /\ t.missing_entry = db.trades[s].missing_entry + 0
          /\ t.entry_costs = db.trades[s].entry_costs + share
      BY <1>10, <2>3
    <3>2. share \in Int
      BY <1>4, <1>5
    <3>. QED
      BY <1>2, <1>4, <1>7, <1>10, <1>11, <2>1, <3>1, <3>2 DEF TradeTotals, OrderTotals
  <2>. QED
    BY <2>2, <2>3
<1>. QED
  BY <1>3, <1>8, <1>12, <1>13, OneSymbol

LEMMA SettleKeeps ==
    ASSUME BrokerInv, NEW s \in Symbols, NEW price \in SettlePrices, Settle(s, price)
    PROVE  NoEmptyRow' /\ QuantityConserved' /\ CostCountedOnce'
<1>. DEFINE old == db.positions[s]
            fee == exit_cost(fees, price * old.quantity * size[s])
            close == CloseOf(old, old.quantity, price, size[s], fee, rates_known(fees),
                             "expiry_settlement")
            t == WithClose(db.trades[s], close)
            o == db.orders[s]
<1>1. TypeOK
  BY DEF BrokerInv
<1>2. /\ old \in Position /\ old.quantity \in Nat /\ old.entry_fees \in Nat
      /\ old.entry_fees_known \in BOOLEAN /\ old.quantity > 0
  BY RowsOf DEF Position, Settle
<1>3. /\ db' \in Database
      /\ db'.positions = [db.positions EXCEPT ![s] = NoPosition]
      /\ db'.trades = [db.trades EXCEPT ![s] = t]
      /\ db'.orders = [db.orders EXCEPT ![s] = o]
  <2>1. db.orders = [db.orders EXCEPT ![s] = o]
    BY <1>1 DEF TypeOK, Database
  <2>. QED
    BY <1>1, <2>1, SettleEffect DEF Holds
<1>4. /\ close.quantity = old.quantity /\ close.entry_fee = old.entry_fees
      /\ close.entry_known = old.entry_fees_known /\ close.reason = "expiry_settlement"
  BY <1>2, WholeShare DEF CloseOf
<1>5. /\ t.sold = db.trades[s].sold + 0
      /\ t.settled = db.trades[s].settled + old.quantity
      /\ t.exit_costs = db.trades[s].exit_costs + 0
      /\ t.entry_costs = db.trades[s].entry_costs
                           + (IF old.entry_fees_known THEN old.entry_fees ELSE 0)
      /\ t.missing_entry = db.trades[s].missing_entry
                             + (IF old.entry_fees_known THEN 0 ELSE 1)
  <2>. HIDE DEF close
  <2>. QED
    BY <1>4 DEF WithClose
<1>. HIDE DEF fee, close, t
<1>6. /\ o.bought = NoPosition.quantity + t.sold + t.settled
      /\ o.sold = t.sold
  BY <1>2, <1>5, RowsOf DEF TradeTotals, OrderTotals, NoPosition
<1>7. t.missing_entry = 0 =>
        o.fee_paid = NoPosition.entry_fees + t.entry_costs + t.exit_costs
  BY <1>2, <1>5, RowsOf DEF TradeTotals, OrderTotals, NoPosition
<1>. QED
  BY <1>3, <1>6, <1>7, OneSymbol

LEMMA NextInv == BrokerInv /\ [Next]_vars => BrokerInv'
<1>. SUFFICES ASSUME BrokerInv, [Next]_vars
              PROVE  NoEmptyRow' /\ QuantityConserved' /\ CostCountedOnce'
  BY NextType DEF BrokerInv
<1>. TypeOK
  BY DEF BrokerInv
<1>1. ASSUME UNCHANGED <<db.positions, db.trades, db.orders>>
      PROVE  NoEmptyRow' /\ QuantityConserved' /\ CostCountedOnce'
  BY <1>1 DEF BrokerInv, NoEmptyRow, QuantityConserved, CostCountedOnce
<1>2. ASSUME NEW s \in Symbols, NEW side, NEW quantity, NEW contract, NEW fill,
             Reject(s, side, quantity, contract, fill)
      PROVE  NoEmptyRow' /\ QuantityConserved' /\ CostCountedOnce'
  BY <1>1, <1>2, RejectEffect DEF Reject, Holds
<1>3. CASE Reset
  <2>1. /\ db'.positions = [s \in Symbols |-> NoPosition]
        /\ db'.trades = [s \in Symbols |-> NoTrades]
        /\ db'.orders = [s \in Symbols |-> NoOrders]
    BY <1>3, ResetEffect DEF Holds
  <2>. QED
    BY <2>1 DEF NoEmptyRow, QuantityConserved, CostCountedOnce, NoPosition, NoTrades,
                NoOrders
<1>4. CASE Environment
  BY <1>1, <1>4 DEF Environment
<1>5. CASE UNCHANGED vars
  BY <1>1, <1>5 DEF vars
<1>. QED
  BY <1>2, <1>3, <1>4, <1>5, BuyKeeps, SellKeeps, SettleKeeps DEF Next, PlaceOrder

\* No sequence of calls loses or duplicates a contract.
THEOREM ContractsConserved == Spec => []QuantityConserved
<1>1. BrokerInv => QuantityConserved
  BY DEF BrokerInv
<1>. QED
  BY <1>1, InitInv, NextInv, PTL DEF Spec

\* No sequence of calls charges a fee that is not booked exactly once.
THEOREM CostsCountedOnce == Spec => []CostCountedOnce
<1>1. BrokerInv => CostCountedOnce
  BY DEF BrokerInv
<1>. QED
  BY <1>1, InitInv, NextInv, PTL DEF Spec
----------------------------------------------------------------------------
(* Steps that never happen *)

\* What may become of the row of a symbol in one step.
LEMMA RowSteps ==
    ASSUME TypeOK, [Next]_vars, NEW q \in Symbols
    PROVE  \/ db'.positions[q] \in {db.positions[q], NoPosition}
           \/ /\ Expiry[q] >= today
              /\ \/ \E filled, price, fee, known :
                       db'.positions[q] =
                           BoughtPosition(db.positions[q], filled, price, fee, known)
                 \/ \E filled :
                       db'.positions[q] = RemainingPosition(db.positions[q], filled)
<1>1. db.positions \in [Symbols -> Position]
  BY DEF TypeOK, Database
<1>2. ASSUME NEW s \in Symbols, NEW quantity \in Quantities,
             NEW contract \in ContractReplies, NEW fill \in Fills(quantity),
             Buy(s, quantity, contract, fill)
      PROVE  \/ db'.positions[q] = db.positions[q]
             \/ /\ Expiry[q] >= today
                /\ \E filled, price, fee, known :
                       db'.positions[q] =
                           BoughtPosition(db.positions[q], filled, price, fee, known)
  <2>. DEFINE row == BoughtPosition(db.positions[s], fill.filled, fill.price,
                                    OrderFee("buy", s, fill), rates_known(fees))
  <2>1. db'.positions = [db.positions EXCEPT ![s] = row]
    BY <1>2, BuyEffect DEF Holds
  <2>2. Expiry[s] >= today
    BY <1>2 DEF Buy, Accepted
  <2>3. CASE q = s
    <3>1. db'.positions[q] = row
      BY <1>1, <2>1, <2>3
    <3>. QED
      BY <2>2, <2>3, <3>1
  <2>4. CASE q # s
    BY <1>1, <2>1, <2>4
  <2>. QED
    BY <2>3, <2>4
<1>3. ASSUME NEW s \in Symbols, NEW quantity \in Quantities,
             NEW contract \in ContractReplies, NEW fill \in Fills(quantity),
             Sell(s, quantity, contract, fill)
      PROVE  \/ db'.positions[q] \in {db.positions[q], NoPosition}
             \/ /\ Expiry[q] >= today
                /\ \E filled :
                       db'.positions[q] = RemainingPosition(db.positions[q], filled)
  <2>. DEFINE row == RemainingPosition(db.positions[s], fill.filled)
  <2>1. db'.positions = [db.positions EXCEPT ![s] = Kept(row)]
    BY <1>3, SellEffect, ZenonT(60) DEF Holds
  <2>2. Expiry[s] >= today
    BY <1>3 DEF Sell, Accepted
  <2>3. CASE q = s
    <3>1. db'.positions[q] = Kept(row)
      BY <1>1, <2>1, <2>3
    <3>2. Kept(row) \in {NoPosition, row}
      BY DEF Kept
    <3>. QED
      BY <2>2, <2>3, <3>1, <3>2
  <2>4. CASE q # s
    BY <1>1, <2>1, <2>4
  <2>. QED
    BY <2>3, <2>4
<1>4. ASSUME NEW s \in Symbols, NEW side, NEW quantity, NEW contract, NEW fill,
             Reject(s, side, quantity, contract, fill)
      PROVE  db'.positions[q] = db.positions[q]
  BY <1>4, RejectEffect DEF Reject, Holds
<1>5. ASSUME NEW s \in Symbols, NEW price \in SettlePrices, Settle(s, price)
      PROVE  db'.positions[q] \in {db.positions[q], NoPosition}
  <2>1. db'.positions = [db.positions EXCEPT ![s] = NoPosition]
    BY <1>5, SettleEffect DEF Holds
  <2>. QED
    BY <1>1, <2>1
<1>6. CASE Reset
  BY <1>6, ResetEffect DEF Holds
<1>7. CASE Environment \/ UNCHANGED vars
  BY <1>7 DEF Environment, vars
<1>. QED
  BY <1>2, <1>3, <1>4, <1>5, <1>6, <1>7 DEF Next, PlaceOrder

\* Whatever is bought, sold or configured later, an open row whose entry costs
\* are unknown is never presented as one whose costs are known.
THEOREM UnknownNeverForgotten == Spec => UnknownStaysUnknown
<1>1. ASSUME TypeOK, [Next]_vars
      PROVE  [\A s \in Symbols :
                (/\ db.positions[s].quantity > 0
                 /\ ~ db.positions[s].entry_fees_known
                 /\ db'.positions[s].quantity > 0)
                => ~ db'.positions[s].entry_fees_known]_vars
  <2>. SUFFICES ASSUME NEW s \in Symbols,
                       db.positions[s].quantity > 0,
                       ~ db.positions[s].entry_fees_known,
                       db'.positions[s].quantity > 0
                PROVE  ~ db'.positions[s].entry_fees_known
    OBVIOUS
  <2>1. ~ NoPosition.quantity > 0
    BY DEF NoPosition
  <2>2. db.positions[s].quantity # 0
    BY <1>1 DEF TypeOK, Database, Position
  <2>3. ASSUME NEW filled, NEW price, NEW fee, NEW known
        PROVE  ~ BoughtPosition(db.positions[s], filled, price, fee, known).entry_fees_known
    BY <2>2 DEF BoughtPosition
  <2>4. ASSUME NEW filled
        PROVE  ~ RemainingPosition(db.positions[s], filled).entry_fees_known
    BY DEF RemainingPosition
  <2>. QED
    BY <1>1, <2>1, <2>3, <2>4, RowSteps
<1>. QED
  BY <1>1, TypeCorrect, PTL DEF Spec, UnknownStaysUnknown

\* An expired row is never bought, sold or rewritten: it only disappears whole.
THEOREM ExpiredRowsOnlySettled == Spec => ExpiredOnlySettled
<1>1. ASSUME TypeOK, [Next]_vars
      PROVE  [\A s \in Symbols :
                Expiry[s] < today =>
                    db'.positions[s] \in {db.positions[s], NoPosition}]_vars
  <2>. SUFFICES ASSUME NEW s \in Symbols, Expiry[s] < today
                PROVE  db'.positions[s] \in {db.positions[s], NoPosition}
    OBVIOUS
  <2>1. ~ (Expiry[s] >= today)
    BY <1>1, BrokerAssumption DEF TypeOK
  <2>. QED
    BY <1>1, <2>1, RowSteps
<1>. QED
  BY <1>1, TypeCorrect, PTL DEF Spec, ExpiredOnlySettled

-----------------------------------------------------------------------------
(* The broker implements the ledger of costs, and its books balance. *)

\* reset restores the balance the account was opened with, which no call moves.
RefineInv == BrokerInv /\ db.initial_balance = InitialBalance

LEMMA InitRefineInv == Init => RefineInv
BY InitInv DEF Init, FreshDatabase, RefineInv

LEMMA NextRefineInv == RefineInv /\ [Next]_vars => RefineInv'
<1>. SUFFICES ASSUME RefineInv, [Next]_vars
              PROVE  db'.initial_balance = db.initial_balance
  BY NextInv DEF RefineInv
<1>. TypeOK
  BY DEF RefineInv, BrokerInv
<1>1. ASSUME NEW s \in Symbols, NEW side, NEW quantity, NEW contract, NEW fill,
             Reject(s, side, quantity, contract, fill)
      PROVE  db'.initial_balance = db.initial_balance
  BY <1>1, RejectEffect DEF Reject, Holds
<1>2. CASE Reset
  BY <1>2, ResetEffect DEF Holds
<1>3. CASE Environment \/ UNCHANGED vars
  BY <1>3 DEF Environment, vars
<1>. QED
  BY <1>1, <1>2, <1>3, BuyEffect, SellEffect, SettleEffect DEF Next, PlaceOrder, Holds

----------------------------------------------------------------------------
LEMMA NatProduct == \A a, b \in Nat : a * b \in Nat
OBVIOUS

LEMMA SumTimes == \A a, b, c \in Nat : (a + b) * c = a * c + b * c
OBVIOUS

LEMMA DifferenceTimes == \A a, b, c \in Nat : (a - b) * c = a * c - b * c
OBVIOUS

LEMMA SwapFactors == \A a, b, c \in Nat : a * b * c = b * a * c
OBVIOUS

LEMMA TimesMonotone == \A a, b, c \in Nat : a <= b => a * c <= b * c
OBVIOUS

\* A call that leaves the rows of q alone leaves its basis and profit alone.
LEMMA Untouched ==
    ASSUME NEW q \in Symbols, size' = size,
           db'.positions[q] = db.positions[q], db'.trades[q] = db.trades[q]
    PROVE  /\ cost_basis(db', q, size'[q]) = cost_basis(db, q, size[q])
           /\ RecordedPnl(db', q) = RecordedPnl(db, q)
           /\ CostsKnownOf(db', q) = CostsKnownOf(db, q)
BY DEF cost_basis, RecordedPnl, CostsKnownOf

\* What a call on symbol s owes to OnlyTouches(s).
LEMMA TouchesOne ==
    ASSUME TypeOK, NEW s \in Symbols, size' = size, NEW p, NEW t,
           db'.positions = [db.positions EXCEPT ![s] = p],
           db'.trades = [db.trades EXCEPT ![s] = t],
           CostsKnownOf(db', s) => CostsKnownOf(db, s)
    PROVE  Ledger!OnlyTouches(s)
<1>1. db.positions \in [Symbols -> Position] /\ db.trades \in [Symbols -> TradeTotals]
  BY DEF TypeOK, Database
<1>2. ASSUME NEW q \in Symbols \ {s}
      PROVE  /\ cost_basis(db', q, size'[q]) = cost_basis(db, q, size[q])
             /\ RecordedPnl(db', q) = RecordedPnl(db, q)
             /\ CostsKnownOf(db', q) = CostsKnownOf(db, q)
  <2>1. db'.positions[q] = db.positions[q] /\ db'.trades[q] = db.trades[q]
    BY <1>1
  <2>. QED
    BY <2>1, Untouched
<1>3. costs_known(db') => costs_known(db)
  BY <1>2 DEF costs_known
<1>. QED
  BY <1>2, <1>3 DEF Ledger!OnlyTouches

LEMMA BuyInvests ==
    ASSUME BrokerInv, NEW s \in Symbols, NEW quantity \in Quantities,
           NEW contract \in ContractReplies, NEW fill \in Fills(quantity),
           Buy(s, quantity, contract, fill)
    PROVE  Ledger!Invest(s)
<1>. DEFINE n == fill.filled
            fee == OrderFee("buy", s, fill)
            old == db.positions[s]
            p == BoughtPosition(old, n, fill.price, fee, rates_known(fees))
            N == Notional(s, fill)
<1>1. TypeOK /\ size' = size
  BY DEF BrokerInv, Buy
<1>2. /\ old \in Position /\ old.cost \in Nat /\ old.entry_fees \in Nat
      /\ old.quantity = 0 => old = NoPosition
  BY RowsOf DEF Position
<1>3. /\ n \in Nat /\ fill.price \in Nat /\ N \in Nat /\ fee \in Nat /\ size[s] \in Nat
      /\ N = n * fill.price * size[s]
  BY <1>1, FillNat
<1>4. /\ db'.positions = [db.positions EXCEPT ![s] = p]
      /\ db'.trades = db.trades
      /\ db'.cash = db.cash - N - fee
  <2>1. Holds(db', db.cash - N - fee, db.initial_balance, [db.positions EXCEPT ![s] = p],
              db.trades,
              [db.orders EXCEPT ![s] = WithOrder(db.orders[s], n, 0, fee)])
    BY <1>1, BuyEffect
  <2>. HIDE DEF N, fee, p
  <2>. QED
    BY <2>1 DEF Holds
<1>5. /\ db.positions \in [Symbols -> Position] /\ db.trades \in [Symbols -> TradeTotals]
      /\ db.cash \in Int
  BY <1>1 DEF TypeOK, Database
<1>6. db'.positions[s] = p
  BY <1>4, <1>5
<1>7. p.cost = old.cost + n * fill.price /\ p.entry_fees = old.entry_fees + fee
  <2>1. n * fill.price \in Nat
    BY <1>3, NatProduct
  <2>. QED
    BY <1>2, <1>3, <2>1 DEF BoughtPosition, NoPosition
<1>8. p.entry_fees_known => old.entry_fees_known
  <2>1. CASE old.quantity = 0
    BY <1>2, <2>1 DEF NoPosition
  <2>2. CASE old.quantity # 0
    <3>1. p.entry_fees_known = (old.entry_fees_known /\ rates_known(fees))
      BY <2>2 DEF BoughtPosition
    <3>. QED
      BY <3>1
  <2>. QED
    BY <2>1, <2>2
<1>. HIDE DEF n, fee, p, N
<1>9. /\ cost_basis(db, s, size[s]) \in Nat
      /\ cost_basis(db', s, size'[s]) = cost_basis(db, s, size[s]) + N + fee
  <2>1. n * fill.price \in Nat
    BY <1>3, NatProduct
  <2>2. old.cost * size[s] \in Nat
    BY <1>2, <1>3, NatProduct
  <2>3. (old.cost + n * fill.price) * size[s] = old.cost * size[s] + N
    BY <1>2, <1>3, <2>1, SumTimes
  <2>. QED
    BY <1>1, <1>2, <1>3, <1>6, <1>7, <2>2, <2>3 DEF cost_basis
<1>10. RecordedPnl(db', s) = RecordedPnl(db, s)
  BY <1>4 DEF RecordedPnl
<1>11. Ledger!OnlyTouches(s)
  <2>1. CostsKnownOf(db', s) => CostsKnownOf(db, s)
    BY <1>4, <1>6, <1>8 DEF CostsKnownOf
  <2>2. db'.trades = [db.trades EXCEPT ![s] = db.trades[s]]
    BY <1>4, <1>5
  <2>. QED
    BY <1>1, <1>4, <2>1, <2>2, TouchesOne
<1>12. N + fee <= db.cash + Tolerance
  BY DEF Buy, Accepted, check_affordable, N, fee
<1>13. db'.cash >= - Tolerance
  BY <1>3, <1>4, <1>5, <1>12, ToleranceAssumption
<1>. QED
  BY <1>3, <1>4, <1>5, <1>9, <1>10, <1>11, <1>13 DEF Ledger!Invest
\* The step closes n contracts of s at `price' for `fee' and leaves the row p.
Closes(s, n, price, fee, known, reason, p) ==
    LET old == db.positions[s]
    IN  /\ n \in Nat /\ n > 0 /\ n <= old.quantity
        /\ price \in Nat /\ fee \in Nat
        /\ known \in BOOLEAN /\ (~ known => fee = 0)
        /\ p.cost = old.cost - allocate_entry_fee(old.cost, n, old.quantity)
        /\ p.entry_fees = old.entry_fees
                            - allocate_entry_fee(old.entry_fees, n, old.quantity)
        /\ db'.positions = [db.positions EXCEPT ![s] = p]
        /\ db'.trades = [db.trades EXCEPT ![s] =
              WithClose(db.trades[s], CloseOf(old, n, price, size[s], fee, known, reason))]
        /\ db'.cash = db.cash + price * n * size[s] - fee

\* Closing contracts, by a sale or by a settlement, is a Realise step.
LEMMA CloseRealises ==
    ASSUME TypeOK, NEW s \in Symbols, size' = size,
           NEW n, NEW price, NEW fee, NEW known, NEW reason, NEW p,
           Closes(s, n, price, fee, known, reason, p)
    PROVE  Ledger!Realise(s)
<1>. DEFINE old == db.positions[s]
            sold == allocate_entry_fee(old.cost, n, old.quantity)
            paid == allocate_entry_fee(old.entry_fees, n, old.quantity)
            close == CloseOf(old, n, price, size[s], fee, known, reason)
            before == db.trades[s]
            after == WithClose(before, close)
            N == price * n * size[s]
            S == sold * size[s]
            C == old.cost * size[s]
<1>0. /\ n \in Nat /\ n > 0 /\ n <= old.quantity
      /\ price \in Nat /\ fee \in Nat /\ known \in BOOLEAN /\ (~ known => fee = 0)
      /\ p.cost = old.cost - sold /\ p.entry_fees = old.entry_fees - paid
      /\ db'.positions = [db.positions EXCEPT ![s] = p]
      /\ db'.trades = [db.trades EXCEPT ![s] = after]
      /\ db'.cash = db.cash + N - fee
  BY DEF Closes
<1>1. /\ db.positions \in [Symbols -> Position] /\ db.trades \in [Symbols -> TradeTotals]
      /\ db.cash \in Int /\ size[s] \in Nat
  BY DEF TypeOK, Database
<1>2. /\ old.quantity \in Nat /\ old.cost \in Nat /\ old.entry_fees \in Nat
      /\ old.entry_fees_known \in BOOLEAN
  BY <1>1 DEF Position
<1>3. sold \in 0 .. old.cost /\ paid \in 0 .. old.entry_fees
  BY <1>0, <1>2, ShareBounds
<1>4. /\ before.gross \in Int /\ before.entry_costs \in Nat /\ before.exit_costs \in Nat
      /\ before.settle_costs \in Nat
      /\ before.missing_entry \in Nat /\ before.missing_exit \in Nat
  BY <1>1 DEF TradeTotals
<1>5. db'.positions[s] = p /\ db'.trades[s] = after
  BY <1>0, <1>1
<1>6. /\ close.gross = (price * n - sold) * size[s]
      /\ close.entry_fee = paid /\ close.exit_fee = fee
      /\ close.entry_known = old.entry_fees_known /\ close.exit_known = known
  BY DEF CloseOf
<1>. HIDE DEF sold, paid, close
<1>7. /\ price * n \in Nat /\ N \in Nat /\ S \in Nat /\ C \in Nat
      /\ close.gross = N - S
      /\ (old.cost - sold) * size[s] = C - S
      /\ S <= C
  <2>1. sold \in Nat /\ sold <= old.cost
    BY <1>2, <1>3
  <2>2. price * n \in Nat
    BY <1>0, NatProduct
  <2>3. N \in Nat
    BY <1>1, <2>2, NatProduct
  <2>4. S \in Nat /\ C \in Nat
    BY <1>1, <1>2, <2>1, NatProduct
  <2>5. close.gross = N - S
    BY <1>1, <1>6, <2>1, <2>2, DifferenceTimes
  <2>6. (old.cost - sold) * size[s] = C - S
    BY <1>1, <1>2, <2>1, DifferenceTimes
  <2>7. S <= C
    BY <1>1, <1>2, <2>1, TimesMonotone
  <2>. QED
    BY <2>2, <2>3, <2>4, <2>5, <2>6, <2>7
<1>8. /\ after.gross = before.gross + N - S
      /\ after.entry_costs = before.entry_costs + (IF old.entry_fees_known THEN paid ELSE 0)
      /\ after.exit_costs + after.settle_costs
           = before.exit_costs + before.settle_costs + fee
      /\ after.exit_costs \in Nat /\ after.settle_costs \in Nat
      /\ after.missing_entry = before.missing_entry + (IF old.entry_fees_known THEN 0 ELSE 1)
      /\ after.missing_exit = before.missing_exit + (IF known THEN 0 ELSE 1)
  <2>. HIDE DEF N, S
  <2>. QED
    BY <1>0, <1>4, <1>6, <1>7 DEF WithClose, after
<1>. HIDE DEF after, N, S, C
<1>9. /\ cost_basis(db, s, size[s]) = C + old.entry_fees
      /\ cost_basis(db', s, size'[s]) = (C - S) + (old.entry_fees - paid)
  BY <1>0, <1>5, <1>7 DEF cost_basis, C
<1>10. /\ RecordedPnl(db, s) = before.gross - before.entry_costs - before.exit_costs
                                 - before.settle_costs
       /\ RecordedPnl(db', s) = after.gross - after.entry_costs - after.exit_costs
                                  - after.settle_costs
  BY <1>5 DEF RecordedPnl
<1>11. RecordedPnl(db', s) - RecordedPnl(db, s)
         = N - S - fee - (IF old.entry_fees_known THEN paid ELSE 0)
  <2>. DEFINE e == IF old.entry_fees_known THEN paid ELSE 0
  <2>1. e \in Nat
    BY <1>2, <1>3
  <2>2. after.entry_costs = before.entry_costs + e
    BY <1>8
  <2>. HIDE DEF e, before, old
  <2>3. RecordedPnl(db', s) - RecordedPnl(db, s) = N - S - fee - e
    <3>1. /\ after.gross = before.gross + N - S
          /\ after.exit_costs + after.settle_costs
               = before.exit_costs + before.settle_costs + fee
          /\ after.exit_costs \in Nat /\ after.settle_costs \in Nat
      BY <1>8
    <3>2. \A g, c, x, y, x1, y1, a, b, f, k \in Int :
            x1 + y1 = x + y + f =>
              ((g + a - b) - (c + k) - x1 - y1) - (g - c - x - y) = a - b - f - k
      OBVIOUS
    <3>3. /\ RecordedPnl(db, s) = before.gross - before.entry_costs - before.exit_costs
                                    - before.settle_costs
          /\ RecordedPnl(db', s) = (before.gross + N - S) - (before.entry_costs + e)
                                    - after.exit_costs - after.settle_costs
      BY <1>10, <2>2, <3>1
    <3>4. /\ before.gross \in Int /\ before.entry_costs \in Int
          /\ before.exit_costs \in Int /\ before.settle_costs \in Int
          /\ after.exit_costs \in Int /\ after.settle_costs \in Int
          /\ N \in Int /\ S \in Int /\ fee \in Int /\ e \in Int
      BY <1>0, <1>4, <1>7, <2>1, <3>1
    <3>. QED
      BY <3>1, <3>2, <3>3, <3>4
  <2>. QED
    BY <2>3 DEF e
<1>12. CostsKnownOf(db', s) => CostsKnownOf(db, s) /\ old.entry_fees_known
  <2>1. CostsKnownOf(db', s) => after.missing_entry = 0 /\ after.missing_exit = 0
    BY <1>5 DEF CostsKnownOf
  <2>2. after.missing_entry = 0 => old.entry_fees_known /\ before.missing_entry = 0
    BY <1>4, <1>8
  <2>3. after.missing_exit = 0 => before.missing_exit = 0
    BY <1>4, <1>8
  <2>. QED
    BY <2>1, <2>2, <2>3 DEF CostsKnownOf
<1>13. Ledger!OnlyTouches(s)
  BY <1>0, <1>12, TouchesOne
<1>. DEFINE earned == (db'.cash - db.cash)
                        - (cost_basis(db, s, size[s]) - cost_basis(db', s, size'[s]))
            booked == RecordedPnl(db', s) - RecordedPnl(db, s)
<1>14. earned = N - fee - S - paid
  BY <1>0, <1>1, <1>2, <1>3, <1>7, <1>9
<1>15. booked >= earned /\ (costs_known(db') => booked = earned)
  <2>1. CASE old.entry_fees_known
    BY <1>0, <1>2, <1>3, <1>7, <1>11, <1>14, <2>1
  <2>2. CASE ~ old.entry_fees_known
    <3>1. booked = N - S - fee - 0
      BY <1>11, <2>2
    <3>2. booked >= earned
      BY <1>0, <1>2, <1>3, <1>7, <1>14, <3>1
    <3>3. ~ costs_known(db')
      BY <1>12, <2>2 DEF costs_known
    <3>. QED
      BY <3>2, <3>3
  <2>. QED
    BY <2>1, <2>2
<1>16. cost_basis(db', s, size'[s]) \in 0 .. cost_basis(db, s, size[s])
  BY <1>2, <1>3, <1>7, <1>9
<1>. QED
  BY <1>13, <1>15, <1>16 DEF Ledger!Realise
LEMMA SellRealises ==
    ASSUME BrokerInv, NEW s \in Symbols, NEW quantity \in Quantities,
           NEW contract \in ContractReplies, NEW fill \in Fills(quantity),
           Sell(s, quantity, contract, fill)
    PROVE  Ledger!Realise(s)
<1>. DEFINE n == fill.filled
            fee == OrderFee("sell", s, fill)
            old == db.positions[s]
            row == RemainingPosition(old, n)
            known == rates_known(fees)
            close == CloseOf(old, n, fill.price, size[s], fee, known, "manual")
<1>1. TypeOK /\ size' = size
  BY DEF BrokerInv, Sell
<1>2. /\ n \in Nat /\ fill.price \in Nat /\ fee \in Nat /\ known \in BOOLEAN
      /\ ~ known => fee = 0
      /\ size[s] \in Nat /\ Notional(s, fill) = n * fill.price * size[s]
  BY <1>1, FillNat
<1>3. n > 0 /\ n <= old.quantity
  BY <1>1, SellEffect
<1>4. Holds(db', db.cash + Notional(s, fill) - fee, db.initial_balance,
            [db.positions EXCEPT ![s] = Kept(row)],
            [db.trades EXCEPT ![s] = WithClose(db.trades[s], close)],
            [db.orders EXCEPT ![s] = WithOrder(db.orders[s], 0, n, fee)])
  BY <1>1, SellEffect
<1>5. /\ old.quantity \in Nat /\ old.cost \in Nat /\ old.entry_fees \in Nat
  BY RowsOf DEF Position
<1>6. /\ row.quantity = old.quantity - n
      /\ row.cost = old.cost - allocate_entry_fee(old.cost, n, old.quantity)
      /\ row.entry_fees = old.entry_fees
                            - allocate_entry_fee(old.entry_fees, n, old.quantity)
  BY DEF RemainingPosition
<1>7. Kept(row).cost = row.cost /\ Kept(row).entry_fees = row.entry_fees
  <2>1. CASE n < old.quantity
    <3>1. ~ (row.quantity <= 0)
      BY <1>2, <1>5, <1>6, <2>1
    <3>. QED
      BY <3>1 DEF Kept
  <2>2. CASE n = old.quantity
    <3>1. /\ allocate_entry_fee(old.cost, n, old.quantity) = old.cost
          /\ allocate_entry_fee(old.entry_fees, n, old.quantity) = old.entry_fees
      BY <1>3, <1>5, <2>2, WholeShare
    <3>2. row.quantity = 0 /\ row.cost = 0 /\ row.entry_fees = 0
      BY <1>5, <1>6, <2>2, <3>1
    <3>. QED
      BY <3>2 DEF Kept, NoPosition
  <2>3. n < old.quantity \/ n = old.quantity
    BY <1>2, <1>3, <1>5
  <2>. QED
    BY <2>1, <2>2, <2>3
<1>8. fill.price * n * size[s] = Notional(s, fill)
  BY <1>2, SwapFactors
<1>9. /\ db'.positions = [db.positions EXCEPT ![s] = Kept(row)]
      /\ db'.trades = [db.trades EXCEPT ![s] = WithClose(db.trades[s], close)]
      /\ db'.cash = db.cash + fill.price * n * size[s] - fee
  <2>. HIDE DEF n, fee, row, close
  <2>. QED
    BY <1>4, <1>8 DEF Holds
<1>. HIDE DEF n, fee, known, row
<1>10. Closes(s, n, fill.price, fee, known, "manual", Kept(row))
  BY <1>2, <1>3, <1>6, <1>7, <1>9 DEF Closes
<1>. QED
  BY <1>1, <1>10, CloseRealises

LEMMA SettleRealises ==
    ASSUME BrokerInv, NEW s \in Symbols, NEW price \in SettlePrices, Settle(s, price)
    PROVE  Ledger!Realise(s)
<1>. DEFINE old == db.positions[s]
            n == old.quantity
            notional == price * n * size[s]
            fee == exit_cost(fees, notional)
            known == rates_known(fees)
            close == CloseOf(old, n, price, size[s], fee, known, "expiry_settlement")
<1>1. TypeOK /\ size' = size
  BY DEF BrokerInv, Settle
<1>2. /\ n \in Nat /\ n > 0 /\ old.cost \in Nat /\ old.entry_fees \in Nat
  BY RowsOf DEF Position, Settle
<1>3. price \in Nat /\ fee \in Nat /\ (~ known => fee = 0)
  BY <1>1, SettleEffect
<1>4. known \in BOOLEAN
  BY <1>1, Inputs DEF TypeOK, rates_known, is_zero, FeeSchedule
<1>5. Holds(db', db.cash + notional - fee, db.initial_balance,
            [db.positions EXCEPT ![s] = NoPosition],
            [db.trades EXCEPT ![s] = WithClose(db.trades[s], close)], db.orders)
  BY <1>1, SettleEffect
<1>6. /\ NoPosition.cost = old.cost - allocate_entry_fee(old.cost, n, n)
      /\ NoPosition.entry_fees = old.entry_fees
                                   - allocate_entry_fee(old.entry_fees, n, n)
  BY <1>2, WholeShare DEF NoPosition
<1>7. /\ db'.positions = [db.positions EXCEPT ![s] = NoPosition]
      /\ db'.trades = [db.trades EXCEPT ![s] = WithClose(db.trades[s], close)]
      /\ db'.cash = db.cash + notional - fee
  <2>. HIDE DEF notional, fee, close
  <2>. QED
    BY <1>5 DEF Holds
<1>. HIDE DEF fee, known
<1>8. Closes(s, n, price, fee, known, "expiry_settlement", NoPosition)
  BY <1>2, <1>3, <1>4, <1>6, <1>7 DEF Closes
<1>. QED
  BY <1>1, <1>8, CloseRealises

LEMMA ResetEmpties ==
    ASSUME RefineInv, Reset
    PROVE  Ledger!Reset
<1>1. Holds(db', InitialBalance, InitialBalance,
            [s \in Symbols |-> NoPosition], [s \in Symbols |-> NoTrades],
            [s \in Symbols |-> NoOrders])
  BY ResetEffect DEF RefineInv, BrokerInv
<1>2. size' \in [Symbols -> Nat]
  BY DEF RefineInv, BrokerInv, TypeOK, Reset
<1>3. ASSUME NEW s \in Symbols
      PROVE  /\ cost_basis(db', s, size'[s]) = 0
             /\ RecordedPnl(db', s) = 0
             /\ CostsKnownOf(db', s)
  <2>1. db'.positions[s] = NoPosition /\ db'.trades[s] = NoTrades
    BY <1>1 DEF Holds
  <2>2. 0 * size'[s] = 0
    BY <1>2
  <2>. QED
    BY <2>1, <2>2 DEF cost_basis, RecordedPnl, CostsKnownOf, NoPosition, NoTrades
<1>4. costs_known(db') = TRUE
  BY <1>3 DEF costs_known
<1>5. db'.cash = InitialBalance
  BY <1>1 DEF Holds
<1>. QED
  BY <1>3, <1>4, <1>5 DEF Ledger!Reset, Ledger!Empty
----------------------------------------------------------------------------
LEMMA InitImplements == Init => Ledger!Init
<1>. SUFFICES ASSUME Init PROVE Ledger!Init
  OBVIOUS
<1>1. db = FreshDatabase(InitialBalance) /\ size \in [Symbols -> Nat]
  BY BrokerAssumption DEF Init
<1>2. ASSUME NEW s \in Symbols
      PROVE  /\ cost_basis(db, s, size[s]) = 0
             /\ RecordedPnl(db, s) = 0
             /\ CostsKnownOf(db, s)
  <2>1. db.positions[s] = NoPosition /\ db.trades[s] = NoTrades
    BY <1>1 DEF FreshDatabase
  <2>2. 0 * size[s] = 0
    BY <1>1
  <2>. QED
    BY <2>1, <2>2 DEF cost_basis, RecordedPnl, CostsKnownOf, NoPosition, NoTrades
<1>3. costs_known(db) = TRUE
  BY <1>2 DEF costs_known
<1>. QED
  BY <1>1, <1>2, <1>3 DEF Ledger!Init, Ledger!Empty, FreshDatabase

\* Rejections, settings and midnight do not show in the ledger.
LEMMA Stutters ==
    ASSUME UNCHANGED <<db.cash, db.positions, db.trades, size>>
    PROVE  UNCHANGED Ledger!vars
<1>1. ASSUME NEW s \in Symbols
      PROVE  /\ cost_basis(db', s, size'[s]) = cost_basis(db, s, size[s])
             /\ RecordedPnl(db', s) = RecordedPnl(db, s)
             /\ CostsKnownOf(db', s) = CostsKnownOf(db, s)
  BY Untouched
<1>2. costs_known(db') = costs_known(db)
  BY DEF costs_known, CostsKnownOf
<1>. QED
  BY <1>1, <1>2 DEF Ledger!vars

LEMMA NextImplements == RefineInv /\ [Next]_vars => [Ledger!Next]_(Ledger!vars)
<1>. SUFFICES ASSUME RefineInv, [Next]_vars PROVE [Ledger!Next]_(Ledger!vars)
  OBVIOUS
<1>. BrokerInv /\ TypeOK
  BY DEF RefineInv, BrokerInv
<1>1. ASSUME NEW s \in Symbols, NEW quantity \in Quantities,
             NEW contract \in ContractReplies, NEW fill \in Fills(quantity),
             Buy(s, quantity, contract, fill)
      PROVE  Ledger!Next
  BY <1>1, BuyInvests DEF Ledger!Next
<1>2. ASSUME NEW s \in Symbols, NEW quantity \in Quantities,
             NEW contract \in ContractReplies, NEW fill \in Fills(quantity),
             Sell(s, quantity, contract, fill)
      PROVE  Ledger!Next
  BY <1>2, SellRealises DEF Ledger!Next
<1>3. ASSUME NEW s \in Symbols, NEW side, NEW quantity, NEW contract, NEW fill,
             Reject(s, side, quantity, contract, fill)
      PROVE  UNCHANGED Ledger!vars
  BY <1>3, RejectEffect, Stutters DEF Reject, Holds
<1>4. ASSUME NEW s \in Symbols, NEW price \in SettlePrices, Settle(s, price)
      PROVE  Ledger!Next
  BY <1>4, SettleRealises DEF Ledger!Next
<1>5. CASE Reset
  BY <1>5, ResetEmpties DEF Ledger!Next
<1>6. CASE Environment
  BY <1>6, Stutters DEF Environment
<1>7. CASE UNCHANGED vars
  BY <1>7, Stutters DEF vars
<1>. QED
  BY <1>1, <1>2, <1>3, <1>4, <1>5, <1>6, <1>7 DEF Next, PlaceOrder

\* Every call of the broker is a step of the abstract ledger: purchases move
\* cash into cost and never overdraw it, exits book what they earned exactly
\* when all costs are known and never less otherwise, nothing else moves money.
THEOREM ImplementsLedger == Spec => LedgerSpec
<1>1. RefineInv /\ [Next]_vars => RefineInv'
  BY NextRefineInv
<1>2. Init => RefineInv
  BY InitRefineInv
<1>. QED
  BY <1>1, <1>2, InitImplements, NextImplements, PTL DEF Spec, LedgerSpec, Ledger!Spec
----------------------------------------------------------------------------
(* The books balance: cash and what the open rows cost make up the initial *)
(* balance and what was realized.                                          *)

BasisOf == [s \in Symbols |-> cost_basis(db, s, size[s])]

RecordedOf == [s \in Symbols |-> RecordedPnl(db, s)]

LEMMA TotalsOf == OpenBasis = SumFunction(BasisOf) /\ Recorded = SumFunction(RecordedOf)
BY DEF OpenBasis, Recorded, BasisOf, RecordedOf

EntriesTyped == /\ BasisOf \in [Symbols -> Int] /\ RecordedOf \in [Symbols -> Int]
                /\ SumFunction(BasisOf) \in Int /\ SumFunction(RecordedOf) \in Int
                /\ db.cash \in Int

LEMMA EntriesInt == TypeOK => EntriesTyped
<1>. SUFFICES ASSUME TypeOK PROVE EntriesTyped
  OBVIOUS
<1>1. ASSUME NEW s \in Symbols
      PROVE  cost_basis(db, s, size[s]) \in Int /\ RecordedPnl(db, s) \in Int
  <2>1. db.positions[s] \in Position /\ db.trades[s] \in TradeTotals /\ size[s] \in Nat
    BY DEF TypeOK, Database
  <2>2. db.positions[s].cost * size[s] \in Nat
    BY <2>1, NatProduct DEF Position
  <2>. QED
    BY <2>1, <2>2 DEF Position, TradeTotals, cost_basis, RecordedPnl
<1>2. BasisOf \in [Symbols -> Int] /\ RecordedOf \in [Symbols -> Int]
  BY <1>1 DEF BasisOf, RecordedOf
<1>. QED
  BY <1>2, SumInt, SymbolsAssumption DEF TypeOK, Database, EntriesTyped

\* Inductive together with RefineInv: a step of the ledger moves both sides by
\* the same amount, or the right side by more when a cost is not known, and
\* costs once unknown stay unknown until the reset.
Balanced == Reconciled /\ RecordedIsUpperBound

FreshBooks == db.initial_balance = InitialBalance /\ Ledger!Empty

LEMMA EmptyBalances == FreshBooks => Balanced
<1>. SUFFICES ASSUME db.initial_balance = InitialBalance, Ledger!Empty PROVE Balanced
  BY DEF FreshBooks
<1>1. BasisOf = [s \in Symbols |-> 0] /\ RecordedOf = [s \in Symbols |-> 0]
  BY DEF Ledger!Empty, BasisOf, RecordedOf
<1>2. OpenBasis = 0 /\ Recorded = 0
  BY <1>1, TotalsOf, SumZero, SymbolsAssumption
<1>. QED
  BY <1>2, BrokerAssumption DEF Ledger!Empty, Balanced, Reconciled, RecordedIsUpperBound

\* A ledger step on one symbol moves each total by what it moves that entry.
LEMMA OneEntryMoves ==
    ASSUME TypeOK, TypeOK', NEW s \in Symbols, Ledger!OnlyTouches(s)
    PROVE  /\ OpenBasis' = OpenBasis + (BasisOf'[s] - BasisOf[s])
           /\ Recorded' = Recorded + (RecordedOf'[s] - RecordedOf[s])
<1>1. /\ BasisOf \in [Symbols -> Int] /\ RecordedOf \in [Symbols -> Int]
      /\ BasisOf' \in [Symbols -> Int] /\ RecordedOf' \in [Symbols -> Int]
  <2>1. EntriesTyped /\ EntriesTyped'
    BY EntriesInt, PTL
  <2>. QED
    BY <2>1 DEF EntriesTyped
<1>2. \A t \in Symbols \ {s} : BasisOf'[t] = BasisOf[t] /\ RecordedOf'[t] = RecordedOf[t]
  BY DEF Ledger!OnlyTouches, BasisOf, RecordedOf
<1>3. /\ SumFunction(BasisOf') = SumFunction(BasisOf) + (BasisOf'[s] - BasisOf[s])
      /\ SumFunction(RecordedOf') = SumFunction(RecordedOf) + (RecordedOf'[s] - RecordedOf[s])
  BY <1>1, <1>2, SumMoves, SymbolsAssumption
<1>4. OpenBasis' = SumFunction(BasisOf') /\ Recorded' = SumFunction(RecordedOf')
  BY DEF OpenBasis, Recorded, BasisOf, RecordedOf
<1>. QED
  BY <1>3, <1>4, TotalsOf

LEMMA NextBalances == RefineInv /\ Balanced /\ [Next]_vars => Balanced'
<1>. SUFFICES ASSUME RefineInv, Balanced, [Next]_vars PROVE Balanced'
  OBVIOUS
<1>1. RefineInv' /\ TypeOK /\ TypeOK'
  BY NextRefineInv DEF RefineInv, BrokerInv
<1>2. db.initial_balance = InitialBalance /\ db'.initial_balance = InitialBalance
  BY <1>1 DEF RefineInv
<1>3. [Ledger!Next]_(Ledger!vars)
  BY NextImplements
<1>4. /\ BasisOf \in [Symbols -> Int] /\ RecordedOf \in [Symbols -> Int]
      /\ OpenBasis \in Int /\ Recorded \in Int /\ db.cash \in Int
  BY <1>1, EntriesInt, TotalsOf DEF EntriesTyped
<1>5. /\ BasisOf' \in [Symbols -> Int] /\ RecordedOf' \in [Symbols -> Int]
      /\ db'.cash \in Int
  <2>1. EntriesTyped'
    BY <1>1, EntriesInt, PTL
  <2>. QED
    BY <2>1 DEF EntriesTyped
<1>6. ASSUME NEW s \in Symbols, Ledger!Invest(s) \/ Ledger!Realise(s)
      PROVE  Balanced'
  <2>. DEFINE b == BasisOf'[s] - BasisOf[s]
              r == RecordedOf'[s] - RecordedOf[s]
              m == db'.cash - db.cash
  <2>1. b \in Int /\ r \in Int /\ m \in Int
    BY <1>4, <1>5
  <2>2. Ledger!OnlyTouches(s)
    BY <1>6 DEF Ledger!Invest, Ledger!Realise
  <2>3. OpenBasis' = OpenBasis + b /\ Recorded' = Recorded + r
    BY <1>1, <2>2, OneEntryMoves
  <2>4. /\ BasisOf[s] = cost_basis(db, s, size[s])
        /\ BasisOf'[s] = cost_basis(db', s, size'[s])
        /\ RecordedOf[s] = RecordedPnl(db, s) /\ RecordedOf'[s] = RecordedPnl(db', s)
    BY DEF BasisOf, RecordedOf
  <2>5. m + b <= r /\ (costs_known(db') => m + b = r)
    <3>1. CASE Ledger!Invest(s)
      <4>1. r = 0 /\ m = - b
        BY <1>4, <1>5, <2>4, <3>1 DEF Ledger!Invest
      <4>. HIDE DEF b, r, m
      <4>. QED
        BY <2>1, <4>1
    <3>2. CASE Ledger!Realise(s)
      <4>. DEFINE e == m - (BasisOf[s] - BasisOf'[s])
      <4>1. r >= e /\ (costs_known(db') => r = e)
        BY <2>4, <3>2 DEF Ledger!Realise
      <4>2. e = m + b
        BY <1>4, <1>5
      <4>. QED
        BY <4>1, <4>2
    <3>. QED
      BY <1>6, <3>1, <3>2
  <2>6. costs_known(db') => costs_known(db)
    BY <2>2 DEF Ledger!OnlyTouches
  <2>7. db'.cash = db.cash + m
    BY <1>4, <1>5
  <2>. HIDE DEF b, r, m
  <2>8. /\ db.cash + OpenBasis <= InitialBalance + Recorded
        /\ costs_known(db) => db.cash + OpenBasis = InitialBalance + Recorded
    BY <1>2 DEF Balanced, Reconciled, RecordedIsUpperBound
  <2>9. /\ db'.cash + OpenBasis' <= InitialBalance + Recorded'
        /\ costs_known(db') => db'.cash + OpenBasis' = InitialBalance + Recorded'
    BY <1>4, <2>1, <2>3, <2>5, <2>6, <2>7, <2>8, BrokerAssumption
  <2>. QED
    BY <1>2, <2>9 DEF Balanced, Reconciled, RecordedIsUpperBound
<1>7. CASE Ledger!Reset
  <2>1. FreshBooks'
    BY <1>2, <1>7 DEF Ledger!Reset, FreshBooks
  <2>. QED
    BY <2>1, EmptyBalances, PTL
<1>8. CASE UNCHANGED Ledger!vars
  <2>1. /\ BasisOf' = BasisOf /\ RecordedOf' = RecordedOf
        /\ db'.cash = db.cash /\ costs_known(db') = costs_known(db)
    BY <1>8 DEF Ledger!vars, BasisOf, RecordedOf
  <2>2. OpenBasis' = OpenBasis /\ Recorded' = Recorded
    BY <2>1 DEF OpenBasis, Recorded, BasisOf, RecordedOf
  <2>. QED
    BY <1>2, <2>1, <2>2 DEF Balanced, Reconciled, RecordedIsUpperBound
<1>. QED
  BY <1>3, <1>6, <1>7, <1>8 DEF Ledger!Next

Books == RefineInv /\ Balanced

LEMMA InitBooks == Init => Books
BY InitRefineInv, InitImplements, EmptyBalances DEF Books, RefineInv, Ledger!Init, FreshBooks

LEMMA NextBooks == Books /\ [Next]_vars => Books'
BY NextRefineInv, NextBalances DEF Books

\* In every account history whose costs are all known, equity minus the
\* initial balance is realized plus unrealized: no purchase, partial exit,
\* settlement, rejection or reset creates or destroys money.
THEOREM BooksBalance == Spec => []Reconciled
<1>1. Books => Reconciled
  BY DEF Books, Balanced
<1>. QED
  BY <1>1, InitBooks, NextBooks, PTL DEF Spec

\* Whatever the fee settings were, the recorded profit is never below what was
\* really earned: an unknown cost can only make the report too good.
THEOREM ProfitIsUpperBound == Spec => []RecordedIsUpperBound
<1>1. Books => RecordedIsUpperBound
  BY DEF Books, Balanced
<1>. QED
  BY <1>1, InitBooks, NextBooks, PTL DEF Spec
=============================================================================
