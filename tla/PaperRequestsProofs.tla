------------------------ MODULE PaperRequestsProofs ------------------------
(***************************************************************************)
(* What holds of the paper-trading endpoints however their threads         *)
(* interleave, fail and crash, for any number of threads, symbols, prices  *)
(* and settings:                                                           *)
(*   every transaction is one image over the file it commits to, and the   *)
(*   rows of the account keep their types;                                 *)
(*   concurrent purchases never lose contracts or money;                   *)
(*   one stream of requests is serial: it is PaperBroker, whose theorems   *)
(*   it inherits.                                                          *)
(***************************************************************************)
EXTENDS PaperRequests, PaperBrokerProofs

Trading == {"buy", "sell", "settle"}
Closing == {"sell", "settle"}
Orders == {"buy", "sell"}

\* From the first write to the commit.
Writing == {"write_row", "write_trade", "save_order", "commit"}

Points == Writing \cup
          {"idle", "market", "check_row", "read_row", "check_cash", "read_cash", "write_cash",
           "reject", "write_reset", "snap_cash", "snap_rows", "snap_trades", "report", "respond"}

JobType == [pc : Points, kind : Trading \cup {"reset", "snapshot", "none"},
            symbol : Symbols \cup {"none"}, quantity : Nat, price : Nat, fees : FeeSchedule,
            day : Nat, row : Position, cash : Int, basis : Int, known : BOOLEAN,
            difference : Int]

----------------------------------------------------------------------------
(* What a transaction of job j has written over the file d, with the       *)
(* contract sizes z.                                                       *)

Due(j, z) == j.price * j.quantity * z[j.symbol]

Charge(j, z) == IF j.kind = "buy" THEN entry_cost(j.fees, Due(j, z))
                ELSE exit_cost(j.fees, Due(j, z))

NewCash(j, z) == IF j.kind = "buy" THEN j.cash - (Due(j, z) + Charge(j, z))
                 ELSE j.cash + (Due(j, z) - Charge(j, z))

NewRow(j, d, z) ==
    IF j.kind = "buy"
    THEN Kept(BoughtPosition(d.positions[j.symbol], j.quantity, j.price, Charge(j, z),
                             rates_known(j.fees)))
    ELSE IF j.kind = "sell" THEN Kept(RemainingPosition(j.row, j.quantity))
    ELSE NoPosition

NewClose(j, z) ==
    CloseOf(j.row, j.quantity, j.price, z[j.symbol], Charge(j, z), rates_known(j.fees),
            IF j.kind = "sell" THEN "manual" ELSE "expiry_settlement")

CashWritten(j, d, z) == update_cash(d, NewCash(j, z))

RowWritten(j, d, z) ==
    LET e == CashWritten(j, d, z)
    IN  CASE j.kind = "buy" ->
               upsert_position(e, j.symbol,
                   BoughtPosition(e.positions[j.symbol], j.quantity, j.price, Charge(j, z),
                                  rates_known(j.fees)))
          [] j.kind = "sell" ->
               upsert_position(e, j.symbol, RemainingPosition(j.row, j.quantity))
          [] j.kind = "settle" -> delete_position(e, j.symbol)

TradeWritten(j, d, z) == record_trade(RowWritten(j, d, z), j.symbol, NewClose(j, z))

OrderWritten(j, d, z) ==
    save_order(IF j.kind = "buy" THEN RowWritten(j, d, z) ELSE TradeWritten(j, d, z),
               j.symbol, IF j.kind = "buy" THEN j.quantity ELSE 0,
               IF j.kind = "sell" THEN j.quantity ELSE 0, Charge(j, z))

Image(j, d, z) ==
    CASE j.pc = "write_row" -> CashWritten(j, d, z)
      [] j.pc = "write_trade" -> RowWritten(j, d, z)
      [] j.pc = "save_order" /\ j.kind = "buy" -> RowWritten(j, d, z)
      [] j.pc = "save_order" /\ j.kind = "sell" -> TradeWritten(j, d, z)
      [] j.pc = "commit" /\ j.kind = "settle" -> TradeWritten(j, d, z)
      [] j.pc = "commit" /\ j.kind \in Orders -> OrderWritten(j, d, z)
      [] j.pc = "commit" /\ j.kind = "reset" -> FreshDatabase(d.initial_balance)

\* A job that has left "idle" was accepted by Start.
Accepts(j) == /\ j \in JobType /\ j.pc # "idle"
              /\ j.kind \in Kinds /\ j.symbol \in Symbols
              /\ j.fees \in FeeSchedules /\ j.day <= LastDay

LEMMA MoneyNat ==
    ASSUME NEW j, Accepts(j), NEW z \in [Symbols -> Nat \ {0}]
    PROVE  /\ Due(j, z) \in Nat /\ Charge(j, z) \in Nat /\ NewCash(j, z) \in Int
           /\ rates_known(j.fees) \in BOOLEAN /\ z[j.symbol] \in Nat
<1>1. /\ j.price \in Nat /\ j.quantity \in Nat /\ z[j.symbol] \in Nat /\ j.fees \in FeeSchedule
      /\ j.cash \in Int
  BY BrokerAssumption DEF Accepts, JobType
<1>2. Due(j, z) \in Nat
  <2>1. \A a, b, c \in Nat : a * b * c \in Nat
    OBVIOUS
  <2>. QED
    BY <1>1, <2>1 DEF Due
<1>3. Charge(j, z) \in Nat
  BY <1>1, <1>2, FeesNat DEF Charge
<1>4. rates_known(j.fees) \in BOOLEAN
  BY <1>1 DEF rates_known, is_zero, FeeSchedule
<1>. QED
  BY <1>1, <1>2, <1>3, <1>4 DEF NewCash

\* A stale row of fewer contracts than are sold leaves no row.
LEMMA RestFields ==
    ASSUME NEW d \in Database, NEW s \in Symbols, NEW row \in Position, NEW n \in Nat
    PROVE  /\ Kept(RemainingPosition(row, n)) \in Position
           /\ Holds(upsert_position(d, s, RemainingPosition(row, n)), d.cash, d.initial_balance,
                    [d.positions EXCEPT ![s] = Kept(RemainingPosition(row, n))],
                    d.trades, d.orders)
<1>. DEFINE rest == RemainingPosition(row, n)
<1>1. CASE n <= row.quantity
  <2>1. rest \in Position
    BY <1>1, RemainingPositionType
  <2>2. Kept(rest) \in Position
    BY <2>1, NoPositionType DEF Kept
  <2>. QED
    BY <2>1, <2>2, UpsertFields
<1>2. CASE ~(n <= row.quantity)
  <2>1. rest.quantity <= 0
    BY <1>2 DEF RemainingPosition, Position
  <2>2. NoPosition.quantity <= 0 /\ NoPosition \in Position
    BY NoPositionType DEF NoPosition
  <2>. HIDE DEF rest
  <2>3. upsert_position(d, s, rest) = upsert_position(d, s, NoPosition) /\ Kept(rest) = Kept(NoPosition)
    BY <2>1, <2>2 DEF upsert_position, Kept
  <2>4. Kept(NoPosition) = NoPosition
    BY DEF Kept
  <2>. QED
    BY <2>2, <2>3, <2>4, UpsertFields DEF rest
<1>3. n <= row.quantity \/ ~(n <= row.quantity)
  OBVIOUS
<1>. QED
  BY <1>1, <1>2, <1>3

LEMMA CashHolds ==
    ASSUME NEW j, Accepts(j), NEW d \in Database, NEW z \in [Symbols -> Nat \ {0}]
    PROVE  Holds(CashWritten(j, d, z), NewCash(j, z), d.initial_balance, d.positions, d.trades,
                 d.orders)
BY MoneyNat, UpdateCashFields DEF CashWritten

LEMMA RowHolds ==
    ASSUME NEW j, Accepts(j), j.kind \in Trading, NEW d \in Database,
           NEW z \in [Symbols -> Nat \ {0}]
    PROVE  /\ NewRow(j, d, z) \in Position
           /\ Holds(RowWritten(j, d, z), NewCash(j, z), d.initial_balance,
                    [d.positions EXCEPT ![j.symbol] = NewRow(j, d, z)], d.trades, d.orders)
<1>. DEFINE e == CashWritten(j, d, z)
            s == j.symbol
            bought == BoughtPosition(d.positions[s], j.quantity, j.price, Charge(j, z),
                                     rates_known(j.fees))
<1>1. /\ e \in Database /\ e.cash = NewCash(j, z) /\ e.initial_balance = d.initial_balance
      /\ e.positions = d.positions /\ e.trades = d.trades /\ e.orders = d.orders
  BY CashHolds DEF Holds
<1>2. /\ s \in Symbols /\ j.row \in Position /\ j.quantity \in Nat /\ j.price \in Nat
      /\ d.positions[s] \in Position
  BY DEF Accepts, JobType, Database
<1>3. /\ j.kind = "buy" => RowWritten(j, d, z) = upsert_position(e, s, bought)
      /\ j.kind = "sell" => RowWritten(j, d, z) = upsert_position(e, s, RemainingPosition(j.row, j.quantity))
      /\ j.kind = "settle" => RowWritten(j, d, z) = delete_position(e, s)
  BY <1>1 DEF RowWritten
<1>4. bought \in Position
  BY <1>2, MoneyNat, BoughtPositionType
<1>5. /\ j.kind = "buy" => NewRow(j, d, z) = Kept(bought)
      /\ j.kind = "sell" => NewRow(j, d, z) = Kept(RemainingPosition(j.row, j.quantity))
      /\ j.kind = "settle" => NewRow(j, d, z) = NoPosition
  BY DEF NewRow
<1>. HIDE DEF e, s, bought
<1>6. CASE j.kind = "buy"
  <2>1. Kept(bought) \in Position
    BY <1>4, NoPositionType DEF Kept
  <2>2. Holds(upsert_position(e, s, bought), e.cash, e.initial_balance,
              [e.positions EXCEPT ![s] = Kept(bought)], e.trades, e.orders)
    BY <1>1, <1>2, <1>4, UpsertFields
  <2>. QED
    BY <1>1, <1>3, <1>5, <1>6, <2>1, <2>2 DEF s
<1>7. CASE j.kind = "sell"
  <2>1. /\ Kept(RemainingPosition(j.row, j.quantity)) \in Position
        /\ Holds(upsert_position(e, s, RemainingPosition(j.row, j.quantity)), e.cash,
                 e.initial_balance,
                 [e.positions EXCEPT ![s] = Kept(RemainingPosition(j.row, j.quantity))],
                 e.trades, e.orders)
    BY <1>1, <1>2, RestFields
  <2>. QED
    BY <1>1, <1>3, <1>5, <1>7, <2>1 DEF s
<1>8. CASE j.kind = "settle"
  <2>1. Holds(delete_position(e, s), e.cash, e.initial_balance,
              [e.positions EXCEPT ![s] = NoPosition], e.trades, e.orders)
    BY <1>1, <1>2, DeleteFields
  <2>. QED
    BY <1>1, <1>3, <1>5, <1>8, <2>1, NoPositionType DEF s
<1>. QED
  BY <1>6, <1>7, <1>8 DEF Trading

LEMMA TradeHolds ==
    ASSUME NEW j, Accepts(j), j.kind \in Closing, NEW d \in Database,
           NEW z \in [Symbols -> Nat \ {0}]
    PROVE  Holds(TradeWritten(j, d, z), NewCash(j, z), d.initial_balance,
                 [d.positions EXCEPT ![j.symbol] = NewRow(j, d, z)],
                 [d.trades EXCEPT ![j.symbol] = WithClose(d.trades[j.symbol], NewClose(j, z))],
                 d.orders)
<1>. DEFINE e == RowWritten(j, d, z)
            c == NewClose(j, z)
<1>1. Holds(e, NewCash(j, z), d.initial_balance,
            [d.positions EXCEPT ![j.symbol] = NewRow(j, d, z)], d.trades, d.orders)
  BY RowHolds DEF Trading, Closing
<1>2. /\ j.symbol \in Symbols /\ j.row \in Position /\ j.quantity \in Nat /\ j.price \in Nat
      /\ (IF j.kind = "sell" THEN "manual" ELSE "expiry_settlement")
            \in {"manual", "expiry_settlement"}
  BY DEF Accepts, JobType
<1>3. c \in Close
  BY <1>2, MoneyNat, CloseType DEF NewClose
<1>. HIDE DEF e, c
<1>4. Holds(record_trade(e, j.symbol, c), e.cash, e.initial_balance, e.positions,
            [e.trades EXCEPT ![j.symbol] = WithClose(e.trades[j.symbol], c)], e.orders)
  BY <1>1, <1>2, <1>3, RecordTradeFields DEF Holds
<1>. QED
  BY <1>1, <1>4 DEF Holds, TradeWritten, e, c

LEMMA OrderHolds ==
    ASSUME NEW j, Accepts(j), j.kind \in Orders, NEW d \in Database,
           NEW z \in [Symbols -> Nat \ {0}]
    PROVE  Holds(OrderWritten(j, d, z), NewCash(j, z), d.initial_balance,
                 [d.positions EXCEPT ![j.symbol] = NewRow(j, d, z)],
                 IF j.kind = "buy" THEN d.trades
                 ELSE [d.trades EXCEPT ![j.symbol] =
                          WithClose(d.trades[j.symbol], NewClose(j, z))],
                 [d.orders EXCEPT ![j.symbol] =
                    WithOrder(d.orders[j.symbol], IF j.kind = "buy" THEN j.quantity ELSE 0,
                              IF j.kind = "sell" THEN j.quantity ELSE 0, Charge(j, z))])
<1>. DEFINE e == IF j.kind = "buy" THEN RowWritten(j, d, z) ELSE TradeWritten(j, d, z)
            bought == IF j.kind = "buy" THEN j.quantity ELSE 0
            sold == IF j.kind = "sell" THEN j.quantity ELSE 0
            t == IF j.kind = "buy" THEN d.trades
                 ELSE [d.trades EXCEPT ![j.symbol] =
                          WithClose(d.trades[j.symbol], NewClose(j, z))]
<1>1. Holds(e, NewCash(j, z), d.initial_balance,
            [d.positions EXCEPT ![j.symbol] = NewRow(j, d, z)], t, d.orders)
  BY RowHolds, TradeHolds DEF Trading, Closing, Orders
<1>2. j.symbol \in Symbols /\ bought \in Nat /\ sold \in Nat /\ Charge(j, z) \in Nat
  BY MoneyNat DEF Accepts, JobType
<1>3. OrderWritten(j, d, z) = save_order(e, j.symbol, bought, sold, Charge(j, z))
  BY DEF OrderWritten
<1>. HIDE DEF e, bought, sold, t
<1>4. Holds(OrderWritten(j, d, z), e.cash, e.initial_balance, e.positions, e.trades,
            [e.orders EXCEPT ![j.symbol] =
                WithOrder(e.orders[j.symbol], bought, sold, Charge(j, z))])
  <2>1. e \in Database
    BY <1>1 DEF Holds
  <2>2. ASSUME NEW x \in Symbols, NEW c \in Nat
        PROVE  Holds(save_order(e, x, bought, sold, c), e.cash, e.initial_balance, e.positions,
                     e.trades, [e.orders EXCEPT ![x] = WithOrder(e.orders[x], bought, sold, c)])
    BY <1>2, <2>1, SaveOrderFields
  <2>. QED
    BY <1>2, <1>3, <2>2, Zenon
<1>. QED
  BY <1>1, <1>4 DEF Holds, bought, sold, t

----------------------------------------------------------------------------
(* Threads and the write lock *)

\* The kinds of request that come to a point.
At(j) ==
    /\ j.pc \in {"market", "read_cash", "write_cash", "write_row"} => j.kind \in Trading
    /\ j.pc = "check_cash" => j.kind = "buy"
    /\ j.pc = "check_row" => j.kind = "sell"
    /\ j.pc \in {"read_row", "write_trade"} => j.kind \in Closing
    /\ j.pc \in {"reject", "save_order"} => j.kind \in Orders
    /\ j.pc = "write_reset" => j.kind = "reset"
    /\ j.pc = "commit" => j.kind \in Trading \cup {"reset"}
    /\ j.pc \in {"snap_cash", "snap_rows", "snap_trades", "report"} => j.kind = "snapshot"

\* Only the holder of the write lock is between its first write and its
\* commit, and what it sees is its image over the file as it is now: nobody
\* else has written since it took the lock.
Threads ==
    /\ TypeOK /\ pending \in Database
    /\ job \in [Workers -> JobType]
    /\ lock \in Workers \cup {NoWorker}
    /\ lock = NoWorker => pending = db
    /\ \A w \in Workers : job[w].pc # "idle" => Accepts(job[w]) /\ At(job[w])
    /\ \A w \in Workers : lock = w <=> job[w].pc \in Writing
    /\ \A w \in Workers : job[w].pc \in Writing => pending = Image(job[w], db, size)

LEMMA IdleType == Idle \in JobType /\ Idle.pc = "idle"
<1>1. Unset \in FeeSchedule
  BY DEF Unset, FeeSchedule
<1>. QED
  BY <1>1, NoPositionType DEF Idle, JobType, Points, Writing, Trading

\* A step of one thread, which writes to the file or to its image of it only
\* while nobody else holds the lock.
LEMMA OneThread ==
    ASSUME Threads, NEW w \in Workers, NEW j \in JobType, job' = [job EXCEPT ![w] = j],
           j.pc # "idle" => Accepts(j) /\ At(j),
           UNCHANGED Market, db' \in Database, pending' \in Database,
           lock' = IF j.pc \in Writing THEN w ELSE IF lock = w THEN NoWorker ELSE lock,
           j.pc \in Writing => lock \in {NoWorker, w} /\ pending' = Image(j, db', size),
           lock' = NoWorker => pending' = db',
           UNCHANGED <<db, pending>> \/ lock \in {NoWorker, w}
    PROVE  Threads'
<1>1. /\ job \in [Workers -> JobType] /\ job' \in [Workers -> JobType]
      /\ job'[w] = j /\ \A v \in Workers \ {w} : job'[v] = job[v]
  BY DEF Threads
<1>2. TypeOK' /\ size' = size
  BY DEF Threads, TypeOK, Market
<1>3. lock' \in Workers \cup {NoWorker} /\ NoWorker \notin Workers
  BY RequestsAssumption DEF Threads
<1>4. \A v \in Workers : job'[v].pc # "idle" => Accepts(job'[v]) /\ At(job'[v])
  BY <1>1 DEF Threads
<1>5. \A v \in Workers : lock' = v <=> job'[v].pc \in Writing
  BY <1>1, <1>3 DEF Threads
<1>6. ASSUME NEW v \in Workers, job'[v].pc \in Writing
      PROVE  pending' = Image(job'[v], db', size')
  <2>1. CASE v = w
    BY <1>1, <1>2, <1>6, <2>1
  <2>2. CASE v # w
    <3>1. job'[v] = job[v] /\ lock = v
      BY <1>1, <1>6, <2>2 DEF Threads
    <3>2. UNCHANGED <<db, pending>>
      BY <1>3, <2>2, <3>1
    <3>. QED
      BY <1>2, <1>6, <3>1, <3>2 DEF Threads
  <2>. QED
    BY <2>1, <2>2
<1>. QED
  BY <1>1, <1>2, <1>3, <1>4, <1>5, <1>6 DEF Threads

\* A read, or a step of the thread that is not in a transaction.
LEMMA QuietThread ==
    ASSUME Threads, NEW w \in Workers, NEW j \in JobType, job' = [job EXCEPT ![w] = j],
           j.pc # "idle" => Accepts(j) /\ At(j), Quiet,
           job[w].pc \notin Writing, j.pc \notin Writing
    PROVE  Threads'
<1>1. /\ UNCHANGED Market /\ UNCHANGED <<db, pending>> /\ lock' = lock /\ lock # w
      /\ db' \in Database /\ pending' \in Database /\ (lock' = NoWorker => pending' = db')
  BY DEF Threads, Quiet, Market, TypeOK
<1>2. lock' = IF j.pc \in Writing THEN w ELSE IF lock = w THEN NoWorker ELSE lock
  BY <1>1
<1>. QED
  BY <1>1, <1>2, OneThread

\* A served job that goes to another point for the same request.
Moves(j, k) ==
    /\ k \in JobType /\ k.pc # "idle" /\ k.kind = j.kind /\ k.symbol = j.symbol /\ k.fees = j.fees
    /\ k.day <= LastDay /\ At(k)

LEMMA MovedAccepted ==
    ASSUME NEW j, NEW k, Accepts(j), Moves(j, k)
    PROVE  Accepts(k)
BY DEF Accepts, Moves

\* The fields of a job and of the file a step may use.
LEMMA JobFields ==
    ASSUME Threads, NEW w \in Workers, job[w].pc # "idle"
    PROVE  /\ job[w] \in JobType /\ Accepts(job[w]) /\ At(job[w])
           /\ today \in Nat /\ today <= LastDay /\ db.cash \in Int
           /\ job[w].kind \in Trading \cup {"reset", "snapshot"}
           /\ db.positions[job[w].symbol] \in Position
           /\ size \in [Symbols -> Nat \ {0}] /\ db \in Database
<1>1. Accepts(job[w]) /\ At(job[w]) /\ job[w] \in JobType
  BY DEF Threads
<1>2. job[w].kind \in Trading \cup {"reset", "snapshot"}
  BY <1>1, RequestsAssumption DEF Accepts, Trading
<1>3. db \in Database /\ size \in [Symbols -> Nat \ {0}] /\ today \in Nat /\ today <= LastDay
  BY BrokerAssumption DEF Threads, TypeOK
<1>. QED
  BY <1>1, <1>2, <1>3 DEF Accepts, Database

LEMMA StartThreads == ASSUME Threads, NEW w \in Workers, Start(w) PROVE Threads'
<1>1. PICK kind \in Kinds, s \in Symbols, q \in Quantities \ {0} :
        job' = [job EXCEPT ![w] = [Idle EXCEPT !.pc = Entry(kind), !.kind = kind, !.symbol = s,
                                               !.quantity = q, !.fees = fees, !.day = today]]
  BY DEF Start
<1>. DEFINE j == [Idle EXCEPT !.pc = Entry(kind), !.kind = kind, !.symbol = s,
                              !.quantity = q, !.fees = fees, !.day = today]
<1>2. kind \in Trading \cup {"reset", "snapshot"}
  BY RequestsAssumption DEF Trading
<1>3. Entry(kind) \in Points \ (Writing \cup {"idle"})
  BY <1>2 DEF Entry, Points, Writing, Trading
<1>4. q \in Nat /\ fees \in FeeSchedules /\ fees \in FeeSchedule /\ today \in Nat /\ today <= LastDay
  BY Inputs, BrokerAssumption DEF Threads, TypeOK
<1>5. /\ j \in JobType
      /\ j.pc = Entry(kind) /\ j.kind = kind /\ j.symbol = s /\ j.fees = fees /\ j.day = today
  BY <1>2, <1>3, <1>4, IdleType DEF JobType
<1>6. At(j)
  BY <1>2, <1>5 DEF At, Entry, Trading, Closing, Orders
<1>7. Quiet /\ job[w].pc \notin Writing
  BY DEF Start, Quiet, Writing
<1>8. job' = [job EXCEPT ![w] = j]
  BY <1>1
<1>. HIDE DEF j
<1>9. Accepts(j)
  BY <1>3, <1>4, <1>5 DEF Accepts
<1>. QED
  BY <1>3, <1>5, <1>6, <1>7, <1>8, <1>9, QuietThread

LEMMA ReadThreads ==
    ASSUME Threads, NEW w \in Workers,
           \/ CheckRow(w) \/ QuoteOrder(w) \/ QuoteSettlement(w) \/ CheckCash(w) \/ ReadRow(w)
           \/ ReadCash(w) \/ SnapCash(w) \/ SnapRows(w) \/ SnapTrades(w) \/ Respond(w)
    PROVE  Threads'
<1>1. /\ Quiet /\ job[w].pc # "idle" /\ job[w].pc \notin Writing
  BY DEF CheckRow, QuoteOrder, QuoteSettlement, CheckCash, ReadRow, ReadCash, SnapCash, SnapRows,
         SnapTrades, Respond, Writing
<1>2. /\ job[w] \in JobType /\ Accepts(job[w]) /\ At(job[w]) /\ job \in [Workers -> JobType]
      /\ today \in Nat /\ today <= LastDay /\ db.cash \in Int
      /\ job[w].kind \in Trading \cup {"reset", "snapshot"}
      /\ db.positions[job[w].symbol] \in Position
  BY <1>1, JobFields DEF Threads
\* The request goes on, or ends.
<1>3. ASSUME NEW k, job' = [job EXCEPT ![w] = k], Moves(job[w], k), k.pc \notin Writing
      PROVE  Threads'
  BY <1>1, <1>2, <1>3, MovedAccepted, QuietThread DEF Moves
<1>4. ASSUME job' = [job EXCEPT ![w] = Idle] PROVE Threads'
  BY <1>1, <1>4, IdleType, QuietThread DEF Writing
<1>5. CASE CheckRow(w) \/ CheckCash(w)
  <2>1. PICK x \in {"reject", "market", "read_cash"} :
          job' = [job EXCEPT ![w].pc = x] /\ (x = "market" => job[w].pc = "check_row")
    BY <1>5 DEF CheckRow, CheckCash, Goto
  <2>. DEFINE k == [job[w] EXCEPT !.pc = x]
  <2>2. job' = [job EXCEPT ![w] = k]
    BY <1>2, <2>1
  <2>3. job[w].kind \in Orders
    BY <1>2, <1>5 DEF CheckRow, CheckCash, At, Orders
  <2>4. /\ k \in JobType /\ k.pc = x /\ k.kind = job[w].kind /\ k.symbol = job[w].symbol
        /\ k.fees = job[w].fees /\ k.day = job[w].day
    BY <1>2 DEF JobType, Points
  <2>. HIDE DEF k
  <2>5. At(k) /\ k.pc \notin Writing /\ k.pc # "idle"
    BY <2>3, <2>4 DEF At, Orders, Trading, Closing, Writing
  <2>. QED
    BY <1>2, <1>3, <2>2, <2>4, <2>5 DEF Moves, Accepts
<1>6. CASE QuoteOrder(w)
  <2>1. CASE job' = [job EXCEPT ![w].pc = "reject", ![w].day = today]
    <3>. DEFINE k == [job[w] EXCEPT !.pc = "reject", !.day = today]
    <3>1. job' = [job EXCEPT ![w] = k]
      BY <1>2, <2>1
    <3>2. /\ k \in JobType /\ k.pc = "reject" /\ k.kind = job[w].kind /\ k.symbol = job[w].symbol
          /\ k.fees = job[w].fees /\ k.day = today
      BY <1>2 DEF JobType, Points
    <3>. HIDE DEF k
    <3>3. At(k) /\ k.pc \notin Writing
      BY <1>6, <3>2 DEF QuoteOrder, At, Orders, Writing
    <3>. QED
      BY <1>2, <1>3, <3>1, <3>2, <3>3 DEF Moves
  <2>2. CASE ~(job' = [job EXCEPT ![w].pc = "reject", ![w].day = today])
    <3>1. PICK fill \in Fills(job[w].quantity) :
            job' = [job EXCEPT ![w].pc = IF job[w].kind = "buy" THEN "check_cash" ELSE "read_row",
                               ![w].quantity = fill.filled, ![w].price = fill.price,
                               ![w].day = today]
      BY <1>6, <2>2 DEF QuoteOrder
    <3>. DEFINE x == IF job[w].kind = "buy" THEN "check_cash" ELSE "read_row"
                k == [job[w] EXCEPT !.pc = x, !.quantity = fill.filled, !.price = fill.price,
                                    !.day = today]
    <3>2. job' = [job EXCEPT ![w] = k]
      BY <1>2, <3>1
    <3>3. fill.filled \in Nat /\ fill.price \in Nat /\ x \in Points
      <4>1. job[w].quantity \in Nat
        BY <1>2 DEF JobType
      <4>2. fill.filled \in 0 .. job[w].quantity /\ fill.price \in Prices
        BY DEF Fills
      <4>3. x \in Points
        BY DEF Points
      <4>. QED
        BY <4>1, <4>2, <4>3, Inputs
    <3>4. x \in {"check_cash", "read_row"} /\ (x = "check_cash" <=> job[w].kind = "buy")
      OBVIOUS
    <3>. HIDE DEF x
    <3>5. /\ k \in JobType /\ k.pc = x /\ k.kind = job[w].kind /\ k.symbol = job[w].symbol
          /\ k.fees = job[w].fees /\ k.day = today
      BY <1>2, <3>3 DEF JobType
    <3>. HIDE DEF k
    <3>6. At(k) /\ k.pc \notin Writing /\ k.pc # "idle"
      BY <1>6, <3>4, <3>5 DEF QuoteOrder, At, Closing, Writing
    <3>. QED
      BY <1>2, <1>3, <3>2, <3>5, <3>6 DEF Moves
  <2>. QED
    BY <2>1, <2>2
<1>7. CASE QuoteSettlement(w)
  <2>1. CASE job' = [job EXCEPT ![w] = Idle]
    BY <1>4, <2>1
  <2>2. CASE ~(job' = [job EXCEPT ![w] = Idle])
    <3>1. PICK price \in SettlePrices :
            /\ price >= 0
            /\ job' = [job EXCEPT ![w].pc = "read_cash", ![w].price = price,
                                  ![w].quantity = job[w].row.quantity, ![w].day = today]
      BY <1>7, <2>2 DEF QuoteSettlement
    <3>. DEFINE k == [job[w] EXCEPT !.pc = "read_cash", !.price = price,
                                    !.quantity = job[w].row.quantity, !.day = today]
    <3>2. job' = [job EXCEPT ![w] = k]
      BY <1>2, <3>1
    <3>3. price \in Nat /\ job[w].row.quantity \in Nat /\ "read_cash" \in Points
      BY <1>2, <3>1, BrokerAssumption DEF JobType, Position, Points
    <3>4. /\ k \in JobType /\ k.pc = "read_cash" /\ k.kind = job[w].kind
          /\ k.symbol = job[w].symbol /\ k.fees = job[w].fees /\ k.day = today
      BY <1>2, <3>3 DEF JobType
    <3>. HIDE DEF k
    <3>5. At(k) /\ k.pc \notin Writing
      BY <1>7, <3>4 DEF QuoteSettlement, At, Trading, Writing
    <3>. QED
      BY <1>2, <1>3, <3>2, <3>4, <3>5 DEF Moves
  <2>. QED
    BY <2>1, <2>2
<1>8. CASE ReadRow(w)
  <2>. DEFINE row == db.positions[job[w].symbol]
              x == IF job[w].kind = "sell" THEN "read_cash" ELSE "market"
              k == [job[w] EXCEPT !.row = row, !.pc = x]
  <2>1. \/ job' = [job EXCEPT ![w] = Idle]
        \/ job' = [job EXCEPT ![w] = k]
    BY <1>2, <1>8 DEF ReadRow
  <2>2. x \in {"read_cash", "market"} /\ x \in Points
    BY DEF Points
  <2>. HIDE DEF row, x
  <2>3. /\ k \in JobType /\ k.pc = x /\ k.kind = job[w].kind /\ k.symbol = job[w].symbol
        /\ k.fees = job[w].fees /\ k.day = job[w].day
    BY <1>2, <2>2 DEF JobType, row
  <2>. HIDE DEF k
  <2>4. At(k) /\ k.pc \notin Writing /\ k.pc # "idle"
    BY <1>2, <1>8, <2>2, <2>3 DEF ReadRow, At, Trading, Closing, Writing
  <2>. QED
    BY <1>2, <1>3, <1>4, <2>1, <2>3, <2>4 DEF Moves, Accepts
<1>9. CASE ReadCash(w) \/ SnapCash(w)
  <2>1. PICK x \in {"write_cash", "snap_rows"} :
          /\ job' = [job EXCEPT ![w].cash = db.cash, ![w].pc = x]
          /\ x = "write_cash" <=> job[w].pc = "read_cash"
          /\ job[w].pc \in {"read_cash", "snap_cash"}
    BY <1>9 DEF ReadCash, SnapCash
  <2>. DEFINE k == [job[w] EXCEPT !.cash = db.cash, !.pc = x]
  <2>2. job' = [job EXCEPT ![w] = k]
    BY <1>2, <2>1
  <2>3. /\ k \in JobType /\ k.pc = x /\ k.kind = job[w].kind /\ k.symbol = job[w].symbol
        /\ k.fees = job[w].fees /\ k.day = job[w].day
    BY <1>2 DEF JobType, Points
  <2>. HIDE DEF k
  <2>4. At(k) /\ k.pc \notin Writing /\ k.pc # "idle"
    BY <1>2, <2>1, <2>3 DEF At, Trading, Writing
  <2>. QED
    BY <1>2, <1>3, <2>2, <2>3, <2>4 DEF Moves, Accepts
<1>10. CASE SnapRows(w)
  <2>. DEFINE all == \A s \in Symbols : db.positions[s].entry_fees_known
              k == [job[w] EXCEPT !.basis = OpenBasis, !.known = all, !.pc = "snap_trades"]
  <2>1. job' = [job EXCEPT ![w] = k]
    BY <1>2, <1>10 DEF SnapRows
  <2>2. OpenBasis \in Int /\ all \in BOOLEAN
    BY EntriesInt, TotalsOf DEF EntriesTyped, Threads
  <2>. HIDE DEF all
  <2>3. /\ k \in JobType /\ k.pc = "snap_trades" /\ k.kind = job[w].kind
        /\ k.symbol = job[w].symbol /\ k.fees = job[w].fees /\ k.day = job[w].day
    BY <1>2, <2>2 DEF JobType, Points
  <2>. HIDE DEF k
  <2>4. At(k) /\ k.pc \notin Writing
    BY <1>2, <1>10, <2>3 DEF SnapRows, At, Writing
  <2>. QED
    BY <1>2, <1>3, <2>1, <2>3, <2>4 DEF Moves, Accepts
<1>11. CASE SnapTrades(w)
  <2>. DEFINE all == /\ job[w].known
                     /\ \A s \in Symbols : /\ db.trades[s].missing_entry = 0
                                           /\ db.trades[s].missing_exit = 0
              d == job[w].cash + job[w].basis - db.initial_balance - Recorded
              k == [job[w] EXCEPT !.known = all, !.difference = d, !.pc = "report"]
  <2>1. job' = [job EXCEPT ![w] = k]
    BY <1>2, <1>11 DEF SnapTrades, ReportOf
  <2>2. Recorded \in Int /\ all \in BOOLEAN /\ db.initial_balance \in Int
    BY EntriesInt, TotalsOf DEF EntriesTyped, Threads, TypeOK, Database
  <2>3. d \in Int
    BY <1>2, <2>2 DEF JobType
  <2>. HIDE DEF all, d
  <2>4. /\ k \in JobType /\ k.pc = "report" /\ k.kind = job[w].kind
        /\ k.symbol = job[w].symbol /\ k.fees = job[w].fees /\ k.day = job[w].day
    BY <1>2, <2>2, <2>3 DEF JobType, Points
  <2>. HIDE DEF k
  <2>5. At(k) /\ k.pc \notin Writing
    BY <1>2, <1>11, <2>4 DEF SnapTrades, ReportOf, At, Writing
  <2>. QED
    BY <1>2, <1>3, <2>1, <2>4, <2>5 DEF Moves, Accepts
<1>12. CASE Respond(w)
  BY <1>4, <1>12 DEF Respond
<1>. QED
  BY <1>5, <1>6, <1>7, <1>8, <1>9, <1>10, <1>11, <1>12

\* The statements read every field of the job but the point it is at.
LEMMA OtherPoint ==
    ASSUME NEW j \in JobType, NEW x, NEW k, k = [j EXCEPT !.pc = x], NEW d, NEW z
    PROVE  /\ Due(k, z) = Due(j, z) /\ Charge(k, z) = Charge(j, z)
           /\ CashWritten(k, d, z) = CashWritten(j, d, z)
           /\ RowWritten(k, d, z) = RowWritten(j, d, z)
           /\ TradeWritten(k, d, z) = TradeWritten(j, d, z)
           /\ OrderWritten(k, d, z) = OrderWritten(j, d, z)
<1>1. /\ k.kind = j.kind /\ k.symbol = j.symbol /\ k.quantity = j.quantity /\ k.price = j.price
      /\ k.fees = j.fees /\ k.cash = j.cash /\ k.row = j.row
  BY DEF JobType
<1>2. Due(k, z) = Due(j, z)
  BY <1>1 DEF Due
<1>3. Charge(k, z) = Charge(j, z)
  BY <1>1, <1>2 DEF Charge
<1>4. CashWritten(k, d, z) = CashWritten(j, d, z)
  BY <1>1, <1>2, <1>3 DEF CashWritten, NewCash
<1>5. RowWritten(k, d, z) = RowWritten(j, d, z)
  BY <1>1, <1>3, <1>4 DEF RowWritten
<1>6. TradeWritten(k, d, z) = TradeWritten(j, d, z)
  BY <1>1, <1>3, <1>5 DEF TradeWritten, NewClose
<1>7. OrderWritten(k, d, z) = OrderWritten(j, d, z)
  BY <1>1, <1>3, <1>5, <1>6 DEF OrderWritten
<1>. QED
  BY <1>2, <1>3, <1>4, <1>5, <1>6, <1>7

\* The image at each point of a transaction.
LEMMA ImageIs ==
    ASSUME NEW j, At(j), NEW d, NEW z
    PROVE  /\ j.pc = "write_row" => Image(j, d, z) = CashWritten(j, d, z)
           /\ j.pc = "write_trade" => Image(j, d, z) = RowWritten(j, d, z)
           /\ j.pc = "save_order" => Image(j, d, z) = IF j.kind = "buy" THEN RowWritten(j, d, z)
                                                      ELSE TradeWritten(j, d, z)
           /\ j.pc = "commit" =>
                /\ j.kind \in Orders => Image(j, d, z) = OrderWritten(j, d, z)
                /\ j.kind = "settle" => Image(j, d, z) = TradeWritten(j, d, z)
                /\ j.kind = "reset" => Image(j, d, z) = FreshDatabase(d.initial_balance)
<1>1. j.pc = "write_row" => Image(j, d, z) = CashWritten(j, d, z)
  BY DEF Image
<1>2. j.pc = "write_trade" => Image(j, d, z) = RowWritten(j, d, z)
  BY DEF Image
<1>3. ASSUME j.pc = "save_order"
      PROVE  Image(j, d, z) = IF j.kind = "buy" THEN RowWritten(j, d, z) ELSE TradeWritten(j, d, z)
  <2>1. j.kind = "buy" \/ j.kind = "sell"
    BY <1>3 DEF At, Orders
  <2>2. CASE j.kind = "buy"
    BY <1>3, <2>2 DEF Image
  <2>3. CASE j.kind = "sell"
    BY <1>3, <2>3 DEF Image
  <2>. QED
    BY <2>1, <2>2, <2>3
<1>4. ASSUME j.pc = "commit"
      PROVE  /\ j.kind \in Orders => Image(j, d, z) = OrderWritten(j, d, z)
             /\ j.kind = "settle" => Image(j, d, z) = TradeWritten(j, d, z)
             /\ j.kind = "reset" => Image(j, d, z) = FreshDatabase(d.initial_balance)
  BY <1>4 DEF Image, Orders
<1>. QED
  BY <1>1, <1>2, <1>3, <1>4

LEMMA WrittenTypes ==
    ASSUME NEW j, Accepts(j), j.kind \in Trading, NEW d \in Database,
           NEW z \in [Symbols -> Nat \ {0}]
    PROVE  /\ RowWritten(j, d, z) \in Database
           /\ j.kind \in Closing => TradeWritten(j, d, z) \in Database
           /\ j.kind \in Orders => OrderWritten(j, d, z) \in Database
<1>1. RowWritten(j, d, z) \in Database
  <2>1. Holds(RowWritten(j, d, z), NewCash(j, z), d.initial_balance,
              [d.positions EXCEPT ![j.symbol] = NewRow(j, d, z)], d.trades, d.orders)
    BY RowHolds
  <2>. QED
    BY <2>1 DEF Holds
<1>2. ASSUME j.kind \in Closing PROVE TradeWritten(j, d, z) \in Database
  <2>1. Holds(TradeWritten(j, d, z), NewCash(j, z), d.initial_balance,
              [d.positions EXCEPT ![j.symbol] = NewRow(j, d, z)],
              [d.trades EXCEPT ![j.symbol] = WithClose(d.trades[j.symbol], NewClose(j, z))],
              d.orders)
    BY <1>2, TradeHolds
  <2>. QED
    BY <2>1 DEF Holds
<1>3. ASSUME j.kind \in Orders PROVE OrderWritten(j, d, z) \in Database
  BY <1>3, OrderHolds DEF Holds
<1>. QED
  BY <1>1, <1>2, <1>3

LEMMA ImageType ==
    ASSUME NEW j, Accepts(j), At(j), j.pc \in Writing, NEW d \in Database,
           NEW z \in [Symbols -> Nat \ {0}]
    PROVE  Image(j, d, z) \in Database
<1>1. CASE j.pc = "write_row"
  BY <1>1, ImageIs, CashHolds DEF Holds
<1>2. CASE j.pc = "write_trade"
  <2>1. j.kind \in Trading
    BY <1>2 DEF At, Closing, Trading
  <2>2. Image(j, d, z) = RowWritten(j, d, z)
    BY <1>2, ImageIs
  <2>. QED
    BY <2>1, <2>2, WrittenTypes
<1>3. CASE j.pc = "save_order"
  <2>1. j.kind = "buy" \/ j.kind = "sell"
    BY <1>3 DEF At, Orders
  <2>2. CASE j.kind = "buy"
    <3>1. Image(j, d, z) = RowWritten(j, d, z) /\ j.kind \in Trading
      BY <1>3, <2>2, ImageIs DEF Trading
    <3>. QED
      BY <3>1, WrittenTypes DEF Closing, Trading
  <2>3. CASE j.kind = "sell"
    <3>1. Image(j, d, z) = TradeWritten(j, d, z) /\ j.kind \in Closing
      BY <1>3, <2>3, ImageIs DEF Closing
    <3>. QED
      BY <3>1, WrittenTypes DEF Closing, Trading
  <2>. QED
    BY <2>1, <2>2, <2>3
<1>4. CASE j.pc = "commit"
  <2>1. j.kind \in Orders \/ j.kind = "settle" \/ j.kind = "reset"
    BY <1>4 DEF At, Orders, Trading
  <2>2. CASE j.kind \in Orders
    <3>1. Image(j, d, z) = OrderWritten(j, d, z)
      BY <1>4, <2>2, ImageIs
    <3>. QED
      BY <2>2, <3>1, WrittenTypes DEF Orders, Trading
  <2>3. CASE j.kind = "settle"
    <3>1. Image(j, d, z) = TradeWritten(j, d, z) /\ j.kind \in Closing
      BY <1>4, <2>3, ImageIs DEF Closing
    <3>. QED
      BY <3>1, WrittenTypes DEF Closing, Trading
  <2>4. CASE j.kind = "reset"
    <3>1. Image(j, d, z) = FreshDatabase(d.initial_balance)
      BY <1>4, <2>4, ImageIs
    <3>. QED
      BY <3>1, FreshType DEF Database
  <2>. QED
    BY <2>1, <2>2, <2>3, <2>4
<1>. QED
  BY <1>1, <1>2, <1>3, <1>4 DEF Writing

LEMMA WriteThreads ==
    ASSUME Threads, NEW w \in Workers,
           WriteCash(w) \/ WriteRow(w) \/ WriteTrade(w) \/ SaveOrder(w) \/ WriteReset(w)
    PROVE  Threads'
<1>. DEFINE j == job[w]
<1>1. j.pc # "idle"
  BY DEF WriteCash, WriteRow, WriteTrade, SaveOrder, WriteReset
<1>2. /\ j \in JobType /\ Accepts(j) /\ At(j) /\ job \in [Workers -> JobType]
      /\ size \in [Symbols -> Nat \ {0}] /\ db \in Database
  BY <1>1, JobFields DEF Threads
<1>3. JobNotional(w) = Due(j, size) /\ JobFee(w) = Charge(j, size)
  BY DEF JobNotional, JobFee, Due, Charge
\* A statement leaves the image of the next point.
<1>4. ASSUME NEW x \in Writing, job' = [job EXCEPT ![w].pc = x], At([j EXCEPT !.pc = x]),
             lock \in {NoWorker, w}, lock' = w, UNCHANGED <<db, fees, size, today>>,
             pending' = Image([j EXCEPT !.pc = x], db, size)
      PROVE  Threads'
  <2>. DEFINE k == [j EXCEPT !.pc = x]
  <2>1. job' = [job EXCEPT ![w] = k]
    BY <1>2, <1>4
  <2>2. k \in JobType /\ k.pc = x /\ x # "idle"
    BY <1>2, <1>4 DEF JobType, Points, Writing
  <2>3. Accepts(k)
    BY <1>2, <2>2 DEF Accepts, JobType
  <2>4. pending' = Image(k, db', size) /\ UNCHANGED Market
    BY <1>4 DEF Market
  <2>5. w # NoWorker
    BY RequestsAssumption
  <2>6. At(k) /\ k.pc \in Writing /\ db' = db
    BY <1>4, <2>2
  <2>. HIDE DEF k
  <2>7. Image(k, db, size) \in Database
    BY <1>2, <2>3, <2>6, ImageType
  <2>8. pending' \in Database /\ db' \in Database
    BY <1>2, <2>4, <2>6, <2>7
  <2>. QED
    BY <1>4, <2>1, <2>2, <2>3, <2>4, <2>5, <2>6, <2>8, OneThread
\* Between two statements the image is the one of the point.
<1>5. j.pc \in Writing => lock = w /\ pending = Image(j, db, size)
  BY DEF Threads
<1>6. \A x : /\ [j EXCEPT !.pc = x].pc = x
             /\ [j EXCEPT !.pc = x].kind = j.kind
  BY <1>2 DEF JobType
<1>7. CASE WriteCash(w)
  <2>. DEFINE k == [j EXCEPT !.pc = "write_row"]
  <2>1. /\ j.pc = "write_cash" /\ lock = NoWorker /\ lock' = w /\ UNCHANGED <<db, fees, size, today>>
        /\ job' = [job EXCEPT ![w].pc = "write_row"]
        /\ pending' = CashWritten(j, db, size)
    BY <1>3, <1>7 DEF WriteCash, Goto, Market, CashWritten, NewCash
  <2>2. At(k)
    BY <1>2, <1>6, <2>1 DEF At
  <2>3. Image(k, db, size) = CashWritten(j, db, size)
    <3>1. CashWritten(k, db, size) = CashWritten(j, db, size)
      BY <1>2, OtherPoint
    <3>2. k.pc = "write_row"
      BY <1>6
    <3>. HIDE DEF k
    <3>. QED
      BY <2>2, <3>1, <3>2, ImageIs
  <2>. QED
    BY <1>4, <2>1, <2>2, <2>3 DEF Writing
<1>8. CASE WriteRow(w)
  <2>. DEFINE x == IF j.kind = "buy" THEN "save_order" ELSE "write_trade"
              k == [j EXCEPT !.pc = x]
  <2>1. /\ j.pc = "write_row" /\ lock' = lock /\ UNCHANGED <<db, fees, size, today>>
        /\ job' = [job EXCEPT ![w].pc = x]
    BY <1>8 DEF WriteRow, Goto, Market
  <2>2. lock = w /\ pending = CashWritten(j, db, size) /\ j.kind \in Trading
    <3>1. Image(j, db, size) = CashWritten(j, db, size)
      BY <1>2, <2>1, ImageIs
    <3>. QED
      BY <1>2, <1>5, <2>1, <3>1 DEF Writing, At
  <2>3. pending' = RowWritten(j, db, size)
    BY <1>3, <1>8, <2>2 DEF WriteRow, RowWritten
  <2>4. At(k)
    BY <1>6, <2>2 DEF At, Trading, Closing, Orders
  <2>5. Image(k, db, size) = RowWritten(j, db, size)
    <3>0. RowWritten(k, db, size) = RowWritten(j, db, size)
      BY <1>2, OtherPoint
    <3>1. CASE j.kind = "buy"
      <4>1. k.pc = "save_order" /\ k.kind = "buy"
        BY <1>6, <3>1
      <4>. HIDE DEF k
      <4>. QED
        BY <2>4, <3>0, <4>1, ImageIs
    <3>2. CASE j.kind # "buy"
      <4>1. k.pc = "write_trade"
        BY <1>6, <3>2
      <4>. HIDE DEF k
      <4>. QED
        BY <2>4, <3>0, <4>1, ImageIs
    <3>. QED
      BY <3>1, <3>2
  <2>6. x \in Writing
    BY DEF Writing
  <2>. QED
    BY <1>4, <2>1, <2>2, <2>3, <2>4, <2>5, <2>6
<1>9. CASE WriteTrade(w)
  <2>. DEFINE x == IF j.kind = "sell" THEN "save_order" ELSE "commit"
              k == [j EXCEPT !.pc = x]
  <2>1. /\ j.pc = "write_trade" /\ lock' = lock /\ UNCHANGED <<db, fees, size, today>>
        /\ job' = [job EXCEPT ![w].pc = x]
    BY <1>9 DEF WriteTrade, Goto, Market
  <2>2. lock = w /\ pending = RowWritten(j, db, size) /\ j.kind \in Closing
    <3>1. Image(j, db, size) = RowWritten(j, db, size)
      BY <1>2, <2>1, ImageIs
    <3>. QED
      BY <1>2, <1>5, <2>1, <3>1 DEF Writing, At
  <2>3. pending' = TradeWritten(j, db, size)
    BY <1>3, <1>9, <2>2 DEF WriteTrade, TradeWritten, NewClose
  <2>4. At(k)
    BY <1>6, <2>2 DEF At, Closing, Trading, Orders
  <2>5. Image(k, db, size) = TradeWritten(j, db, size)
    <3>0. TradeWritten(k, db, size) = TradeWritten(j, db, size)
      BY <1>2, OtherPoint
    <3>1. CASE j.kind = "sell"
      <4>1. k.pc = "save_order" /\ k.kind = "sell"
        BY <1>6, <3>1
      <4>. HIDE DEF k
      <4>. QED
        BY <2>4, <3>0, <4>1, ImageIs
    <3>2. CASE j.kind = "settle"
      <4>1. k.pc = "commit" /\ k.kind = "settle"
        BY <1>6, <3>2
      <4>. HIDE DEF k
      <4>. QED
        BY <2>4, <3>0, <4>1, ImageIs
    <3>. QED
      BY <2>2, <3>1, <3>2 DEF Closing
  <2>6. x \in Writing
    BY DEF Writing
  <2>. QED
    BY <1>4, <2>1, <2>2, <2>3, <2>4, <2>5, <2>6
<1>10. CASE SaveOrder(w)
  <2>. DEFINE k == [j EXCEPT !.pc = "commit"]
  <2>1. /\ j.pc = "save_order" /\ lock' = lock /\ UNCHANGED <<db, fees, size, today>>
        /\ job' = [job EXCEPT ![w].pc = "commit"]
    BY <1>10 DEF SaveOrder, Goto, Market
  <2>2. /\ lock = w /\ j.kind \in Orders
        /\ pending = IF j.kind = "buy" THEN RowWritten(j, db, size) ELSE TradeWritten(j, db, size)
    <3>1. Image(j, db, size) = IF j.kind = "buy" THEN RowWritten(j, db, size)
                               ELSE TradeWritten(j, db, size)
      BY <1>2, <2>1, ImageIs
    <3>. QED
      BY <1>2, <1>5, <2>1, <3>1 DEF Writing, At
  <2>3. pending' = OrderWritten(j, db, size)
    BY <1>3, <1>10, <2>2 DEF SaveOrder, OrderWritten
  <2>4. At(k)
    BY <1>6, <2>2 DEF At, Orders, Trading
  <2>5. Image(k, db, size) = OrderWritten(j, db, size)
    <3>1. OrderWritten(k, db, size) = OrderWritten(j, db, size)
      BY <1>2, OtherPoint
    <3>2. k.pc = "commit" /\ k.kind \in Orders
      BY <1>6, <2>2
    <3>. HIDE DEF k
    <3>. QED
      BY <2>4, <3>1, <3>2, ImageIs
  <2>. QED
    BY <1>4, <2>1, <2>2, <2>3, <2>4, <2>5 DEF Writing
<1>11. CASE WriteReset(w)
  <2>. DEFINE k == [j EXCEPT !.pc = "commit"]
  <2>1. /\ j.pc = "write_reset" /\ lock = NoWorker /\ lock' = w /\ UNCHANGED <<db, fees, size, today>>
        /\ job' = [job EXCEPT ![w].pc = "commit"]
        /\ pending' = FreshDatabase(db.initial_balance)
    BY <1>11 DEF WriteReset, Goto, Market
  <2>2. At(k) /\ k.kind = "reset"
    BY <1>2, <1>6, <2>1 DEF At
  <2>3. Image(k, db, size) = FreshDatabase(db.initial_balance)
    <3>1. k.pc = "commit" /\ k.kind = "reset"
      BY <1>6, <2>2
    <3>. HIDE DEF k
    <3>. QED
      BY <2>2, <3>1, ImageIs
  <2>. QED
    BY <1>4, <2>1, <2>2, <2>3 DEF Writing
<1>. QED
  BY <1>7, <1>8, <1>9, <1>10, <1>11

LEMMA EndThreads ==
    ASSUME Threads, NEW w \in Workers, Commit(w) \/ SaveRejected(w)
    PROVE  Threads'
<1>1. job[w].pc \in {"commit", "reject"}
  BY DEF Commit, SaveRejected
<1>2. /\ job[w] \in JobType /\ Accepts(job[w]) /\ At(job[w]) /\ job \in [Workers -> JobType]
      /\ db \in Database /\ pending \in Database
  BY <1>1, JobFields DEF Threads
<1>. DEFINE k == [job[w] EXCEPT !.pc = "respond"]
<1>3. /\ job' = [job EXCEPT ![w] = k] /\ k \in JobType /\ k.pc = "respond"
      /\ k.kind = job[w].kind /\ k.symbol = job[w].symbol /\ k.fees = job[w].fees
      /\ k.day = job[w].day
  BY <1>2 DEF Commit, SaveRejected, Goto, JobType, Points
<1>. HIDE DEF k
<1>4. Accepts(k) /\ At(k) /\ k.pc \notin Writing
  BY <1>2, <1>3 DEF Accepts, At, Writing
<1>5. UNCHANGED Market /\ pending' = db' /\ lock' = NoWorker /\ lock \in {NoWorker, w}
  BY DEF Commit, SaveRejected, Market, Threads, Writing
<1>6. db' \in Database
  <2>1. CASE Commit(w)
    BY <1>2, <2>1 DEF Commit
  <2>2. CASE SaveRejected(w)
    <3>1. job[w].symbol \in Symbols /\ db' = save_order(db, job[w].symbol, 0, 0, 0)
      BY <1>2, <2>2 DEF Accepts, SaveRejected
    <3>. QED
      BY <1>2, <3>1, SaveOrderFields DEF Holds
  <2>. QED
    BY <2>1, <2>2
<1>. QED
  BY <1>3, <1>4, <1>5, <1>6, OneThread

LEMMA FailThreads == ASSUME Threads, NEW w \in Workers, Fail(w) PROVE Threads'
<1>1. /\ job' = [job EXCEPT ![w] = Idle] /\ UNCHANGED Market /\ db' = db
      /\ lock' = IF lock = w THEN NoWorker ELSE lock
      /\ pending' = IF lock = w THEN db ELSE pending
      /\ Idle \in JobType /\ Idle.pc \notin Writing /\ Idle.pc = "idle"
  BY IdleType DEF Fail, Market, Writing
<1>2. db \in Database /\ pending \in Database /\ (lock = NoWorker => pending = db)
  BY DEF Threads, TypeOK
<1>. QED
  BY <1>1, <1>2, OneThread

LEMMA CrashThreads == ASSUME Threads, Crash PROVE Threads'
<1>1. /\ job' = [w \in Workers |-> Idle] /\ lock' = NoWorker /\ pending' = db
      /\ UNCHANGED <<db, fees, size, today>>
  BY DEF Crash, Market
<1>2. Idle \in JobType /\ Idle.pc = "idle" /\ "idle" \notin Writing /\ NoWorker \notin Workers
  BY IdleType, RequestsAssumption DEF Writing
<1>. QED
  BY <1>1, <1>2 DEF Threads, TypeOK

LEMMA MarketThreads ==
    ASSUME Threads, ChangeFees \/ Midnight \/ UNCHANGED reqVars
    PROVE  Threads'
<1>1. UNCHANGED <<db, size, job, lock, pending>>
  BY DEF ChangeFees, Midnight, reqVars
<1>2. TypeOK'
  BY BrokerAssumption DEF Threads, TypeOK, ChangeFees, Midnight, reqVars
<1>. QED
  BY <1>1, <1>2 DEF Threads

LEMMA InitThreads == ReqInit => Threads
<1>. SUFFICES ASSUME ReqInit PROVE Threads
  OBVIOUS
<1>1. TypeOK
  BY InitType DEF ReqInit
<1>2. Idle \in JobType /\ Idle.pc = "idle" /\ "idle" \notin Writing /\ NoWorker \notin Workers
  BY IdleType, RequestsAssumption DEF Writing
<1>. QED
  BY <1>1, <1>2 DEF ReqInit, Threads, TypeOK

LEMMA NextThreads == Threads /\ [ReqNext]_reqVars => Threads'
BY StartThreads, ReadThreads, WriteThreads, EndThreads, FailThreads, CrashThreads, MarketThreads
   DEF ReqNext, Step, OrderStep, SnapStep

\* Whatever the threads do to each other, no quantity, cost or fee of the
\* account file goes below zero: a sale of a row that another sale has
\* shortened meanwhile deletes it.
THEOREM RowsKeepTypes == ReqSpec => []TypeOK
<1>1. Threads => TypeOK
  BY DEF Threads
<1>. QED
  BY <1>1, InitThreads, NextThreads, PTL DEF ReqSpec

----------------------------------------------------------------------------
(* Concurrent purchases *)

\* The points at which a request uses a balance it read before.
Spending == Writing \cup {"write_cash"}
Holding == Spending \cup {"snap_rows"}

\* What a report has found so far covers what it owes.
Told(j, owed) == /\ j.pc = "snap_trades" => j.cash + j.basis >= owed
                 /\ j.pc = "report" => j.difference >= 0

\* A purchase may write over the payment of another one, but a row only grows:
\* whatever balance a request still holds, the file accounts for all of it.
Buyers ==
    /\ Threads /\ BrokerInv /\ NeverLosesMoney
    /\ \A w \in Workers : job[w].pc # "idle" => job[w].quantity > 0
    /\ \A w \in Workers : job[w].pc \in Holding =>
           job[w].cash + OpenBasis >= db.initial_balance + Recorded
    /\ \A w \in Workers : Told(job[w], db.initial_balance + Recorded)

LEMMA TotalsInt ==
    ASSUME TypeOK
    PROVE  OpenBasis \in Int /\ Recorded \in Int /\ db.cash \in Int /\ db.initial_balance \in Int
<1>1. db.cash \in Int /\ db.initial_balance \in Int
  BY DEF TypeOK, Database
<1>. QED
  BY <1>1, EntriesInt, TotalsOf DEF EntriesTyped

LEMMA SameTotals ==
    ASSUME db'.positions = db.positions, db'.trades = db.trades, size' = size
    PROVE  OpenBasis' = OpenBasis /\ Recorded' = Recorded
BY DEF OpenBasis, Recorded, cost_basis, RecordedPnl

\* Requests that leave the file alone.
LEMMA FileStands ==
    ASSUME Buyers, Threads', UNCHANGED <<db, size>>,
           \A v \in Workers :
               \/ job'[v].pc = "idle"
               \/ /\ job'[v].quantity > 0
                  /\ job'[v].pc \in Holding =>
                       \/ job'[v].cash = db.cash
                       \/ job[v].pc \in Holding /\ job'[v].cash = job[v].cash
                  /\ Told(job'[v], db.initial_balance + Recorded)
    PROVE  Buyers'
<1>1. OpenBasis' = OpenBasis /\ Recorded' = Recorded /\ db' = db
  BY SameTotals
<1>2. BrokerInv'
  BY <1>1 DEF Buyers, BrokerInv, NoEmptyRow, QuantityConserved, CostCountedOnce, Threads
<1>3. "idle" \notin Holding
  BY DEF Holding, Spending, Writing
<1>4. NeverLosesMoney'
  BY <1>1 DEF Buyers, NeverLosesMoney
<1>5. \A v \in Workers : job'[v].pc # "idle" => job'[v].quantity > 0
  OBVIOUS
<1>6. \A v \in Workers : job'[v].pc \in Holding =>
         job'[v].cash + OpenBasis >= db.initial_balance + Recorded
  BY <1>3 DEF Buyers, NeverLosesMoney
<1>7. \A v \in Workers : Told(job'[v], db'.initial_balance + Recorded')
  BY <1>1 DEF Told
<1>. QED
  BY <1>1, <1>2, <1>4, <1>5, <1>6, <1>7 DEF Buyers

\* The row of a purchase, merged with whatever the file holds when it commits.
LEMMA RowGrows ==
    ASSUME NEW j, Accepts(j), j.kind = "buy", j.quantity > 0, NEW d \in Database,
           NEW z \in [Symbols -> Nat \ {0}],
           d.positions[j.symbol].quantity = 0 => d.positions[j.symbol] = NoPosition
    PROVE  LET old == d.positions[j.symbol]
               p == NewRow(j, d, z)
           IN  /\ p \in Position
               /\ p.quantity = old.quantity + j.quantity /\ p.quantity # 0
               /\ p.cost * z[j.symbol] + p.entry_fees
                    = old.cost * z[j.symbol] + old.entry_fees + Due(j, z) + Charge(j, z)
               /\ p.entry_fees = old.entry_fees + Charge(j, z)
               /\ p.entry_fees_known => old.entry_fees_known
<1>. DEFINE old == d.positions[j.symbol]
            fee == Charge(j, z)
            known == rates_known(j.fees)
            p == BoughtPosition(old, j.quantity, j.price, fee, known)
            n == z[j.symbol]
<1>1. /\ old \in Position /\ j.quantity \in Nat /\ j.price \in Nat /\ fee \in Nat /\ n \in Nat
      /\ known \in BOOLEAN /\ Due(j, z) \in Nat
  BY MoneyNat DEF Accepts, JobType, Database
<1>2. Due(j, z) = j.price * j.quantity * n
  BY DEF Due
<1>3. /\ old.quantity \in Nat /\ old.cost \in Nat /\ old.entry_fees \in Nat
      /\ old.quantity = 0 => old.cost = 0 /\ old.entry_fees = 0 /\ old.entry_fees_known
  BY <1>1 DEF Position, NoPosition
<1>4. NewRow(j, d, z) = Kept(p)
  BY DEF NewRow
<1>. HIDE DEF fee, known, n, old
<1>5. j.quantity * j.price \in Nat /\ j.price * j.quantity = j.quantity * j.price
  BY <1>1, NatProduct
<1>6. p \in Position
  BY <1>1, BoughtPositionType
<1>7. /\ p.quantity = old.quantity + j.quantity /\ p.cost = old.cost + j.quantity * j.price
      /\ p.entry_fees = old.entry_fees + fee
      /\ p.entry_fees_known => old.entry_fees_known
  <2>1. CASE old.quantity = 0
    BY <1>1, <1>3, <1>5, <2>1 DEF BoughtPosition
  <2>2. CASE old.quantity # 0
    <3>1. p.entry_fees_known = (old.entry_fees_known /\ known)
      BY <2>2 DEF BoughtPosition
    <3>. QED
      BY <2>2, <3>1 DEF BoughtPosition
  <2>. QED
    BY <2>1, <2>2
<1>. HIDE DEF p
<1>8. p.quantity > 0 /\ Kept(p) = p
  BY <1>1, <1>3, <1>7 DEF Kept
<1>9. p.cost * n = old.cost * n + Due(j, z)
  <2>1. (old.cost + j.quantity * j.price) * n = old.cost * n + j.quantity * j.price * n
    BY <1>1, <1>3, <1>5, SumTimes
  <2>. QED
    BY <1>2, <1>5, <1>7, <2>1
<1>10. old.cost * n \in Nat
  BY <1>1, <1>3, NatProduct
<1>11. p.cost * n + p.entry_fees = old.cost * n + old.entry_fees + Due(j, z) + fee
  BY <1>1, <1>3, <1>7, <1>9, <1>10
<1>. QED
  BY <1>4, <1>6, <1>7, <1>8, <1>11 DEF old, fee, n

\* The file a purchase commits: the payment may be stale, the row never is.
LEMMA PurchaseWritten ==
    ASSUME BrokerInv, NEW j, Accepts(j), j.kind = "buy", j.quantity > 0,
           db' = OrderWritten(j, db, size), size' = size, TypeOK'
    PROVE  /\ BrokerInv' /\ db'.initial_balance = db.initial_balance
           /\ db'.cash = j.cash - (Due(j, size) + Charge(j, size))
           /\ OpenBasis' = OpenBasis + Due(j, size) + Charge(j, size)
           /\ Recorded' = Recorded
<1>. DEFINE s == j.symbol
            old == db.positions[s]
            p == NewRow(j, db, size)
            t == db.trades[s]
            fee == Charge(j, size)
            o == WithOrder(db.orders[s], j.quantity, 0, fee)
<1>1. /\ TypeOK /\ db \in Database /\ size \in [Symbols -> Nat \ {0}] /\ s \in Symbols
      /\ db.trades \in [Symbols -> TradeTotals] /\ db.positions \in [Symbols -> Position]
  BY DEF BrokerInv, TypeOK, Accepts, Database
<1>2. /\ fee \in Nat /\ Due(j, size) \in Nat /\ size[s] \in Nat
      /\ j.quantity \in Nat /\ j.cash \in Int
  BY <1>1, MoneyNat DEF Accepts, JobType
<1>3. /\ old \in Position /\ t \in TradeTotals /\ db.orders[s] \in OrderTotals
      /\ old.quantity = 0 => old = NoPosition
      /\ db.orders[s].bought = old.quantity + t.sold + t.settled
      /\ db.orders[s].sold = t.sold
      /\ t.missing_entry = 0 =>
             db.orders[s].fee_paid = old.entry_fees + t.entry_costs + t.exit_costs
  BY <1>1, RowsOf
<1>4. /\ p \in Position
      /\ p.quantity = old.quantity + j.quantity /\ p.quantity # 0
      /\ p.cost * size[s] + p.entry_fees
            = old.cost * size[s] + old.entry_fees + Due(j, size) + fee
      /\ p.entry_fees = old.entry_fees + fee
      /\ p.entry_fees_known => old.entry_fees_known
  BY <1>1, <1>3, RowGrows
<1>5. /\ db' \in Database /\ db'.cash = NewCash(j, size)
      /\ db'.initial_balance = db.initial_balance
      /\ db'.positions = [db.positions EXCEPT ![s] = p]
      /\ db'.trades = db.trades
      /\ db'.orders = [db.orders EXCEPT ![s] = o]
  <2>1. Holds(OrderWritten(j, db, size), NewCash(j, size), db.initial_balance,
              [db.positions EXCEPT ![s] = p], db.trades, [db.orders EXCEPT ![s] = o])
    BY <1>1, OrderHolds DEF Orders
  <2>. HIDE DEF p, o, s
  <2>. QED
    BY <2>1 DEF Holds
<1>6. /\ o.bought = db.orders[s].bought + j.quantity
      /\ o.sold = db.orders[s].sold
      /\ o.fee_paid = db.orders[s].fee_paid + fee
  BY <1>3 DEF WithOrder, OrderTotals
<1>7. db.trades = [db.trades EXCEPT ![s] = t]
  BY <1>1
<1>. HIDE DEF p, o, fee, s
<1>8. /\ o.bought = p.quantity + t.sold + t.settled
      /\ o.sold = t.sold
      /\ t.missing_entry = 0 =>
            o.fee_paid = p.entry_fees + t.entry_costs + t.exit_costs
  <2>1. /\ old.quantity \in Nat /\ old.entry_fees \in Nat /\ t.sold \in Nat
        /\ t.settled \in Nat /\ t.entry_costs \in Nat /\ t.exit_costs \in Nat
    BY <1>3 DEF Position, TradeTotals
  <2>. HIDE DEF old, t
  <2>. QED
    BY <1>2, <1>3, <1>4, <1>6, <2>1
<1>9. NoEmptyRow' /\ QuantityConserved' /\ CostCountedOnce'
  <2>. HIDE DEF t
  <2>1. db'.trades = [db.trades EXCEPT ![s] = t]
    BY <1>5, <1>7
  <2>. QED
    BY <1>1, <1>4, <1>5, <1>8, <2>1, OneSymbol, SMTT(30)
<1>10. Ledger!OnlyTouches(s)
  <2>1. db'.trades = [db.trades EXCEPT ![s] = t]
    BY <1>5, <1>7
  <2>2. CostsKnownOf(db', s) => CostsKnownOf(db, s)
    BY <1>1, <1>4, <1>5 DEF CostsKnownOf
  <2>. HIDE DEF t
  <2>. QED
    BY <1>1, <1>5, <2>1, <2>2, TouchesOne
<1>11. /\ OpenBasis' = OpenBasis + (BasisOf'[s] - BasisOf[s])
       /\ OpenBasis \in Int
  BY <1>1, <1>10, OneEntryMoves, TotalsInt
<1>12. /\ BasisOf[s] = old.cost * size[s] + old.entry_fees
       /\ BasisOf'[s] = p.cost * size[s] + p.entry_fees
  BY <1>1, <1>5 DEF BasisOf, cost_basis
<1>13. old.cost * size[s] \in Nat /\ old.entry_fees \in Nat
  <2>1. old.cost \in Nat /\ old.entry_fees \in Nat
    BY <1>3 DEF Position
  <2>. QED
    BY <1>2, <2>1, NatProduct
<1>14. OpenBasis' = OpenBasis + Due(j, size) + fee
  BY <1>2, <1>4, <1>11, <1>12, <1>13
<1>15. Recorded' = Recorded
  BY <1>5 DEF Recorded, RecordedPnl
<1>16. db'.cash = j.cash - (Due(j, size) + fee)
  BY <1>5 DEF NewCash, fee
<1>. QED
  BY <1>5, <1>9, <1>14, <1>15, <1>16 DEF BrokerInv, fee

\* Nothing but a sell, a settlement or a reset closes a row, and this instance
\* sends none of them.
LEMMA NextBuyers ==
    ASSUME Kinds \subseteq {"buy", "snapshot"}
    PROVE  Buyers /\ [ReqNext]_reqVars => Buyers'
<1>. SUFFICES ASSUME Buyers, [ReqNext]_reqVars PROVE Buyers'
  OBVIOUS
<1>1. Threads /\ Threads' /\ BrokerInv /\ TypeOK'
  BY NextThreads DEF Buyers, Threads
<1>2. \A w \in Workers : job[w].pc # "idle" =>
        /\ job[w] \in JobType /\ job[w].kind \in {"buy", "snapshot"} /\ job[w].quantity > 0
        /\ Accepts(job[w]) /\ At(job[w])
  BY <1>1 DEF Buyers, Threads, Accepts
<1>3. job \in [Workers -> JobType] /\ Idle.pc = "idle" /\ "idle" \notin Holding
  BY <1>1, IdleType DEF Threads, Holding, Spending, Writing
\* A thread whose request goes on.
<1>4. ASSUME NEW w \in Workers, NEW k, job' = [job EXCEPT ![w] = k], UNCHANGED <<db, size>>,
             k.pc # "idle" =>
                /\ k.quantity > 0
                /\ k.pc \in Holding =>
                     \/ k.cash = db.cash
                     \/ job[w].pc \in Holding /\ k.cash = job[w].cash
                /\ Told(k, db.initial_balance + Recorded)
      PROVE  Buyers'
  <2>1. job'[w] = k /\ \A v \in Workers \ {w} : job'[v] = job[v]
    BY <1>3, <1>4
  <2>2. \A v \in Workers :
           \/ job'[v].pc = "idle"
           \/ /\ job'[v].quantity > 0
              /\ job'[v].pc \in Holding =>
                   \/ job'[v].cash = db.cash
                   \/ job[v].pc \in Holding /\ job'[v].cash = job[v].cash
              /\ Told(job'[v], db.initial_balance + Recorded)
    BY <1>2, <1>4, <2>1 DEF Buyers
  <2>. QED
    BY <1>1, <1>4, <2>2, FileStands
<1>5. ASSUME NEW w \in Workers, Start(w) PROVE Buyers'
  <2>1. PICK kind \in Kinds, s \in Symbols, q \in Quantities \ {0} :
          job' = [job EXCEPT ![w] = [Idle EXCEPT !.pc = Entry(kind), !.kind = kind, !.symbol = s,
                                                 !.quantity = q, !.fees = fees, !.day = today]]
    BY <1>5 DEF Start
  <2>. DEFINE k == [Idle EXCEPT !.pc = Entry(kind), !.kind = kind, !.symbol = s,
                                !.quantity = q, !.fees = fees, !.day = today]
  <2>2. k.quantity = q /\ q > 0
    BY Inputs DEF Idle
  <2>3. k.pc \notin Holding /\ Told(k, db.initial_balance + Recorded)
    BY RequestsAssumption DEF Idle, Entry, Holding, Spending, Writing, Told
  <2>4. UNCHANGED <<db, size>>
    BY <1>5 DEF Start, Market
  <2>. HIDE DEF k
  <2>. QED
    BY <1>4, <2>1, <2>2, <2>3, <2>4 DEF k
<1>6. ASSUME NEW w \in Workers, CheckRow(w) \/ CheckCash(w) PROVE Buyers'
  <2>1. PICK x \in {"reject", "market", "read_cash"} : job' = [job EXCEPT ![w].pc = x]
    BY <1>6 DEF CheckRow, CheckCash, Goto
  <2>. DEFINE k == [job[w] EXCEPT !.pc = x]
  <2>2. job[w].pc # "idle" /\ UNCHANGED <<db, size>>
    BY <1>6 DEF CheckRow, CheckCash, Quiet, Market
  <2>3. /\ job' = [job EXCEPT ![w] = k] /\ k.pc \notin Holding /\ k.quantity > 0
        /\ Told(k, db.initial_balance + Recorded)
    BY <1>2, <1>3, <2>1, <2>2 DEF JobType, Holding, Spending, Writing, Told
  <2>. HIDE DEF k
  <2>. QED
    BY <1>4, <2>2, <2>3
<1>7. ASSUME NEW w \in Workers, QuoteOrder(w) PROVE Buyers'
  <2>1. job[w].pc # "idle" /\ UNCHANGED <<db, size>>
    BY <1>7 DEF QuoteOrder, Quiet, Market
  <2>2. CASE job' = [job EXCEPT ![w].pc = "reject", ![w].day = today]
    <3>. DEFINE k == [job[w] EXCEPT !.pc = "reject", !.day = today]
    <3>1. /\ job' = [job EXCEPT ![w] = k] /\ k.pc \notin Holding /\ k.quantity > 0
          /\ Told(k, db.initial_balance + Recorded)
      BY <1>2, <1>3, <2>1, <2>2 DEF JobType, Holding, Spending, Writing, Told
    <3>. HIDE DEF k
    <3>. QED
      BY <1>4, <2>1, <3>1
  <2>3. CASE ~(job' = [job EXCEPT ![w].pc = "reject", ![w].day = today])
    <3>1. PICK fill \in Fills(job[w].quantity) :
            /\ fill.filled > 0
            /\ job' = [job EXCEPT
                  ![w].pc = IF job[w].kind = "buy" THEN "check_cash" ELSE "read_row",
                  ![w].quantity = fill.filled, ![w].price = fill.price, ![w].day = today]
      BY <1>7, <2>3 DEF QuoteOrder
    <3>. DEFINE x == IF job[w].kind = "buy" THEN "check_cash" ELSE "read_row"
                k == [job[w] EXCEPT !.pc = x, !.quantity = fill.filled, !.price = fill.price,
                                    !.day = today]
    <3>2. job' = [job EXCEPT ![w] = k] /\ k.pc = x /\ k.quantity > 0
      BY <1>2, <1>3, <2>1, <3>1 DEF JobType
    <3>3. x \notin Holding /\ Told(k, db.initial_balance + Recorded)
      BY <3>2 DEF Holding, Spending, Writing, Told
    <3>. HIDE DEF k, x
    <3>. QED
      BY <1>4, <2>1, <3>2, <3>3
  <2>. QED
    BY <2>2, <2>3
<1>8. ASSUME NEW w \in Workers, QuoteSettlement(w) \/ ReadRow(w) PROVE Buyers'
  BY <1>2, <1>8 DEF QuoteSettlement, ReadRow, At, Closing
<1>9. ASSUME NEW w \in Workers, ReadCash(w) \/ SnapCash(w) PROVE Buyers'
  <2>1. PICK x \in {"write_cash", "snap_rows"} : job' = [job EXCEPT ![w].cash = db.cash, ![w].pc = x]
    BY <1>9 DEF ReadCash, SnapCash
  <2>. DEFINE k == [job[w] EXCEPT !.cash = db.cash, !.pc = x]
  <2>2. job[w].pc # "idle" /\ UNCHANGED <<db, size>>
    BY <1>9 DEF ReadCash, SnapCash, Quiet, Market
  <2>3. /\ job' = [job EXCEPT ![w] = k] /\ k.cash = db.cash /\ k.quantity > 0
        /\ Told(k, db.initial_balance + Recorded)
    BY <1>2, <1>3, <2>1, <2>2 DEF JobType, Told
  <2>. HIDE DEF k
  <2>. QED
    BY <1>4, <2>2, <2>3
<1>10. ASSUME NEW w \in Workers, SnapRows(w) PROVE Buyers'
  <2>. DEFINE known == \A s \in Symbols : db.positions[s].entry_fees_known
              k == [job[w] EXCEPT !.basis = OpenBasis, !.known = known, !.pc = "snap_trades"]
  <2>1. job[w].pc # "idle" /\ UNCHANGED <<db, size>>
    BY <1>10 DEF SnapRows, Quiet, Market
  <2>2. job' = [job EXCEPT ![w] = k]
    BY <1>3, <1>10 DEF SnapRows
  <2>. HIDE DEF known
  <2>3. /\ k.pc = "snap_trades" /\ k.quantity > 0
        /\ k.cash = job[w].cash /\ k.basis = OpenBasis
    BY <1>2, <2>1 DEF JobType
  <2>4. k.cash + k.basis >= db.initial_balance + Recorded
    BY <1>10, <2>3 DEF SnapRows, Buyers, Holding
  <2>5. Told(k, db.initial_balance + Recorded)
    BY <2>3, <2>4 DEF Told
  <2>. HIDE DEF k
  <2>. QED
    BY <1>4, <2>1, <2>2, <2>3, <2>5 DEF Holding, Spending, Writing
<1>11. ASSUME NEW w \in Workers, SnapTrades(w) PROVE Buyers'
  <2>. DEFINE known == /\ job[w].known
                       /\ \A s \in Symbols : /\ db.trades[s].missing_entry = 0
                                             /\ db.trades[s].missing_exit = 0
              d == job[w].cash + job[w].basis - db.initial_balance - Recorded
              k == [job[w] EXCEPT !.known = known, !.difference = d, !.pc = "report"]
  <2>1. job[w].pc # "idle" /\ UNCHANGED <<db, size>>
    BY <1>11 DEF SnapTrades, Quiet, Market
  <2>2. job' = [job EXCEPT ![w] = k]
    BY <1>3, <1>11 DEF SnapTrades, ReportOf
  <2>3. d >= 0
    <3>1. job[w].cash + job[w].basis >= db.initial_balance + Recorded
      BY <1>11 DEF SnapTrades, Buyers, Told
    <3>2. job[w].cash \in Int /\ job[w].basis \in Int
      BY <1>2, <2>1 DEF JobType
    <3>3. db.initial_balance \in Int /\ Recorded \in Int
      BY <1>1, TotalsInt DEF Threads
    <3>. QED
      BY <3>1, <3>2, <3>3
  <2>. HIDE DEF known, d
  <2>4. k.pc = "report" /\ k.quantity > 0 /\ k.difference = d
    BY <1>2, <2>1 DEF JobType
  <2>5. Told(k, db.initial_balance + Recorded)
    BY <2>3, <2>4 DEF Told
  <2>. HIDE DEF k
  <2>. QED
    BY <1>4, <2>1, <2>2, <2>4, <2>5 DEF Holding, Spending, Writing
<1>12. ASSUME NEW w \in Workers, WriteCash(w) \/ WriteRow(w) \/ WriteTrade(w) \/ SaveOrder(w)
       PROVE  Buyers'
  <2>1. PICK x \in Writing : job' = [job EXCEPT ![w].pc = x]
    BY <1>12 DEF WriteCash, WriteRow, WriteTrade, SaveOrder, Goto, Writing
  <2>. DEFINE k == [job[w] EXCEPT !.pc = x]
  <2>2. /\ job[w].pc # "idle" /\ UNCHANGED <<db, size>> /\ job[w].pc \in Holding
    BY <1>12 DEF WriteCash, WriteRow, WriteTrade, SaveOrder, Market, Holding, Spending, Writing
  <2>3. /\ job' = [job EXCEPT ![w] = k] /\ k.quantity > 0 /\ k.cash = job[w].cash
        /\ Told(k, db.initial_balance + Recorded)
    BY <1>2, <1>3, <2>1, <2>2 DEF JobType, Told, Writing
  <2>. HIDE DEF k
  <2>. QED
    BY <1>4, <2>2, <2>3
<1>13. ASSUME NEW w \in Workers, WriteReset(w) PROVE Buyers'
  BY <1>2, <1>13 DEF WriteReset, At
<1>14. ASSUME NEW w \in Workers, Respond(w) \/ Fail(w) PROVE Buyers'
  <2>1. job' = [job EXCEPT ![w] = Idle] /\ UNCHANGED <<db, size>>
    BY <1>14 DEF Respond, Fail, Quiet, Market
  <2>2. Told(Idle, db.initial_balance + Recorded)
    BY <1>3 DEF Told
  <2>. QED
    BY <1>3, <1>4, <2>1, <2>2
<1>15. CASE Crash
  <2>1. UNCHANGED <<db, size>> /\ \A v \in Workers : job'[v].pc = "idle"
    BY <1>3, <1>15 DEF Crash, Market
  <2>. QED
    BY <1>1, <2>1, FileStands
<1>16. CASE ChangeFees \/ Midnight \/ UNCHANGED reqVars
  <2>1. UNCHANGED <<db, size, job>>
    BY <1>16 DEF ChangeFees, Midnight, reqVars
  <2>2. \A v \in Workers :
           \/ job'[v].pc = "idle"
           \/ /\ job'[v].quantity > 0
              /\ job'[v].pc \in Holding =>
                   \/ job'[v].cash = db.cash
                   \/ job[v].pc \in Holding /\ job'[v].cash = job[v].cash
              /\ Told(job'[v], db.initial_balance + Recorded)
    BY <1>2, <2>1 DEF Buyers
  <2>. QED
    BY <1>1, <2>1, <2>2, FileStands
\* The two steps that change the file.
<1>17. ASSUME NEW w \in Workers, job[w].pc # "idle", job' = [job EXCEPT ![w].pc = "respond"],
              BrokerInv', db'.initial_balance = db.initial_balance, Recorded' = Recorded,
              OpenBasis \in Int, Recorded \in Int, OpenBasis' \in Int, OpenBasis <= OpenBasis',
              NeverLosesMoney'
       PROVE  Buyers'
  <2>. DEFINE k == [job[w] EXCEPT !.pc = "respond"]
  <2>1. /\ job' = [job EXCEPT ![w] = k] /\ k.pc = "respond" /\ k.quantity > 0
        /\ "respond" \notin Holding
    BY <1>2, <1>3, <1>17 DEF JobType, Holding, Spending, Writing
  <2>. HIDE DEF k
  <2>2. job'[w] = k /\ \A v \in Workers \ {w} : job'[v] = job[v]
    BY <1>3, <2>1
  <2>3. \A v \in Workers : job'[v].pc # "idle" => job'[v].quantity > 0
    BY <1>2, <2>1, <2>2
  <2>4. \A v \in Workers : job'[v].pc \in Holding =>
           job'[v].cash + OpenBasis' >= db'.initial_balance + Recorded'
    <3>1. SUFFICES ASSUME NEW v \in Workers, job'[v].pc \in Holding
                   PROVE  job'[v].cash + OpenBasis' >= db'.initial_balance + Recorded'
      OBVIOUS
    <3>2. job'[v] = job[v] /\ job[v].cash \in Int
      BY <1>2, <1>3, <2>1, <2>2, <3>1 DEF JobType
    <3>3. job[v].cash + OpenBasis >= db.initial_balance + Recorded /\ db.initial_balance \in Int
      BY <1>1, <3>1, <3>2, TotalsInt DEF Buyers, Threads
    <3>. QED
      BY <1>17, <3>2, <3>3
  <2>5. \A v \in Workers : Told(job'[v], db'.initial_balance + Recorded')
    BY <1>17, <2>1, <2>2 DEF Buyers, Told
  <2>. QED
    BY <1>1, <1>17, <2>3, <2>4, <2>5 DEF Buyers
<1>18. ASSUME NEW w \in Workers, Commit(w) PROVE Buyers'
  <2>. DEFINE j == job[w]
  <2>1. /\ j.pc = "commit" /\ j.kind = "buy" /\ Accepts(j) /\ At(j) /\ j.quantity > 0
        /\ job' = [job EXCEPT ![w].pc = "respond"] /\ size' = size /\ db' = pending
    BY <1>2, <1>18 DEF Commit, At, Goto, Market, Trading
  <2>2. pending = Image(j, db, size)
    BY <1>1, <2>1 DEF Threads, Writing
  <2>3. j.kind \in Orders
    BY <2>1 DEF Orders
  <2>4. j.cash + OpenBasis >= db.initial_balance + Recorded /\ j.cash \in Int
    BY <1>2, <2>1 DEF Buyers, Holding, Spending, Writing, JobType
  <2>5. size \in [Symbols -> Nat \ {0}]
    BY <1>1 DEF Threads, TypeOK
  <2>. HIDE DEF j
  <2>6. Image(j, db, size) = OrderWritten(j, db, size)
    BY <2>1, <2>3, ImageIs
  <2>7. /\ BrokerInv' /\ db'.initial_balance = db.initial_balance
        /\ db'.cash = j.cash - (Due(j, size) + Charge(j, size))
        /\ OpenBasis' = OpenBasis + Due(j, size) + Charge(j, size)
        /\ Recorded' = Recorded
    BY <1>1, <2>1, <2>2, <2>6, PurchaseWritten
  <2>8. Due(j, size) \in Nat /\ Charge(j, size) \in Nat
    BY <2>1, <2>5, MoneyNat
  <2>9. OpenBasis \in Int /\ Recorded \in Int /\ db.initial_balance \in Int
    BY <1>1, TotalsInt DEF Threads
  <2>10. OpenBasis' \in Int /\ OpenBasis <= OpenBasis'
    BY <2>7, <2>8, <2>9
  <2>11. NeverLosesMoney'
    <3>1. db'.cash + OpenBasis' >= db'.initial_balance + Recorded'
      BY <2>4, <2>7, <2>8, <2>9
    <3>. QED
      BY <3>1 DEF NeverLosesMoney
  <2>. QED
    BY <1>17, <2>1, <2>7, <2>9, <2>10, <2>11 DEF j
<1>19. ASSUME NEW w \in Workers, SaveRejected(w) PROVE Buyers'
  <2>1. /\ job[w].pc # "idle" /\ job' = [job EXCEPT ![w].pc = "respond"] /\ size' = size
        /\ db' = save_order(db, job[w].symbol, 0, 0, 0)
    BY <1>19 DEF SaveRejected, Goto, Market
  <2>2. Holds(db', db.cash, db.initial_balance, db.positions, db.trades, db.orders)
    <3>1. job[w].symbol \in Symbols /\ TypeOK
      BY <1>1, <1>2, <2>1 DEF Accepts, Threads
    <3>. QED
      BY <2>1, <3>1, RejectEffect
  <2>3. /\ db'.cash = db.cash /\ db'.initial_balance = db.initial_balance
        /\ db'.positions = db.positions /\ db'.trades = db.trades /\ db'.orders = db.orders
    BY <2>2 DEF Holds
  <2>4. OpenBasis' = OpenBasis /\ Recorded' = Recorded
    BY <2>1, <2>3, SameTotals
  <2>5. BrokerInv'
    BY <1>1, <2>3 DEF BrokerInv, NoEmptyRow, QuantityConserved, CostCountedOnce
  <2>6. OpenBasis \in Int /\ Recorded \in Int
    BY <1>1, TotalsInt DEF Threads
  <2>7. NeverLosesMoney'
    BY <2>3, <2>4 DEF NeverLosesMoney, Buyers
  <2>8. OpenBasis' \in Int /\ OpenBasis <= OpenBasis'
    BY <2>4, <2>6
  <2>. QED
    BY <1>17, <2>1, <2>3, <2>4, <2>5, <2>6, <2>7, <2>8
<1>. QED
  BY <1>5, <1>6, <1>7, <1>8, <1>9, <1>10, <1>11, <1>12, <1>13, <1>14, <1>15, <1>16, <1>18, <1>19
     DEF ReqNext, Step, OrderStep, SnapStep

LEMMA InitBuyers == ReqInit => Buyers
<1>. SUFFICES ASSUME ReqInit PROVE Buyers
  OBVIOUS
<1>1. Threads /\ BrokerInv /\ Books
  BY InitThreads, InitInv, InitBooks DEF ReqInit
<1>2. costs_known(db)
  <2>1. db = FreshDatabase(InitialBalance)
    BY DEF ReqInit, Init
  <2>. QED
    BY <2>1 DEF FreshDatabase, costs_known, CostsKnownOf, NoPosition, NoTrades
<1>3. NeverLosesMoney
  <2>1. db.cash + OpenBasis = db.initial_balance + Recorded
    BY <1>1, <1>2 DEF Books, Balanced, Reconciled
  <2>2. OpenBasis \in Int /\ Recorded \in Int /\ db.cash \in Int /\ db.initial_balance \in Int
    BY <1>1, TotalsInt DEF Threads
  <2>. QED
    BY <2>1, <2>2 DEF NeverLosesMoney
<1>4. \A w \in Workers : job[w].pc = "idle"
  BY IdleType DEF ReqInit
<1>5. "idle" \notin Holding /\ \A w \in Workers : Told(job[w], db.initial_balance + Recorded)
  BY <1>4 DEF Holding, Spending, Writing, Told
<1>. QED
  BY <1>1, <1>3, <1>4, <1>5 DEF Buyers

\* However many purchases run at once, whatever fails or crashes between their
\* statements and whatever settings each of them has read: a lost update of the
\* balance can only leave money that was spent in the account.
THEOREM PurchasesNeverLoseMoney ==
    ASSUME Kinds \subseteq {"buy", "snapshot"}
    PROVE  ReqSpec => []NeverLosesMoney
<1>1. Buyers => NeverLosesMoney
  BY DEF Buyers
<1>2. Buyers /\ [ReqNext]_reqVars => Buyers'
  BY NextBuyers
<1>. QED
  BY <1>1, <1>2, InitBuyers, PTL DEF ReqSpec

\* Nor do they lose contracts: the row a purchase merges with is read inside
\* its transaction, so every filled order is in the row it was bought into.
THEOREM PurchasesConserveContracts ==
    ASSUME Kinds \subseteq {"buy", "snapshot"}
    PROVE  ReqSpec => []QuantityConserved
<1>1. Buyers => QuantityConserved
  BY DEF Buyers, BrokerInv
<1>2. Buyers /\ [ReqNext]_reqVars => Buyers'
  BY NextBuyers
<1>. QED
  BY <1>1, <1>2, InitBuyers, PTL DEF ReqSpec

\* And the account page never shows money missing while they run, although it
\* reads the cash, the rows and the trades at three moments.
THEOREM PurchasesReportNothingShort ==
    ASSUME Kinds \subseteq {"buy", "snapshot"}
    PROVE  ReqSpec => []ReportNeverShort
<1>1. Buyers => ReportNeverShort
  BY DEF Buyers, Told, ReportNeverShort
<1>2. Buyers /\ [ReqNext]_reqVars => Buyers'
  BY NextBuyers
<1>. QED
  BY <1>1, <1>2, InitBuyers, PTL DEF ReqSpec

----------------------------------------------------------------------------
(* One stream of requests *)

\* The points after the cash and the rows are checked, and after the quote.
Paying == Spending \cup {"read_cash"}
Quoted == Paying \cup {"check_cash", "read_row"}

\* What request j has read is still what the file d holds.
Fresh(j, d, z) ==
    LET held == d.positions[j.symbol]
    IN  /\ Quantities # {}
        /\ j.pc # "respond" => d.order_rows < MaxOrders
        /\ j.kind \in Orders /\ j.pc \in {"check_row", "market"} => j.quantity \in Quantities \ {0}
        /\ j.kind = "sell" /\ j.pc = "market" => j.quantity <= held.quantity
        /\ j.kind \in Orders /\ j.pc \in Quoted =>
             /\ Expiry[j.symbol] >= j.day /\ j.price \in Prices
             /\ \E q \in Quantities : /\ j.quantity \in 1 .. q
                                      /\ j.kind = "sell" => q <= held.quantity
        /\ j.kind = "buy" /\ j.pc \in Paying => check_affordable(Due(j, z) + Charge(j, z), d.cash)
        /\ j.kind \in Trading /\ j.pc \in Spending => j.cash = d.cash
        /\ \/ j.kind \in Closing /\ j.pc \in Paying
           \/ j.kind = "settle" /\ j.pc = "market"
           => j.row = held /\ held.quantity > 0
        /\ j.kind = "settle" /\ j.pc \in Paying =>
             j.price \in SettlePrices /\ j.quantity = held.quantity /\ Expiry[j.symbol] < j.day

\* A request sees at most one midnight.
Stream == /\ Threads
          /\ \A w \in Workers : job[w].pc # "idle" =>
                /\ Fresh(job[w], db, size)
                /\ job[w].day <= today /\ today <= job[w].day + 1

LEMMA ServedIs ==
    ASSUME NEW w, Workers = {w}
    PROVE  /\ ServedFees = IF job[w].pc = "idle" THEN fees ELSE job[w].fees
           /\ ServedDay = IF job[w].pc = "idle" THEN today ELSE job[w].day
           /\ ServedFees' = IF job'[w].pc = "idle" THEN fees' ELSE job'[w].fees
           /\ ServedDay' = IF job'[w].pc = "idle" THEN today' ELSE job'[w].day
<1>1. (CHOOSE v \in {w} : TRUE) = w
  OBVIOUS
<1>2. /\ job[w].pc = "idle" => Busy = {}
      /\ job[w].pc # "idle" => Busy = {w} /\ Busy # {}
  BY DEF Busy
<1>3. /\ job'[w].pc = "idle" => Busy' = {}
      /\ job'[w].pc # "idle" => Busy' = {w} /\ Busy' # {}
  BY DEF Busy
<1>4. job[w].pc # "idle" => Served = job[w]
  BY <1>1, <1>2 DEF Served
<1>5. job'[w].pc # "idle" => Served' = job'[w]
  BY <1>1, <1>3 DEF Served
<1>6. /\ ServedFees = IF Busy = {} THEN fees ELSE Served.fees
      /\ ServedDay = IF Busy = {} THEN today ELSE Served.day
      /\ ServedFees' = IF Busy' = {} THEN fees' ELSE Served'.fees
      /\ ServedDay' = IF Busy' = {} THEN today' ELSE Served'.day
  BY DEF ServedFees, ServedDay
<1>. QED
  BY <1>2, <1>3, <1>4, <1>5, <1>6

\* The statements and the arithmetic are the same for both.
LEMMA SerialOps ==
    /\ \A f, n : Serial!entry_cost(f, n) = entry_cost(f, n)
    /\ \A f, n : Serial!exit_cost(f, n) = exit_cost(f, n)
    /\ \A f : Serial!rates_known(f) = rates_known(f)
    /\ \A r, a : Serial!check_affordable(r, a) = check_affordable(r, a)
    /\ \A d, c : Serial!update_cash(d, c) = update_cash(d, c)
    /\ \A d, s, row : Serial!upsert_position(d, s, row) = upsert_position(d, s, row)
    /\ \A d, s : Serial!delete_position(d, s) = delete_position(d, s)
    /\ \A d, s, close : Serial!record_trade(d, s, close) = record_trade(d, s, close)
    /\ \A d, s, b, n, f : Serial!save_order(d, s, b, n, f) = save_order(d, s, b, n, f)
    /\ \A row, n, p, f, k : Serial!BoughtPosition(row, n, p, f, k) = BoughtPosition(row, n, p, f, k)
    /\ \A row, n : Serial!RemainingPosition(row, n) = RemainingPosition(row, n)
    /\ \A row, n, p, z, f, k, r : Serial!CloseOf(row, n, p, z, f, k, r) = CloseOf(row, n, p, z, f, k, r)
    /\ \A n : Serial!FreshDatabase(n) = FreshDatabase(n)
    /\ \A q : Serial!Fills(q) = Fills(q)
<1>1. /\ \A f, n : Serial!entry_cost(f, n) = entry_cost(f, n)
      /\ \A f, n : Serial!exit_cost(f, n) = exit_cost(f, n)
      /\ \A f : Serial!rates_known(f) = rates_known(f)
      /\ \A r, a : Serial!check_affordable(r, a) = check_affordable(r, a)
  BY DEF Serial!entry_cost, entry_cost, Serial!exit_cost, exit_cost, Serial!RateCost, RateCost,
         Serial!SellSideRate, SellSideRate, Serial!rates_known, rates_known, Serial!is_zero, is_zero,
         Serial!check_affordable, check_affordable
<1>2. /\ \A d, c : Serial!update_cash(d, c) = update_cash(d, c)
      /\ \A d, s, row : Serial!upsert_position(d, s, row) = upsert_position(d, s, row)
      /\ \A d, s : Serial!delete_position(d, s) = delete_position(d, s)
  BY DEF Serial!update_cash, update_cash, Serial!upsert_position, upsert_position,
         Serial!delete_position, delete_position, Serial!NoPosition, NoPosition
<1>3. \A d, s, close : Serial!record_trade(d, s, close) = record_trade(d, s, close)
  BY DEF Serial!record_trade, record_trade, Serial!WithClose, WithClose
<1>4. \A d, s, b, n, f : Serial!save_order(d, s, b, n, f) = save_order(d, s, b, n, f)
  BY DEF Serial!save_order, save_order, Serial!WithOrder, WithOrder
<1>5. \A row, n, p, f, k :
         Serial!BoughtPosition(row, n, p, f, k) = BoughtPosition(row, n, p, f, k)
  BY DEF Serial!BoughtPosition, BoughtPosition
<1>6. \A row, n : Serial!RemainingPosition(row, n) = RemainingPosition(row, n)
  BY DEF Serial!RemainingPosition, RemainingPosition, Serial!allocate_entry_fee, allocate_entry_fee
<1>7. \A row, n, p, z, f, k, r :
         Serial!CloseOf(row, n, p, z, f, k, r) = CloseOf(row, n, p, z, f, k, r)
  BY DEF Serial!CloseOf, CloseOf, Serial!allocate_entry_fee, allocate_entry_fee
<1>8. \A n : Serial!FreshDatabase(n) = FreshDatabase(n)
  BY DEF Serial!FreshDatabase, FreshDatabase, Serial!NoPosition, NoPosition, Serial!NoTrades, NoTrades,
         Serial!NoOrders, NoOrders
<1>9. \A q : Serial!Fills(q) = Fills(q)
  BY DEF Serial!Fills, Fills
<1>. QED
  BY <1>1, <1>2, <1>3, <1>4, <1>5, <1>6, <1>7, <1>8, <1>9

\* The filled order of a request as the serial broker is given it.
LEMMA SerialFill ==
    ASSUME NEW j, Accepts(j), j.kind \in Orders, size \in [Symbols -> Nat \ {0}],
           ServedFees = j.fees, NEW fill, fill = [filled |-> j.quantity, price |-> j.price]
    PROVE  /\ Serial!Notional(j.symbol, fill) = Due(j, size)
           /\ Serial!OrderFee(j.kind, j.symbol, fill) = Charge(j, size)
<1>1. j.price \in Nat /\ j.quantity \in Nat /\ size[j.symbol] \in Nat
  BY MoneyNat DEF Accepts, JobType
<1>2. Serial!Notional(j.symbol, fill) = Due(j, size)
  BY <1>1, SwapFactors DEF Serial!Notional, Due
<1>. QED
  BY <1>2, SerialOps DEF Serial!OrderFee, Charge, Orders

LEMMA SerialBuys ==
    ASSUME NEW j, Accepts(j), j.kind = "buy", j.pc = "commit", db \in Database,
           size \in [Symbols -> Nat \ {0}], Fresh(j, db, size), ServedFees = j.fees,
           ServedDay = j.day, UNCHANGED <<ServedFees, size, ServedDay>>,
           db' = OrderWritten(j, db, size)
    PROVE  Serial!Next
<1>. DEFINE s == j.symbol
            fill == [filled |-> j.quantity, price |-> j.price]
<1>0. "commit" \in Paying /\ "commit" \in Quoted /\ "commit" \in Spending /\ j.kind \in Orders
      /\ j.kind \in Trading
  BY DEF Paying, Quoted, Spending, Writing, Orders, Trading
<1>1. /\ db.order_rows < MaxOrders /\ Expiry[s] >= j.day /\ j.price \in Prices
      /\ check_affordable(Due(j, size) + Charge(j, size), db.cash) /\ j.cash = db.cash
  BY <1>0 DEF Fresh
<1>2. PICK q \in Quantities : j.quantity \in 1 .. q
  BY <1>0 DEF Fresh
<1>3. q \in Nat /\ j.quantity \in Nat /\ j.quantity > 0 /\ q > 0 /\ fill \in Fills(q)
  BY <1>1, <1>2, Inputs DEF Fills
<1>4. Serial!Notional(s, fill) = Due(j, size) /\ Serial!OrderFee("buy", s, fill) = Charge(j, size)
  BY <1>0, SerialFill
<1>5. Serial!Accepted(s, "buy", q, "listed", fill)
  BY <1>1, <1>3, <1>4, SerialOps DEF Serial!Accepted
<1>6. s \in Symbols /\ Due(j, size) \in Nat /\ Charge(j, size) \in Nat /\ db.cash \in Int
  BY MoneyNat DEF Accepts, Database
<1>7. NewCash(j, size) = db.cash - Due(j, size) - Charge(j, size)
  BY <1>1, <1>6 DEF NewCash
<1>8. CashWritten(j, db, size).positions = db.positions
  BY CashHolds DEF Holds
<1>9. db' = save_order(
              upsert_position(update_cash(db, db.cash - Due(j, size) - Charge(j, size)), s,
                  BoughtPosition(db.positions[s], j.quantity, j.price, Charge(j, size),
                                 rates_known(j.fees))),
              s, j.quantity, 0, Charge(j, size))
  BY <1>7, <1>8 DEF OrderWritten, RowWritten, CashWritten
<1>10. Serial!Buy(s, q, "listed", fill)
  BY <1>1, <1>4, <1>5, <1>9, SerialOps DEF Serial!Buy
<1>. QED
  <2>1. "listed" \in Serial!ContractReplies
    BY DEF Serial!ContractReplies
  <2>2. Serial!Fills(q) = Fills(q)
    BY SerialOps
  <2>. HIDE DEF s, fill
  <2>. QED
    BY <1>3, <1>6, <1>10, <2>1, <2>2 DEF Serial!Next, Serial!PlaceOrder

LEMMA SerialSells ==
    ASSUME NEW j, Accepts(j), j.kind = "sell", j.pc = "commit", db \in Database,
           size \in [Symbols -> Nat \ {0}], Fresh(j, db, size), ServedFees = j.fees,
           ServedDay = j.day, UNCHANGED <<ServedFees, size, ServedDay>>,
           db' = OrderWritten(j, db, size)
    PROVE  Serial!Next
<1>. DEFINE s == j.symbol
            fill == [filled |-> j.quantity, price |-> j.price]
            fee == Charge(j, size)
            close == CloseOf(db.positions[s], j.quantity, j.price, size[s], fee, rates_known(j.fees),
                             "manual")
<1>0. "commit" \in Paying /\ "commit" \in Quoted /\ "commit" \in Spending /\ j.kind \in Orders
      /\ j.kind \in Trading /\ j.kind \in Closing
  BY DEF Paying, Quoted, Spending, Writing, Orders, Trading, Closing
<1>1. /\ db.order_rows < MaxOrders /\ Expiry[s] >= j.day /\ j.price \in Prices
      /\ j.row = db.positions[s] /\ j.cash = db.cash
  BY <1>0 DEF Fresh
<1>2. PICK q \in Quantities : j.quantity \in 1 .. q /\ q <= db.positions[s].quantity
  BY <1>0 DEF Fresh
<1>3. q \in Nat /\ j.quantity \in Nat /\ j.quantity > 0 /\ q > 0 /\ fill \in Fills(q)
  BY <1>1, <1>2, Inputs DEF Fills
<1>4. Serial!Notional(s, fill) = Due(j, size) /\ Serial!OrderFee("sell", s, fill) = fee
  BY <1>0, SerialFill
<1>5. s \in Symbols /\ Due(j, size) \in Nat /\ fee \in Nat /\ db.cash \in Int
      /\ db.positions[s].quantity \in Nat
  BY MoneyNat DEF Accepts, Database, Position
<1>6. Serial!Accepted(s, "sell", q, "listed", fill)
  BY <1>1, <1>2, <1>3, <1>5 DEF Serial!Accepted
<1>7. NewCash(j, size) = db.cash + Due(j, size) - fee
  BY <1>1, <1>5 DEF NewCash
<1>8. NewClose(j, size) = close
  BY <1>1 DEF NewClose
<1>9. db' = save_order(
              record_trade(
                upsert_position(update_cash(db, db.cash + Due(j, size) - fee), s,
                                RemainingPosition(db.positions[s], j.quantity)),
                s, close),
              s, 0, j.quantity, fee)
  BY <1>1, <1>7, <1>8 DEF OrderWritten, TradeWritten, RowWritten, CashWritten
<1>10. Serial!Sell(s, q, "listed", fill)
  <2>. HIDE DEF fee, s
  <2>. QED
    BY <1>1, <1>4, <1>6, <1>9, SerialOps DEF Serial!Sell
<1>. QED
  <2>1. "listed" \in Serial!ContractReplies
    BY DEF Serial!ContractReplies
  <2>2. Serial!Fills(q) = Fills(q)
    BY SerialOps
  <2>. HIDE DEF s, fill
  <2>. QED
    BY <1>3, <1>5, <1>10, <2>1, <2>2 DEF Serial!Next, Serial!PlaceOrder

LEMMA SerialSettles ==
    ASSUME NEW j, Accepts(j), j.kind = "settle", j.pc = "commit", db \in Database,
           size \in [Symbols -> Nat \ {0}], Fresh(j, db, size), ServedFees = j.fees,
           ServedDay = j.day, UNCHANGED <<ServedFees, size, ServedDay>>,
           db' = TradeWritten(j, db, size)
    PROVE  Serial!Next
<1>. DEFINE s == j.symbol
            row == db.positions[s]
            fee == Charge(j, size)
<1>0. "commit" \in Paying /\ "commit" \in Spending /\ j.kind \in Trading /\ j.kind \in Closing
  BY DEF Paying, Spending, Writing, Trading, Closing
<1>1. /\ Expiry[s] < j.day /\ j.price \in SettlePrices /\ j.cash = db.cash
      /\ j.row = row /\ row.quantity > 0 /\ j.quantity = row.quantity
  BY <1>0 DEF Fresh
<1>2. s \in Symbols /\ Due(j, size) \in Nat /\ fee \in Nat /\ db.cash \in Int /\ j.price >= 0
  BY MoneyNat DEF Accepts, Database, JobType
<1>3. /\ Due(j, size) = j.price * row.quantity * size[s]
      /\ fee = exit_cost(ServedFees, j.price * row.quantity * size[s])
  BY <1>1 DEF Due, Charge
<1>4. NewCash(j, size) = db.cash + Due(j, size) - fee
  BY <1>1, <1>2 DEF NewCash
<1>5. NewClose(j, size) = CloseOf(row, row.quantity, j.price, size[s], fee, rates_known(ServedFees),
                                  "expiry_settlement")
  BY <1>1 DEF NewClose
<1>6. db' = record_trade(delete_position(update_cash(db, db.cash + Due(j, size) - fee), s), s,
                         CloseOf(row, row.quantity, j.price, size[s], fee, rates_known(ServedFees),
                                 "expiry_settlement"))
  BY <1>4, <1>5 DEF TradeWritten, RowWritten, CashWritten
<1>7. Serial!Settle(s, j.price)
  <2>. HIDE DEF fee, s
  <2>. QED
    BY <1>1, <1>2, <1>3, <1>6, SerialOps DEF Serial!Settle
<1>. QED
  BY <1>1, <1>2, <1>7 DEF Serial!Next

LEMMA SerialRejects ==
    ASSUME NEW s \in Symbols, db.order_rows < MaxOrders, Quantities # {},
           UNCHANGED <<ServedFees, size, ServedDay>>, db' = save_order(db, s, 0, 0, 0)
    PROVE  Serial!Next
<1>1. PICK q \in Quantities, p \in Prices : TRUE
  BY RequestsAssumption
<1>. DEFINE fill == [filled |-> 0, price |-> p]
<1>2. fill \in Serial!Fills(q)
  <2>1. q \in Nat
    BY Inputs
  <2>2. fill \in Fills(q)
    BY <2>1 DEF Fills
  <2>. QED
    BY <2>2, SerialOps
<1>3. "missing" \in Serial!ContractReplies /\ "other" \in Serial!Sides
  BY DEF Serial!ContractReplies, Serial!Sides
<1>4. Serial!Reject(s, "other", q, "missing", fill)
  BY SerialOps DEF Serial!Reject, Serial!Accepted
<1>. HIDE DEF fill
<1>. QED
  BY <1>2, <1>3, <1>4 DEF Serial!Next, Serial!PlaceOrder

\* A request that returns hands over to the settings and the date of now.
LEMMA SerialWaits ==
    ASSUME ServedFees' \in FeeSchedules, ServedDay' \in {ServedDay, ServedDay + 1},
           ServedDay' <= LastDay, UNCHANGED <<db, size>>
    PROVE  Serial!Next
BY DEF Serial!Next, Serial!Environment

LEMMA SerialResets ==
    ASSUME db' = FreshDatabase(db.initial_balance), UNCHANGED <<ServedFees, size, ServedDay>>
    PROVE  Serial!Next
<1>1. Serial!Reset
  BY SerialOps DEF Serial!Reset
<1>. QED
  BY <1>1 DEF Serial!Next

\* A statement of the same request, with what it has read so far.
LEMMA FreshMoves ==
    ASSUME NEW j, Accepts(j), At(j), NEW d, NEW z, Fresh(j, d, z), NEW x \in Spending, NEW k,
           k = [j EXCEPT !.pc = x], j.kind \in Trading, j.pc \in Spending
    PROVE  Fresh(k, d, z)
<1>1. j \in JobType
  BY DEF Accepts
<1>2. /\ k.kind = j.kind /\ k.symbol = j.symbol /\ k.quantity = j.quantity /\ k.price = j.price
      /\ k.fees = j.fees /\ k.cash = j.cash /\ k.row = j.row /\ k.day = j.day /\ k.pc = x
  BY <1>1 DEF JobType
<1>3. Due(k, z) = Due(j, z) /\ Charge(k, z) = Charge(j, z)
  BY <1>1, OtherPoint
<1>4. /\ x \in Paying /\ x \in Quoted /\ j.pc \in Paying /\ j.pc \in Quoted
      /\ x \notin {"check_row", "market", "respond"} /\ j.pc \notin {"respond"}
  BY DEF Paying, Quoted, Spending, Writing
<1>. QED
  BY <1>2, <1>3, <1>4 DEF Fresh

\* A request that is past its own statements, or writes none.
LEMMA FreshPassive ==
    ASSUME NEW k, NEW d, NEW z, Quantities # {}, k.pc = "respond" \/ d.order_rows < MaxOrders,
           k.kind \in {"reset", "snapshot"} \/ k.pc \in {"reject", "respond"}
    PROVE  Fresh(k, d, z)
BY DEF Fresh, Paying, Quoted, Spending, Writing, Orders, Trading, Closing

\* A step of a snapshot changes only what its own request has read.
LEMMA SnapFields ==
    ASSUME NEW w \in Workers, job \in [Workers -> JobType],
           SnapCash(w) \/ SnapRows(w) \/ SnapTrades(w)
    PROVE  /\ job' = [job EXCEPT ![w] = job'[w]]
           /\ job'[w].kind = job[w].kind /\ job'[w].day = job[w].day
<1>1. job[w] \in JobType
  OBVIOUS
<1>2. CASE SnapCash(w)
  <2>. DEFINE k == [job[w] EXCEPT !.cash = db.cash, !.pc = "snap_rows"]
  <2>1. job' = [job EXCEPT ![w] = k] /\ job'[w] = k
    BY <1>2 DEF SnapCash
  <2>2. k.kind = job[w].kind /\ k.day = job[w].day
    BY <1>1 DEF JobType
  <2>. HIDE DEF k
  <2>. QED
    BY <2>1, <2>2
<1>3. CASE SnapRows(w)
  <2>. DEFINE known == \A s \in Symbols : db.positions[s].entry_fees_known
              k == [job[w] EXCEPT !.basis = OpenBasis, !.known = known, !.pc = "snap_trades"]
  <2>1. job' = [job EXCEPT ![w] = k] /\ job'[w] = k
    BY <1>3 DEF SnapRows
  <2>. HIDE DEF known
  <2>2. k.kind = job[w].kind /\ k.day = job[w].day
    BY <1>1 DEF JobType
  <2>. HIDE DEF k
  <2>. QED
    BY <2>1, <2>2
<1>4. CASE SnapTrades(w)
  <2>. DEFINE known == /\ job[w].known
                       /\ \A s \in Symbols : /\ db.trades[s].missing_entry = 0
                                             /\ db.trades[s].missing_exit = 0
              d == job[w].cash + job[w].basis - db.initial_balance - Recorded
              k == [job[w] EXCEPT !.known = known, !.difference = d, !.pc = "report"]
  <2>1. job' = [job EXCEPT ![w] = k] /\ job'[w] = k
    BY <1>4 DEF SnapTrades, ReportOf
  <2>. HIDE DEF known, d
  <2>2. k.kind = job[w].kind /\ k.day = job[w].day
    BY <1>1 DEF JobType
  <2>. HIDE DEF k
  <2>. QED
    BY <2>1, <2>2
<1>. QED
  BY <1>2, <1>3, <1>4

LEMMA NextStream ==
    ASSUME NEW w, Workers = {w}, Stream, [ReqNext]_reqVars
    PROVE  Stream' /\ [Serial!Next]_(Serial!vars)
<1>. DEFINE j == job[w]
            G == Stream' /\ [Serial!Next]_(Serial!vars)
<1>1. Threads /\ Threads' /\ w \in Workers
  BY NextThreads DEF Stream
<1>2. /\ job \in [Workers -> JobType] /\ job' \in [Workers -> JobType]
      /\ today \in Nat /\ today' \in Nat /\ today <= LastDay /\ today' <= LastDay /\ LastDay \in Nat
      /\ fees \in FeeSchedules /\ fees' \in FeeSchedules
      /\ size \in [Symbols -> Nat \ {0}] /\ db \in Database
      /\ job'[w].pc # "idle" => job'[w].fees \in FeeSchedules /\ job'[w].day <= LastDay
  BY <1>1, BrokerAssumption DEF Threads, TypeOK, Accepts
<1>3. j.pc # "idle" =>
        /\ Fresh(j, db, size) /\ j.day <= today /\ today <= j.day + 1 /\ j.day \in Nat
        /\ Accepts(j) /\ At(j) /\ j \in JobType
        /\ j.kind \in {"buy", "sell", "settle", "reset", "snapshot"}
        /\ Quantities # {} /\ (j.pc # "respond" => db.order_rows < MaxOrders)
  BY <1>1, <1>2, RequestsAssumption DEF Stream, Threads, Accepts, JobType, Fresh
<1>4. /\ ServedFees = IF job[w].pc = "idle" THEN fees ELSE job[w].fees
      /\ ServedDay = IF job[w].pc = "idle" THEN today ELSE job[w].day
      /\ ServedFees' = IF job'[w].pc = "idle" THEN fees' ELSE job'[w].fees
      /\ ServedDay' = IF job'[w].pc = "idle" THEN today' ELSE job'[w].day
  BY ServedIs
\* The request goes on, or ends, without a commit.
<1>5. ASSUME NEW k, job' = [job EXCEPT ![w] = k], UNCHANGED <<db, size, today>>,
             k.pc # "idle" => /\ Fresh(k, db, size)
                              /\ k.day = today \/ (j.pc # "idle" /\ k.day = j.day)
      PROVE  G
  <2>1. job'[w] = k
    BY <1>1, <1>2, <1>5
  <2>2. k.pc # "idle" => k.day <= today' /\ today' <= k.day + 1
    BY <1>2, <1>3, <1>5
  <2>3. Stream'
    BY <1>1, <1>5, <2>1, <2>2 DEF Stream
  <2>4. /\ ServedFees' \in FeeSchedules /\ ServedDay' \in {ServedDay, ServedDay + 1}
        /\ ServedDay' <= LastDay
    BY <1>2, <1>3, <1>4, <1>5, <2>1
  <2>. QED
    BY <1>5, <2>3, <2>4, SerialWaits
\* The request commits: the same settings and date stay in force.
<1>6. ASSUME j.pc # "idle", job' = [job EXCEPT ![w].pc = "respond"], UNCHANGED <<size, today>>,
             UNCHANGED <<ServedFees, size, ServedDay>> => Serial!Next
      PROVE  G
  <2>. DEFINE k == [j EXCEPT !.pc = "respond"]
  <2>1. job'[w] = k /\ k.pc = "respond" /\ k.fees = j.fees /\ k.day = j.day
    BY <1>1, <1>2, <1>3, <1>6 DEF JobType
  <2>. HIDE DEF k
  <2>2. Fresh(k, db', size')
    BY <1>3, <1>6, <2>1, FreshPassive
  <2>3. Stream'
    BY <1>1, <1>3, <1>6, <2>1, <2>2 DEF Stream
  <2>4. UNCHANGED <<ServedFees, size, ServedDay>>
    BY <1>4, <1>6, <2>1
  <2>. QED
    BY <1>6, <2>3, <2>4
<1>7. CASE Start(w)
  <2>1. PICK kind \in Kinds, s \in Symbols, q \in Quantities \ {0} :
          job' = [job EXCEPT ![w] = [Idle EXCEPT !.pc = Entry(kind), !.kind = kind, !.symbol = s,
                                                 !.quantity = q, !.fees = fees, !.day = today]]
    BY <1>7 DEF Start
  <2>. DEFINE k == [Idle EXCEPT !.pc = Entry(kind), !.kind = kind, !.symbol = s,
                                !.quantity = q, !.fees = fees, !.day = today]
  <2>2. /\ k.kind = kind /\ k.quantity = q /\ k.day = today /\ k.pc = Entry(kind)
        /\ kind \in {"buy", "sell", "settle", "reset", "snapshot"}
    BY RequestsAssumption DEF Idle
  <2>3. UNCHANGED <<db, size, today>> /\ db.order_rows < MaxOrders /\ job' = [job EXCEPT ![w] = k]
    BY <1>7, <2>1 DEF Start, Market
  <2>. HIDE DEF k
  <2>4. Fresh(k, db, size)
    BY <2>2, <2>3 DEF Fresh, Entry, Paying, Quoted, Spending, Writing, Orders, Trading, Closing
  <2>. QED
    BY <1>5, <2>2, <2>3, <2>4
<1>8. CASE CheckRow(w)
  <2>. DEFINE x == IF db.positions[j.symbol].quantity < j.quantity THEN "reject" ELSE "market"
              k == [j EXCEPT !.pc = x]
  <2>1. /\ j.pc = "check_row" /\ UNCHANGED <<db, size, today>> /\ job' = [job EXCEPT ![w].pc = x]
    BY <1>8 DEF CheckRow, Goto, Quiet, Market
  <2>2. /\ job' = [job EXCEPT ![w] = k] /\ k.pc = x /\ k.kind = j.kind /\ k.symbol = j.symbol
        /\ k.quantity = j.quantity /\ k.day = j.day
    BY <1>2, <1>3, <2>1 DEF JobType
  <2>3. j.kind = "sell" /\ j.quantity \in Quantities \ {0}
    BY <1>3, <2>1 DEF At, Fresh, Orders
  <2>4. /\ x \in {"reject", "market"}
        /\ x = "market" => j.quantity <= db.positions[j.symbol].quantity
    <3>1. db.positions[j.symbol].quantity \in Nat /\ j.quantity \in Nat
      BY <1>2, <1>3, <2>1 DEF Accepts, JobType, Database, Position
    <3>. QED
      BY <3>1
  <2>. HIDE DEF k, x
  <2>5. Fresh(k, db, size)
    BY <1>3, <2>1, <2>2, <2>3, <2>4
       DEF Fresh, Paying, Quoted, Spending, Writing, Orders, Trading, Closing
  <2>. QED
    BY <1>5, <2>1, <2>2, <2>5
<1>9. CASE QuoteOrder(w)
  <2>1. /\ j.pc = "market" /\ j.kind \in {"buy", "sell"} /\ UNCHANGED <<db, size, today>>
    BY <1>9 DEF QuoteOrder, Quiet, Market
  <2>2. CASE job' = [job EXCEPT ![w].pc = "reject", ![w].day = today]
    <3>. DEFINE k == [j EXCEPT !.pc = "reject", !.day = today]
    <3>1. job' = [job EXCEPT ![w] = k] /\ k.pc = "reject" /\ k.day = today
      BY <1>2, <1>3, <2>1, <2>2 DEF JobType
    <3>. HIDE DEF k
    <3>2. Fresh(k, db, size)
      BY <1>3, <2>1, <3>1, FreshPassive
    <3>. QED
      BY <1>5, <2>1, <3>1, <3>2
  <2>3. CASE ~(job' = [job EXCEPT ![w].pc = "reject", ![w].day = today])
    <3>1. PICK fill \in Fills(j.quantity) :
            /\ Expiry[j.symbol] >= today /\ fill.filled > 0
            /\ job' = [job EXCEPT
                  ![w].pc = IF j.kind = "buy" THEN "check_cash" ELSE "read_row",
                  ![w].quantity = fill.filled, ![w].price = fill.price, ![w].day = today]
      BY <1>9, <2>3 DEF QuoteOrder
    <3>. DEFINE x == IF j.kind = "buy" THEN "check_cash" ELSE "read_row"
                k == [j EXCEPT !.pc = x, !.quantity = fill.filled, !.price = fill.price,
                               !.day = today]
    <3>2. /\ job' = [job EXCEPT ![w] = k] /\ k.pc = x /\ k.kind = j.kind /\ k.symbol = j.symbol
          /\ k.quantity = fill.filled /\ k.price = fill.price /\ k.day = today
      <4>1. job' = [job EXCEPT ![w] = k]
        BY <1>2, <3>1
      <4>2. /\ k.pc = x /\ k.kind = j.kind /\ k.symbol = j.symbol
            /\ k.quantity = fill.filled /\ k.price = fill.price /\ k.day = today
        BY <1>3 DEF JobType
      <4>. QED
        BY <4>1, <4>2
    <3>3. /\ j.quantity \in Quantities \ {0} /\ j.quantity \in Nat
          /\ j.kind = "sell" => j.quantity <= db.positions[j.symbol].quantity
      BY <1>3, <2>1, Inputs DEF Fresh, Orders
    <3>4. fill.filled \in 1 .. j.quantity /\ fill.price \in Prices
      BY <3>1, <3>3 DEF Fills
    <3>5. x \in {"check_cash", "read_row"}
      OBVIOUS
    <3>. HIDE DEF k, x
    <3>6. \E q \in Quantities : /\ k.quantity \in 1 .. q
                                /\ k.kind = "sell" => q <= db.positions[k.symbol].quantity
      BY <3>2, <3>3, <3>4
    <3>7. Fresh(k, db, size)
      <4>1. k.pc \notin Paying /\ k.pc \notin Spending /\ k.pc \notin {"check_row", "market", "respond"}
        BY <3>2, <3>5 DEF Paying, Spending, Writing
      <4>2. k.kind # "settle"
        BY <2>1, <3>2
      <4>. QED
        BY <1>3, <2>1, <3>1, <3>2, <3>4, <3>6, <4>1, <4>2 DEF Fresh
    <3>. QED
      BY <1>5, <2>1, <3>2, <3>7
  <2>. QED
    BY <2>2, <2>3
<1>10. CASE QuoteSettlement(w)
  <2>1. j.pc = "market" /\ j.kind = "settle" /\ UNCHANGED <<db, size, today>>
    BY <1>10 DEF QuoteSettlement, Quiet, Market
  <2>2. CASE job' = [job EXCEPT ![w] = Idle]
    BY <1>5, <2>1, <2>2, IdleType
  <2>3. CASE ~(job' = [job EXCEPT ![w] = Idle])
    <3>1. PICK price \in SettlePrices :
            /\ Expiry[j.symbol] < today
            /\ job' = [job EXCEPT ![w].pc = "read_cash", ![w].price = price,
                                  ![w].quantity = j.row.quantity, ![w].day = today]
      BY <1>10, <2>3 DEF QuoteSettlement
    <3>. DEFINE k == [j EXCEPT !.pc = "read_cash", !.price = price, !.quantity = j.row.quantity,
                               !.day = today]
    <3>2. /\ job' = [job EXCEPT ![w] = k] /\ k.pc = "read_cash" /\ k.kind = j.kind
          /\ k.symbol = j.symbol /\ k.price = price /\ k.quantity = j.row.quantity
          /\ k.day = today /\ k.row = j.row
      BY <1>2, <1>3, <2>1, <3>1 DEF JobType
    <3>3. j.row = db.positions[j.symbol] /\ db.positions[j.symbol].quantity > 0
      BY <1>3, <2>1 DEF Fresh
    <3>. HIDE DEF k
    <3>4. Fresh(k, db, size)
      BY <1>3, <2>1, <3>1, <3>2, <3>3 DEF Fresh, Spending, Writing, Orders
    <3>. QED
      BY <1>5, <2>1, <3>2, <3>4
  <2>. QED
    BY <2>2, <2>3
<1>11. CASE CheckCash(w)
  <2>. DEFINE x == IF check_affordable(Due(j, size) + Charge(j, size), db.cash)
                   THEN "read_cash" ELSE "reject"
              k == [j EXCEPT !.pc = x]
  <2>1. JobNotional(w) = Due(j, size) /\ JobFee(w) = Charge(j, size)
    BY DEF JobNotional, JobFee, Due, Charge
  <2>2. /\ j.pc = "check_cash" /\ UNCHANGED <<db, size, today>> /\ job' = [job EXCEPT ![w].pc = x]
    BY <1>11, <2>1 DEF CheckCash, Goto, Quiet, Market
  <2>3. /\ job' = [job EXCEPT ![w] = k] /\ k.pc = x /\ k.kind = j.kind /\ k.symbol = j.symbol
        /\ k.quantity = j.quantity /\ k.price = j.price /\ k.day = j.day
    BY <1>2, <1>3, <2>2 DEF JobType
  <2>4. Due(k, size) = Due(j, size) /\ Charge(k, size) = Charge(j, size)
    BY <1>3, <2>2, OtherPoint
  <2>5. j.kind = "buy" /\ "check_cash" \in Quoted
    BY <1>3, <2>2 DEF At, Quoted
  <2>. HIDE DEF k
  <2>6. CASE check_affordable(Due(j, size) + Charge(j, size), db.cash)
    <3>1. k.pc = "read_cash"
      BY <2>3, <2>6
    <3>. HIDE DEF x, j
    <3>2. Fresh(k, db, size)
      BY <1>3, <2>2, <2>3, <2>4, <2>5, <2>6, <3>1
         DEF Fresh, Spending, Writing, Orders, Closing
    <3>. QED
      BY <1>5, <2>2, <2>3, <3>2
  <2>7. CASE ~ check_affordable(Due(j, size) + Charge(j, size), db.cash)
    <3>1. k.pc = "reject"
      BY <2>3, <2>7
    <3>2. Fresh(k, db, size)
      BY <1>3, <2>2, <3>1, FreshPassive
    <3>. QED
      BY <1>5, <2>2, <2>3, <3>2
  <2>. QED
    BY <2>6, <2>7
<1>12. CASE ReadRow(w)
  <2>. DEFINE row == db.positions[j.symbol]
              x == IF j.kind = "sell" THEN "read_cash" ELSE "market"
              k == [j EXCEPT !.row = row, !.pc = x]
  <2>1. /\ j.pc = "read_row" /\ UNCHANGED <<db, size, today>>
        /\ \/ job' = [job EXCEPT ![w] = Idle]
           \/ job' = [job EXCEPT ![w] = k] /\ row.quantity # 0
    BY <1>2, <1>12 DEF ReadRow, Quiet, Market
  <2>2. /\ k.pc = x /\ k.kind = j.kind /\ k.symbol = j.symbol /\ k.quantity = j.quantity
        /\ k.price = j.price /\ k.day = j.day /\ k.row = row
    BY <1>3, <2>1 DEF JobType
  <2>3. j.kind \in {"sell", "settle"} /\ row.quantity \in Nat
    BY <1>2, <1>3, <2>1 DEF At, Closing, Accepts, Database, Position
  <2>4. CASE job' = [job EXCEPT ![w] = Idle]
    BY <1>5, <2>1, <2>4, IdleType
  <2>5. CASE job' = [job EXCEPT ![w] = k] /\ row.quantity # 0
    <3>1. row.quantity > 0
      BY <2>3, <2>5
    <3>2. CASE j.kind = "sell"
      <4>1. x = "read_cash" /\ "read_row" \in Quoted
        BY <3>2 DEF Quoted
      <4>. HIDE DEF k, x
      <4>2. Fresh(k, db, size)
        BY <1>3, <2>1, <2>2, <3>1, <3>2, <4>1
           DEF Fresh, Spending, Writing, Orders, Closing
      <4>. QED
        BY <1>5, <2>1, <2>2, <2>5, <4>2
    <3>3. CASE j.kind = "settle"
      <4>1. x = "market"
        BY <3>3
      <4>. HIDE DEF k, x
      <4>2. Fresh(k, db, size)
        BY <1>3, <2>1, <2>2, <3>1, <3>3, <4>1
           DEF Fresh, Paying, Spending, Writing, Orders
      <4>. QED
        BY <1>5, <2>1, <2>2, <2>5, <4>2
    <3>. QED
      BY <2>3, <3>2, <3>3
  <2>. QED
    BY <2>1, <2>4, <2>5
<1>13. CASE ReadCash(w)
  <2>. DEFINE k == [j EXCEPT !.cash = db.cash, !.pc = "write_cash"]
  <2>1. /\ j.pc = "read_cash" /\ UNCHANGED <<db, size, today>>
        /\ job' = [job EXCEPT ![w].cash = db.cash, ![w].pc = "write_cash"]
    BY <1>13 DEF ReadCash, Quiet, Market
  <2>2. /\ job' = [job EXCEPT ![w] = k] /\ k.pc = "write_cash" /\ k.cash = db.cash
        /\ k.kind = j.kind /\ k.symbol = j.symbol /\ k.quantity = j.quantity
        /\ k.price = j.price /\ k.day = j.day /\ k.row = j.row /\ k.fees = j.fees
    BY <1>2, <1>3, <2>1 DEF JobType
  <2>. HIDE DEF k
  <2>3. Due(k, size) = Due(j, size) /\ Charge(k, size) = Charge(j, size)
    BY <2>2 DEF Due, Charge
  <2>4. /\ "read_cash" \in Paying /\ "read_cash" \in Quoted
        /\ "write_cash" \in Paying /\ "write_cash" \in Quoted
    BY DEF Paying, Quoted, Spending
  <2>5. Fresh(k, db, size)
    <3>. HIDE DEF j
    <3>. QED
      BY <1>3, <2>1, <2>2, <2>3, <2>4 DEF Fresh
  <2>. QED
    BY <1>5, <2>1, <2>2, <2>5
<1>14. CASE WriteCash(w) \/ WriteRow(w) \/ WriteTrade(w) \/ SaveOrder(w)
  <2>1. PICK x \in Spending : job' = [job EXCEPT ![w].pc = x]
    BY <1>14 DEF WriteCash, WriteRow, WriteTrade, SaveOrder, Goto, Spending, Writing
  <2>2. UNCHANGED <<db, size, today>> /\ j.pc \in Spending \ {"commit"} /\ j.pc # "idle"
    BY <1>14 DEF WriteCash, WriteRow, WriteTrade, SaveOrder, Market, Spending, Writing
  <2>3. j.kind \in Trading
    BY <1>3, <2>2 DEF At, Spending, Writing, Trading, Closing, Orders
  <2>. DEFINE k == [j EXCEPT !.pc = x]
  <2>4. job' = [job EXCEPT ![w] = k] /\ k.day = j.day
    BY <1>2, <1>3, <2>1, <2>2 DEF JobType
  <2>5. Fresh(k, db, size)
    BY <1>3, <2>2, <2>3, FreshMoves
  <2>. HIDE DEF k
  <2>. QED
    BY <1>5, <2>2, <2>4, <2>5
<1>15. CASE WriteReset(w)
  <2>. DEFINE k == [j EXCEPT !.pc = "commit"]
  <2>1. /\ j.pc = "write_reset" /\ UNCHANGED <<db, size, today>>
        /\ job' = [job EXCEPT ![w].pc = "commit"]
    BY <1>15 DEF WriteReset, Goto, Market
  <2>2. job' = [job EXCEPT ![w] = k] /\ k.day = j.day /\ k.kind = j.kind /\ k.pc = "commit"
    BY <1>2, <1>3, <2>1 DEF JobType
  <2>3. j.kind = "reset"
    BY <1>3, <2>1 DEF At
  <2>. HIDE DEF k
  <2>4. Fresh(k, db, size)
    BY <1>3, <2>1, <2>2, <2>3, FreshPassive
  <2>. QED
    BY <1>5, <2>1, <2>2, <2>4
<1>16. CASE SnapCash(w) \/ SnapRows(w) \/ SnapTrades(w)
  <2>1. /\ j.pc \in {"snap_cash", "snap_rows", "snap_trades"} /\ UNCHANGED <<db, size, today>>
    BY <1>16 DEF SnapCash, SnapRows, SnapTrades, Quiet, Market
  <2>2. job' = [job EXCEPT ![w] = job'[w]] /\ job'[w].kind = j.kind /\ job'[w].day = j.day
    BY <1>1, <1>2, <1>3, <1>16, <2>1, SnapFields
  <2>3. j.kind = "snapshot"
    BY <1>3, <2>1 DEF At
  <2>4. Fresh(job'[w], db, size)
    BY <1>3, <2>1, <2>2, <2>3, FreshPassive
  <2>. QED
    BY <1>5, <2>1, <2>2, <2>4
<1>17. CASE Respond(w) \/ Fail(w)
  <2>1. job' = [job EXCEPT ![w] = Idle] /\ UNCHANGED <<db, size, today>>
    BY <1>17 DEF Respond, Fail, Quiet, Market
  <2>. QED
    BY <1>5, <2>1, IdleType
<1>18. CASE Crash
  <2>1. job' = [job EXCEPT ![w] = Idle] /\ UNCHANGED <<db, size, today>>
    BY <1>2, <1>18 DEF Crash, Market
  <2>. QED
    BY <1>5, <2>1, IdleType
<1>19. CASE ChangeFees \/ UNCHANGED reqVars
  <2>1. job' = [job EXCEPT ![w] = j] /\ UNCHANGED <<db, size, today>>
    BY <1>2, <1>19 DEF ChangeFees, reqVars
  <2>. QED
    BY <1>3, <1>5, <2>1
<1>20. CASE Midnight
  <2>1. /\ job' = job /\ UNCHANGED <<db, size>> /\ today' = today + 1
        /\ j.pc = "idle" \/ j.day = today
    BY <1>1, <1>20 DEF Midnight
  <2>2. Stream'
    BY <1>1, <1>2, <1>3, <2>1 DEF Stream
  <2>3. /\ ServedFees' \in FeeSchedules /\ ServedDay' \in {ServedDay, ServedDay + 1}
        /\ ServedDay' <= LastDay
    BY <1>2, <1>4, <2>1
  <2>. QED
    BY <2>1, <2>2, <2>3, SerialWaits
<1>21. CASE Commit(w)
  <2>1. /\ j.pc = "commit" /\ j.pc # "idle" /\ job' = [job EXCEPT ![w].pc = "respond"]
        /\ UNCHANGED <<size, today>> /\ db' = pending
    BY <1>21 DEF Commit, Goto, Market
  <2>2. db' = Image(j, db, size)
    BY <1>1, <2>1 DEF Threads, Writing
  <2>3. ServedFees = j.fees /\ ServedDay = j.day
    BY <1>4, <2>1
  <2>. SUFFICES ASSUME UNCHANGED <<ServedFees, size, ServedDay>> PROVE Serial!Next
    BY <1>6, <2>1
  <2>4. Accepts(j) /\ At(j) /\ Fresh(j, db, size)
    BY <1>3, <2>1
  <2>. HIDE DEF j
  <2>5. CASE j.kind \in Orders
    <3>1. db' = OrderWritten(j, db, size)
      BY <2>1, <2>2, <2>4, <2>5, ImageIs
    <3>2. j.kind = "buy" \/ j.kind = "sell"
      BY <2>5 DEF Orders
    <3>. QED
      BY <1>2, <2>1, <2>3, <2>4, <3>1, <3>2, SerialBuys, SerialSells
  <2>6. CASE j.kind = "settle"
    <3>1. db' = TradeWritten(j, db, size)
      BY <2>1, <2>2, <2>4, <2>6, ImageIs
    <3>. QED
      BY <1>2, <2>1, <2>3, <2>4, <2>6, <3>1, SerialSettles
  <2>7. CASE j.kind = "reset"
    <3>1. db' = FreshDatabase(db.initial_balance)
      BY <2>1, <2>2, <2>4, <2>7, ImageIs
    <3>. QED
      BY <3>1, SerialResets
  <2>8. j.kind \in Orders \/ j.kind = "settle" \/ j.kind = "reset"
    BY <2>1, <2>4 DEF At, Orders, Trading
  <2>. QED
    BY <2>5, <2>6, <2>7, <2>8
<1>22. CASE SaveRejected(w)
  <2>1. /\ j.pc = "reject" /\ job' = [job EXCEPT ![w].pc = "respond"]
        /\ UNCHANGED <<size, today>> /\ db' = save_order(db, j.symbol, 0, 0, 0)
    BY <1>22 DEF SaveRejected, Goto, Market
  <2>2. j.symbol \in Symbols /\ db.order_rows < MaxOrders /\ Quantities # {} /\ j.pc # "idle"
    BY <1>3, <2>1 DEF Accepts
  <2>3. UNCHANGED <<ServedFees, size, ServedDay>> => Serial!Next
    BY <2>1, <2>2, SerialRejects
  <2>. QED
    BY <1>6, <2>1, <2>2, <2>3
<1>. QED
  BY <1>7, <1>8, <1>9, <1>10, <1>11, <1>12, <1>13, <1>14, <1>15, <1>16, <1>17, <1>18, <1>19,
     <1>20, <1>21, <1>22 DEF ReqNext, Step, OrderStep, SnapStep

LEMMA InitStream == ReqInit => Stream
<1>1. ReqInit => \A w \in Workers : job[w].pc = "idle"
  BY IdleType DEF ReqInit
<1>. QED
  BY <1>1, InitThreads DEF Stream

LEMMA InitSerial ==
    ASSUME NEW w, Workers = {w}, ReqInit
    PROVE  Serial!Init
<1>1. job[w].pc = "idle"
  BY IdleType DEF ReqInit
<1>2. ServedFees = fees /\ ServedDay = today
  BY <1>1, ServedIs
<1>. QED
  BY <1>2, SerialOps DEF ReqInit, Init, Serial!Init

\* With one request at a time the endpoints are the atomic broker: whatever
\* fails or crashes between the statements, every committed request is one call
\* of PaperBroker made under the settings and the date the request has read.
THEOREM OneStreamIsSerial ==
    ASSUME NEW w, Workers = {w}
    PROVE  ReqSpec => SerialSpec
<1>1. ReqInit => Stream /\ Serial!Init
  BY InitStream, InitSerial
<1>2. Stream /\ [ReqNext]_reqVars => Stream' /\ [Serial!Next]_(Serial!vars)
  BY NextStream
<1>. QED
  BY <1>1, <1>2, PTL DEF ReqSpec, SerialSpec, Serial!Spec

\* The same steps, of the module that has the theorems about the broker.
Broker == INSTANCE PaperBrokerProofs WITH fees <- ServedFees, today <- ServedDay

LEMMA SerialIsBroker ==
    /\ Serial!Init <=> Broker!Init
    /\ [Serial!Next]_(Serial!vars) <=> [Broker!Next]_(Broker!vars)
<1>1. Serial!vars = Broker!vars /\ Serial!vars' = Broker!vars'
  BY DEF Serial!vars, Broker!vars
<1>2. Serial!Init <=> Broker!Init
  BY DEF Serial!Init, Broker!Init, Serial!FreshDatabase, Broker!FreshDatabase, Serial!NoPosition,
         Broker!NoPosition, Serial!NoTrades, Broker!NoTrades, Serial!NoOrders, Broker!NoOrders
<1>3. \A side, s, fill : Serial!OrderFee(side, s, fill) = Broker!OrderFee(side, s, fill)
  BY DEF Serial!OrderFee, Broker!OrderFee, Serial!Notional, Broker!Notional, Serial!entry_cost,
         Broker!entry_cost, Serial!exit_cost, Broker!exit_cost, Serial!RateCost,
         Broker!RateCost, Serial!SellSideRate, Broker!SellSideRate
<1>4. \A s, side, quantity, contract, fill :
        Serial!Accepted(s, side, quantity, contract, fill)
          <=> Broker!Accepted(s, side, quantity, contract, fill)
  BY <1>3 DEF Serial!Accepted, Broker!Accepted, Serial!Notional, Broker!Notional,
              Serial!check_affordable, Broker!check_affordable
<1>5. /\ \A d, c : Serial!update_cash(d, c) = Broker!update_cash(d, c)
      /\ \A d, s, row : Serial!upsert_position(d, s, row) = Broker!upsert_position(d, s, row)
      /\ \A d, s : Serial!delete_position(d, s) = Broker!delete_position(d, s)
  BY DEF Serial!update_cash, Broker!update_cash, Serial!upsert_position, Broker!upsert_position,
         Serial!delete_position, Broker!delete_position, Serial!NoPosition, Broker!NoPosition
<1>6. /\ \A d, s, c : Serial!record_trade(d, s, c) = Broker!record_trade(d, s, c)
      /\ \A d, s, b, n, f : Serial!save_order(d, s, b, n, f) = Broker!save_order(d, s, b, n, f)
  BY DEF Serial!record_trade, Broker!record_trade, Serial!WithClose, Broker!WithClose,
         Serial!save_order, Broker!save_order, Serial!WithOrder, Broker!WithOrder
<1>7. /\ \A r, n, p, f, k :
           Serial!BoughtPosition(r, n, p, f, k) = Broker!BoughtPosition(r, n, p, f, k)
      /\ \A r, n : Serial!RemainingPosition(r, n) = Broker!RemainingPosition(r, n)
      /\ \A r, n, p, z, f, k, e :
           Serial!CloseOf(r, n, p, z, f, k, e) = Broker!CloseOf(r, n, p, z, f, k, e)
  BY DEF Serial!BoughtPosition, Broker!BoughtPosition, Serial!RemainingPosition,
         Broker!RemainingPosition, Serial!CloseOf, Broker!CloseOf, Serial!allocate_entry_fee,
         Broker!allocate_entry_fee
<1>8. \A f : Serial!rates_known(f) = Broker!rates_known(f)
  BY DEF Serial!rates_known, Broker!rates_known, Serial!is_zero, Broker!is_zero
<1>9. \A s, quantity, contract, fill :
        Serial!Buy(s, quantity, contract, fill) <=> Broker!Buy(s, quantity, contract, fill)
  BY <1>3, <1>4, <1>5, <1>6, <1>7, <1>8 DEF Serial!Buy, Broker!Buy, Serial!Notional,
                                            Broker!Notional
<1>10. \A s, quantity, contract, fill :
         Serial!Sell(s, quantity, contract, fill) <=> Broker!Sell(s, quantity, contract, fill)
  BY <1>3, <1>4, <1>5, <1>6, <1>7, <1>8 DEF Serial!Sell, Broker!Sell, Serial!Notional,
                                            Broker!Notional
<1>11. \A s, side, quantity, contract, fill :
         Serial!Reject(s, side, quantity, contract, fill)
           <=> Broker!Reject(s, side, quantity, contract, fill)
  BY <1>4, <1>6 DEF Serial!Reject, Broker!Reject
<1>12. Serial!PlaceOrder <=> Broker!PlaceOrder
  <2>1. /\ \A q : Serial!Fills(q) = Broker!Fills(q)
        /\ Serial!ContractReplies = Broker!ContractReplies /\ Serial!Sides = Broker!Sides
    BY DEF Serial!Fills, Broker!Fills, Serial!ContractReplies, Broker!ContractReplies,
           Serial!Sides, Broker!Sides
  <2>. QED
    BY <1>9, <1>10, <1>11, <2>1 DEF Serial!PlaceOrder, Broker!PlaceOrder
<1>13. \A s, price : Serial!Settle(s, price) <=> Broker!Settle(s, price)
  <2>1. \A f, n : Serial!exit_cost(f, n) = Broker!exit_cost(f, n)
    BY DEF Serial!exit_cost, Broker!exit_cost, Serial!RateCost, Broker!RateCost,
           Serial!SellSideRate, Broker!SellSideRate
  <2>. QED
    BY <1>5, <1>6, <1>7, <1>8, <2>1 DEF Serial!Settle, Broker!Settle
<1>14. Serial!Reset <=> Broker!Reset
  BY DEF Serial!Reset, Broker!Reset, Serial!FreshDatabase, Broker!FreshDatabase,
         Serial!NoPosition, Broker!NoPosition, Serial!NoTrades, Broker!NoTrades,
         Serial!NoOrders, Broker!NoOrders
<1>15. Serial!Environment <=> Broker!Environment
  BY DEF Serial!Environment, Broker!Environment
<1>16. Serial!Next <=> Broker!Next
  BY <1>12, <1>13, <1>14, <1>15 DEF Serial!Next, Broker!Next
<1>. QED
  BY <1>1, <1>2, <1>16

LEMMA SameReconciled == Broker!Reconciled <=> Reconciled
<1>1. \A f : Broker!SumFunction(f) = SumFunction(f)
  BY DEF Broker!SumFunction, SumFunction, Broker!SumFunctionOnSet, SumFunctionOnSet,
         Broker!FoldFunctionOnSet, FoldFunctionOnSet, Broker!MapThenFoldSet, MapThenFoldSet
<1>2. Broker!OpenBasis = OpenBasis /\ Broker!Recorded = Recorded
  BY <1>1 DEF Broker!OpenBasis, OpenBasis, Broker!Recorded, Recorded, Broker!cost_basis, cost_basis,
              Broker!RecordedPnl, RecordedPnl
<1>3. Broker!costs_known(db) = costs_known(db)
  BY DEF Broker!costs_known, costs_known, Broker!CostsKnownOf, CostsKnownOf
<1>. QED
  BY <1>2, <1>3 DEF Broker!Reconciled, Reconciled

\* One stream of requests keeps the books: the identity of paper_account.py
\* holds after every statement, failure and crash.  With two streams the run
\* LostUpdate shows that it does not.
THEOREM OneStreamReconciles ==
    ASSUME NEW w, Workers = {w}
    PROVE  ReqSpec => []Reconciled
<1>1. Broker!Spec => []Broker!Reconciled
  BY Broker!BooksBalance, SymbolsAssumption, RateBaseAssumption, ToleranceAssumption,
     BrokerAssumption DEF FeeSchedule, Broker!FeeSchedule, IsFiniteSet, Broker!IsFiniteSet
<1>2. ReqSpec => Serial!Spec
  BY OneStreamIsSerial DEF SerialSpec
<1>. QED
  BY <1>1, <1>2, SerialIsBroker, SameReconciled, PTL DEF Serial!Spec, Broker!Spec
=============================================================================
