--------------------------- MODULE PaperRequests ---------------------------
(***************************************************************************)
(* The paper-trading endpoints of web/api.py as they really run: every     *)
(* request has its own thread, its own PaperBroker and its own SQLite      *)
(* connection on the one account file, and nothing serialises them.        *)
(*                                                                         *)
(* Python's sqlite3 opens a transaction at the first INSERT, UPDATE or     *)
(* DELETE, not at the with-statement: a SELECT before it reads whatever is *)
(* committed at that moment and holds nothing.  From the first write to    *)
(* commit the connection owns the write lock, its changes are visible only *)
(* to itself, and other writers wait up to the busy timeout.  A failure    *)
(* rolls back; a dead process leaves the last committed file.              *)
(***************************************************************************)
EXTENDS PaperProperties

CONSTANTS
    Workers,     \* request threads
    Kinds        \* request kinds this instance sends

VARIABLES
    job,      \* job[w]: the request w is serving, with the values it has read
    lock,     \* the connection holding SQLite's write lock, or NoWorker
    pending   \* the database as the lock holder sees it, uncommitted

reqVars == <<db, fees, size, today, job, lock, pending>>

NoWorker == "none"

ASSUME RequestsAssumption ==
    /\ NoWorker \notin Workers
    /\ Kinds \subseteq {"buy", "sell", "settle", "reset", "snapshot"}
    /\ Prices # {}

Unset == [buy_rate |-> 0, sell_rate |-> 0, sell_tax_rate |-> 0, per_order |-> 0,
          declared |-> FALSE]

Idle == [pc |-> "idle", kind |-> "none", symbol |-> "none", quantity |-> 0,
         price |-> 0, fees |-> Unset, day |-> 0, row |-> NoPosition,
         cash |-> 0, basis |-> 0, known |-> TRUE, difference |-> 0]

ReqInit == /\ Init
           /\ job = [w \in Workers |-> Idle]
           /\ lock = NoWorker
           /\ pending = db

Market == <<fees, size, today>>

\* The first program counter of each kind of request.
Entry(kind) == CASE kind = "buy"      -> "market"
                 [] kind = "sell"     -> "check_row"
                 [] kind = "settle"   -> "read_row"
                 [] kind = "reset"    -> "write_reset"
                 [] kind = "snapshot" -> "snap_cash"

\* The endpoint reads settings.yaml once and builds the broker from it.  Opening
\* the store writes paper_meta, so it waits for a running transaction.
Start(w) ==
    /\ job[w].pc = "idle"
    /\ lock = NoWorker
    /\ db.order_rows < MaxOrders
    /\ \E kind \in Kinds, s \in Symbols, q \in Quantities \ {0} :
        job' = [job EXCEPT ![w] = [Idle EXCEPT !.pc = Entry(kind), !.kind = kind,
                                   !.symbol = s, !.quantity = q, !.fees = fees,
                                   !.day = today]]
    /\ UNCHANGED <<db, lock, pending, Market>>

Goto(w, pc) == job' = [job EXCEPT ![w].pc = pc]

Quiet == UNCHANGED <<db, lock, pending, Market>>

----------------------------------------------------------------------------
(* Reads: each SELECT sees the committed file and holds no lock *)

\* place_order, sell: held < quantity is refused.
CheckRow(w) ==
    /\ job[w].pc = "check_row"
    /\ Goto(w, IF db.positions[job[w].symbol].quantity < job[w].quantity
               THEN "reject" ELSE "market")
    /\ Quiet

\* resolve_contract and the order book come from the network: no contract, an
\* expired one, no book or no depth refuse the order.
QuoteOrder(w) ==
    /\ job[w].pc = "market"
    /\ job[w].kind \in {"buy", "sell"}
    /\ \/ job' = [job EXCEPT ![w].pc = "reject", ![w].day = today]
       \/ /\ Expiry[job[w].symbol] >= today
          /\ \E fill \in Fills(job[w].quantity) :
                /\ fill.filled > 0
                /\ job' = [job EXCEPT
                      ![w].pc = IF job[w].kind = "buy" THEN "check_cash" ELSE "read_row",
                      ![w].quantity = fill.filled, ![w].price = fill.price,
                      ![w].day = today]
    /\ Quiet

\* settle_position: no contract, or one not yet expired, raises ValueError.
QuoteSettlement(w) ==
    /\ job[w].pc = "market"
    /\ job[w].kind = "settle"
    /\ \/ job' = [job EXCEPT ![w] = Idle]
       \/ /\ Expiry[job[w].symbol] < today
          /\ \E price \in SettlePrices :
                /\ price >= 0
                /\ job' = [job EXCEPT ![w].pc = "read_cash", ![w].price = price,
                                      ![w].quantity = job[w].row.quantity,
                                      ![w].day = today]
    /\ Quiet

JobNotional(w) == job[w].price * job[w].quantity * size[job[w].symbol]

JobFee(w) == IF job[w].kind = "buy" THEN entry_cost(job[w].fees, JobNotional(w))
             ELSE exit_cost(job[w].fees, JobNotional(w))

\* Faulty: the purchase is not checked.
CheckCashSkipped(w) ==
    /\ job[w].pc = "check_cash"
    /\ Goto(w, "read_cash")
    /\ Quiet

\* check_affordable on the cash committed now.
CheckCash(w) ==
    /\ job[w].pc = "check_cash"
    /\ Goto(w, IF check_affordable(JobNotional(w) + JobFee(w), db.cash)
               THEN "read_cash" ELSE "reject")
    /\ Quiet

\* get_position of _apply_sell and of settle_position.  A row that has gone
\* makes the sell raise, and settle_position refuse.
ReadRow(w) ==
    LET row == db.positions[job[w].symbol]
    IN  /\ job[w].pc = "read_row"
        /\ job' = [job EXCEPT ![w] =
              IF row.quantity = 0 THEN Idle
              ELSE [@ EXCEPT !.row = row,
                             !.pc = IF job[w].kind = "sell" THEN "read_cash"
                                    ELSE "market"]]
        /\ Quiet

\* get_account before update_cash.
ReadCash(w) ==
    /\ job[w].pc = "read_cash"
    /\ job' = [job EXCEPT ![w].cash = db.cash, ![w].pc = "write_cash"]
    /\ Quiet

----------------------------------------------------------------------------
(* Statements of the transaction *)

\* update_cash is the first write: it takes the lock, or waits for it.
WriteCash(w) ==
    LET paid == JobNotional(w) + JobFee(w)
        got  == JobNotional(w) - JobFee(w)
    IN  /\ job[w].pc = "write_cash"
        /\ lock = NoWorker
        /\ lock' = w
        /\ pending' = update_cash(db, IF job[w].kind = "buy" THEN job[w].cash - paid
                                      ELSE job[w].cash + got)
        /\ Goto(w, "write_row")
        /\ UNCHANGED <<db, Market>>

\* A buy reads the row it merges with inside the transaction; a sell and a
\* settlement use the row they read before it.
WriteRow(w) ==
    LET s == job[w].symbol
    IN  /\ job[w].pc = "write_row"
        /\ pending' =
             CASE job[w].kind = "buy" ->
                    upsert_position(pending, s,
                        BoughtPosition(pending.positions[s], job[w].quantity,
                                       job[w].price, JobFee(w),
                                       rates_known(job[w].fees)))
               [] job[w].kind = "sell" ->
                    upsert_position(pending, s,
                        RemainingPosition(job[w].row, job[w].quantity))
               [] job[w].kind = "settle" -> delete_position(pending, s)
        /\ Goto(w, IF job[w].kind = "buy" THEN "save_order" ELSE "write_trade")
        /\ UNCHANGED <<db, lock, Market>>

WriteTrade(w) ==
    LET reason == IF job[w].kind = "sell" THEN "manual" ELSE "expiry_settlement"
    IN  /\ job[w].pc = "write_trade"
        /\ pending' = record_trade(pending, job[w].symbol,
              CloseOf(job[w].row, job[w].quantity, job[w].price,
                      size[job[w].symbol], JobFee(w), rates_known(job[w].fees), reason))
        /\ Goto(w, IF job[w].kind = "sell" THEN "save_order" ELSE "commit")
        /\ UNCHANGED <<db, lock, Market>>

SaveOrder(w) ==
    LET bought == IF job[w].kind = "buy" THEN job[w].quantity ELSE 0
        sold   == IF job[w].kind = "sell" THEN job[w].quantity ELSE 0
    IN  /\ job[w].pc = "save_order"
        /\ pending' = save_order(pending, job[w].symbol, bought, sold, JobFee(w))
        /\ Goto(w, "commit")
        /\ UNCHANGED <<db, lock, Market>>

\* store.reset deletes all rows and restores the balance in one transaction.
WriteReset(w) ==
    /\ job[w].pc = "write_reset"
    /\ lock = NoWorker
    /\ lock' = w
    /\ pending' = FreshDatabase(db.initial_balance)
    /\ Goto(w, "commit")
    /\ UNCHANGED <<db, Market>>

Commit(w) ==
    /\ job[w].pc = "commit"
    /\ db' = pending
    /\ lock' = NoWorker
    /\ Goto(w, "respond")
    /\ UNCHANGED <<pending, Market>>

\* _rejected saves its one row and commits it at once.
SaveRejected(w) ==
    /\ job[w].pc = "reject"
    /\ lock = NoWorker
    /\ db' = save_order(db, job[w].symbol, 0, 0, 0)
    /\ pending' = db'
    /\ Goto(w, "respond")
    /\ UNCHANGED <<lock, Market>>

Respond(w) ==
    /\ job[w].pc \in {"respond", "report"}
    /\ job' = [job EXCEPT ![w] = Idle]
    /\ Quiet

----------------------------------------------------------------------------
(* GET /api/paper-trading/account: account_snapshot reads the account, then *)
(* the positions (pricing each over the network), then the trades           *)

SnapCash(w) ==
    /\ job[w].pc = "snap_cash"
    /\ job' = [job EXCEPT ![w].cash = db.cash, ![w].pc = "snap_rows"]
    /\ Quiet

SnapRows(w) ==
    /\ job[w].pc = "snap_rows"
    /\ job' = [job EXCEPT ![w].basis = OpenBasis,
                          ![w].known = \A s \in Symbols : db.positions[s].entry_fees_known,
                          ![w].pc = "snap_trades"]
    /\ Quiet

\* What the reconciliation dict holds when the account row says cash.
ReportOf(w, cash) ==
    job' = [job EXCEPT
          ![w].known = @ /\ \A s \in Symbols : /\ db.trades[s].missing_entry = 0
                                               /\ db.trades[s].missing_exit = 0,
          ![w].difference = cash + job[w].basis - db.initial_balance - Recorded,
          ![w].pc = "report"]

\* Faulty: the account row is read again, last.
SnapTradesLate(w) ==
    /\ job[w].pc = "snap_trades"
    /\ ReportOf(w, db.cash)
    /\ Quiet

\* The reconciliation dict: `known' is its field applicable.
SnapTrades(w) ==
    /\ job[w].pc = "snap_trades"
    /\ ReportOf(w, job[w].cash)
    /\ Quiet

----------------------------------------------------------------------------
(* Failures and the environment *)

\* Faulty: what was written before the exception is committed.
FailCommits(w) ==
    /\ job[w].pc \notin {"idle", "respond", "report"}
    /\ job' = [job EXCEPT ![w] = Idle]
    /\ lock' = IF lock = w THEN NoWorker ELSE lock
    /\ db' = IF lock = w THEN pending ELSE db
    /\ UNCHANGED <<pending, Market>>

\* Faulty: a thread that finds the write lock taken waits without a timeout.
FailExceptBusy(w) ==
    /\ job[w].pc \notin {"idle", "respond", "report"}
    /\ job[w].pc \in {"write_cash", "write_reset", "reject"} => lock = NoWorker
    /\ job' = [job EXCEPT ![w] = Idle]
    /\ lock' = IF lock = w THEN NoWorker ELSE lock
    /\ pending' = IF lock = w THEN db ELSE pending
    /\ UNCHANGED <<db, Market>>

\* Any exception before commit, a busy timeout included: rollback, HTTP 500.
Fail(w) ==
    /\ job[w].pc \notin {"idle", "respond", "report"}
    /\ job' = [job EXCEPT ![w] = Idle]
    /\ lock' = IF lock = w THEN NoWorker ELSE lock
    /\ pending' = IF lock = w THEN db ELSE pending
    /\ UNCHANGED <<db, Market>>

\* The server process dies: the uncommitted image is lost with it.
Crash ==
    /\ \E w \in Workers : job[w].pc # "idle"
    /\ job' = [w \in Workers |-> Idle]
    /\ lock' = NoWorker
    /\ pending' = db
    /\ UNCHANGED <<db, Market>>

\* Settings may change under a running request, which keeps what it read; no
\* request lives long enough to see midnight twice.
ChangeFees == /\ fees' \in FeeSchedules
              /\ UNCHANGED <<db, size, today, job, lock, pending>>

Midnight == /\ \A w \in Workers : job[w].pc = "idle" \/ job[w].day = today
            /\ today < LastDay
            /\ today' = today + 1
            /\ UNCHANGED <<db, fees, size, job, lock, pending>>

OrderStep(w) == \/ CheckRow(w) \/ QuoteOrder(w) \/ QuoteSettlement(w)
                \/ CheckCash(w) \/ ReadRow(w)
                \/ ReadCash(w) \/ WriteCash(w) \/ WriteRow(w) \/ WriteTrade(w)
                \/ SaveOrder(w) \/ WriteReset(w) \/ Commit(w) \/ SaveRejected(w)

SnapStep(w) == SnapCash(w) \/ SnapRows(w) \/ SnapTrades(w)

Step(w) == OrderStep(w) \/ SnapStep(w) \/ Respond(w)

ReqNext == \/ \E w \in Workers : Start(w) \/ Step(w) \/ Fail(w)
           \/ Crash
           \/ ChangeFees
           \/ Midnight

ReqSpec == ReqInit /\ [][ReqNext]_reqVars

\* A thread keeps running, and a wait for the lock ends by the busy timeout.
FairReqSpec == ReqSpec /\ \A w \in Workers : WF_reqVars(Step(w) \/ Fail(w))

----------------------------------------------------------------------------
(* Properties *)

\* GET /api/paper-trading/account reads the cash, the rows and the trades at
\* three moments.  Purchases that commit in between can only make the account
\* look richer than it is: no report shows money missing.
ReportNeverShort == \A w \in Workers : job[w].pc = "report" => job[w].difference >= 0

\* Lost cash updates of concurrent purchases can only leave money that was
\* spent in the account; they never make it vanish.
NeverLosesMoney == db.cash + OpenBasis >= db.initial_balance + Recorded

\* Every request is answered: nobody waits for the write lock for ever.
Responds == \A w \in Workers : job[w].pc # "idle" ~> job[w].pc = "idle"

Busy == {w \in Workers : job[w].pc # "idle"}

Served == job[CHOOSE w \in Busy : TRUE]

ServedFees == IF Busy = {} THEN fees ELSE Served.fees

ServedDay == IF Busy = {} THEN today ELSE Served.day

\* One request stream is serial: with a single worker every committed request
\* is one atomic call of PaperBroker, whatever fails or crashes in between, as
\* if made under the settings and the date the request itself has read.
Serial == INSTANCE PaperBroker WITH fees <- ServedFees, today <- ServedDay

SerialSpec == Serial!Spec
=============================================================================
