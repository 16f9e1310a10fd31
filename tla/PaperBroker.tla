---------------------------- MODULE PaperBroker ----------------------------
(***************************************************************************)
(* execution/paper_broker.py served one request at a time: each action is  *)
(* a whole call of PaperBroker on the account file.  PaperRequests splits  *)
(* the same calls into the reads and statements that interleave when the   *)
(* panel sends several requests at once.                                   *)
(*                                                                         *)
(* The market is the environment: whether a contract resolves and how much *)
(* of an order its book fills, at which average price, are inputs of every *)
(* call.                                                                   *)
(***************************************************************************)
EXTENDS PaperLedger

CONSTANTS
    InitialBalance,  \* paper_trading.initial_balance when the file is created
    Quantities,      \* quantities a request may ask for
    Prices,          \* average premiums a book may fill at
    SettlePrices,    \* premiums a user may assume at expiry
    FeeSchedules,    \* values of paper_trading.fees
    Expiry,          \* Expiry[s]: last trading day of s
    ContractSize,    \* ContractSize[s]: units per contract when s is listed
    LastDay,         \* bound: the calendar stops here
    MaxOrders        \* bound: rows of paper_orders

ASSUME BrokerAssumption ==
    /\ InitialBalance \in Nat
    /\ Quantities \subseteq Nat
    /\ Prices \subseteq Nat \ {0}
    /\ SettlePrices \subseteq Int
    /\ FeeSchedules \subseteq FeeSchedule
    /\ Expiry \in [Symbols -> Nat]
    /\ ContractSize \in [Symbols -> Nat \ {0}]
    /\ LastDay \in Nat
    /\ MaxOrders \in Nat

VARIABLES
    db,      \* the account file
    fees,    \* the FeeSchedule the settings file holds
    size,    \* size[s]: contract_size the data source reports, taken as fixed
    today

vars == <<db, fees, size, today>>

\* The initial schedule is any: the settings exist before the account does.
Init == /\ db = FreshDatabase(InitialBalance)
        /\ fees \in FeeSchedules
        /\ size = ContractSize
        /\ today = 0

----------------------------------------------------------------------------
(* place_order *)

Sides == {"buy", "sell", "other"}

\* resolve_contract: not found, found without an ins_code, or usable.
ContractReplies == {"missing", "no_ins_code", "listed"}

\* The book's answer: filled = 0 when there is no book or no depth.
Fills(quantity) == [filled : 0 .. quantity, price : Prices]

Notional(s, fill) == fill.filled * fill.price * size[s]

OrderFee(side, s, fill) ==
    IF side = "buy" THEN entry_cost(fees, Notional(s, fill))
    ELSE exit_cost(fees, Notional(s, fill))

\* Faulty: a sale does not look at what is held.
AcceptedUnheld(s, side, quantity, contract, fill) ==
    /\ quantity > 0
    /\ side \in {"buy", "sell"}
    /\ contract = "listed"
    /\ Expiry[s] >= today
    /\ fill.filled > 0
    /\ side = "buy" => check_affordable(Notional(s, fill) + OrderFee("buy", s, fill),
                                        db.cash)

\* Faulty: the expiry is not compared.
AcceptedLate(s, side, quantity, contract, fill) ==
    /\ quantity > 0
    /\ side \in {"buy", "sell"}
    /\ side = "sell" => db.positions[s].quantity >= quantity
    /\ contract = "listed"
    /\ fill.filled > 0
    /\ side = "buy" => check_affordable(Notional(s, fill) + OrderFee("buy", s, fill),
                                        db.cash)

\* The checks of place_order, in the code's order.
Accepted(s, side, quantity, contract, fill) ==
    /\ quantity > 0
    /\ side \in {"buy", "sell"}
    /\ side = "sell" => db.positions[s].quantity >= quantity
    /\ contract = "listed"
    /\ Expiry[s] >= today
    /\ fill.filled > 0
    /\ side = "buy" => check_affordable(Notional(s, fill) + OrderFee("buy", s, fill),
                                        db.cash)

\* _rejected: only an order row is written.
Reject(s, side, quantity, contract, fill) ==
    /\ db.order_rows < MaxOrders
    /\ ~ Accepted(s, side, quantity, contract, fill)
    /\ db' = save_order(db, s, 0, 0, 0)
    /\ UNCHANGED <<fees, size, today>>

Buy(s, quantity, contract, fill) ==
    LET fee == OrderFee("buy", s, fill)
        row == BoughtPosition(db.positions[s], fill.filled, fill.price, fee,
                              rates_known(fees))
    IN  /\ db.order_rows < MaxOrders
        /\ Accepted(s, "buy", quantity, contract, fill)
        /\ db' = save_order(
                   upsert_position(update_cash(db, db.cash - Notional(s, fill) - fee),
                                   s, row),
                   s, fill.filled, 0, fee)
        /\ UNCHANGED <<fees, size, today>>

Sell(s, quantity, contract, fill) ==
    LET fee   == OrderFee("sell", s, fill)
        row   == db.positions[s]
        close == CloseOf(row, fill.filled, fill.price, size[s], fee,
                         rates_known(fees), "manual")
    IN  /\ db.order_rows < MaxOrders
        /\ Accepted(s, "sell", quantity, contract, fill)
        /\ db' = save_order(
                   record_trade(
                     upsert_position(update_cash(db, db.cash + Notional(s, fill) - fee),
                                     s, RemainingPosition(row, fill.filled)),
                     s, close),
                   s, 0, fill.filled, fee)
        /\ UNCHANGED <<fees, size, today>>

PlaceOrder ==
    \E s \in Symbols, quantity \in Quantities, contract \in ContractReplies :
        \E fill \in Fills(quantity) :
            \/ Buy(s, quantity, contract, fill)
            \/ Sell(s, quantity, contract, fill)
            \/ \E side \in Sides : Reject(s, side, quantity, contract, fill)

----------------------------------------------------------------------------
(* settle_position, reset *)

\* The user's assumed premium closes the whole expired row; a call that fails
\* a check raises ValueError and changes nothing.
Settle(s, price) ==
    LET row      == db.positions[s]
        notional == price * row.quantity * size[s]
        fee      == exit_cost(fees, notional)
    IN  /\ row.quantity > 0
        /\ price >= 0
        /\ Expiry[s] < today
        /\ db' = record_trade(
                   delete_position(update_cash(db, db.cash + notional - fee), s),
                   s, CloseOf(row, row.quantity, price, size[s], fee,
                              rates_known(fees), "expiry_settlement"))
        /\ UNCHANGED <<fees, size, today>>

Reset == /\ db' = FreshDatabase(db.initial_balance)
         /\ UNCHANGED <<fees, size, today>>

----------------------------------------------------------------------------
(* Environment *)

\* Between two calls PUT /api/paper-trading/settings may replace the fee
\* schedule, which affects later calls only, and midnight may pass.
Environment == /\ fees' \in FeeSchedules
               /\ today' \in {today, today + 1}
               /\ today' <= LastDay
               /\ UNCHANGED <<db, size>>

Next == \/ PlaceOrder
        \/ \E s \in Symbols, price \in SettlePrices : Settle(s, price)
        \/ Reset
        \/ Environment

Spec == Init /\ [][Next]_vars
=============================================================================
