---------------------------- MODULE PaperLedger ----------------------------
(***************************************************************************)
(* The arithmetic and the rows of the paper-trading account:               *)
(*   risk/fees.py, execution/paper_account.py and the row operations of    *)
(*   storage/paper_trading_store.py.                                       *)
(*                                                                         *)
(* Money is an integer number of rials.  Where the code divides floats the *)
(* model divides integers and leaves the remainder with the part that      *)
(* stays open, so a split never creates or destroys money.                 *)
(* A position row keeps quantity * average_price as `cost'; the average    *)
(* the code stores is cost / quantity.                                     *)
(* The append-only tables are kept as the sums the program reports on:     *)
(*   trades[s]  the closed trades of s (summarize_trades), split by        *)
(*              close_reason into sales and settlements of expired rows;   *)
(*   orders[s]  the filled orders of s.                                    *)
(***************************************************************************)
EXTENDS Integers, FiniteSets

CONSTANTS
    Symbols,      \* option symbols
    RateBase,     \* a rate r stands for the fraction r / RateBase
    Tolerance     \* RECONCILIATION_TOLERANCE

ASSUME SymbolsAssumption == IsFiniteSet(Symbols)
ASSUME RateBaseAssumption == RateBase \in Nat \ {0}
ASSUME ToleranceAssumption == Tolerance \in Nat

----------------------------------------------------------------------------
(* risk/fees.py *)

FeeSchedule == [buy_rate : Nat, sell_rate : Nat, sell_tax_rate : Nat,
                per_order : Nat, declared : BOOLEAN]

is_zero(f) == /\ f.buy_rate = 0
              /\ f.sell_rate = 0
              /\ f.sell_tax_rate = 0
              /\ f.per_order = 0

\* The project's default zero is "not known"; a declared zero is a cost.
rates_known(f) == f.declared \/ ~ is_zero(f)

RateCost(notional, rate, per_order) == ((notional * rate) \div RateBase) + per_order

SellSideRate(f) == f.sell_rate + f.sell_tax_rate

\* entry_cost(notional, is_buy = True): the broker only opens long positions.
entry_cost(f, notional) == RateCost(notional, f.buy_rate, f.per_order)

\* exit_cost(notional, was_buy = True): a buyer leaves by selling, tax included.
exit_cost(f, notional) == RateCost(notional, SellSideRate(f), f.per_order)

----------------------------------------------------------------------------
(* execution/paper_account.py *)

\* Faulty: only asks whether there is any cash.
AffordableIfAny(required, available) == available > 0

check_affordable(required, available) == required <= available + Tolerance

\* The share of a running total that goes with `closing' of `held' contracts.
allocate_entry_fee(total, closing, held) ==
    IF held <= 0 THEN 0
    ELSE IF closing >= held THEN total
    ELSE (total * closing) \div held

----------------------------------------------------------------------------
(* Rows *)

Position == [quantity : Nat, cost : Nat, entry_fees : Nat, entry_fees_known : BOOLEAN]

\* No row: upsert_position deletes a row whose quantity is not positive.
NoPosition == [quantity |-> 0, cost |-> 0, entry_fees |-> 0, entry_fees_known |-> TRUE]

TradeTotals == [sold : Nat, settled : Nat, gross : Int, entry_costs : Nat,
                exit_costs : Nat, settle_costs : Nat,
                missing_entry : Nat, missing_exit : Nat]

NoTrades == [sold |-> 0, settled |-> 0, gross |-> 0, entry_costs |-> 0,
             exit_costs |-> 0, settle_costs |-> 0,
             missing_entry |-> 0, missing_exit |-> 0]

OrderTotals == [bought : Nat, sold : Nat, fee_paid : Nat]

NoOrders == [bought |-> 0, sold |-> 0, fee_paid |-> 0]

\* The file var/paper_trading.db.  order_rows counts rejected orders too.
Database == [cash : Int, initial_balance : Nat, order_rows : Nat,
             positions : [Symbols -> Position],
             trades : [Symbols -> TradeTotals],
             orders : [Symbols -> OrderTotals]]

\* store.reset(initial_balance), and init_account on an empty file.
FreshDatabase(initial) ==
    [cash |-> initial, initial_balance |-> initial, order_rows |-> 0,
     positions |-> [s \in Symbols |-> NoPosition],
     trades |-> [s \in Symbols |-> NoTrades],
     orders |-> [s \in Symbols |-> NoOrders]]

----------------------------------------------------------------------------
(* Statements of the store, each as the database it leaves *)

update_cash(d, c) == [d EXCEPT !.cash = c]

upsert_position(d, s, row) ==
    [d EXCEPT !.positions[s] = IF row.quantity <= 0 THEN NoPosition ELSE row]

delete_position(d, s) == [d EXCEPT !.positions[s] = NoPosition]

\* The row _record_close builds, added to what is already recorded.  An unknown
\* fee is stored as NULL: it is counted as missing and adds no recorded cost.
WithClose(totals, close) ==
    LET sale == close.reason = "manual"
        fee  == IF close.exit_known THEN close.exit_fee ELSE 0
    IN  [sold          |-> totals.sold + (IF sale THEN close.quantity ELSE 0),
         settled       |-> totals.settled + (IF sale THEN 0 ELSE close.quantity),
         gross         |-> totals.gross + close.gross,
         entry_costs   |-> totals.entry_costs
                             + (IF close.entry_known THEN close.entry_fee ELSE 0),
         exit_costs    |-> totals.exit_costs + (IF sale THEN fee ELSE 0),
         settle_costs  |-> totals.settle_costs + (IF sale THEN 0 ELSE fee),
         missing_entry |-> totals.missing_entry + (IF close.entry_known THEN 0 ELSE 1),
         missing_exit  |-> totals.missing_exit + (IF close.exit_known THEN 0 ELSE 1)]

record_trade(d, s, close) == [d EXCEPT !.trades[s] = WithClose(@, close)]

WithOrder(totals, bought, sold, fee) ==
    [bought |-> totals.bought + bought, sold |-> totals.sold + sold,
     fee_paid |-> totals.fee_paid + fee]

save_order(d, s, bought, sold, fee) ==
    LET logged == [d EXCEPT !.order_rows = @ + 1]
    IN  [logged EXCEPT !.orders[s] = WithOrder(@, bought, sold, fee)]

----------------------------------------------------------------------------
(* Rows computed by the broker from rows it has read *)

\* Faulty: a second purchase overwrites the row.
BoughtReplaces(row, filled, price, fee, known) ==
    [quantity |-> filled, cost |-> filled * price,
     entry_fees |-> fee, entry_fees_known |-> known]

\* Faulty: merging keeps only the newest fee.
BoughtForgetsFees(row, filled, price, fee, known) ==
    [quantity |-> row.quantity + filled, cost |-> row.cost + filled * price,
     entry_fees |-> fee, entry_fees_known |-> row.entry_fees_known /\ known]

\* Faulty: today's rates vouch for yesterday's costs.
BoughtTrustsToday(row, filled, price, fee, known) ==
    [quantity |-> row.quantity + filled, cost |-> row.cost + filled * price,
     entry_fees |-> row.entry_fees + fee, entry_fees_known |-> known]

\* _apply_buy: a new row, or the old one merged with the fill.
BoughtPosition(row, filled, price, fee, known) ==
    IF row.quantity = 0
    THEN [quantity |-> filled, cost |-> filled * price,
          entry_fees |-> fee, entry_fees_known |-> known]
    ELSE [quantity |-> row.quantity + filled, cost |-> row.cost + filled * price,
          entry_fees |-> row.entry_fees + fee,
          entry_fees_known |-> row.entry_fees_known /\ known]

\* Faulty: a partial exit leaves every entry fee on the row.
RemainingKeepsFees(row, filled) ==
    [quantity |-> row.quantity - filled,
     cost |-> row.cost - allocate_entry_fee(row.cost, filled, row.quantity),
     entry_fees |-> row.entry_fees,
     entry_fees_known |-> row.entry_fees_known]

\* _apply_sell: what stays open after `filled' contracts are sold.
RemainingPosition(row, filled) ==
    [quantity |-> row.quantity - filled,
     cost |-> row.cost - allocate_entry_fee(row.cost, filled, row.quantity),
     entry_fees |-> row.entry_fees
                      - allocate_entry_fee(row.entry_fees, filled, row.quantity),
     entry_fees_known |-> row.entry_fees_known]

\* Faulty: a partial exit books the entry fees of the whole row.
CloseChargesAll(row, quantity, price, contract_size, fee, known, reason) ==
    [quantity    |-> quantity,
     gross       |-> (price * quantity
                        - allocate_entry_fee(row.cost, quantity, row.quantity))
                     * contract_size,
     entry_fee   |-> row.entry_fees,
     entry_known |-> row.entry_fees_known,
     exit_fee    |-> fee,
     exit_known  |-> known,
     reason      |-> reason]

\* _record_close: the closed part of `row', left at `price' for `fee'.
CloseOf(row, quantity, price, contract_size, fee, known, reason) ==
    [quantity    |-> quantity,
     gross       |-> (price * quantity
                        - allocate_entry_fee(row.cost, quantity, row.quantity))
                     * contract_size,
     entry_fee   |-> allocate_entry_fee(row.entry_fees, quantity, row.quantity),
     entry_known |-> row.entry_fees_known,
     exit_fee    |-> fee,
     exit_known  |-> known,
     reason      |-> reason]

----------------------------------------------------------------------------
(* What AccountSnapshot reports about a database *)

\* cost_basis of an open row: premium paid plus the entry fees still on it.
cost_basis(d, s, contract_size) ==
    d.positions[s].cost * contract_size + d.positions[s].entry_fees

\* The sum of pnl_absolute over the closed trades of s.
RecordedPnl(d, s) == d.trades[s].gross - d.trades[s].entry_costs
                       - d.trades[s].exit_costs - d.trades[s].settle_costs

CostsKnownOf(d, s) == /\ d.trades[s].missing_entry = 0
                      /\ d.trades[s].missing_exit = 0
                      /\ d.positions[s].entry_fees_known

\* costs_known: every recorded operation has known costs.
costs_known(d) == \A s \in Symbols : CostsKnownOf(d, s)
=============================================================================
