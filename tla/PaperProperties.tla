-------------------------- MODULE PaperProperties --------------------------
(***************************************************************************)
(* What makes the paper account correct: the properties of PaperBroker.    *)
(***************************************************************************)
EXTENDS PaperBroker, Functions

\* Every row of the account file, the settings and the sizes keep their types.
TypeOK == /\ db \in Database
          /\ fees \in FeeSchedules
          /\ size \in [Symbols -> Nat \ {0}]
          /\ today \in 0 .. LastDay

----------------------------------------------------------------------------
OpenBasis == SumFunction([s \in Symbols |-> cost_basis(db, s, size[s])])

Recorded == SumFunction([s \in Symbols |-> RecordedPnl(db, s)])

\* The identity of execution/paper_account.py: equity - initial balance =
\* realized net + unrealized net.  The market value of the open rows cancels,
\* which leaves cash + what the open rows cost = initial + what was realized.
\* AccountSnapshot.reconciliation is applicable when every cost is known.
Reconciled ==
    costs_known(db) => db.cash + OpenBasis = db.initial_balance + Recorded

\* With unknown costs the recorded profit may be too good (_record_close calls
\* it the floor of the loss) but it never hides money: it is an upper bound.
RecordedIsUpperBound ==
    db.cash + OpenBasis <= db.initial_balance + Recorded

\* Every contract bought is still held, was sold, or was settled at expiry:
\* partial fills, merges and partial exits lose and duplicate none.
QuantityConserved ==
    \A s \in Symbols :
        /\ db.orders[s].bought = db.positions[s].quantity + db.trades[s].sold
                                   + db.trades[s].settled
        /\ db.orders[s].sold = db.trades[s].sold

\* Each fee charged to an order sits in exactly one place: on the open row it
\* was paid for, or in the trade that closed that part ("exactly once",
\* paper_account.py), as long as no trade dropped an unknown entry fee.
CostCountedOnce ==
    \A s \in Symbols :
        db.trades[s].missing_entry = 0 =>
            db.orders[s].fee_paid = db.positions[s].entry_fees
                + db.trades[s].entry_costs + db.trades[s].exit_costs

\* A row whose entry fees are not known never becomes known while it is open:
\* setting rates later, buying more or selling a part does not rewrite history.
UnknownStaysUnknown ==
    [][\A s \in Symbols :
        (/\ db.positions[s].quantity > 0
         /\ ~ db.positions[s].entry_fees_known
         /\ db'.positions[s].quantity > 0)
        => ~ db'.positions[s].entry_fees_known]_vars

\* After its expiry a row is never traded: it stays as it is until it is
\* settled whole, or the account is reset.
ExpiredOnlySettled ==
    [][\A s \in Symbols :
        Expiry[s] < today => db'.positions[s] \in {db.positions[s], NoPosition}]_vars

----------------------------------------------------------------------------
(* The broker implements the ledger of costs. *)

Ledger == INSTANCE CostLedger WITH
    cash     <- db.cash,
    basis    <- [s \in Symbols |-> cost_basis(db, s, size[s])],
    recorded <- [s \in Symbols |-> RecordedPnl(db, s)],
    complete <- costs_known(db)

\* Every call of the broker is one step of CostLedger: a purchase moves cash
\* into cost and never overdraws, an exit books what it earned.
LedgerSpec == Ledger!Spec
=============================================================================
