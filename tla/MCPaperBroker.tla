--------------------------- MODULE MCPaperBroker ---------------------------
(* Instances of PaperBroker for TLC. *)
EXTENDS PaperProperties

\* Two contracts: one expires on day 0, one on day 1.
MCExpiry == [s \in Symbols |-> IF s = "near" THEN 0 ELSE 1]

MCContractSize == [s \in Symbols |-> IF s = "near" THEN 2 ELSE 1]

Rates(buy, sell, tax, per_order, declared) ==
    [buy_rate |-> buy, sell_rate |-> sell, sell_tax_rate |-> tax,
     per_order |-> per_order, declared |-> declared]

Undeclared == Rates(0, 0, 0, 0, FALSE)
DeclaredZero == Rates(0, 0, 0, 0, TRUE)
Proportional == Rates(5, 2, 2, 0, FALSE)
PerOrder == Rates(0, 0, 0, 3, FALSE)

MCFeeSchedules == {Undeclared, DeclaredZero, Proportional, PerOrder}
=============================================================================
