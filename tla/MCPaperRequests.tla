-------------------------- MODULE MCPaperRequests --------------------------
(* Instances of PaperRequests for TLC. *)
EXTENDS PaperRequests

MCExpiry == [s \in Symbols |-> IF s = "near" THEN 0 ELSE 1]

MCContractSize == [s \in Symbols |-> 1]

Rates(buy, sell, per_order, declared) ==
    [buy_rate |-> buy, sell_rate |-> sell, sell_tax_rate |-> 0,
     per_order |-> per_order, declared |-> declared]

MCFeeSchedules == {Rates(0, 0, 0, FALSE), Rates(5, 5, 0, FALSE)}

MCOneSchedule == {Rates(5, 5, 0, FALSE)}
=============================================================================
