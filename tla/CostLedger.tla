----------------------------- MODULE CostLedger -----------------------------
(***************************************************************************)
(* What the paper account promises, without orders, fees or contracts:     *)
(* money is either cash or the cost of something still open, buying moves  *)
(* it from one to the other, and closing books the difference as profit or *)
(* loss, exactly when all the costs involved are known and never less than *)
(* was really earned otherwise.                                            *)
(***************************************************************************)
EXTENDS Integers

CONSTANTS Symbols, InitialBalance, Tolerance

VARIABLES
    cash,       \* money not invested
    basis,      \* basis[s]: what was paid for what is still open of s
    recorded,   \* recorded[s]: profit or loss booked on s
    complete    \* every cost is known

vars == <<cash, basis, recorded, complete>>

Empty == /\ cash = InitialBalance
         /\ basis = [s \in Symbols |-> 0]
         /\ recorded = [s \in Symbols |-> 0]
         /\ complete = TRUE

Init == Empty

OnlyTouches(s) ==
    /\ \A t \in Symbols \ {s} : basis'[t] = basis[t] /\ recorded'[t] = recorded[t]
    /\ complete' => complete

Invest(s) ==
    /\ OnlyTouches(s)
    /\ recorded'[s] = recorded[s]
    /\ basis'[s] >= basis[s]
    /\ cash' = cash - (basis'[s] - basis[s])
    /\ cash' >= - Tolerance

Realise(s) ==
    LET earned == (cash' - cash) - (basis[s] - basis'[s])
        booked == recorded'[s] - recorded[s]
    IN  /\ OnlyTouches(s)
        /\ basis'[s] \in 0 .. basis[s]
        /\ booked >= earned
        /\ complete' => booked = earned

Reset == Empty'

Next == (\E s \in Symbols : Invest(s) \/ Realise(s)) \/ Reset

Spec == Init /\ [][Next]_vars
=============================================================================
