--------------------------- MODULE MCRawSnapshot ---------------------------
(* The rows of an answer, for TLC. *)
EXTENDS RawSnapshot

Side(code, named, values) == [code |-> code, named |-> named, values |-> values]
Row(symbol, prices, call, put) == [symbol |-> symbol, prices |-> prices, C |-> call, P |-> put]

\* "bad" numbers hold one refused field.
MCRefused == [v \in Numbers \cup Prices |-> IF v = "bad" THEN 1 ELSE 0]

Calls == {Side("a", TRUE, "v"), Side("a", TRUE, "w"), Side("a", TRUE, "bad"), Side("a", FALSE, "v")}
Puts == {Side("a", TRUE, "v"), Side("b", TRUE, "v"), Side("b", TRUE, "w"), Side(NoText, TRUE, "v")}
Strikes == {Row("u", "v", c, p) : c \in Calls, p \in Puts}
Underlying == {Row(u, q, Side("a", TRUE, "v"), Side("b", TRUE, "v")) :
                 u \in {"u", NoText}, q \in {"v", "w", "bad"}}

MCAnswers == Strikes \cup Underlying \cup {Junk}
=============================================================================
