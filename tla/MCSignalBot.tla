---------------------------- MODULE MCSignalBot -----------------------------
(* SignalBot for TLC: what the environment may do in one behaviour is one of *)
(* a few budgets, so that the state spaces of the alerts, of the reports and *)
(* of the chat add up and are not multiplied.                                *)
EXTENDS SignalBot

CONSTANT s1

MCSignals == {s1}
MCPeriodLength == [daily |-> 1, weekly |-> 3]

Ack(s, a) == [chat |-> "allowed", kind |-> "ack", signal |-> s, action |-> a]
Command(k) == [chat |-> "allowed", kind |-> k]
MCUpdates == {Ack(s1, "seen"), Ack(s1, "taken"),
              Command("mute"), Command("unmute"), Command("read"),
              [chat |-> "stranger", kind |-> "mute"]}

Budget(stop, fault, tick, bad, signal, update) ==
    [stop |-> stop, fault |-> fault, tick |-> tick, bad |-> bad,
     signal |-> signal, update |-> update]
MCBudgets ==
    {Budget(1, 0, 2, 2, 0, 0),      \* alerts of several keys over time
     Budget(0, 0, 0, 4, 0, 0),      \* a problem that is solved and comes back
     Budget(1, 1, 2, 1, 0, 0),      \* the same, with a refused write
     Budget(1, 1, 4, 0, 0, 0),      \* reports over time, with a refused write
     Budget(1, 0, 4, 0, 1, 0),      \* signals and their drought
     Budget(1, 0, 2, 1, 1, 0),      \* a pass with signals and exceptions
     Budget(2, 0, 0, 0, 1, 2),      \* the chat, stopped twice
     Budget(1, 1, 0, 0, 1, 2)}      \* the chat, with a refused write
=============================================================================
