-------------------------- MODULE MCMarketRecorder --------------------------
(* An instance of MarketRecorder for TLC. *)
EXTENDS MarketRecorder

\* Two versions of contract "a" (a new strike, say) and one contract "b".
MCSpecs == {<<"a", 1>>, <<"a", 2>>, <<"b", 1>>}

MCQuoted == [early |-> {<<"a", 1>>, <<"b", 1>>}, late |-> {<<"a", 2>>, <<"b", 1>>}]

MCClean == [early |-> TRUE, late |-> FALSE]

Content(payload, requested, received) ==
  [payload |-> payload, requested_at |-> requested, received_at |-> received]

MCContents == {Content("early", 1, 1), Content("late", 1, 2)}
=============================================================================
