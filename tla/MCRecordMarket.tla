--------------------------- MODULE MCRecordMarket ---------------------------
(* Instances of RecordMarket for TLC. *)
EXTENDS RecordMarket

MCSpecs == {<<"a", 1>>, <<"a", 2>>}

MCQuoted == [early |-> {<<"a", 1>>}, both |-> {<<"a", 1>>, <<"a", 2>>}, huge |-> {<<"a", 2>>}]

MCClean == [early |-> TRUE, both |-> FALSE, huge |-> TRUE]
=============================================================================
