--------------------------- MODULE MCRecorderLoop ---------------------------
(* Instances of RecorderLoop for TLC: the constants are in the configurations. *)
EXTENDS RecorderLoop
=============================================================================
