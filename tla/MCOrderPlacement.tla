--------------------------- MODULE MCOrderPlacement ---------------------------
(***************************************************************************)
(* Small instances of OrderPlacement for TLC.                              *)
(***************************************************************************)
EXTENDS OrderPlacement

CONSTANTS i1, i2

OneIntent  == {i1}
TwoIntents == {i1, i2}

=============================================================================
