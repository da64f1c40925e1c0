--------------------------- MODULE MCUserDataStream ---------------------------
(***************************************************************************)
(* Small instances of UserDataStream for TLC.                              *)
(***************************************************************************)
EXTENDS UserDataStream

CONSTANTS GLOBAL, SITE, c1, c2, p1, p2

BothTypes  == {GLOBAL, SITE}
TwoCallers == {c1, c2}
TwoPosts   == {p1, p2}

Modes == {[auto |-> TRUE,  late |-> FALSE, same |-> TRUE],
          [auto |-> FALSE, late |-> TRUE,  same |-> FALSE]}

=============================================================================
