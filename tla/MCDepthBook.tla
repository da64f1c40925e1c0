----------------------------- MODULE MCDepthBook -----------------------------
(***************************************************************************)
(* Small instances of DepthBook for TLC.                                   *)
(***************************************************************************)
EXTENDS DepthBook

(* Three prices leave room for a spread and for a level the snapshot of    *)
(* one level per side does not reach; two are enough for the orderings.    *)
ThreePrices == {1, 2, 3}
TwoPrices   == {1, 2}
OnePrice    == {1}

=============================================================================
