---------------------------- MODULE MCOrderTracker ----------------------------
(***************************************************************************)
(* Small instances of OrderTracker for TLC.                                *)
(***************************************************************************)
EXTENDS OrderTracker, TLC

CONSTANTS o1, o2, GLOBAL, SITE

OneOrder  == {o1}
TwoOrders == {o1, o2}
BothTypes == {GLOBAL, SITE}
OneType   == {SITE}

OneOnSite == o1 :> SITE
OneOnEach == o1 :> GLOBAL @@ o2 :> SITE

=============================================================================
