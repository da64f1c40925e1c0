------------------------------- MODULE MCPacing -------------------------------
(***************************************************************************)
(* One weight window and two callers, one of whom is told to wait.         *)
(***************************************************************************)
EXTENDS Pacing

OneWindow == {"weight"}
OneKind   == [weight |-> "REQUEST_WEIGHT"]
OneTick   == [weight |-> 1]
OnePhase  == [weight |-> 0]
OneRule   == [v \in Version |-> [weight |-> 2]]
OneJob    == {[weight |-> 1, mutating |-> FALSE]}

=============================================================================
