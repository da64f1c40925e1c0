-------------------------- MODULE MCStreamConnection --------------------------
(***************************************************************************)
(* Small instances of StreamConnection for TLC.                            *)
(***************************************************************************)
EXTENDS StreamConnection

CONSTANTS s1, s2, x1, x2

TwoStreams == {s1, s2}
TwoSubs    == {x1, x2}

=============================================================================
