------------------------------ MODULE MCBridge ------------------------------
(* Instance of Bridge for TLC. *)
EXTENDS Bridge

CONSTANTS g1, g2, g3, c1, c2
MCThreads == {g1, g2, g3}
MCChildren == {c1, c2}
=============================================================================
