------------------------- MODULE MCAutotypeWatcher -------------------------
(* The instances of AutotypeWatcher that TLC checks. *)
EXTENDS AutotypeWatcher, TLC

CONSTANTS p1, p2, a1, c1, c2

OneAgent == {a1}
TwoProcs == {p1, p2}
OneContext == {c1}
TwoContexts == {c1, c2}
=============================================================================
