----------------------------- MODULE MCBundles -----------------------------
(* The instance of Bundles that TLC checks. *)
EXTENDS Bundles, TLC

CONSTANTS n1, n2

ThreeVersions == 1 .. 3
TwoPids == {n1, n2}

AnyPid == Permutations(TwoPids)
=============================================================================
