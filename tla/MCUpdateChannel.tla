-------------------------- MODULE MCUpdateChannel ---------------------------
(* The instance of UpdateChannel that TLC checks: the oldest version starts,  *)
(* and is not on the first list itself, where it would count as little as one *)
(* that is not to be installed.                                               *)
EXTENDS UpdateChannel

\* A page of two releases keeps to MaxBytes = 3 unless they are the newest two.
MCSize == [v \in Versions \cup {NoVersion} |-> IF v < 2 THEN 1 ELSE 2]

MCInit == Init /\ running = 1 /\ 1 \notin Listed
MCSpec == MCInit /\ [][Next]_vars /\ Fairness
=============================================================================
