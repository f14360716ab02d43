------------------------------- MODULE MCApp --------------------------------
(* The instances of App that TLC checks. *)
EXTENDS App, TLC

CONSTANTS t1, t2

OneTask == {t1}
TwoTasks == {t1, t2}
AnyTask == Permutations(TwoTasks)
=============================================================================
