---------------------------- MODULE MCEnrollment ----------------------------
(* The instance of Enrollment that TLC checks. *)
EXTENDS Enrollment

CONSTANTS p1, p2, d1, d2, r1, r2

TwoProcs == {p1, p2}
TwoDialogs == {d1, d2}
TwoRules == {r1, r2}
=============================================================================
