---------------------------- MODULE MCWatcherAge ----------------------------
(* The instance of WatcherAge that TLC checks. *)
EXTENDS WatcherAge, TLC

CONSTANTS p1, a1, c1
=============================================================================
