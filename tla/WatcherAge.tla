----------------------------- MODULE WatcherAge -----------------------------
(***************************************************************************)
(* AutotypeWatcher with a history variable: how long ago each process      *)
(* really started, which the watcher does not look at.  Its age limit      *)
(* counts from firstSeen, the first poll that lists the process.           *)
(***************************************************************************)
EXTENDS AutotypeWatcher

VARIABLE startAge  \* time since the process started, saturating at MaxAge + 4

AgeInit == Init /\ startAge = [p \in Procs |-> 0]

AgeNext ==
  /\ Next
  /\ startAge' = [p \in Procs |->
       IF ticked' /\ ~ticked /\ p \in alive /\ startAge[p] < MaxAge + 4
       THEN startAge[p] + 1 ELSE startAge[p]]

AgeSpec == AgeInit /\ [][AgeNext]_<<vars, startAge>>

=============================================================================
