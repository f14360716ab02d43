-------------------------- MODULE AutotypeContract --------------------------
(***************************************************************************)
(* What the watcher of internal/autotype/watcher.go promises, without the  *)
(* dialogs, the driver and the polling: a process is unseen, then open for *)
(* one delivery of the password, then served, or closed without one, for   *)
(* good unless a survey misses it; and deliveries are Cooldown units of    *)
(* time apart.                                                             *)
(***************************************************************************)
EXTENDS Naturals

CONSTANTS Procs, Cooldown

VARIABLES
  phase,  \* of every process: "unseen", "open", "closed" or "served"
  cool,   \* time since the last delivery, saturating at Cooldown
  missed  \* the processes that the last survey has missed

Init ==
  /\ phase = [p \in Procs |-> "unseen"]
  /\ cool = Cooldown
  /\ missed = {}

\* The processes of opening become open, and those of closing are refused, or
\* are gone.  A closed or served process stays so, unless it is missed: the
\* survey fails to find it although it runs, and it counts as unseen again.
Survey(opening, closing, missing) ==
  /\ opening \cap closing = {} /\ missing \cap (opening \cup closing) = {}
  /\ \A p \in opening : phase[p] = "unseen"
  /\ \A p \in closing : phase[p] # "served"
  /\ missed' \in {missing} \cup (IF missing = {} THEN {missed} ELSE {})
  /\ phase' = [p \in Procs |-> IF p \in opening THEN "open"
                               ELSE IF p \in closing THEN "closed"
                               ELSE IF p \in missing THEN "unseen"
                               ELSE phase[p]]
  /\ UNCHANGED cool

\* The password is delivered for p, at most once.
Deliver(p) ==
  /\ phase[p] = "open"
  /\ cool = Cooldown
  /\ phase' = [phase EXCEPT ![p] = "served"]
  /\ cool' = 0
  /\ UNCHANGED missed

Tick ==
  /\ cool < Cooldown
  /\ cool' = cool + 1
  /\ UNCHANGED <<phase, missed>>

Next ==
  \/ \E opening, closing, missing \in SUBSET Procs :
       Survey(opening, closing, missing)
  \/ \E p \in Procs : Deliver(p)
  \/ Tick

Spec == Init /\ [][Next]_<<phase, cool, missed>>
=============================================================================
