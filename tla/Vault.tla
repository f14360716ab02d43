-------------------------------- MODULE Vault --------------------------------
(***************************************************************************)
(* What the Keychain operations of the application promise, as a store     *)
(* with one box per key: an operation on one key takes effect at a single  *)
(* moment between its call and its return, or has no effect and fails.     *)
(* The removal of all passwords takes two: it marks the boxes that are     *)
(* full and later empties those of them that were not emptied meanwhile,   *)
(* though when some were, it may stop at these and still succeed.          *)
(*                                                                         *)
(* Other processes may empty any box and fill an empty one with an item    *)
(* of their own, which the application then neither reads nor changes.     *)
(***************************************************************************)
CONSTANTS Keys, Passwords, Secrets, Decoy, Callers, Allowed

VARIABLES
  box,     \* of each key: who put an item there, and what it holds
  stage,   \* how far each caller is
  job,     \* its operation, key and value
  marked,  \* the boxes a removal of all passwords has found full
  result,  \* what the last operation returned
  got      \* what it loaded

vars == <<box, stage, job, marked, result, got>>

Nothing == [owner |-> "nobody", value |-> Decoy]
Foreign == [owner |-> "foreign", value |-> Decoy]
Holding(v) == [owner |-> "own", value |-> v]

Boxes == {Nothing, Foreign} \cup {Holding(v) : v \in Secrets}
Jobs == [op : {"store", "load", "exists", "delete", "delete_all"}, key : Keys,
         value : Secrets]

Init ==
  /\ box = [k \in Keys |-> Nothing]
  /\ stage = [c \in Callers |-> "idle"]
  /\ job \in [Callers -> Jobs]
  /\ marked = [c \in Callers |-> {}]
  /\ result = [c \in Callers |-> "none"]
  /\ got = [c \in Callers |-> Decoy]

Call(c) ==
  /\ stage[c] = "idle"
  /\ stage' = [stage EXCEPT ![c] = "called"]
  /\ \E j \in Jobs : j.op \in Allowed[c] /\ job' = [job EXCEPT ![c] = j]
  /\ result' = [result EXCEPT ![c] = "none"]
  /\ got' = [got EXCEPT ![c] = Decoy]
  /\ UNCHANGED <<box, marked>>

\* Caller c is at stage s of an operation of O.
During(c, s, O) == stage[c] = s /\ job[c].op \in O

BoxOf(c) == box[job[c].key]

-----------------------------------------------------------------------------
(* What may be returned *)

\* Every box of K is emptied.  A load or a delete that is under way with one
\* of them may take this for the moment it happens: nothing is there.  A removal
\* that has marked one of them goes on with a part of its marks.
Emptied(K, keeping) ==
  \E D \in SUBSET {d \in Callers : During(d, "called", {"load", "delete"})
                                     /\ job[d].key \in K} :
    /\ box' = [k \in Keys |-> IF k \in K THEN Nothing ELSE box[k]]
    /\ stage' = [d \in Callers |-> IF d \notin keeping THEN "idle"
                                   ELSE IF d \in D THEN "lost"
                                   ELSE IF marked[d] \cap K # {} THEN "parted"
                                   ELSE stage[d]]
    /\ marked' = [d \in Callers |-> IF d \notin keeping THEN {}
                                    ELSE marked[d] \ K]

Return(c, outcome) ==
  /\ result' = [result EXCEPT ![c] = outcome]
  /\ UNCHANGED job

\* The operation of c ends and leaves the boxes as they are.
Ends(c, outcome) ==
  /\ stage' = [stage EXCEPT ![c] = "idle"]
  /\ marked' = [marked EXCEPT ![c] = {}]
  /\ Return(c, outcome)
  /\ UNCHANGED box

Fails(c) == stage[c] # "idle" /\ Ends(c, "error") /\ UNCHANGED got

Conflicts(c) ==
  /\ During(c, "called", {"store", "load", "exists", "delete"})
  /\ BoxOf(c) = Foreign
  /\ Ends(c, "conflict") /\ UNCHANGED got

Stores(c) ==
  /\ During(c, "called", {"store"}) /\ BoxOf(c) # Foreign
  /\ box' = [box EXCEPT ![job[c].key] = Holding(job[c].value)]
  /\ stage' = [stage EXCEPT ![c] = "idle"]
  /\ Return(c, "ok")
  /\ UNCHANGED <<marked, got>>

Loads(c) ==
  /\ During(c, "called", {"load"}) /\ BoxOf(c).owner = "own"
  /\ got' = [got EXCEPT ![c] = BoxOf(c).value]
  /\ Ends(c, "ok")

Exists(c) ==
  /\ During(c, "called", {"exists"}) /\ BoxOf(c).owner = "own"
  /\ Ends(c, "ok") /\ UNCHANGED got

FindsNothing(c) ==
  /\ \/ During(c, "lost", {"load", "delete"})
     \/ During(c, "called", {"load", "exists", "delete"}) /\ BoxOf(c) = Nothing
  /\ Ends(c, IF job[c].op = "delete" THEN "ok" ELSE "missing")
  /\ UNCHANGED got

Deletes(c) ==
  /\ During(c, "called", {"delete"}) /\ BoxOf(c).owner = "own"
  /\ Emptied({job[c].key}, Callers \ {c})
  /\ Return(c, "ok") /\ UNCHANGED got

Full == {k \in Passwords : box[k] # Nothing}

Marks(c) ==
  /\ During(c, "called", {"delete_all"}) /\ Full # {}
  /\ stage' = [stage EXCEPT ![c] = "marked"]
  /\ marked' = [marked EXCEPT ![c] = Full]
  /\ UNCHANGED <<box, job, result, got>>

MarksNothing(c) ==
  /\ During(c, "called", {"delete_all"}) /\ Full = {}
  /\ Ends(c, "ok") /\ UNCHANGED got

MarkedConflict(c) ==
  /\ stage[c] \in {"marked", "parted"}
  /\ \E k \in marked[c] : box[k] = Foreign
  /\ Ends(c, "conflict") /\ UNCHANGED got

\* All the marked boxes hold passwords of the application; one of them may
\* resist, and those emptied before it stay empty.  So may a removal stop at a
\* mark that another process has emptied, and it returns "ok" then.
DeletesMarked(c) ==
  /\ stage[c] \in {"marked", "parted"}
  /\ \A k \in marked[c] : box[k].owner = "own"
  /\ \/ Emptied(marked[c], Callers \ {c}) /\ Return(c, "ok")
     \/ \E K \in SUBSET marked[c] :
          /\ Emptied(K, Callers \ {c})
          /\ Return(c, "error") \/ (stage[c] = "parted" /\ Return(c, "ok"))
  /\ UNCHANGED got

OthersEmpty(k) ==
  /\ box[k] # Nothing
  /\ Emptied({k}, Callers)
  /\ UNCHANGED <<job, result, got>>

OthersFill(k) ==
  /\ box[k] = Nothing
  /\ box' = [box EXCEPT ![k] = Foreign]
  /\ UNCHANGED <<stage, job, marked, result, got>>

Answers(c) ==
  \/ Fails(c) \/ Conflicts(c) \/ Stores(c) \/ Loads(c) \/ Exists(c)
  \/ FindsNothing(c) \/ Deletes(c) \/ MarksNothing(c) \/ MarkedConflict(c)
  \/ DeletesMarked(c)

Next ==
  \/ \E c \in Callers : Call(c) \/ Marks(c) \/ Answers(c)
  \/ \E k \in Keys : OthersEmpty(k) \/ OthersFill(k)

Spec == Init /\ [][Next]_vars
=============================================================================
