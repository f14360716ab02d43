--------------------------- MODULE KeychainProofs ---------------------------
(***************************************************************************)
(* What Keychain promises for any number of keys, items and callers.       *)
(*                                                                         *)
(* The invariant behind every theorem: what a caller has verified is an    *)
(* item that exists or existed, and that is own; the owner of an item      *)
(* never changes, since references are not used twice.                     *)
(***************************************************************************)
EXTENDS Keychain, TLAPS

States == {"unused", "live", "gone", "removed"}
PCs == {"idle", "lookup", "verify", "store", "load", "delete", "add", "list",
        "verify_all"}
Results == {"none", "ok", "missing", "conflict", "error"}

\* The items, and the records about them.
ItemsOK ==
  /\ item \in [Refs -> Items]
  /\ \A r \in Refs : item[r].owner = "foreign" => item[r].value = Decoy
  /\ \A r \in Refs : item[r].owner = "own" => item[r].value \in Secrets

\* What each caller knows of them.
CallerOK(c) ==
  /\ pc[c] \in PCs /\ job[c] \in Jobs /\ result[c] \in Results
  /\ ref[c] \in Refs \cup {NoRef}
  /\ listed[c] \subseteq Refs /\ checked[c] \subseteq listed[c]
  /\ got[c] \in Secrets \cup {Decoy}
  /\ pc[c] \in {"verify", "store", "load", "delete"} => ref[c] \in Refs
  /\ ref[c] # NoRef => item[ref[c]].state # "unused"
  /\ pc[c] \in {"store", "load", "delete"} => Own(ref[c])
  /\ pc[c] \in {"store", "load", "delete"} => job[c].op = pc[c]
  /\ pc[c] \in {"lookup", "verify"} => job[c].op # "delete_all"
  /\ pc[c] = "add" => job[c].op = "store"
  /\ pc[c] \in {"list", "verify_all"} => job[c].op = "delete_all"
  /\ pc[c] = "list" => checked[c] = {}
  /\ \A r \in listed[c] : item[r].state # "unused"
  /\ pc[c] = "verify_all" => \A r \in checked[c] : Own(r)
  /\ job[c].op = "load" /\ result[c] = "ok" => got[c] \in Secrets

Functions ==
  /\ pc \in [Callers -> PCs] /\ job \in [Callers -> Jobs]
  /\ result \in [Callers -> Results]
  /\ ref \in [Callers -> Refs \cup {NoRef}]
  /\ listed \in [Callers -> SUBSET Refs]
  /\ checked \in [Callers -> SUBSET Refs]
  /\ got \in [Callers -> Secrets \cup {Decoy}]

IInv == ItemsOK /\ Functions /\ \A c \in Callers : CallerOK(c)

-----------------------------------------------------------------------------
\* How the items may change in one step: an own item is created or updated, a
\* foreign one is created; items leave; nothing else.
ItemStep(r) ==
  \/ item'[r] = item[r]
  \/ /\ item[r].state = "unused"
     /\ item'[r] \in Items /\ item'[r].state = "live"
     /\ item'[r].owner = "foreign" => item'[r].value = Decoy
     /\ item'[r].owner = "own" => item'[r].value \in Secrets
  \/ /\ Live(r) /\ Own(r)
     /\ item'[r].value \in Secrets
     /\ item'[r] = [item[r] EXCEPT !.value = item'[r].value]
  \/ Live(r) /\ item'[r] = [item[r] EXCEPT !.state = "gone"]
  \/ Live(r) /\ Own(r) /\ item'[r] = [item[r] EXCEPT !.state = "removed"]

ItemsStep == item' \in [Refs -> Items] /\ \A r \in Refs : ItemStep(r)

\* Every step of the specification changes the items in one of these ways.
LEMMA StepsOfItems ==
  ASSUME IInv, [Next]_vars
  PROVE  ItemsStep
PROOF
<1> USE KeychainAssumption DEF IInv, ItemsOK, Items
<1>1. ASSUME UNCHANGED item PROVE ItemsStep
  BY <1>1 DEF ItemsStep, ItemStep
<1>2. CASE UNCHANGED vars
  BY <1>1, <1>2 DEF vars
<1>3. ASSUME NEW c \in Callers, CallerStep(c) PROVE ItemsStep
  <2> CallerOK(c)
    OBVIOUS
  <2>1. CASE UpdateItem(c)
    <3>1. CASE UNCHANGED item
      BY <1>1, <3>1
    <3>2. CASE Live(ref[c]) /\ item' = [item EXCEPT ![ref[c]].value = job[c].value]
      <4>1. ref[c] \in Refs /\ Own(ref[c]) /\ job[c].value \in Secrets
        BY <2>1 DEF CallerOK, UpdateItem, Jobs
      <4>2. item' \in [Refs -> Items]
        BY <3>2, <4>1
      <4>3. ASSUME NEW r \in Refs PROVE ItemStep(r)
        BY <3>2, <4>1 DEF ItemStep
      <4> QED BY <4>2, <4>3 DEF ItemsStep
    <3> QED BY <2>1, <3>1, <3>2 DEF UpdateItem
  <2>2. CASE AddItem(c)
    <3>1. CASE UNCHANGED item
      BY <1>1, <3>1
    <3>2. CASE \E r \in Refs : Add(r, job[c].key, "own", job[c].value)
      <4>1. job[c].key \in Keys /\ job[c].value \in Secrets
        BY DEF CallerOK, Jobs
      <4>2. item' \in [Refs -> Items]
        BY <3>2, <4>1 DEF Add
      <4>3. ASSUME NEW r \in Refs PROVE ItemStep(r)
        BY <3>2, <4>1 DEF ItemStep, Add
      <4> QED BY <4>2, <4>3 DEF ItemsStep
    <3> QED BY <2>2, <3>1, <3>2 DEF AddItem
  <2>3. ASSUME NEW S \in SUBSET Refs, Removed(S), \A r \in S : Own(r)
        PROVE  ItemsStep
    <3>1. item' \in [Refs -> Items]
      BY <2>3 DEF Removed
    <3>2. ASSUME NEW r \in Refs PROVE ItemStep(r)
      BY <2>3 DEF Removed, ItemStep
    <3> QED BY <3>1, <3>2 DEF ItemsStep
  <2>4. CASE DeleteItem(c)
    <3>1. {ref[c]} \in SUBSET Refs /\ \A r \in {ref[c]} : Own(r)
      BY <2>4 DEF DeleteItem, CallerOK
    <3> QED BY <2>3, <2>4, <3>1 DEF DeleteItem
  <2>5. CASE DeleteListed(c)
    <3>1. listed[c] \in SUBSET Refs /\ \A r \in listed[c] : Own(r)
      BY <2>5 DEF DeleteListed, CallerOK
    <3> QED BY <2>3, <2>5, <3>1 DEF DeleteListed
  <2>6. CASE DeleteListedStops(c) \/ DeleteListedFails(c)
    <3>1. PICK S \in SUBSET listed[c] : Removed(S)
      BY <2>6 DEF DeleteListedStops, DeleteListedFails
    <3>2. S \in SUBSET Refs /\ \A r \in S : Own(r)
      BY <2>6 DEF DeleteListedStops, DeleteListedFails, CallerOK
    <3> QED BY <2>3, <3>1, <3>2
  <2> QED
    BY <1>1, <1>3, <2>1, <2>2, <2>4, <2>5, <2>6
    DEF CallerStep, Call, ApiFails, Lookup, Verify, LoadData, List,
        VerifyListed
<1>4. ASSUME NEW r \in Refs, ForeignDelete(r) PROVE ItemsStep
  <2>1. item' \in [Refs -> Items]
    BY <1>4 DEF ForeignDelete
  <2>2. ASSUME NEW q \in Refs PROVE ItemStep(q)
    BY <1>4 DEF ForeignDelete, ItemStep
  <2> QED BY <2>1, <2>2 DEF ItemsStep
<1>5. ASSUME NEW r \in Refs, NEW k \in Keys, ForeignAdd(r, k) PROVE ItemsStep
  <2>1. item' \in [Refs -> Items]
    BY <1>5 DEF ForeignAdd, Add
  <2>2. ASSUME NEW q \in Refs PROVE ItemStep(q)
    BY <1>5 DEF ForeignAdd, Add, ItemStep
  <2> QED BY <2>1, <2>2 DEF ItemsStep
<1> QED BY <1>2, <1>3, <1>4, <1>5 DEF Next

-----------------------------------------------------------------------------
\* An item that was once used stays so, and keeps its owner.
LEMMA OwnerNeverChanges ==
  ASSUME ItemsOK, ItemsStep, NEW r \in Refs, item[r].state # "unused"
  PROVE  item'[r].state # "unused" /\ item'[r].owner = item[r].owner
PROOF
<1>1. item[r] \in Items /\ ItemStep(r)
  BY DEF ItemsOK, ItemsStep
<1> QED BY <1>1 DEF ItemStep, Items, Live

\* The items of other processes still hold no secret after a step.
LEMMA ItemsStayOK ==
  ASSUME ItemsOK, ItemsStep
  PROVE  ItemsOK'
PROOF
<1>1. item' \in [Refs -> Items]
  BY DEF ItemsStep
<1>2. ASSUME NEW r \in Refs
      PROVE  /\ item'[r].owner = "foreign" => item'[r].value = Decoy
             /\ item'[r].owner = "own" => item'[r].value \in Secrets
  <2>1. item[r] \in Items /\ ItemStep(r)
    BY DEF ItemsOK, ItemsStep
  <2> QED BY <2>1 DEF ItemStep, Items, ItemsOK, Own
<1> QED BY <1>1, <1>2 DEF ItemsOK

\* What a caller knows of the items stays true while the others act.
LEMMA CallerKeeps ==
  ASSUME ItemsOK, ItemsStep, NEW c \in Callers, CallerOK(c),
         pc'[c] = pc[c], job'[c] = job[c], result'[c] = result[c],
         ref'[c] = ref[c], listed'[c] = listed[c], checked'[c] = checked[c],
         got'[c] = got[c]
  PROVE  CallerOK(c)'
PROOF
<1>1. \A r \in Refs : item[r].state # "unused"
        => item'[r].state # "unused" /\ item'[r].owner = item[r].owner
  BY OwnerNeverChanges
<1>2. ref[c] # NoRef => ref[c] \in Refs
  BY DEF CallerOK
<1>3. pc[c] \in {"store", "load", "delete"} => ref[c] # NoRef
  BY KeychainAssumption DEF CallerOK
<1>4. listed[c] \subseteq Refs /\ checked[c] \subseteq listed[c]
  BY DEF CallerOK
<1> QED BY <1>1, <1>2, <1>3, <1>4 DEF CallerOK, Own

-----------------------------------------------------------------------------
\* A call of the Keychain changes the state of its caller alone.
LEMMA OthersUnchanged ==
  ASSUME Functions, NEW c \in Callers, CallerStep(c),
         NEW d \in Callers, d # c
  PROVE  /\ pc'[d] = pc[d] /\ job'[d] = job[d] /\ result'[d] = result[d]
         /\ ref'[d] = ref[d] /\ listed'[d] = listed[d]
         /\ checked'[d] = checked[d] /\ got'[d] = got[d]
PROOF
<1> USE DEF Functions, Finish, GoesOn
<1>1. CASE \E o \in Operations, k \in Keys, v \in Secrets : Call(c, o, k, v)
  BY <1>1 DEF Call
<1>2. CASE ApiFails(c) \/ Verify(c) \/ UpdateItem(c) \/ LoadData(c)
  BY <1>2 DEF ApiFails, Verify, UpdateItem, LoadData
<1>3. CASE Lookup(c)
  BY <1>3 DEF Lookup, NotFound
<1>4. CASE AddItem(c)
  BY <1>4 DEF AddItem
<1>5. CASE DeleteItem(c) \/ DeleteListed(c) \/ DeleteListedStops(c)
           \/ DeleteListedFails(c)
  BY <1>5 DEF DeleteItem, DeleteListed, DeleteListedStops, DeleteListedFails
<1>6. CASE List(c) \/ VerifyListed(c)
  BY <1>6 DEF List, VerifyListed
<1> QED BY <1>1, <1>2, <1>3, <1>4, <1>5, <1>6 DEF CallerStep

\* An operation that ends knows of the items what it knew before.
LEMMA CallerFinishes ==
  ASSUME ItemsOK, ItemsStep, NEW c \in Callers, CallerOK(c),
         pc'[c] = "idle", result'[c] \in Results, job'[c] = job[c],
         ref'[c] = ref[c], listed'[c] = listed[c],
         checked'[c] \subseteq listed[c], got'[c] \in Secrets \cup {Decoy},
         job[c].op = "load" /\ result'[c] = "ok" => got'[c] \in Secrets
  PROVE  CallerOK(c)'
PROOF
<1>1. \A r \in Refs : item[r].state # "unused" => item'[r].state # "unused"
  BY OwnerNeverChanges
<1> QED BY <1>1 DEF CallerOK, PCs

\* What a caller knows after a call of its own is true of the items: nothing it
\* acts on is an item whose access list it has not verified.
LEMMA CallerLearns ==
  ASSUME IInv, ItemsStep, NEW c \in Callers, CallerStep(c)
  PROVE  CallerOK(c)'
PROOF
<1> USE KeychainAssumption DEF IInv, Functions, Finish, GoesOn
<1>1. ItemsOK /\ CallerOK(c)
  OBVIOUS
<1>2. \A r \in Refs : item[r].state # "unused"
        => item'[r].state # "unused" /\ item'[r].owner = item[r].owner
  BY <1>1, OwnerNeverChanges
<1>3. CASE \E o \in Operations, k \in Keys, v \in Secrets : Call(c, o, k, v)
  BY <1>3 DEF Call, CallerOK, Jobs, PCs, Results
<1>4. CASE ApiFails(c)
  BY <1>1, <1>4, CallerFinishes DEF ApiFails, CallerOK, Results
<1>5. CASE Lookup(c)
  BY <1>1, <1>2, <1>5 DEF Lookup, NotFound, CallerOK, Matches, Live, PCs, Results
<1>6. CASE Verify(c)
  <2>1. /\ job'[c] = job[c] /\ ref'[c] = ref[c] /\ listed'[c] = listed[c]
        /\ checked'[c] = checked[c] /\ got'[c] = got[c]
    BY <1>6 DEF Verify
  <2>2. CASE Finish(c, "conflict")
    BY <1>1, <2>1, <2>2, CallerFinishes DEF CallerOK, Results
  <2>3. CASE job[c].op = "exists" /\ Finish(c, "ok")
    BY <1>1, <2>1, <2>3, CallerFinishes DEF CallerOK, Results
  <2>4. CASE Own(ref[c]) /\ job[c].op # "exists" /\ GoesOn(c, job[c].op)
    <3>1. pc'[c] = job[c].op /\ result'[c] = result[c] /\ ref[c] \in Refs
      BY <1>1, <1>6, <2>4 DEF Verify, CallerOK
    <3>2. pc'[c] \in {"store", "load", "delete"}
      BY <1>1, <1>6, <2>4, <3>1 DEF Verify, CallerOK, Jobs, Operations
    <3> QED BY <1>1, <1>2, <2>1, <2>4, <3>1, <3>2 DEF CallerOK, PCs, Own
  <2> QED BY <1>6, <2>2, <2>3, <2>4 DEF Verify
<1>7. CASE UpdateItem(c)
  BY <1>1, <1>7, CallerFinishes DEF UpdateItem, CallerOK, Results
<1>8. CASE AddItem(c)
  <2>1. /\ ref'[c] = ref[c] /\ listed'[c] = listed[c]
        /\ checked'[c] = checked[c] /\ got'[c] = got[c]
    BY <1>8 DEF AddItem
  <2>2. CASE Finish(c, "ok") /\ job' = job
    <3>1. pc'[c] = "idle" /\ result'[c] = "ok" /\ job'[c] = job[c]
      BY <2>2
    <3>2. job[c].op # "load"
      BY <1>1, <1>8 DEF AddItem, CallerOK
    <3> QED BY <1>1, <2>1, <3>1, <3>2, CallerFinishes DEF CallerOK, Results
  <2>3. CASE GoesOn(c, "lookup") /\ job' = [job EXCEPT ![c].retried = TRUE]
    <3>1. pc'[c] = "lookup" /\ result'[c] = result[c]
      BY <2>3
    <3>2. job'[c] \in Jobs /\ job'[c].op = job[c].op
      BY <1>1, <2>3 DEF CallerOK, Jobs
    <3>3. job[c].op = "store"
      BY <1>1, <1>8 DEF AddItem, CallerOK
    <3> QED BY <1>1, <1>2, <2>1, <3>1, <3>2, <3>3 DEF CallerOK, PCs
  <2> QED BY <1>8, <2>2, <2>3 DEF AddItem
<1>9. CASE LoadData(c)
  <2>1. /\ pc[c] = "load" /\ pc'[c] = "idle" /\ job'[c] = job[c]
        /\ ref'[c] = ref[c] /\ listed'[c] = listed[c]
        /\ checked'[c] = checked[c]
    BY <1>9 DEF LoadData
  <2>2. item[ref[c]].value \in Secrets
    BY <1>1, <2>1 DEF CallerOK, ItemsOK, Own
  <2>3. \/ got'[c] = item[ref[c]].value /\ result'[c] = "ok"
        \/ got'[c] = got[c] /\ result'[c] = "missing"
    BY <1>9 DEF LoadData
  <2> QED BY <1>1, <2>1, <2>2, <2>3, CallerFinishes DEF CallerOK, Results
<1>10. CASE DeleteItem(c)
  BY <1>1, <1>10, CallerFinishes DEF DeleteItem, CallerOK, Results
<1>11. CASE List(c)
  <2>1. /\ job'[c] = job[c] /\ ref'[c] = ref[c] /\ got'[c] = got[c]
        /\ pc'[c] \in {"idle", "verify_all"} /\ checked'[c] = checked[c]
        /\ result'[c] \in {"ok", result[c]}
    BY <1>11 DEF List
  <2>2. \A r \in listed'[c] : r \in Refs /\ item[r].state = "live"
    BY <1>11 DEF List, Matches, Live
  <2>3. checked[c] = {} /\ job[c].op = "delete_all"
    BY <1>1, <1>11 DEF List, CallerOK
  <2> QED BY <1>1, <1>2, <2>1, <2>2, <2>3 DEF CallerOK, PCs, Results
<1>12. CASE VerifyListed(c)
  BY <1>1, <1>2, <1>12 DEF VerifyListed, CallerOK, Own, PCs, Results
<1>13. CASE DeleteListed(c) \/ DeleteListedStops(c) \/ DeleteListedFails(c)
  <2>1. /\ pc[c] = "verify_all" /\ pc'[c] = "idle" /\ job'[c] = job[c]
        /\ ref'[c] = ref[c] /\ listed'[c] = listed[c]
        /\ checked'[c] = checked[c] /\ got'[c] = got[c]
        /\ result'[c] \in {"ok", "error"}
    BY <1>13 DEF DeleteListed, DeleteListedStops, DeleteListedFails
  <2>2. job[c].op # "load"
    BY <1>1, <2>1 DEF CallerOK
  <2> QED BY <1>1, <2>1, <2>2, CallerFinishes DEF CallerOK, Results
<1> QED
  BY <1>3, <1>4, <1>5, <1>6, <1>7, <1>8, <1>9, <1>10, <1>11, <1>12, <1>13
  DEF CallerStep

\* The records of a caller keep their types.
LEMMA RecordsKeepTypes ==
  ASSUME IInv, ItemsStep, [Next]_vars
  PROVE  Functions'
PROOF
<1> USE KeychainAssumption DEF IInv, Functions
<1>1. CASE UNCHANGED vars
  BY <1>1 DEF vars
<1>2. ASSUME NEW c \in Callers, CallerStep(c) PROVE Functions'
  <2>1. /\ pc'[c] \in PCs /\ job'[c] \in Jobs /\ result'[c] \in Results
        /\ ref'[c] \in Refs \cup {NoRef} /\ listed'[c] \subseteq Refs
        /\ checked'[c] \subseteq Refs /\ got'[c] \in Secrets \cup {Decoy}
    BY <1>2, CallerLearns DEF CallerOK
  <2> USE <2>1 DEF Finish, GoesOn
  <2>2. CASE \E o \in Operations, k \in Keys, v \in Secrets : Call(c, o, k, v)
    BY <2>2 DEF Call
  <2>3. CASE ApiFails(c) \/ Verify(c) \/ UpdateItem(c)
    BY <2>3 DEF ApiFails, Verify, UpdateItem
  <2>4. CASE Lookup(c)
    BY <2>4 DEF Lookup, NotFound
  <2>5. CASE AddItem(c) \/ LoadData(c)
    BY <2>5 DEF AddItem, LoadData
  <2>6. CASE DeleteItem(c) \/ DeleteListed(c) \/ DeleteListedStops(c)
             \/ DeleteListedFails(c)
    BY <2>6 DEF DeleteItem, DeleteListed, DeleteListedStops, DeleteListedFails
  <2>7. CASE List(c) \/ VerifyListed(c)
    BY <2>7 DEF List, VerifyListed
  <2> QED BY <1>2, <2>2, <2>3, <2>4, <2>5, <2>6, <2>7 DEF CallerStep
<1>3. ASSUME NEW r \in Refs,
             ForeignDelete(r) \/ \E k \in Keys : ForeignAdd(r, k)
      PROVE  Functions'
  BY <1>3 DEF ForeignDelete, ForeignAdd
<1> QED BY <1>1, <1>2, <1>3 DEF Next

-----------------------------------------------------------------------------
(* The theorems *)

\* The strengthened invariant holds initially and is kept by every step.
THEOREM Inductive == Spec => []IInv
PROOF
<1>1. Init => IInv
  <2> SUFFICES ASSUME Init PROVE IInv
    OBVIOUS
  <2> USE KeychainAssumption
  <2>1. SomeKey \in Keys /\ SomeSecret \in Secrets
    BY DEF SomeKey, SomeSecret
  <2>2. ItemsOK
    BY <2>1 DEF Init, ItemsOK, Items, NewItem
  <2>3. Functions
    BY <2>1 DEF Init, Functions, PCs, Results, Jobs, Operations
  <2>4. ASSUME NEW c \in Callers PROVE CallerOK(c)
    BY <2>1 DEF Init, CallerOK, PCs, Results, Jobs, Operations
  <2> QED BY <2>2, <2>3, <2>4 DEF IInv
<1>2. IInv /\ [Next]_vars => IInv'
  <2> SUFFICES ASSUME IInv, [Next]_vars PROVE IInv'
    OBVIOUS
  <2>1. ItemsOK /\ Functions /\ \A c \in Callers : CallerOK(c)
    BY DEF IInv
  <2>2. ItemsStep
    BY StepsOfItems
  <2>3. ItemsOK'
    BY <2>1, <2>2, ItemsStayOK
  <2>4. Functions'
    BY <2>2, RecordsKeepTypes
  <2>5. ASSUME NEW c \in Callers PROVE CallerOK(c)'
    <3>1. ASSUME /\ pc'[c] = pc[c] /\ job'[c] = job[c]
                 /\ result'[c] = result[c] /\ ref'[c] = ref[c]
                 /\ listed'[c] = listed[c] /\ checked'[c] = checked[c]
                 /\ got'[c] = got[c]
          PROVE  CallerOK(c)'
      BY <2>1, <2>2, <3>1, CallerKeeps
    <3>2. CASE UNCHANGED vars
      BY <3>1, <3>2 DEF vars
    <3>3. ASSUME NEW d \in Callers, CallerStep(d) PROVE CallerOK(c)'
      <4>1. CASE d = c
        BY <2>2, <3>3, <4>1, CallerLearns
      <4>2. CASE d # c
        BY <2>1, <3>1, <3>3, <4>2, OthersUnchanged
      <4> QED BY <4>1, <4>2
    <3>4. ASSUME NEW r \in Refs,
                 ForeignDelete(r) \/ \E k \in Keys : ForeignAdd(r, k)
          PROVE  CallerOK(c)'
      BY <3>1, <3>4 DEF ForeignDelete, ForeignAdd
    <3> QED BY <3>2, <3>3, <3>4 DEF Next
  <2> QED BY <2>3, <2>4, <2>5 DEF IInv
<1> QED BY <1>1, <1>2, PTL DEF Spec

\* Every variable keeps its type: in particular, no operation acts on an item
\* before it has found one.
THEOREM TypeCorrect == Spec => []TypeOK
PROOF
<1>1. IInv => TypeOK
  BY DEF IInv, ItemsOK, Functions, CallerOK, TypeOK, PCs, Results
<1> QED BY <1>1, Inductive, PTL

\* No secret ever reaches an item of another process, whatever is deleted and
\* recreated between the verification of an item and its update.
THEOREM SecretsConfined == Spec => []SecretsStayOwn
PROOF
<1>1. IInv => SecretsStayOwn
  BY DEF IInv, ItemsOK, SecretsStayOwn
<1> QED BY <1>1, Inductive, PTL

\* What a load returns was stored by the application.
THEOREM LoadsAreGenuine == Spec => []LoadsOnlySecrets
PROOF
<1>1. IInv => LoadsOnlySecrets
  BY DEF IInv, CallerOK, LoadsOnlySecrets
<1> QED BY <1>1, Inductive, PTL

\* No operation changes or deletes an item of another process.
THEOREM ForeignItemsSafe == Spec => ForeignItemsUntouched
PROOF
<1>1. IInv /\ [Next]_vars =>
        [\A r \in Refs : Live(r) /\ ~Own(r) =>
           item'[r] \in {item[r], [item[r] EXCEPT !.state = "gone"]}]_vars
  <2> SUFFICES ASSUME IInv, [Next]_vars, NEW r \in Refs, Live(r), ~Own(r)
               PROVE  item'[r] \in {item[r], [item[r] EXCEPT !.state = "gone"]}
    OBVIOUS
  <2>1. ItemStep(r)
    BY StepsOfItems DEF ItemsStep
  <2>2. item[r].state # "unused"
    BY DEF Live
  <2> QED BY <2>1, <2>2 DEF ItemStep
<1> QED BY <1>1, Inductive, PTL DEF Spec, ForeignItemsUntouched

-----------------------------------------------------------------------------
(* The removal of all passwords *)

\* Who may change the passwords: more than load them and ask for them.
Writes(c) == Allowed[c] \cap {"store", "delete", "delete_all"} # {}

\* The lifecycle permits leave the passwords to one caller at a time.
OneWriter == \A c, d \in Callers : Writes(c) /\ Writes(d) => c = d

Removes(c, outcome) ==
  pc[c] = "idle" /\ job[c].op = "delete_all" /\ result[c] = outcome

OwnPasswords == {r \in Refs : Live(r) /\ Own(r) /\ item[r].key \in Passwords}

\* What the list of a removal says of the items: none of them was removed by
\* the application before all are verified, and none is missing from it.
ListHolds(c) ==
  /\ pc[c] # "idle" \/ result[c] # "none" => job[c].op \in Allowed[c]
  /\ pc[c] = "verify_all" \/ Removes(c, "conflict") =>
       \A r \in listed[c] : item[r].state # "removed"
  /\ pc[c] = "verify_all" => OwnPasswords \subseteq listed[c]

\* A step that removes no item and adds no own one.
Harmless ==
  /\ \A r \in Refs : item'[r].state = "removed" => item[r].state = "removed"
  /\ OwnPasswords' \subseteq OwnPasswords

\* Callers that only read, and other processes, take such steps only.
LEMMA ReadersAreHarmless ==
  ASSUME IInv, NEW c \in Callers, CallerStep(c), ListHolds(c), ~Writes(c)
  PROVE  Harmless
<1>1. ASSUME UNCHANGED item PROVE Harmless
  BY <1>1 DEF Harmless, OwnPasswords, Live, Own
<1>2. CallerOK(c)
  BY DEF IInv
<1>3. pc[c] # "idle" => job[c].op \notin {"store", "delete", "delete_all"}
  BY DEF ListHolds, Writes
<1>4. ~(UpdateItem(c) \/ AddItem(c) \/ DeleteItem(c) \/ DeleteListed(c)
         \/ DeleteListedStops(c) \/ DeleteListedFails(c))
  BY <1>2, <1>3 DEF CallerOK, UpdateItem, AddItem, DeleteItem, DeleteListed,
                    DeleteListedStops, DeleteListedFails
<1> QED
  BY <1>1, <1>4 DEF CallerStep, Call, ApiFails, Lookup, Verify, LoadData, List,
                    VerifyListed

\* Other processes remove nothing as the application, and add no own item.
LEMMA OtherProcessesAreHarmless ==
  ASSUME IInv, NEW r \in Refs,
         ForeignDelete(r) \/ \E k \in Keys : ForeignAdd(r, k)
  PROVE  Harmless
<1>1. item \in [Refs -> Items] /\ item[r] \in Items
  BY DEF IInv, ItemsOK
<1>2. CASE ForeignDelete(r)
  <2>1. item' = [item EXCEPT ![r].state = "gone"]
    BY <1>2 DEF ForeignDelete
  <2> QED
    BY <1>1, <2>1 DEF Harmless, OwnPasswords, Live, Own, Items
<1>3. ASSUME NEW k \in Keys, ForeignAdd(r, k) PROVE Harmless
  <2>1. item' = [item EXCEPT ![r] = [state |-> "live", key |-> k,
                                     owner |-> "foreign", value |-> Decoy]]
    BY <1>3 DEF ForeignAdd, Add
  <2> QED
    BY <1>1, <2>1 DEF Harmless, OwnPasswords, Live, Own
<1> QED
  BY <1>2, <1>3

\* Such a step leaves the list of a caller that does nothing true.
LEMMA ListStaysTrue ==
  ASSUME IInv, Harmless, NEW c \in Callers, ListHolds(c),
         pc'[c] = pc[c], job'[c] = job[c], result'[c] = result[c],
         listed'[c] = listed[c]
  PROVE  ListHolds(c)'
<1>1. listed[c] \subseteq Refs
  BY DEF IInv, CallerOK
<1>2. Removes(c, "conflict")' = Removes(c, "conflict")
  BY DEF Removes
<1> QED
  BY <1>1, <1>2 DEF ListHolds, Harmless

\* The caller that removes keeps its own list true.
LEMMA ListBecomesTrue ==
  ASSUME IInv, NEW c \in Callers, CallerStep(c), ListHolds(c)
  PROVE  ListHolds(c)'
<1> USE KeychainAssumption DEF Finish, GoesOn, Removes
<1>1. /\ ItemsOK /\ CallerOK(c) /\ Functions
  BY DEF IInv
<1> USE DEF Functions
<1>2. CASE \E o \in Operations, k \in Keys, v \in Secrets : Call(c, o, k, v)
  BY <1>1, <1>2 DEF Call, ListHolds
<1>3. CASE ApiFails(c)
  BY <1>1, <1>3 DEF ApiFails, ListHolds
<1>4. CASE Lookup(c)
  BY <1>1, <1>4 DEF Lookup, NotFound, CallerOK, ListHolds
<1>5. CASE Verify(c)
  BY <1>1, <1>5 DEF Verify, CallerOK, ListHolds, Jobs, Operations
<1>6. CASE UpdateItem(c) \/ AddItem(c)
  <2>1. job[c].op = "store" /\ job'[c].op = "store" /\ pc'[c] # "verify_all"
        /\ pc[c] # "idle"
    BY <1>1, <1>6 DEF UpdateItem, AddItem, CallerOK, Jobs
  <2> QED
    BY <2>1 DEF ListHolds
<1>7. CASE LoadData(c) \/ DeleteItem(c)
  BY <1>1, <1>7 DEF LoadData, DeleteItem, CallerOK, ListHolds
<1>8. CASE List(c)
  <2>1. /\ item' = item /\ job' = job /\ pc[c] # "idle"
        /\ listed'[c] = UNION {Matches(k) : k \in Passwords}
        /\ pc'[c] \in {"idle", "verify_all"}
        /\ pc'[c] = "idle" => listed'[c] = {} /\ result'[c] = "ok"
    BY <1>1, <1>8 DEF List
  <2>2. OwnPasswords' = OwnPasswords /\ OwnPasswords \subseteq listed'[c]
    BY <2>1 DEF OwnPasswords, Matches, Live, Own
  <2>3. \A r \in listed'[c] : item'[r].state # "removed"
    BY <2>1 DEF Matches, Live
  <2> QED
    BY <2>1, <2>2, <2>3 DEF ListHolds
<1>9. CASE VerifyListed(c)
  <2>1. /\ item' = item /\ job' = job /\ listed' = listed
        /\ pc[c] = "verify_all"
        /\ \/ pc'[c] = "verify_all"
           \/ pc'[c] = "idle" /\ result'[c] = "conflict"
    BY <1>1, <1>9 DEF VerifyListed
  <2>2. OwnPasswords' = OwnPasswords
    BY <2>1 DEF OwnPasswords, Live, Own
  <2> QED
    BY <2>1, <2>2 DEF ListHolds
<1>10. CASE DeleteListed(c) \/ DeleteListedStops(c) \/ DeleteListedFails(c)
  BY <1>1, <1>10
     DEF DeleteListed, DeleteListedStops, DeleteListedFails, ListHolds
<1> QED
  BY <1>2, <1>3, <1>4, <1>5, <1>6, <1>7, <1>8, <1>9, <1>10 DEF CallerStep

\* With one writer, the list of a removal is true until the removal ends.
THEOREM ListsHold == OneWriter => (Spec => [](\A c \in Callers : ListHolds(c)))
<1> SUFFICES ASSUME OneWriter PROVE Spec => [](\A c \in Callers : ListHolds(c))
  OBVIOUS
<1> DEFINE Holds == \A c \in Callers : ListHolds(c)
<1>1. Init => Holds
  BY DEF Init, ListHolds, Removes
<1>2. IInv /\ Holds /\ [Next]_vars => Holds'
  <2> SUFFICES ASSUME IInv, Holds, [Next]_vars, NEW c \in Callers
               PROVE  ListHolds(c)'
    OBVIOUS
  <2>1. ListHolds(c) /\ CallerOK(c) /\ Functions
    BY DEF IInv
  <2>2. CASE UNCHANGED vars
    BY <2>1, <2>2 DEF vars, ListHolds, Removes, OwnPasswords, Live, Own
  <2>3. ASSUME NEW d \in Callers, CallerStep(d) PROVE ListHolds(c)'
    <3>1. CASE d = c
      BY <2>1, <2>3, <3>1, ListBecomesTrue
    <3>2. CASE d # c
      <4>1. /\ pc'[c] = pc[c] /\ job'[c] = job[c] /\ result'[c] = result[c]
            /\ listed'[c] = listed[c]
        BY <2>1, <2>3, <3>2, OthersUnchanged
      <4>2. CASE Writes(d)
        <5>1. ~Writes(c)
          BY <3>2, <4>2 DEF OneWriter
        <5>2. pc[c] # "verify_all" /\ ~Removes(c, "conflict")
          BY <2>1, <5>1 DEF ListHolds, Writes, Removes, CallerOK
        <5> QED
          BY <2>1, <4>1, <5>2 DEF ListHolds, Removes
      <4>3. CASE ~Writes(d)
        <5>1. Harmless
          BY <2>3, <4>3, ReadersAreHarmless
        <5> QED
          BY <2>1, <4>1, <5>1, ListStaysTrue
      <4> QED
        BY <4>2, <4>3
    <3> QED
      BY <3>1, <3>2
  <2>4. ASSUME NEW r \in Refs,
               ForeignDelete(r) \/ \E k \in Keys : ForeignAdd(r, k)
        PROVE  ListHolds(c)'
    <3>1. Harmless
      BY <2>4, OtherProcessesAreHarmless
    <3>2. /\ pc'[c] = pc[c] /\ job'[c] = job[c] /\ result'[c] = result[c]
          /\ listed'[c] = listed[c]
      BY <2>4 DEF ForeignDelete, ForeignAdd
    <3> QED
      BY <2>1, <3>1, <3>2, ListStaysTrue
  <2> QED
    BY <2>2, <2>3, <2>4 DEF Next
<1> QED
  BY <1>1, <1>2, Inductive, PTL DEF Spec

\* With one writer, a removal that meets a foreign item has removed none of
\* those it has listed.
THEOREM ConflictsSpare == OneWriter => (Spec => []ConflictDeletesNothing)
<1> SUFFICES ASSUME OneWriter PROVE Spec => []ConflictDeletesNothing
  OBVIOUS
<1>1. (\A c \in Callers : ListHolds(c)) => ConflictDeletesNothing
  BY DEF ListHolds, Removes, ConflictDeletesNothing
<1>2. Spec => [](\A c \in Callers : ListHolds(c))
  BY ListsHold
<1> QED
  BY <1>1, <1>2, PTL

\* What a removal that succeeds leaves, when no other process has removed an item
\* it had listed.
Completes(c) ==
  /\ pc[c] \in {"list", "verify_all"} /\ pc'[c] = "idle" /\ result'[c] = "ok"
  /\ \A r \in listed[c] : Live(r)
  => \A r \in Refs :
       item'[r].key \in Passwords /\ item'[r].state = "live"
         => item'[r].owner = "foreign"

\* A removal that finds nothing, and one that deletes all it has listed.
LEMMA RemovalStep ==
  ASSUME IInv, NEW c \in Callers, CallerStep(c), ListHolds(c)
  PROVE  Completes(c)
<1> SUFFICES ASSUME pc[c] \in {"list", "verify_all"}, pc'[c] = "idle",
                    result'[c] = "ok", \A r \in listed[c] : Live(r),
                    NEW r \in Refs, item'[r].key \in Passwords,
                    item'[r].state = "live"
             PROVE  item'[r].owner = "foreign"
  BY DEF Completes
<1>1. ItemsOK /\ CallerOK(c) /\ Functions /\ ItemsStep
  BY StepsOfItems DEF IInv, Next
<1>2. item[r] \in Items /\ item[r].owner \in {"own", "foreign"}
  BY <1>1 DEF ItemsOK, Items
<1>3. List(c) \/ DeleteListed(c) \/ DeleteListedStops(c)
  BY <1>1 DEF CallerStep, Call, ApiFails, Lookup, Verify, UpdateItem, AddItem,
              LoadData, DeleteItem, VerifyListed, DeleteListedFails, Finish,
              GoesOn, Functions
<1>4. CASE List(c)
  <2>1. /\ item' = item
        /\ UNION {Matches(k) : k \in Passwords} = {}
    BY <1>1, <1>4 DEF List, Finish, GoesOn, Functions
  <2> QED
    BY <2>1 DEF Matches, Live
<1>5. CASE DeleteListed(c)
  <2>1. Removed(listed[c]) /\ OwnPasswords \subseteq listed[c]
    BY <1>5 DEF DeleteListed, ListHolds
  <2>2. r \notin listed[c] \/ ~Live(r)
    BY <1>1, <2>1 DEF Removed, ItemsOK, Items
  <2>3. item'[r] = item[r]
    BY <1>1, <2>1, <2>2 DEF Removed, ItemsOK
  <2> QED
    BY <1>2, <2>1, <2>2, <2>3 DEF OwnPasswords, Live, Own
<1>6. CASE DeleteListedStops(c)
  BY <1>6 DEF DeleteListedStops
<1> QED
  BY <1>3, <1>4, <1>5, <1>6

\* With one writer, no own password is left when the removal of all passwords
\* returns successfully, unless another process has removed a listed item.
THEOREM RemovalsComplete == OneWriter => (Spec => RemovalIsComplete)
<1> SUFFICES ASSUME OneWriter PROVE Spec => RemovalIsComplete
  OBVIOUS
<1> DEFINE AllComplete == \A c \in Callers : Completes(c)
           Holds == \A c \in Callers : ListHolds(c)
<1>1. ASSUME IInv, Holds, [Next]_vars, NEW c \in Callers
      PROVE  Completes(c)
  <2>1. CASE CallerStep(c)
    BY <1>1, <2>1, RemovalStep
  <2>2. CASE ~CallerStep(c)
    <3>1. pc'[c] = pc[c]
      BY <1>1, <2>2, OthersUnchanged
         DEF Next, IInv, vars, ForeignDelete, ForeignAdd
    <3> QED
      BY <3>1 DEF Completes
  <2> QED
    BY <2>1, <2>2
<1>2. IInv /\ Holds /\ [Next]_vars => [AllComplete]_vars
  BY <1>1
<1>3. Spec => []Holds
  BY ListsHold
<1>4. RemovalIsComplete <=> [][AllComplete]_vars
  BY DEF RemovalIsComplete, Completes
<1> HIDE DEF Holds, AllComplete
<1> QED
  BY <1>2, <1>3, <1>4, Inductive, PTL DEF Spec

\* No step of a store removes an item, also one that fails.
THEOREM StoresKeep == Spec => StoreRemovesNothing
<1> DEFINE Kept == \A c \in Callers : job[c].op = "store" /\ pc'[c] # pc[c] =>
                     \A r \in Refs : Live(r) => item'[r].state = "live"
<1>1. IInv /\ [Next]_vars => Kept
  <2> SUFFICES ASSUME IInv, [Next]_vars, NEW c \in Callers,
                      job[c].op = "store", pc'[c] # pc[c],
                      NEW r \in Refs, Live(r)
               PROVE  item'[r].state = "live"
    OBVIOUS
  <2>1. CallerOK(c) /\ Functions /\ item \in [Refs -> Items]
    BY DEF IInv, ItemsOK
  <2>2. CallerStep(c)
    BY <2>1, OthersUnchanged DEF Next, vars, ForeignDelete, ForeignAdd
  <2>3. ~(DeleteItem(c) \/ DeleteListed(c) \/ DeleteListedStops(c)
           \/ DeleteListedFails(c))
    BY <2>1 DEF CallerOK, DeleteItem, DeleteListed, DeleteListedStops,
                DeleteListedFails
  <2>4. CASE UpdateItem(c)
    <3>1. item[r] \in Items
      BY <2>1
    <3>2. item' = item \/ item' = [item EXCEPT ![ref[c]].value = job[c].value]
      BY <2>4 DEF UpdateItem
    <3>3. item'[r].state = item[r].state
      BY <2>1, <3>1, <3>2 DEF Items
    <3> QED
      BY <3>3 DEF Live
  <2>5. CASE AddItem(c)
    BY <2>1, <2>5 DEF AddItem, Add, Live
  <2>6. CASE item' = item
    BY <2>6 DEF Live
  <2> QED
    BY <2>2, <2>3, <2>4, <2>5, <2>6
    DEF CallerStep, Call, ApiFails, Lookup, Verify, LoadData, List, VerifyListed
<1> QED
  BY <1>1, Inductive, PTL DEF Spec, StoreRemovesNothing

-----------------------------------------------------------------------------
(* The operations take effect at one moment each: Keychain implements Vault. *)

\* A key has one live item at most.
OnePerKey ==
  \A r, q \in Refs : Live(r) /\ Live(q) /\ item[r].key = item[q].key => r = q

\* The item that a caller has found is one of its key.
FoundItsKey(c) ==
  pc[c] \in {"verify", "store", "load", "delete"} => item[ref[c]].key = job[c].key

KeysHold == OnePerKey /\ \A c \in Callers : FoundItsKey(c)

VInv == IInv /\ KeysHold

\* An item keeps its key, and only an unused reference becomes live.
LEMMA KeyNeverChanges ==
  ASSUME ItemsOK, ItemsStep, NEW r \in Refs, item[r].state # "unused"
  PROVE  /\ item'[r].key = item[r].key
         /\ item'[r].state = "live" => item[r].state = "live"
PROOF
<1>1. item[r] \in Items /\ ItemStep(r)
  BY DEF ItemsOK, ItemsStep
<1> QED BY <1>1 DEF ItemStep, Items, Live

\* An item is added under a key without one, to one reference.
LEMMA AddedAlone ==
  ASSUME ItemsOK, NEW r \in Refs, NEW k \in Keys, NEW o, NEW v,
         Add(r, k, o, v), OnePerKey
  PROVE  OnePerKey'
PROOF
<1>1. \A q \in Refs : Live(q) => item[q].key # k
  BY DEF Add, Matches
<1>2. \A q \in Refs : q # r => item'[q] = item[q]
  BY DEF Add, ItemsOK
<1>3. item'[r].key = k
  BY DEF Add, ItemsOK
<1> QED BY <1>1, <1>2, <1>3 DEF OnePerKey, Live

\* No step gives a key a second item.
LEMMA KeysStayApart ==
  ASSUME VInv, [Next]_vars
  PROVE  OnePerKey'
PROOF
<1>1. ItemsOK /\ ItemsStep /\ OnePerKey
  BY StepsOfItems DEF VInv, KeysHold, IInv
<1>2. CASE \A r \in Refs : item'[r].state = "live" => item[r].state = "live"
  <2> SUFFICES ASSUME NEW r \in Refs, NEW q \in Refs, Live(r)', Live(q)',
                      item'[r].key = item'[q].key
               PROVE  r = q
    BY DEF OnePerKey
  <2>1. Live(r) /\ Live(q)
    BY <1>2 DEF Live
  <2>2. item'[r].key = item[r].key /\ item'[q].key = item[q].key
    BY <1>1, <2>1, KeyNeverChanges DEF Live
  <2> QED BY <1>1, <2>1, <2>2 DEF OnePerKey
<1>3. CASE \E r \in Refs, k \in Keys, o \in {"own", "foreign"},
              v \in Secrets \cup {Decoy} : Add(r, k, o, v)
  BY <1>1, <1>3, AddedAlone
<1> DEFINE
  OneAdded ==
    \/ \A r \in Refs : item'[r].state = "live" => item[r].state = "live"
    \/ \E r \in Refs, k \in Keys, o \in {"own", "foreign"},
          v \in Secrets \cup {Decoy} : Add(r, k, o, v)
<1>4. OneAdded
  <2>1. ASSUME item' = item PROVE OneAdded
    BY <2>1
  <2>2. ASSUME NEW c \in Callers, CallerStep(c) PROVE OneAdded
    <3>1. CallerOK(c) /\ item \in [Refs -> Items]
      BY DEF VInv, IInv, ItemsOK
    <3>2. CASE UpdateItem(c)
      <4>1. \A r \in Refs : item'[r].state = item[r].state
        BY <3>1, <3>2 DEF UpdateItem, Items
      <4> QED BY <4>1
    <3>3. CASE AddItem(c)
      BY <3>1, <3>3 DEF AddItem, CallerOK, Jobs
    <3>4. CASE DeleteItem(c) \/ DeleteListed(c) \/ DeleteListedStops(c)
               \/ DeleteListedFails(c)
      <4>1. PICK S : Removed(S)
        BY <3>4 DEF DeleteItem, DeleteListed, DeleteListedStops, DeleteListedFails
      <4>2. \A r \in Refs : item'[r].state \in {item[r].state, "removed"}
        BY <3>1, <4>1 DEF Removed, Items
      <4> QED BY <4>2
    <3> QED
      BY <2>1, <2>2, <3>2, <3>3, <3>4
      DEF CallerStep, Call, ApiFails, Lookup, Verify, LoadData, List,
          VerifyListed
  <2>3. ASSUME NEW r \in Refs, ForeignDelete(r) PROVE OneAdded
    <3>1. \A q \in Refs : item'[q].state \in {item[q].state, "gone"}
      BY <2>3 DEF ForeignDelete, VInv, IInv, ItemsOK, Items
    <3> QED BY <3>1
  <2>4. ASSUME NEW r \in Refs, NEW k \in Keys, ForeignAdd(r, k) PROVE OneAdded
    BY <2>4 DEF ForeignAdd
  <2> QED BY <2>1, <2>2, <2>3, <2>4 DEF Next, vars
<1> QED BY <1>2, <1>3, <1>4

\* A caller acts on an item of the key it was called with.
LEMMA KeysAreTheirs ==
  ASSUME VInv, [Next]_vars, NEW c \in Callers
  PROVE  FoundItsKey(c)'
PROOF
<1> USE DEF VInv, KeysHold
<1>1. ItemsOK /\ ItemsStep /\ CallerOK(c) /\ Functions /\ FoundItsKey(c)
  BY StepsOfItems DEF IInv
<1>2. \A r \in Refs : item[r].state # "unused" => item'[r].key = item[r].key
  BY <1>1, KeyNeverChanges
<1>3. ASSUME pc'[c] = pc[c], job'[c] = job[c], ref'[c] = ref[c]
      PROVE  FoundItsKey(c)'
  BY <1>1, <1>2, <1>3, KeychainAssumption DEF FoundItsKey, CallerOK
<1>4. CASE CallerStep(c)
  <2> USE DEF Functions, Finish, GoesOn
  <2>1. CASE Lookup(c)
    BY <1>1, <1>2, <2>1
    DEF Lookup, NotFound, FoundItsKey, Matches, Live
  <2>2. CASE Verify(c)
    <3>1. ref[c] \in Refs /\ item[ref[c]].state # "unused"
      BY <1>1, <2>2, KeychainAssumption DEF Verify, CallerOK
    <3>2. job'[c] = job[c] /\ ref'[c] = ref[c] /\ pc[c] = "verify"
      BY <2>2 DEF Verify
    <3> QED BY <1>1, <1>2, <3>1, <3>2 DEF FoundItsKey
  <2>3. pc'[c] \in {"idle", "lookup", "list", "verify_all"} => FoundItsKey(c)'
    BY DEF FoundItsKey
  <2>4. CASE ~(Lookup(c) \/ Verify(c))
    BY <1>1, <1>4, <2>3, <2>4
    DEF CallerStep, Call, ApiFails, UpdateItem, AddItem, LoadData, DeleteItem,
        List, VerifyListed, DeleteListed, DeleteListedStops, DeleteListedFails
  <2> QED BY <2>1, <2>2, <2>4
<1>5. ASSUME NEW d \in Callers, d # c, CallerStep(d) PROVE FoundItsKey(c)'
  BY <1>1, <1>3, <1>5, OthersUnchanged
<1>6. ASSUME NEW r \in Refs,
             ForeignDelete(r) \/ \E k \in Keys : ForeignAdd(r, k)
      PROVE  FoundItsKey(c)'
  BY <1>3, <1>6 DEF ForeignDelete, ForeignAdd
<1>7. CASE UNCHANGED vars
  BY <1>3, <1>7 DEF vars
<1> QED BY <1>4, <1>5, <1>6, <1>7 DEF Next

\* The invariant that the refinement rests on.
LEMMA VaultInvariant == Spec => []VInv
PROOF
<1>1. Init => KeysHold
  BY DEF Init, KeysHold, OnePerKey, FoundItsKey, Live, NewItem
<1>2. VInv /\ [Next]_vars => KeysHold'
  BY KeysStayApart, KeysAreTheirs DEF KeysHold
<1> QED BY <1>1, <1>2, Inductive, PTL DEF Spec, VInv

-----------------------------------------------------------------------------
(* The abstract state *)

Box == [k \in Keys |-> BoxOfKey(k)]
Stage == [c \in Callers |-> StageOf(c)]
JobFn == [c \in Callers |-> JobOf(c)]
Marked == [c \in Callers |-> MarkedOf(c)]

\* What a caller that takes no step shows of itself while no item leaves.
SameCaller(d) ==
  /\ pc'[d] = pc[d] /\ job'[d] = job[d] /\ result'[d] = result[d]
  /\ ref'[d] = ref[d] /\ listed'[d] = listed[d] /\ got'[d] = got[d]

\* A live item shows in the box of its key.
LEMMA BoxShows ==
  ASSUME OnePerKey, NEW r \in Refs, Live(r)
  PROVE  BoxOfKey(item[r].key) = [owner |-> item[r].owner, value |-> item[r].value]
PROOF
<1>1. Matches(item[r].key) = {r}
  BY DEF OnePerKey, Matches
<1> QED BY <1>1 DEF BoxOfKey

\* The box of a key without an item is empty, and of no other.
LEMMA BoxIsEmpty ==
  ASSUME ItemsOK, NEW k \in Keys
  PROVE  BoxOfKey(k) = V!Nothing <=> Matches(k) = {}
PROOF
<1>1. Matches(k) = {} => BoxOfKey(k) = V!Nothing
  BY DEF BoxOfKey, V!Nothing
<1>2. ASSUME Matches(k) # {} PROVE BoxOfKey(k) # V!Nothing
  <2> DEFINE r == CHOOSE r \in Matches(k) : TRUE
  <2>1. r \in Refs
    BY <1>2 DEF Matches
  <2>2. item[r].owner # "nobody"
    BY <2>1 DEF ItemsOK, Items
  <2>3. BoxOfKey(k) = [owner |-> item[r].owner, value |-> item[r].value]
    BY <1>2 DEF BoxOfKey
  <2> QED BY <2>2, <2>3 DEF V!Nothing
<1> QED BY <1>1, <1>2

\* While no item changes, the boxes stay, and so do the callers at rest.
LEMMA BoxesStay ==
  ASSUME item' = item
  PROVE  /\ Box' = Box
         /\ \A d \in Callers : SameCaller(d) =>
              StageOf(d)' = StageOf(d) /\ MarkedOf(d)' = MarkedOf(d)
              /\ JobOf(d)' = JobOf(d)
PROOF
<1>1. ASSUME NEW k \in Keys PROVE BoxOfKey(k)' = BoxOfKey(k)
  BY DEF BoxOfKey, Matches, Live
<1>2. ASSUME NEW d \in Callers, SameCaller(d)
      PROVE  StageOf(d)' = StageOf(d) /\ MarkedOf(d)' = MarkedOf(d)
             /\ JobOf(d)' = JobOf(d)
  BY <1>2 DEF SameCaller, StageOf, MarkedOf, JobOf, Live
<1> QED BY <1>1, <1>2 DEF Box

\* An operation that returns and leaves the items alone.
LEMMA Returning ==
  ASSUME Functions, NEW c \in Callers, item' = item, pc[c] # "idle",
         \A d \in Callers \ {c} : SameCaller(d),
         pc'[c] = "idle", job'[c] = job[c], NEW o,
         result' = [result EXCEPT ![c] = o]
  PROVE  V!Ends(c, o)
PROOF
<1>1. Box' = Box /\ \A d \in Callers \ {c} :
        StageOf(d)' = StageOf(d) /\ MarkedOf(d)' = MarkedOf(d)
        /\ JobOf(d)' = JobOf(d)
  BY BoxesStay
<1>2. StageOf(c)' = "idle" /\ MarkedOf(c)' = {} /\ JobOf(c)' = JobOf(c)
  BY DEF StageOf, MarkedOf, JobOf
<1>3. Stage' = [Stage EXCEPT ![c] = "idle"]
      /\ Marked' = [Marked EXCEPT ![c] = {}] /\ JobFn' = JobFn
  BY <1>1, <1>2 DEF Stage, Marked, JobFn
<1> QED BY <1>1, <1>3 DEF V!Ends, V!Return, Box, Stage, Marked, JobFn

\* A call that neither changes an item nor ends its operation is invisible.
LEMMA GoingOn ==
  ASSUME Functions, NEW c \in Callers, item' = item,
         \A d \in Callers \ {c} : SameCaller(d),
         StageOf(c)' = StageOf(c), MarkedOf(c)' = MarkedOf(c),
         JobOf(c)' = JobOf(c), result' = result, got' = got
  PROVE  UNCHANGED V!vars
PROOF
<1>1. Box' = Box /\ \A d \in Callers :
        StageOf(d)' = StageOf(d) /\ MarkedOf(d)' = MarkedOf(d)
        /\ JobOf(d)' = JobOf(d)
  BY BoxesStay
<1>2. Stage' = Stage /\ Marked' = Marked /\ JobFn' = JobFn
  BY <1>1 DEF Stage, Marked, JobFn
<1> QED BY <1>1, <1>2 DEF V!vars, Box, Stage, Marked, JobFn

\* Items that leave empty the boxes of their keys; those who had verified one of
\* them find nothing, and those who had listed one have lost a mark.
LEMMA Leaving ==
  ASSUME VInv, NEW keeping \in SUBSET Callers,
         \A d \in keeping : SameCaller(d),
         \A d \in Callers \ keeping : pc'[d] = "idle",
         NEW S \in SUBSET {r \in Refs : Live(r)},
         \A r \in S : item'[r].state # "live",
         \A r \in Refs \ S : item'[r] = item[r]
  PROVE  V!Emptied({item[r].key : r \in S}, keeping)
PROOF
<1> DEFINE K == {item[r].key : r \in S}
           D == {d \in keeping : pc[d] \in {"load", "delete"} /\ ref[d] \in S}
<1>1. OnePerKey /\ ItemsOK /\ \A d \in Callers : CallerOK(d) /\ FoundItsKey(d)
  BY DEF VInv, KeysHold, IInv
<1>2. ASSUME NEW k \in Keys
      PROVE  BoxOfKey(k)' = IF k \in K THEN V!Nothing ELSE BoxOfKey(k)
  <2>1. CASE k \in K
    <3>1. PICK q \in S : item[q].key = k
      BY <2>1
    <3>2. ASSUME NEW r \in Refs, Live(r)', item'[r].key = k PROVE FALSE
      BY <1>1, <3>1, <3>2 DEF OnePerKey, Live
    <3>3. Matches(k)' = {}
      BY <3>2 DEF Matches
    <3> QED BY <2>1, <3>3 DEF BoxOfKey, V!Nothing
  <2>2. CASE k \notin K
    <3>1. Matches(k)' = Matches(k)
      BY <2>2 DEF Matches, Live
    <3>2. \A r \in Matches(k) : item'[r] = item[r]
      BY <2>2 DEF Matches
    <3> QED BY <2>2, <3>1, <3>2 DEF BoxOfKey
  <2> QED BY <2>1, <2>2
<1>3. ASSUME NEW d \in keeping
      PROVE  StageOf(d)' = IF d \in D THEN "lost"
                           ELSE IF MarkedOf(d) \cap K # {} THEN "parted"
                           ELSE StageOf(d)
  <2>1. pc[d] \in {"load", "delete"} => ref[d] \in Refs
    BY <1>1 DEF CallerOK
  <2>2. pc'[d] = pc[d] /\ ref'[d] = ref[d]
    BY DEF SameCaller
  <2>3. CASE pc[d] \in {"load", "delete"} /\ ref[d] \in S
    BY <2>2, <2>3 DEF StageOf, Live
  <2>0. pc[d] # "verify_all" => MarkedOf(d) = {}
    BY DEF MarkedOf
  <2>4. CASE pc[d] \in {"load", "delete"} /\ ref[d] \notin S
    <3>1. Live(ref[d])' <=> Live(ref[d])
      BY <2>1, <2>2, <2>4 DEF Live
    <3> QED BY <2>0, <2>2, <2>4, <3>1 DEF StageOf
  <2>5. CASE pc[d] \notin {"load", "delete", "verify_all"}
    BY <2>0, <2>2, <2>5 DEF StageOf
  <2>6. CASE pc[d] = "verify_all"
    <3>1. listed[d] \subseteq Refs /\ listed'[d] = listed[d] /\ d \notin D
      BY <1>1, <2>6 DEF CallerOK, SameCaller
    <3>2. \A r \in Refs : Live(r)' <=> Live(r) /\ r \notin S
      BY DEF Live
    <3>3. \A r \in Refs : Live(r) /\ item[r].key \in K => r \in S
      BY <1>1 DEF OnePerKey
    <3>4. \A r \in S : item[r].key \in K
      OBVIOUS
    <3>5. MarkedOf(d) = {item[r].key : r \in {q \in listed[d] : Live(q)}}
      BY <2>6 DEF MarkedOf
    <3> HIDE DEF K, D
    <3>6. MarkedOf(d) \cap K # {} <=> listed[d] \cap S # {}
      BY <3>1, <3>3, <3>4, <3>5
    <3>7. CASE listed[d] \cap S # {}
      <4>1. ~\A r \in listed[d] : Live(r)'
        BY <3>1, <3>2, <3>7
      <4> QED BY <2>2, <2>6, <3>1, <3>6, <3>7, <4>1 DEF StageOf
    <3>8. CASE listed[d] \cap S = {}
      <4>1. \A r \in listed[d] : Live(r)' <=> Live(r)
        BY <3>1, <3>2, <3>8
      <4> QED BY <2>2, <2>6, <3>1, <3>6, <3>8, <4>1 DEF StageOf
    <3> QED BY <3>7, <3>8
  <2> QED BY <2>3, <2>4, <2>5, <2>6
<1>4. ASSUME NEW d \in keeping PROVE MarkedOf(d)' = MarkedOf(d) \ K
  <2>1. listed[d] \subseteq Refs
    BY <1>1 DEF CallerOK
  <2>2. pc'[d] = pc[d] /\ listed'[d] = listed[d]
    BY DEF SameCaller
  <2>3. \A r \in Refs : Live(r)' <=> Live(r) /\ r \notin S
    BY DEF Live
  <2>4. \A r \in Refs : Live(r) /\ item[r].key \in K => r \in S
    BY <1>1 DEF OnePerKey
  <2>5. \A r \in Refs : r \notin S => item'[r].key = item[r].key
    OBVIOUS
  <2>6. CASE pc[d] = "verify_all"
    <3>1. MarkedOf(d)' = {item'[r].key : r \in {q \in listed[d] : Live(q)'}}
      BY <2>2, <2>6 DEF MarkedOf
    <3>2. MarkedOf(d) = {item[r].key : r \in {q \in listed[d] : Live(q)}}
      BY <2>6 DEF MarkedOf
    <3>3. {q \in listed[d] : Live(q)'} = {q \in listed[d] : Live(q)} \ S
      BY <2>1, <2>3
    <3>4. \A r \in {q \in listed[d] : Live(q)} \ S :
            item'[r].key = item[r].key /\ item[r].key \notin K
      BY <2>1, <2>4, <2>5
    <3>5. \A r \in S : item[r].key \in K
      OBVIOUS
    <3> HIDE DEF K
    <3> QED BY <3>1, <3>2, <3>3, <3>4, <3>5
  <2>7. CASE pc[d] # "verify_all"
    BY <2>2, <2>7 DEF MarkedOf
  <2> QED BY <2>6, <2>7
<1>5. ASSUME NEW d \in Callers \ keeping
      PROVE  StageOf(d)' = "idle" /\ MarkedOf(d)' = {}
  BY DEF StageOf, MarkedOf
<1>6. ASSUME NEW d \in D
      PROVE  /\ Stage[d] = "called" /\ JobFn[d].op \in {"load", "delete"}
             /\ JobFn[d].key \in K
  <2>1. d \in Callers /\ CallerOK(d) /\ FoundItsKey(d) /\ Live(ref[d])
    BY <1>1
  <2>2. StageOf(d) = "called"
    BY <2>1 DEF StageOf
  <2>3. JobOf(d).op \in {"load", "delete"}
    BY <2>1 DEF JobOf, CallerOK
  <2>4. JobOf(d).key \in K
    BY <2>1 DEF JobOf, FoundItsKey
  <2> QED BY <2>1, <2>2, <2>3, <2>4 DEF Stage, JobFn
<1>7. D \in SUBSET {d \in Callers : V!During(d, "called", {"load", "delete"})
                                      /\ JobFn[d].key \in K}
  BY <1>6 DEF V!During, Stage, JobFn
<1>8. Box' = [k \in Keys |-> IF k \in K THEN V!Nothing ELSE Box[k]]
  BY <1>2 DEF Box
<1>9. Stage' = [d \in Callers |-> IF d \notin keeping THEN "idle"
                                  ELSE IF d \in D THEN "lost"
                                  ELSE IF Marked[d] \cap K # {} THEN "parted"
                                  ELSE Stage[d]]
  BY <1>3, <1>5 DEF Stage, Marked
<1>10. Marked' = [d \in Callers |-> IF d \notin keeping THEN {}
                                    ELSE Marked[d] \ K]
  BY <1>4, <1>5 DEF Marked
<1> HIDE DEF K, D
<1> QED BY <1>7, <1>8, <1>9, <1>10 DEF V!Emptied, Box, Stage, Marked, JobFn, K

-----------------------------------------------------------------------------
(* The steps *)

VaultStep == [V!Next]_(V!vars)

\* An answer of the vault is one of its steps.
LEMMA Answering ==
  ASSUME NEW c \in Callers, V!Answers(c)
  PROVE  VaultStep
BY DEF VaultStep, V!Next

\* An operation is called.
LEMMA Calling ==
  ASSUME VInv, NEW c \in Callers, NEW o \in Operations, NEW k \in Keys,
         NEW v \in Secrets, Call(c, o, k, v), CallerStep(c)
  PROVE  VaultStep
PROOF
<1>1. Functions /\ \A d \in Callers \ {c} : SameCaller(d)
  BY OthersUnchanged DEF VInv, IInv, SameCaller
<1>2. Box' = Box /\ \A d \in Callers \ {c} :
        StageOf(d)' = StageOf(d) /\ MarkedOf(d)' = MarkedOf(d)
        /\ JobOf(d)' = JobOf(d)
  BY <1>1, BoxesStay DEF Call
<1> DEFINE j == [op |-> o, key |-> k, value |-> v]
<1>3. /\ StageOf(c) = "idle" /\ MarkedOf(c) = {}
      /\ StageOf(c)' = "called" /\ MarkedOf(c)' = {}
  BY <1>1 DEF Functions, Call, StageOf, MarkedOf
<1>4. JobOf(c)' = j
  BY <1>1 DEF Functions, Call, JobOf
<1>5. /\ Stage' = [Stage EXCEPT ![c] = "called"] /\ Stage[c] = "idle"
      /\ Marked' = Marked /\ JobFn' = [JobFn EXCEPT ![c] = j]
  BY <1>2, <1>3, <1>4 DEF Stage, Marked, JobFn
<1>6. j \in V!Jobs /\ j.op \in Allowed[c]
  BY DEF V!Jobs, Operations, Call
<1>7. /\ result' = [result EXCEPT ![c] = "none"]
      /\ got' = [got EXCEPT ![c] = Decoy]
  BY DEF Call
<1> HIDE DEF j
<1>8. V!Call(c)
  BY <1>2, <1>5, <1>6, <1>7 DEF V!Call, Box, Stage, Marked, JobFn
<1> QED BY <1>8 DEF VaultStep, V!Next

\* A look-up either goes on or finds the box of its key empty.
LEMMA LookingUp ==
  ASSUME VInv, NEW c \in Callers, Lookup(c), CallerStep(c)
  PROVE  VaultStep
PROOF
<1>1. /\ Functions /\ ItemsOK /\ CallerOK(c)
      /\ \A d \in Callers \ {c} : SameCaller(d)
  BY OthersUnchanged DEF VInv, IInv, SameCaller
<1>2. pc[c] = "lookup" /\ item' = item /\ job' = job /\ got' = got
  BY DEF Lookup
<1>3. StageOf(c) = "called" /\ MarkedOf(c) = {} /\ JobOf(c)' = JobOf(c)
  BY <1>2 DEF StageOf, MarkedOf, JobOf
<1>4. CASE pc'[c] \in {"verify", "add"} /\ result' = result
  <2>1. StageOf(c)' = "called" /\ MarkedOf(c)' = {}
    BY <1>4 DEF StageOf, MarkedOf
  <2> QED BY <1>1, <1>2, <1>3, <1>4, <2>1, GoingOn DEF VaultStep
<1>5. ASSUME NEW o, pc'[c] = "idle", result' = [result EXCEPT ![c] = o]
      PROVE  V!Ends(c, o)
  BY <1>1, <1>2, <1>5, Returning
<1>6. CASE Matches(job[c].key) = {} /\ NotFound(c)
  <2>1. BoxOfKey(job[c].key) = V!Nothing /\ job[c].key \in Keys
    BY <1>1, <1>6, BoxIsEmpty DEF CallerOK, Jobs
  <2>2. Box[JobFn[c].key] = V!Nothing /\ JobFn[c].op = job[c].op
    BY <2>1 DEF Box, JobFn, JobOf
  <2>3. Stage[c] = "called"
    BY <1>3 DEF Stage
  <2>4. CASE job[c].op = "store" /\ ~job[c].retried
    BY <1>1, <1>4, <1>6, <2>4 DEF NotFound, GoesOn, Functions
  <2>5. CASE job[c].op = "store" /\ job[c].retried
    <3>1. V!Ends(c, "error")
      BY <1>1, <1>5, <1>6, <2>5 DEF NotFound, Finish, Functions
    <3>2. V!Fails(c)
      BY <1>2, <2>3, <3>1 DEF V!Fails, Stage
    <3> QED BY <3>2, Answering DEF V!Answers
  <2>6. CASE job[c].op \in {"load", "exists", "delete"}
    <3>1. V!Ends(c, IF job[c].op = "delete" THEN "ok" ELSE "missing")
      BY <1>1, <1>5, <1>6, <2>6 DEF NotFound, Finish, Functions
    <3>2. V!FindsNothing(c)
      BY <1>2, <2>2, <2>3, <2>6, <3>1
      DEF V!FindsNothing, V!During, V!BoxOf, Stage, Box, JobFn
    <3> QED BY <3>2, Answering DEF V!Answers
  <2> QED BY <1>6, <2>4, <2>5, <2>6 DEF NotFound
<1>7. CASE GoesOn(c, "verify")
  BY <1>1, <1>4, <1>7 DEF GoesOn, Functions
<1> QED BY <1>6, <1>7 DEF Lookup

\* The box of a caller that has found a live item shows that item.
LEMMA SeesItsItem ==
  ASSUME VInv, NEW c \in Callers, Live(ref[c]),
         pc[c] \in {"verify", "store", "load", "delete"}
  PROVE  /\ Stage[c] = "called" /\ ref[c] \in Refs /\ JobFn[c] = JobOf(c)
         /\ JobFn[c].op = job[c].op /\ JobFn[c].key = job[c].key
         /\ job[c].key \in Keys /\ item[ref[c]] \in Items
         /\ item[ref[c]].key = job[c].key
         /\ Box[job[c].key] = [owner |-> item[ref[c]].owner,
                               value |-> item[ref[c]].value]
PROOF
<1>1. /\ ItemsOK /\ OnePerKey /\ CallerOK(c) /\ FoundItsKey(c)
  BY DEF VInv, KeysHold, IInv
<1>2. ref[c] \in Refs /\ item[ref[c]].key = job[c].key /\ job[c].key \in Keys
  BY <1>1 DEF CallerOK, FoundItsKey, Jobs
<1>3. BoxOfKey(job[c].key) = [owner |-> item[ref[c]].owner,
                              value |-> item[ref[c]].value]
  BY <1>1, <1>2, BoxShows
<1>4. StageOf(c) = "called"
  BY DEF StageOf
<1> QED BY <1>1, <1>2, <1>3, <1>4 DEF Box, Stage, JobFn, JobOf, ItemsOK

\* A verification goes on, reports an item of another process, or an own one.
LEMMA Verifying ==
  ASSUME VInv, NEW c \in Callers, Verify(c), CallerStep(c)
  PROVE  VaultStep
PROOF
<1>1. /\ Functions /\ ItemsOK /\ CallerOK(c)
      /\ \A d \in Callers \ {c} : SameCaller(d)
  BY OthersUnchanged DEF VInv, IInv, SameCaller
<1>2. /\ pc[c] = "verify" /\ item' = item /\ job' = job /\ got' = got
      /\ ref' = ref /\ Live(ref[c])
  BY DEF Verify
<1>3. /\ Stage[c] = "called" /\ ref[c] \in Refs
      /\ JobFn[c].op = job[c].op /\ JobFn[c].key = job[c].key
      /\ item[ref[c]] \in Items
      /\ Box[job[c].key] = [owner |-> item[ref[c]].owner,
                            value |-> item[ref[c]].value]
  BY <1>2, SeesItsItem
<1>4. job[c].op \in {"store", "load", "exists", "delete"}
  BY <1>1, <1>2 DEF CallerOK, Jobs, Operations
<1>5. ASSUME NEW o, Finish(c, o) PROVE V!Ends(c, o)
  BY <1>1, <1>2, <1>5, Returning DEF Finish, Functions
<1>6. CASE ~Own(ref[c]) /\ Finish(c, "conflict")
  <2>1. item[ref[c]].owner = "foreign" /\ item[ref[c]].value = Decoy
    BY <1>1, <1>3, <1>6 DEF Own, Items, ItemsOK
  <2>2. Box[JobFn[c].key] = V!Foreign
    BY <1>3, <2>1 DEF V!Foreign
  <2>3. V!Ends(c, "conflict")
    BY <1>5, <1>6
  <2>4. V!Conflicts(c)
    BY <1>2, <1>3, <1>4, <2>2, <2>3
    DEF V!Conflicts, V!During, V!BoxOf, Stage, Box, JobFn
  <2> QED BY <2>4, Answering DEF V!Answers
<1>7. CASE Own(ref[c]) /\ job[c].op = "exists" /\ Finish(c, "ok")
  <2>1. Box[JobFn[c].key].owner = "own"
    BY <1>3, <1>7 DEF Own
  <2>2. V!Ends(c, "ok")
    BY <1>5, <1>7
  <2>3. V!Exists(c)
    BY <1>2, <1>3, <1>7, <2>1, <2>2
    DEF V!Exists, V!During, V!BoxOf, Stage, Box, JobFn
  <2> QED BY <2>3, Answering DEF V!Answers
<1>8. CASE Own(ref[c]) /\ job[c].op # "exists" /\ GoesOn(c, job[c].op)
  <2>1. pc'[c] \in {"store", "load", "delete"} /\ result' = result
    BY <1>1, <1>4, <1>8 DEF GoesOn, Functions
  <2>2. /\ StageOf(c)' = "called" /\ MarkedOf(c)' = {} /\ JobOf(c)' = JobOf(c)
        /\ StageOf(c) = "called" /\ MarkedOf(c) = {}
    BY <1>2, <2>1 DEF StageOf, MarkedOf, JobOf, Live
  <2> QED BY <1>1, <1>2, <2>1, <2>2, GoingOn DEF VaultStep
<1> QED BY <1>6, <1>7, <1>8 DEF Verify

\* A load returns what the box holds, or that the item it verified has left.
LEMMA Loading ==
  ASSUME VInv, NEW c \in Callers, LoadData(c), CallerStep(c)
  PROVE  VaultStep
PROOF
<1>1. /\ Functions /\ ItemsOK /\ CallerOK(c)
      /\ \A d \in Callers \ {c} : SameCaller(d)
  BY OthersUnchanged DEF VInv, IInv, SameCaller
<1>2. pc[c] = "load" /\ item' = item /\ job' = job /\ job[c].op = "load"
  BY <1>1 DEF LoadData, CallerOK
<1>3. ASSUME NEW o, Finish(c, o) PROVE V!Ends(c, o)
  BY <1>1, <1>2, <1>3, Returning DEF Finish, Functions
<1>4. CASE Live(ref[c]) /\ Finish(c, "ok")
           /\ got' = [got EXCEPT ![c] = item[ref[c]].value]
  <2>1. /\ Stage[c] = "called" /\ JobFn[c].op = "load"
        /\ Box[JobFn[c].key] = [owner |-> item[ref[c]].owner,
                                value |-> item[ref[c]].value]
    BY <1>2, <1>4, SeesItsItem
  <2>2. Own(ref[c])
    BY <1>1, <1>2 DEF CallerOK
  <2>3. V!Ends(c, "ok")
    BY <1>3, <1>4
  <2>4. Box[JobFn[c].key].owner = "own"
        /\ Box[JobFn[c].key].value = item[ref[c]].value
    BY <2>1, <2>2 DEF Own
  <2>5. got' = [got EXCEPT ![c] = Box[JobFn[c].key].value]
    BY <1>4, <2>4
  <2>6. V!Loads(c)
    BY <2>1, <2>3, <2>4, <2>5
    DEF V!Loads, V!During, V!BoxOf, Stage, Box, JobFn
  <2> QED BY <2>6, Answering DEF V!Answers
<1>5. CASE ~Live(ref[c]) /\ Finish(c, "missing") /\ got' = got
  <2>1. Stage[c] = "lost" /\ JobFn[c].op = "load"
    BY <1>2, <1>5 DEF Stage, StageOf, JobFn, JobOf
  <2>2. V!Ends(c, "missing")
    BY <1>3, <1>5
  <2>3. V!FindsNothing(c)
    BY <1>5, <2>1, <2>2 DEF V!FindsNothing, V!During, Stage, JobFn
  <2> QED BY <2>3, Answering DEF V!Answers
<1> QED BY <1>4, <1>5 DEF LoadData

\* Lists, verifications of listed items, and any call that fails.
LEMMA Listing ==
  ASSUME VInv, NEW c \in Callers, List(c), CallerStep(c)
  PROVE  VaultStep
PROOF
<1>1. /\ Functions /\ ItemsOK /\ CallerOK(c)
      /\ \A d \in Callers \ {c} : SameCaller(d)
  BY OthersUnchanged DEF VInv, IInv, SameCaller
<1>2. /\ pc[c] = "list" /\ item' = item /\ job' = job /\ got' = got
      /\ job[c].op = "delete_all"
      /\ listed'[c] = UNION {Matches(k) : k \in Passwords}
  BY <1>1 DEF List, CallerOK, Functions
<1> DEFINE Full == {k \in Passwords : Box[k] # V!Nothing}
<1>3. \A k \in Passwords : k \in Keys
  BY KeychainAssumption
<1>4. \A k \in Passwords : Box[k] # V!Nothing <=> Matches(k) # {}
  BY <1>1, <1>3, BoxIsEmpty DEF Box
<1>5. StageOf(c) = "called" /\ MarkedOf(c) = {}
  BY <1>2 DEF StageOf, MarkedOf
<1>6. V!During(c, "called", {"delete_all"})
  BY <1>2, <1>5 DEF V!During, JobOf
<1>7. CASE listed'[c] = {} /\ Finish(c, "ok")
  <2>1. Full = {}
    BY <1>2, <1>4, <1>7
  <2>2. V!Ends(c, "ok")
    BY <1>1, <1>2, <1>7, Returning DEF Finish, Functions
  <2>3. V!MarksNothing(c)
    BY <1>2, <1>6, <2>1, <2>2 DEF V!MarksNothing, V!Full, Box
  <2> QED BY <2>3, Answering DEF V!Answers
<1>8. CASE listed'[c] # {} /\ GoesOn(c, "verify_all")
  <2>1. pc'[c] = "verify_all" /\ result' = result
    BY <1>1, <1>8 DEF GoesOn, Functions
  <2>2. \A k \in Passwords : \A r \in Matches(k) : Live(r) /\ item[r].key = k
    BY DEF Matches
  <2>3. MarkedOf(c)' = {item[r].key : r \in {q \in listed'[c] : Live(q)}}
    BY <1>2, <2>1 DEF MarkedOf, Live
  <2>4. MarkedOf(c)' = Full
    <3>1. \A k \in Full : \E r \in listed'[c] : Live(r) /\ item[r].key = k
      BY <1>2, <1>4, <2>2
    <3>2. \A r \in listed'[c] : Live(r) => item[r].key \in Full
      BY <1>2, <1>4, <2>2
    <3> HIDE DEF Full
    <3> QED BY <2>3, <3>1, <3>2
  <2>5. Full # {}
    BY <1>2, <1>4, <1>8
  <2>6. StageOf(c)' = "marked" /\ JobOf(c)' = JobOf(c)
    <3>1. \A r \in listed'[c] : Live(r)'
      BY <1>2, <2>2 DEF Live
    <3> QED BY <1>2, <2>1, <3>1 DEF StageOf, JobOf
  <2>7. Box' = Box /\ \A d \in Callers \ {c} :
          StageOf(d)' = StageOf(d) /\ MarkedOf(d)' = MarkedOf(d)
          /\ JobOf(d)' = JobOf(d)
    BY <1>1, <1>2, BoxesStay
  <2>8. /\ Stage' = [Stage EXCEPT ![c] = "marked"] /\ JobFn' = JobFn
        /\ Marked' = [Marked EXCEPT ![c] = Full]
    BY <2>4, <2>6, <2>7 DEF Stage, Marked, JobFn
  <2>9. V!Marks(c)
    BY <1>2, <1>6, <2>1, <2>5, <2>7, <2>8
    DEF V!Marks, V!Full, Box, Stage, Marked, JobFn
  <2> QED BY <2>9 DEF VaultStep, V!Next
<1> QED BY <1>7, <1>8 DEF List

LEMMA VerifyingListed ==
  ASSUME VInv, NEW c \in Callers, VerifyListed(c), CallerStep(c)
  PROVE  VaultStep
PROOF
<1>1. /\ Functions /\ ItemsOK /\ CallerOK(c) /\ OnePerKey
      /\ \A d \in Callers \ {c} : SameCaller(d)
  BY OthersUnchanged DEF VInv, KeysHold, IInv, SameCaller
<1>2. /\ pc[c] = "verify_all" /\ item' = item /\ job' = job /\ got' = got
      /\ listed' = listed
  BY DEF VerifyListed
<1>3. PICK r \in listed[c] : /\ Live(r)
                             /\ IF Own(r) THEN GoesOn(c, "verify_all")
                                ELSE Finish(c, "conflict")
  BY DEF VerifyListed
<1>4. CASE Own(r)
  <2>1. pc'[c] = "verify_all" /\ result' = result
    BY <1>1, <1>3, <1>4 DEF GoesOn, Functions
  <2>2. StageOf(c)' = StageOf(c) /\ MarkedOf(c)' = MarkedOf(c)
        /\ JobOf(c)' = JobOf(c)
    BY <1>2, <2>1 DEF StageOf, MarkedOf, JobOf, Live
  <2> QED BY <1>1, <1>2, <2>1, <2>2, GoingOn DEF VaultStep
<1>5. CASE ~Own(r)
  <2>1. r \in Refs /\ item[r] \in Items
    BY <1>1 DEF CallerOK, ItemsOK
  <2>2. item[r].owner = "foreign" /\ item[r].value = Decoy /\ item[r].key \in Keys
    BY <1>1, <1>5, <2>1 DEF Own, Items, ItemsOK
  <2>3. Box[item[r].key] = V!Foreign
    BY <1>1, <1>3, <2>1, <2>2, BoxShows DEF Box, V!Foreign
  <2>4. item[r].key \in Marked[c] /\ Stage[c] \in {"marked", "parted"}
    BY <1>2, <1>3 DEF Marked, MarkedOf, Stage, StageOf
  <2>5. V!Ends(c, "conflict")
    BY <1>1, <1>2, <1>3, <1>5, Returning DEF Finish, Functions
  <2>6. V!MarkedConflict(c)
    BY <1>2, <2>3, <2>4, <2>5 DEF V!MarkedConflict, Box, Marked, Stage
  <2> QED BY <2>6, Answering DEF V!Answers
<1> QED BY <1>4, <1>5

\* An update or an addition fills the box of its key with what is stored.
LEMMA Storing ==
  ASSUME VInv, NEW c \in Callers, UpdateItem(c) \/ AddItem(c), CallerStep(c)
  PROVE  VaultStep
PROOF
<1>1. /\ Functions /\ ItemsOK /\ CallerOK(c) /\ OnePerKey /\ FoundItsKey(c)
      /\ \A d \in Callers \ {c} : SameCaller(d)
      /\ \A d \in Callers : CallerOK(d)
  BY OthersUnchanged DEF VInv, KeysHold, IInv, SameCaller
<1>2. /\ pc[c] \in {"store", "add"} /\ job[c].op = "store" /\ got' = got
      /\ ref' = ref /\ listed' = listed
      /\ job[c].key \in Keys /\ job[c].value \in Secrets
  BY <1>1 DEF UpdateItem, AddItem, CallerOK, Jobs
<1>3. Stage[c] = "called" /\ JobFn[c].op = "store" /\ JobFn[c] = JobOf(c)
  BY <1>2 DEF Stage, StageOf, JobFn, JobOf
<1> DEFINE k == job[c].key
           w == V!Holding(job[c].value)
\* What is left to show once the item of the key holds the value.
<1>4. ASSUME NEW r \in Refs, Matches(k) \subseteq {r},
             item'[r] = [state |-> "live", key |-> k, owner |-> "own",
                         value |-> job[c].value],
             Live(r) => item[r].key = k,
             \A d \in Callers \ {c} :
               pc[d] \in {"load", "delete"} => (Live(ref[d])' <=> Live(ref[d])),
             \A d \in Callers \ {c} : \A q \in listed[d] :
               (Live(q)' <=> Live(q)) /\ (Live(q) => item'[q].key = item[q].key),
             \A q \in Refs \ {r} : item'[q] = item[q],
             Finish(c, "ok"), job' = job
      PROVE  VaultStep
  <2>1. /\ pc'[c] = "idle" /\ result' = [result EXCEPT ![c] = "ok"]
    BY <1>1, <1>4 DEF Finish, Functions
  <2>2. BoxOfKey(k)' = w
    <3>1. Matches(k)' = {r}
      BY <1>4 DEF Matches, Live
    <3> QED BY <1>4, <3>1 DEF BoxOfKey, V!Holding
  <2>3. ASSUME NEW l \in Keys, l # k PROVE BoxOfKey(l)' = BoxOfKey(l)
    <3>1. Matches(l)' = Matches(l) /\ r \notin Matches(l)
      BY <1>4, <2>3 DEF Matches, Live
    <3>2. \A q \in Matches(l) : item'[q] = item[q]
      BY <1>4, <3>1 DEF Matches
    <3> QED BY <3>1, <3>2 DEF BoxOfKey
  <2>4. ASSUME NEW d \in Callers \ {c}
        PROVE  StageOf(d)' = StageOf(d) /\ MarkedOf(d)' = MarkedOf(d)
    <3>1. pc'[d] = pc[d] /\ ref'[d] = ref[d] /\ listed'[d] = listed[d]
      BY <1>1 DEF SameCaller
    <3>2. StageOf(d)' = StageOf(d)
      BY <1>4, <3>1 DEF StageOf
    <3>3. CASE pc[d] = "verify_all"
      <4>1. MarkedOf(d)' = {item'[q].key : q \in {p \in listed[d] : Live(p)'}}
        BY <3>1, <3>3 DEF MarkedOf
      <4>2. MarkedOf(d) = {item[q].key : q \in {p \in listed[d] : Live(p)}}
        BY <3>3 DEF MarkedOf
      <4> QED BY <1>4, <3>2, <4>1, <4>2
    <3>4. CASE pc[d] # "verify_all"
      BY <3>1, <3>2, <3>4 DEF MarkedOf
    <3> QED BY <3>3, <3>4
  <2>5. StageOf(c)' = "idle" /\ MarkedOf(c)' = {} /\ MarkedOf(c) = {}
    BY <1>2, <2>1 DEF StageOf, MarkedOf
  <2>6. JobFn' = JobFn
    BY <1>4 DEF JobFn, JobOf
  <2>7. /\ Box' = [Box EXCEPT ![k] = w] /\ Marked' = Marked
        /\ Stage' = [Stage EXCEPT ![c] = "idle"]
    <3>1. job'[c].key = job[c].key
      BY <1>4
    <3>2. \A l \in Keys : BoxOfKey(l)' = IF l = k THEN w ELSE BoxOfKey(l)
      BY <2>2, <2>3, <3>1
    <3> HIDE DEF k, w
    <3> QED BY <2>4, <2>5, <3>2 DEF Box, Stage, Marked
  <2>8. Box[k] # V!Foreign
    <3>1. CASE Matches(k) = {}
      BY <1>1, <1>2, <3>1, BoxIsEmpty DEF Box, V!Foreign, V!Nothing
    <3>2. CASE Live(r) /\ Own(r)
      <4>1. BoxOfKey(k) = [owner |-> "own", value |-> item[r].value]
        BY <1>1, <1>4, <3>2, BoxShows DEF Own
      <4> QED BY <1>2, <4>1 DEF Box, V!Foreign
    <3>3. CASE Matches(k) # {} /\ ~(Live(r) /\ Own(r))
      <4>1. Live(r)
        BY <1>4, <3>3 DEF Matches
      <4>2. item[r].owner = "foreign" /\ item[r].state # "unused"
        BY <1>1, <3>3, <4>1 DEF Own, ItemsOK, Items, Live
      <4>3. ItemsStep
        BY StepsOfItems DEF VInv, Next
      <4> QED BY <1>1, <1>4, <4>2, <4>3, OwnerNeverChanges
    <3> QED BY <3>1, <3>2, <3>3
  <2>9. JobFn[c].key = k /\ JobFn[c].value = job[c].value
    BY <1>3 DEF JobOf
  <2> HIDE DEF k, w
  <2>10. V!Stores(c)
    BY <1>2, <1>3, <2>1, <2>6, <2>7, <2>8, <2>9
    DEF V!Stores, V!During, V!BoxOf, V!Return, Box, Stage, Marked, JobFn, w
  <2> QED BY <2>10, Answering DEF V!Answers
<1>5. CASE UpdateItem(c)
  <2>1. /\ pc[c] = "store" /\ job' = job /\ ref[c] \in Refs /\ Own(ref[c])
        /\ item[ref[c]].key = k /\ item[ref[c]] \in Items
    BY <1>1, <1>5 DEF UpdateItem, CallerOK, FoundItsKey, ItemsOK
  <2>2. CASE Live(ref[c]) /\ Finish(c, "ok")
             /\ item' = [item EXCEPT ![ref[c]].value = job[c].value]
    <3> DEFINE r == ref[c]
    <3>1. item'[r] = [item[r] EXCEPT !.value = job[c].value]
          /\ \A q \in Refs \ {r} : item'[q] = item[q]
      BY <1>1, <2>1, <2>2 DEF ItemsOK
    <3>2. item'[r] = [state |-> "live", key |-> k, owner |-> "own",
                      value |-> job[c].value]
      BY <2>1, <2>2, <3>1 DEF Items, Live, Own
    <3>3. Matches(k) \subseteq {r}
      BY <1>1, <2>1, <2>2 DEF Matches, OnePerKey
    <3>4. \A q \in Refs : (Live(q)' <=> Live(q)) /\ item'[q].key = item[q].key
      BY <2>1, <2>2, <3>1, <3>2 DEF Live
    <3>5. \A d \in Callers \ {c} :
            /\ pc[d] \in {"load", "delete"} =>
                 ref[d] \in Refs /\ ref'[d] = ref[d]
            /\ listed[d] \subseteq Refs
      BY <1>1, <1>2 DEF CallerOK
    <3> HIDE DEF r, k
    <3> QED BY <1>4, <2>1, <2>2, <3>1, <3>2, <3>3, <3>4, <3>5 DEF r
  <2>3. CASE item' = item /\ Finish(c, "error")
    <3>1. V!Ends(c, "error")
      BY <1>1, <1>2, <2>1, <2>3, Returning DEF Finish, Functions
    <3>2. V!Fails(c)
      BY <1>2, <1>3, <3>1 DEF V!Fails, Stage
    <3> QED BY <3>2, Answering DEF V!Answers
  <2> QED BY <1>5, <2>2, <2>3 DEF UpdateItem
<1>6. CASE AddItem(c)
  <2>1. CASE Matches(k) = {} /\ Finish(c, "ok") /\ job' = job
             /\ \E r \in Refs : Add(r, k, "own", job[c].value)
    <3>1. PICK r \in Refs : Add(r, k, "own", job[c].value)
      BY <2>1
    <3>2. /\ item[r].state = "unused"
          /\ item'[r] = [state |-> "live", key |-> k, owner |-> "own",
                         value |-> job[c].value]
          /\ \A q \in Refs \ {r} : item'[q] = item[q]
      BY <1>1, <3>1 DEF Add, ItemsOK
    <3>3. \A d \in Callers \ {c} :
            /\ pc[d] \in {"load", "delete"} =>
                 ref[d] \in Refs \ {r} /\ ref'[d] = ref[d]
            /\ listed[d] \subseteq Refs \ {r}
      BY <1>1, <1>2, <3>2, KeychainAssumption DEF CallerOK
    <3>4. \A q \in Refs \ {r} :
            (Live(q)' <=> Live(q)) /\ item'[q].key = item[q].key
      BY <3>2 DEF Live
    <3>5. ~Live(r)
      BY <3>2 DEF Live
    <3> HIDE DEF k
    <3> QED BY <1>4, <2>1, <3>2, <3>3, <3>4, <3>5
  <2>2. CASE GoesOn(c, "lookup") /\ job' = [job EXCEPT ![c].retried = TRUE]
             /\ item' = item
    <3>1. pc[c] = "add" /\ pc'[c] = "lookup" /\ result' = result
      BY <1>1, <1>6, <2>2 DEF AddItem, GoesOn, Functions
    <3>2. /\ job'[c].op = job[c].op /\ job'[c].key = job[c].key
          /\ job'[c].value = job[c].value
      BY <1>1, <2>2 DEF Functions, Jobs
    <3>3. StageOf(c)' = StageOf(c) /\ MarkedOf(c)' = MarkedOf(c)
          /\ JobOf(c)' = JobOf(c)
      BY <3>1, <3>2 DEF StageOf, MarkedOf, JobOf
    <3> QED BY <1>1, <1>2, <2>2, <3>1, <3>3, GoingOn DEF VaultStep
  <2> QED BY <1>6, <2>1, <2>2 DEF AddItem
<1> QED BY <1>5, <1>6

\* A delete empties the box of its key, or finds that its item has left.
LEMMA Deleting ==
  ASSUME VInv, NEW c \in Callers, DeleteItem(c), CallerStep(c)
  PROVE  VaultStep
PROOF
<1>1. /\ Functions /\ ItemsOK /\ CallerOK(c)
      /\ \A d \in Callers \ {c} : SameCaller(d)
  BY OthersUnchanged DEF VInv, IInv, SameCaller
<1>2. /\ pc[c] = "delete" /\ job' = job /\ got' = got /\ Removed({ref[c]})
      /\ job[c].op = "delete" /\ ref[c] \in Refs /\ Own(ref[c])
  BY <1>1 DEF DeleteItem, CallerOK
<1>3. pc'[c] = "idle" /\ result' = [result EXCEPT ![c] = "ok"]
  BY <1>1 DEF DeleteItem, Finish, Functions
<1>4. CASE Live(ref[c])
  <2>1. /\ Stage[c] = "called" /\ JobFn[c].op = "delete"
        /\ JobFn[c].key = item[ref[c]].key
        /\ Box[JobFn[c].key] = [owner |-> item[ref[c]].owner,
                                value |-> item[ref[c]].value]
    BY <1>2, <1>4, SeesItsItem
  <2> DEFINE S == {ref[c]}
             W == {item[r].key : r \in S}
  <2>2. /\ S \in SUBSET {r \in Refs : Live(r)}
        /\ \A r \in S : item'[r].state # "live"
        /\ \A r \in Refs \ S : item'[r] = item[r]
    BY <1>1, <1>2, <1>4 DEF Removed, ItemsOK, Items
  <2>3. Callers \ {c} \in SUBSET Callers
        /\ \A d \in Callers \ (Callers \ {c}) : pc'[d] = "idle"
    BY <1>3
  <2>4. W = {JobFn[c].key}
    BY <2>1
  <2> HIDE DEF S
  <2>5. V!Emptied(W, Callers \ {c})
    BY <1>1, <2>2, <2>3, Leaving
  <2> HIDE DEF W
  <2>6. Box[JobFn[c].key].owner = "own"
    BY <1>2, <2>1 DEF Own
  <2>7. V!Return(c, "ok")
    BY <1>2, <1>3 DEF V!Return, JobOf
  <2>8. V!Deletes(c)
    BY <1>2, <2>1, <2>4, <2>5, <2>6, <2>7
    DEF V!Deletes, V!During, V!BoxOf, Stage, Box, JobFn
  <2> QED BY <2>8, Answering DEF V!Answers
<1>5. CASE ~Live(ref[c])
  <2>1. item' = item
    BY <1>1, <1>2, <1>5 DEF Removed, ItemsOK
  <2>2. Stage[c] = "lost" /\ JobFn[c].op = "delete"
    BY <1>2, <1>5 DEF Stage, StageOf, JobFn, JobOf
  <2>3. V!Ends(c, "ok")
    BY <1>1, <1>2, <1>3, <2>1, Returning
  <2>4. V!FindsNothing(c)
    BY <1>2, <2>2, <2>3 DEF V!FindsNothing, V!During, Stage, JobFn
  <2> QED BY <2>4, Answering DEF V!Answers
<1> QED BY <1>4, <1>5

\* The removal of all passwords empties the boxes it had marked; when it fails,
\* or finds that one of them was emptied meanwhile, some of them.
LEMMA DeletingListed ==
  ASSUME VInv, NEW c \in Callers,
         DeleteListed(c) \/ DeleteListedStops(c) \/ DeleteListedFails(c),
         CallerStep(c)
  PROVE  VaultStep
PROOF
<1>1. /\ Functions /\ ItemsOK /\ CallerOK(c) /\ OnePerKey
      /\ \A d \in Callers \ {c} : SameCaller(d)
  BY OthersUnchanged DEF VInv, KeysHold, IInv, SameCaller
<1>2. /\ pc[c] = "verify_all" /\ job' = job /\ got' = got
      /\ checked[c] = listed[c] /\ pc'[c] = "idle"
      /\ \A r \in listed[c] : r \in Refs /\ Own(r)
  BY <1>1 DEF DeleteListed, DeleteListedStops, DeleteListedFails, Finish,
              Functions, CallerOK
<1>3. Stage[c] \in {"marked", "parted"}
      /\ Marked[c] = {item[r].key : r \in {q \in listed[c] : Live(q)}}
  BY <1>2 DEF Stage, StageOf, Marked, MarkedOf
<1>4. ASSUME NEW k \in Marked[c] PROVE Box[k].owner = "own"
  <2>1. PICK r \in listed[c] : Live(r) /\ item[r].key = k
    BY <1>3
  <2>2. r \in Refs /\ item[r].owner = "own" /\ item[r] \in Items
    BY <1>1, <1>2, <2>1 DEF Own, ItemsOK
  <2>3. BoxOfKey(k) = [owner |-> item[r].owner, value |-> item[r].value]
    BY <1>1, <2>1, <2>2, BoxShows
  <2> QED BY <2>1, <2>2, <2>3 DEF Box, Items
<1>5. ASSUME NEW T \in SUBSET listed[c], Removed(T)
      PROVE  V!Emptied({item[r].key : r \in {q \in T : Live(q)}}, Callers \ {c})
  <2> DEFINE S == {q \in T : Live(q)}
  <2>1. /\ S \in SUBSET {r \in Refs : Live(r)}
        /\ \A r \in S : item'[r].state # "live"
        /\ \A r \in Refs \ S : item'[r] = item[r]
    BY <1>1, <1>2, <1>5 DEF Removed, ItemsOK, Items
  <2>2. Callers \ {c} \in SUBSET Callers
        /\ \A d \in Callers \ (Callers \ {c}) : pc'[d] = "idle"
    BY <1>2
  <2> HIDE DEF S
  <2>3. V!Emptied({item[r].key : r \in S}, Callers \ {c})
    BY <1>1, <2>1, <2>2, Leaving
  <2> QED BY <2>3 DEF S
<1>6. ASSUME NEW o, result' = [result EXCEPT ![c] = o] PROVE V!Return(c, o)
  BY <1>2, <1>6 DEF V!Return, JobOf
<1>7. CASE DeleteListed(c)
  <2>1. Removed(listed[c]) /\ result' = [result EXCEPT ![c] = "ok"]
    BY <1>7 DEF DeleteListed, Finish
  <2>2. V!Emptied(Marked[c], Callers \ {c})
    BY <1>3, <1>5, <2>1
  <2>3. V!DeletesMarked(c)
    BY <1>2, <1>3, <1>4, <1>6, <2>1, <2>2
    DEF V!DeletesMarked, Stage, Marked, Box
  <2> QED BY <2>3, Answering DEF V!Answers
<1>8. CASE DeleteListedStops(c) \/ DeleteListedFails(c)
  <2>1. PICK T \in SUBSET listed[c] : Removed(T)
    BY <1>8 DEF DeleteListedStops, DeleteListedFails
  <2> DEFINE K == {item[r].key : r \in {q \in T : Live(q)}}
  <2>2. V!Emptied(K, Callers \ {c})
    BY <1>5, <2>1
  <2>3. K \in SUBSET Marked[c]
    BY <1>3, <2>1
  <2>4. V!Return(c, "error") \/ (Stage[c] = "parted" /\ V!Return(c, "ok"))
    <3>1. CASE DeleteListedStops(c)
      BY <1>2, <1>6, <3>1 DEF DeleteListedStops, Finish, Stage, StageOf
    <3>2. CASE DeleteListedFails(c)
      BY <1>6, <3>2 DEF DeleteListedFails, Finish
    <3> QED BY <1>8, <3>1, <3>2
  <2> HIDE DEF K
  <2>5. V!DeletesMarked(c)
    BY <1>2, <1>3, <1>4, <2>2, <2>3, <2>4
    DEF V!DeletesMarked, Stage, Marked, Box
  <2> QED BY <2>5, Answering DEF V!Answers
<1> QED BY <1>7, <1>8

\* A call that fails changes nothing.
LEMMA Failing ==
  ASSUME VInv, NEW c \in Callers, ApiFails(c), CallerStep(c)
  PROVE  VaultStep
PROOF
<1>1. Functions /\ \A d \in Callers \ {c} : SameCaller(d)
  BY OthersUnchanged DEF VInv, IInv, SameCaller
<1>2. V!Ends(c, "error")
  BY <1>1, Returning DEF ApiFails, Finish, Functions
<1>3. Stage[c] # "idle" /\ got' = got
  BY DEF ApiFails, Stage, StageOf
<1>4. V!Fails(c)
  BY <1>2, <1>3 DEF V!Fails, Stage
<1> QED BY <1>4, Answering DEF V!Answers

\* Other processes empty boxes and fill empty ones.
LEMMA OthersActing ==
  ASSUME VInv, NEW r \in Refs,
         ForeignDelete(r) \/ \E k \in Keys : ForeignAdd(r, k)
  PROVE  VaultStep
PROOF
<1>1. Functions /\ ItemsOK /\ OnePerKey /\ \A d \in Callers : CallerOK(d)
  BY DEF VInv, KeysHold, IInv
<1>2. /\ pc' = pc /\ job' = job /\ ref' = ref /\ listed' = listed
      /\ result' = result /\ got' = got
  BY DEF ForeignDelete, ForeignAdd
<1>3. \A d \in Callers : SameCaller(d)
  BY <1>2 DEF SameCaller
<1>4. JobFn' = JobFn
  BY <1>2 DEF JobFn, JobOf
<1>5. CASE ForeignDelete(r)
  <2>1. Live(r) /\ item[r] \in Items
    BY <1>1, <1>5 DEF ForeignDelete, ItemsOK
  <2> DEFINE S == {r}
             W == {item[q].key : q \in S}
  <2>2. /\ S \in SUBSET {q \in Refs : Live(q)}
        /\ \A q \in S : item'[q].state # "live"
        /\ \A q \in Refs \ S : item'[q] = item[q]
    BY <1>1, <1>5, <2>1 DEF ForeignDelete, ItemsOK, Items
  <2>3. W = {item[r].key}
    OBVIOUS
  <2> HIDE DEF S
  <2>4. V!Emptied(W, Callers)
    BY <1>3, <2>2, Leaving
  <2> HIDE DEF W
  <2>5. item[r].key \in Keys /\ Box[item[r].key] # V!Nothing
    <3>1. item[r].key \in Keys /\ r \in Matches(item[r].key)
      BY <2>1 DEF Matches, Items
    <3> QED BY <1>1, <3>1, BoxIsEmpty DEF Box
  <2>6. V!OthersEmpty(item[r].key)
    BY <1>2, <1>4, <2>3, <2>4, <2>5 DEF V!OthersEmpty, Box, JobFn
  <2> QED BY <2>5, <2>6 DEF VaultStep, V!Next
<1>6. ASSUME NEW k \in Keys, ForeignAdd(r, k) PROVE VaultStep
  <2>1. /\ item[r].state = "unused" /\ Matches(k) = {}
        /\ item'[r] = [state |-> "live", key |-> k, owner |-> "foreign",
                       value |-> Decoy]
        /\ \A q \in Refs \ {r} : item'[q] = item[q]
    BY <1>1, <1>6 DEF ForeignAdd, Add, ItemsOK
  <2>2. BoxOfKey(k)' = V!Foreign
    <3>1. Matches(k)' = {r}
      BY <2>1 DEF Matches, Live
    <3> QED BY <2>1, <3>1 DEF BoxOfKey, V!Foreign
  <2>3. ASSUME NEW l \in Keys, l # k PROVE BoxOfKey(l)' = BoxOfKey(l)
    <3>1. Matches(l)' = Matches(l) /\ r \notin Matches(l)
      BY <2>1, <2>3 DEF Matches, Live
    <3>2. \A q \in Matches(l) : item'[q] = item[q]
      BY <2>1, <3>1 DEF Matches
    <3> QED BY <3>1, <3>2 DEF BoxOfKey
  <2>4. ASSUME NEW d \in Callers
        PROVE  StageOf(d)' = StageOf(d) /\ MarkedOf(d)' = MarkedOf(d)
    <3>1. pc[d] \in {"load", "delete"} => ref[d] \in Refs \ {r}
      BY <1>1, <2>1, KeychainAssumption DEF CallerOK
    <3>2. listed[d] \subseteq Refs \ {r}
      BY <1>1, <2>1 DEF CallerOK
    <3>3. \A q \in Refs \ {r} : Live(q)' <=> Live(q)
      BY <2>1 DEF Live
    <3>4. StageOf(d)' = StageOf(d)
      BY <1>2, <3>1, <3>2, <3>3 DEF StageOf
    <3>5. {p \in listed[d] : Live(p)'} = {p \in listed[d] : Live(p)}
      BY <3>2, <3>3
    <3>6. \A q \in listed[d] : item'[q].key = item[q].key
      BY <2>1, <3>2
    <3>7. {item'[q].key : q \in {p \in listed[d] : Live(p)'}}
            = {item[q].key : q \in {p \in listed[d] : Live(p)}}
      BY <3>5, <3>6
    <3> QED BY <1>2, <3>4, <3>7 DEF MarkedOf
  <2>5. Box[k] = V!Nothing
    BY <1>1, <2>1, BoxIsEmpty DEF Box
  <2>6. Box' = [Box EXCEPT ![k] = V!Foreign] /\ Stage' = Stage /\ Marked' = Marked
    BY <2>2, <2>3, <2>4 DEF Box, Stage, Marked
  <2>7. V!OthersFill(k)
    BY <1>2, <1>4, <2>5, <2>6
    DEF V!OthersFill, Box, Stage, Marked, JobFn
  <2> QED BY <2>7 DEF VaultStep, V!Next
<1> QED BY <1>5, <1>6

\* Every step of the Keychain operations is one of the vault, or shows nothing.
LEMMA VaultSteps == VInv /\ [Next]_vars => VaultStep
PROOF
<1> SUFFICES ASSUME VInv, [Next]_vars PROVE VaultStep
  OBVIOUS
<1>1. ASSUME NEW c \in Callers, CallerStep(c) PROVE VaultStep
  BY <1>1, Calling, Failing, LookingUp, Verifying, Storing, Loading, Deleting,
     Listing, VerifyingListed, DeletingListed
  DEF CallerStep
<1>2. CASE UNCHANGED vars
  <2>1. item' = item /\ result' = result /\ got' = got
        /\ \A d \in Callers : SameCaller(d)
    BY <1>2 DEF vars, SameCaller
  <2>2. Box' = Box /\ \A d \in Callers :
          StageOf(d)' = StageOf(d) /\ MarkedOf(d)' = MarkedOf(d)
          /\ JobOf(d)' = JobOf(d)
    BY <2>1, BoxesStay
  <2>3. Stage' = Stage /\ Marked' = Marked /\ JobFn' = JobFn
    BY <2>2 DEF Stage, Marked, JobFn
  <2> QED
    BY <2>1, <2>2, <2>3 DEF VaultStep, V!vars, Box, Stage, Marked, JobFn
<1> QED BY <1>1, <1>2, OthersActing DEF Next

\* Keychain implements Vault for any callers, keys and other processes: each
\* operation on one key is atomic although it takes several calls.
THEOREM OperationsAreAtomic == Spec => ImplementsVault
PROOF
<1>1. Init => V!Init
  <2> SUFFICES ASSUME Init PROVE V!Init
    OBVIOUS
  <2>1. SomeKey \in Keys /\ SomeSecret \in Secrets
    BY KeychainAssumption DEF SomeKey, SomeSecret
  <2>2. ASSUME NEW k \in Keys PROVE BoxOfKey(k) = V!Nothing
    BY DEF Init, NewItem, BoxOfKey, Matches, Live, V!Nothing
  <2>3. ASSUME NEW c \in Callers
        PROVE  StageOf(c) = "idle" /\ MarkedOf(c) = {} /\ JobOf(c) \in V!Jobs
    BY <2>1 DEF Init, StageOf, MarkedOf, JobOf, V!Jobs
  <2> QED BY <2>2, <2>3 DEF Init, V!Init
<1>2. VInv /\ [Next]_vars => [V!Next]_(V!vars)
  BY VaultSteps DEF VaultStep
<1> QED BY <1>1, <1>2, VaultInvariant, PTL DEF Spec, ImplementsVault, V!Spec
=============================================================================
