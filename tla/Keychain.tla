------------------------------ MODULE Keychain ------------------------------
(***************************************************************************)
(* The Keychain operations of internal/darwinbridge/bridge_darwin.c, over  *)
(* a Keychain that other processes of the user change at the same time.    *)
(*                                                                         *)
(* Every call finds an item, proves that its access list is the one of the *)
(* running executable, and acts on that item alone, by reference.  Each    *)
(* call of the Keychain API is one step; other processes act in between.   *)
(*                                                                         *)
(* A key is a (service, account) pair.  An item is "own" when              *)
(* og_item_has_caller_only_access accepts its access list, and "foreign"   *)
(* otherwise.  References are never used twice.                            *)
(***************************************************************************)
EXTENDS Naturals, FiniteSets

CONSTANTS
  Keys,        \* (service, account) pairs
  Passwords,   \* those of the password service
  Refs,        \* item references
  Secrets,     \* what the application stores
  Decoy,       \* what other processes store
  Callers,     \* threads of the application
  Allowed,     \* the operations each caller performs
  NoRef        \* no item

Operations == {"store", "load", "exists", "delete", "delete_all"}

ASSUME KeychainAssumption ==
  /\ Passwords \subseteq Keys
  /\ Decoy \notin Secrets
  /\ Allowed \in [Callers -> SUBSET Operations]
  /\ NoRef \notin Refs
  /\ Secrets # {} /\ Keys # {}


VARIABLES
  item,     \* of each reference: its state, key, owner and value
  pc,       \* the next Keychain call of each caller
  job,      \* its operation, key and value, and whether adding has failed
  ref,      \* the item it has found
  listed,   \* the items og_keychain_delete_all has listed
  checked,  \* those whose access list it has verified
  result,   \* what the operation returned
  got       \* what og_keychain_load returned, Decoy before

vars == <<item, pc, job, ref, listed, checked, result, got>>

SomeKey == CHOOSE k \in Keys : TRUE
SomeSecret == CHOOSE v \in Secrets : TRUE
NewItem == [state |-> "unused", key |-> SomeKey, owner |-> "foreign",
            value |-> Decoy]

Init ==
  /\ item = [r \in Refs |-> NewItem]
  /\ pc = [c \in Callers |-> "idle"]
  /\ job = [c \in Callers |-> [op |-> "exists", key |-> SomeKey,
                               value |-> SomeSecret, retried |-> FALSE]]
  /\ ref = [c \in Callers |-> NoRef]
  /\ listed = [c \in Callers |-> {}]
  /\ checked = [c \in Callers |-> {}]
  /\ result = [c \in Callers |-> "none"]
  /\ got = [c \in Callers |-> Decoy]

Live(r) == item[r].state = "live"
Own(r) == item[r].owner = "own"
Matches(k) == {r \in Refs : Live(r) /\ item[r].key = k}

\* SecItemAdd: one item per key, under a reference that was never used.
Add(r, k, who, v) ==
  /\ item[r].state = "unused" /\ Matches(k) = {}
  /\ item' = [item EXCEPT ![r] =
       [state |-> "live", key |-> k, owner |-> who, value |-> v]]

-----------------------------------------------------------------------------
(* The calls of the application *)

Finish(c, outcome) ==
  /\ pc' = [pc EXCEPT ![c] = "idle"]
  /\ result' = [result EXCEPT ![c] = outcome]

GoesOn(c, to) ==
  /\ pc' = [pc EXCEPT ![c] = to]
  /\ UNCHANGED result

\* An operation is called.
Call(c, o, k, v) ==
  /\ pc[c] = "idle" /\ o \in Allowed[c]
  /\ o = "delete_all" => k = SomeKey
  /\ o # "store" => v = SomeSecret
  /\ pc' = [pc EXCEPT ![c] = IF o = "delete_all" THEN "list" ELSE "lookup"]
  /\ job' = [job EXCEPT ![c] = [op |-> o, key |-> k, value |-> v,
                                retried |-> FALSE]]
  /\ ref' = [ref EXCEPT ![c] = NoRef]
  /\ listed' = [listed EXCEPT ![c] = {}]
  /\ checked' = [checked EXCEPT ![c] = {}]
  /\ result' = [result EXCEPT ![c] = "none"]
  /\ got' = [got EXCEPT ![c] = Decoy]
  /\ UNCHANGED item

\* Any call of the Keychain API may fail, and the operation with it.
ApiFails(c) ==
  /\ pc[c] # "idle"
  /\ Finish(c, "error")
  /\ UNCHANGED <<item, job, ref, listed, checked, got>>

\* errSecItemNotFound: a store adds the item, unless it has tried already.
NotFound(c) ==
  \/ job[c].op = "store" /\ ~job[c].retried /\ GoesOn(c, "add")
  \/ job[c].op = "store" /\ job[c].retried /\ Finish(c, "error")
  \/ job[c].op = "delete" /\ Finish(c, "ok")
  \/ job[c].op \in {"load", "exists"} /\ Finish(c, "missing")

\* Mutant: errSecItemNotFound is not told apart from an item.
LookupUnchecked(c) ==
  /\ pc[c] = "lookup"
  /\ GoesOn(c, "verify")
  /\ IF Matches(job[c].key) = {} THEN UNCHANGED ref
     ELSE \E r \in Matches(job[c].key) : ref' = [ref EXCEPT ![c] = r]
  /\ UNCHANGED <<item, job, listed, checked, got>>

\* SecItemCopyMatching: the item of the key, if there is one.
Lookup(c) ==
  /\ pc[c] = "lookup"
  /\ \/ /\ GoesOn(c, "verify")
        /\ \E r \in Matches(job[c].key) : ref' = [ref EXCEPT ![c] = r]
     \/ /\ Matches(job[c].key) = {}
        /\ NotFound(c)
        /\ UNCHANGED ref
  /\ UNCHANGED <<item, job, listed, checked, got>>

\* og_item_has_caller_only_access, on the item found.
Verify(c) ==
  /\ pc[c] = "verify"
  /\ Live(ref[c])
  /\ IF ~Own(ref[c]) THEN Finish(c, "conflict")
     ELSE IF job[c].op = "exists" THEN Finish(c, "ok")
     ELSE GoesOn(c, job[c].op)
  /\ UNCHANGED <<item, job, ref, listed, checked, got>>

\* Mutant of the update: the item is deleted, to be added again.
UpdateItemAnew(c) ==
  /\ pc[c] = "store"
  /\ item' = [item EXCEPT ![ref[c]].state = "removed"]
  /\ GoesOn(c, "add")
  /\ UNCHANGED <<job, ref, listed, checked, got>>

\* SecItemUpdate of the verified item.
UpdateItem(c) ==
  /\ pc[c] = "store"
  /\ IF Live(ref[c])
     THEN /\ item' = [item EXCEPT ![ref[c]].value = job[c].value]
          /\ Finish(c, "ok")
     ELSE UNCHANGED item /\ Finish(c, "error")
  /\ UNCHANGED <<job, ref, listed, checked, got>>

\* SecItemAdd with a fresh access list; a duplicate is updated instead, once.
AddItem(c) ==
  /\ pc[c] = "add"
  /\ IF Matches(job[c].key) = {}
     THEN /\ \E r \in Refs : Add(r, job[c].key, "own", job[c].value)
          /\ Finish(c, "ok")
          /\ UNCHANGED job
     ELSE /\ GoesOn(c, "lookup")
          /\ job' = [job EXCEPT ![c].retried = TRUE]
          /\ UNCHANGED item
  /\ UNCHANGED <<ref, listed, checked, got>>

\* Mutant: the data is read by the query instead of from the verified item.
LoadDataByKey(c) ==
  /\ pc[c] = "load"
  /\ IF Matches(job[c].key) # {}
     THEN /\ \E r \in Matches(job[c].key) :
               got' = [got EXCEPT ![c] = item[r].value]
          /\ Finish(c, "ok")
     ELSE UNCHANGED got /\ Finish(c, "missing")
  /\ UNCHANGED <<item, job, ref, listed, checked>>

\* og_keychain_copy_verified_item_data.
LoadData(c) ==
  /\ pc[c] = "load"
  /\ IF Live(ref[c])
     THEN /\ got' = [got EXCEPT ![c] = item[ref[c]].value]
          /\ Finish(c, "ok")
     ELSE UNCHANGED got /\ Finish(c, "missing")
  /\ UNCHANGED <<item, job, ref, listed, checked>>

Removed(S) ==
  item' = [r \in Refs |-> IF r \in S /\ Live(r)
                          THEN [item[r] EXCEPT !.state = "removed"]
                          ELSE item[r]]

\* Mutant: the query of the service and account is deleted.
DeleteItemByKey(c) ==
  /\ pc[c] = "delete"
  /\ Removed(Matches(job[c].key))
  /\ Finish(c, "ok")
  /\ UNCHANGED <<job, ref, listed, checked, got>>

\* og_keychain_delete_verified_item: SecItemDelete of that item.
DeleteItem(c) ==
  /\ pc[c] = "delete"
  /\ Removed({ref[c]})
  /\ Finish(c, "ok")
  /\ UNCHANGED <<job, ref, listed, checked, got>>

-----------------------------------------------------------------------------
(* og_keychain_delete_all *)

\* Mutant: only the items of one account are listed.
ListOneAccount(c) ==
  /\ pc[c] = "list"
  /\ listed' = [listed EXCEPT ![c] = Matches(SomeKey)]
  /\ IF listed'[c] = {} THEN Finish(c, "ok") ELSE GoesOn(c, "verify_all")
  /\ UNCHANGED <<item, job, ref, checked, got>>

\* All the items of the password service, whatever their account.
List(c) ==
  /\ pc[c] = "list"
  /\ listed' = [listed EXCEPT ![c] = UNION {Matches(k) : k \in Passwords}]
  /\ IF listed'[c] = {} THEN Finish(c, "ok") ELSE GoesOn(c, "verify_all")
  /\ UNCHANGED <<item, job, ref, checked, got>>

\* Mutant: each item is deleted as soon as it is verified.
VerifyListedDeleting(c) ==
  /\ pc[c] = "verify_all"
  /\ \E r \in listed[c] \ checked[c] :
       /\ Live(r)
       /\ IF Own(r) THEN GoesOn(c, "verify_all") /\ Removed({r})
                    ELSE Finish(c, "conflict") /\ UNCHANGED item
       /\ checked' = [checked EXCEPT ![c] = @ \cup {r}]
  /\ UNCHANGED <<job, ref, listed, got>>

\* Each listed item must be own; the first that is not ends the operation.
VerifyListed(c) ==
  /\ pc[c] = "verify_all"
  /\ \E r \in listed[c] \ checked[c] :
       /\ Live(r)
       /\ IF Own(r) THEN GoesOn(c, "verify_all") ELSE Finish(c, "conflict")
       /\ checked' = [checked EXCEPT ![c] = @ \cup {r}]
  /\ UNCHANGED <<item, job, ref, listed, got>>

DeleteListed(c) ==
  /\ pc[c] = "verify_all" /\ checked[c] = listed[c]
  /\ Removed(listed[c])
  /\ Finish(c, "ok")
  /\ UNCHANGED <<job, ref, listed, checked, got>>

\* SecItemDelete meets an item that is not there any more, after any number of the
\* others: errSecItemNotFound counts as a success.
DeleteListedStops(c) ==
  /\ pc[c] = "verify_all" /\ checked[c] = listed[c]
  /\ \E r \in listed[c] : ~Live(r)
  /\ \E S \in SUBSET listed[c] : Removed(S)
  /\ Finish(c, "ok")
  /\ UNCHANGED <<job, ref, listed, checked, got>>

\* SecItemDelete fails after some of the items.
DeleteListedFails(c) ==
  /\ pc[c] = "verify_all" /\ checked[c] = listed[c]
  /\ \E S \in SUBSET listed[c] : S # listed[c] /\ Removed(S)
  /\ Finish(c, "error")
  /\ UNCHANGED <<job, ref, listed, checked, got>>

-----------------------------------------------------------------------------
(* Other processes of the user *)

\* An item with an access list of its own.
ForeignAdd(r, k) ==
  /\ Add(r, k, "foreign", Decoy)
  /\ UNCHANGED <<pc, job, ref, listed, checked, result, got>>

\* Anyone may delete an item of a file-based Keychain.
ForeignDelete(r) ==
  /\ Live(r)
  /\ item' = [item EXCEPT ![r].state = "gone"]
  /\ UNCHANGED <<pc, job, ref, listed, checked, result, got>>

CallerStep(c) ==
  \/ \E o \in Operations, k \in Keys, v \in Secrets : Call(c, o, k, v)
  \/ ApiFails(c) \/ Lookup(c) \/ Verify(c) \/ UpdateItem(c) \/ AddItem(c)
  \/ LoadData(c) \/ DeleteItem(c)
  \/ List(c) \/ VerifyListed(c)
  \/ DeleteListed(c) \/ DeleteListedStops(c) \/ DeleteListedFails(c)

Next ==
  \/ \E c \in Callers : CallerStep(c)
  \/ \E r \in Refs : ForeignDelete(r) \/ \E k \in Keys : ForeignAdd(r, k)

Spec == Init /\ [][Next]_vars

-----------------------------------------------------------------------------
(* Properties *)

Jobs == [op : Operations, key : Keys, value : Secrets, retried : BOOLEAN]
Items == [state : {"unused", "live", "gone", "removed"}, key : Keys,
          owner : {"own", "foreign"}, value : Secrets \cup {Decoy}]

\* Every variable has its type; a call that verifies or acts has found an item,
\* and every item was used before it was found.
TypeOK ==
  /\ item \in [Refs -> Items]
  /\ pc \in [Callers -> {"idle", "lookup", "verify", "store", "load", "delete",
                         "add", "list", "verify_all"}]
  /\ job \in [Callers -> Jobs]
  /\ ref \in [Callers -> Refs \cup {NoRef}]
  /\ listed \in [Callers -> SUBSET Refs]
  /\ checked \in [Callers -> SUBSET Refs]
  /\ result \in [Callers -> {"none", "ok", "missing", "conflict", "error"}]
  /\ got \in [Callers -> Secrets \cup {Decoy}]
  /\ \A c \in Callers :
       /\ pc[c] \in {"verify", "store", "load", "delete"} => ref[c] \in Refs
       /\ checked[c] \subseteq listed[c]

\* bridge_darwin.c:957: a delete-and-recreate race does not redirect password
\* bytes to another record: no item of another process ever holds a secret.
SecretsStayOwn ==
  \A r \in Refs : item[r].owner = "foreign" => item[r].value = Decoy

\* og_keychain_load returns what an own item held, never the bytes of an item
\* that another process put in the place of the one it verified.
LoadsOnlySecrets ==
  \A c \in Callers :
    pc[c] = "idle" /\ job[c].op = "load" /\ result[c] = "ok"
      => got[c] \in Secrets

\* No call of the application changes or deletes an item of another process.
ForeignItemsUntouched ==
  [][\A r \in Refs : Live(r) /\ ~Own(r) =>
       item'[r] \in {item[r], [item[r] EXCEPT !.state = "gone"]}]_vars

\* SECURITY_DESIGN.md:68: storing over an item updates it, and a failed update
\* leaves the previous secret: no step of a store removes an item.
StoreRemovesNothing ==
  [][\A c \in Callers : job[c].op = "store" /\ pc'[c] # pc[c] =>
       \A r \in Refs : Live(r) => item'[r].state = "live"]_vars

\* SECURITY_DESIGN.md:75: an ambiguous item fails the removal of all passwords
\* before any verified item is deleted.
ConflictDeletesNothing ==
  \A c \in Callers :
    pc[c] = "idle" /\ job[c].op = "delete_all" /\ result[c] = "conflict"
      => \A r \in listed[c] : item[r].state # "removed"

\* With one caller that stores, no own password is left when the removal of all
\* passwords returns successfully, under whatever account it was saved.  The one
\* exception: another process has removed a listed item before the deletion, which
\* may then stop there and count as done (bridge_darwin.c:1265).
RemovalIsComplete ==
  [][\A c \in Callers :
       /\ pc[c] \in {"list", "verify_all"} /\ pc'[c] = "idle" /\ result'[c] = "ok"
       /\ \A r \in listed[c] : Live(r)
       => \A r \in Refs :
            item'[r].key \in Passwords /\ item'[r].state = "live"
              => item'[r].owner = "foreign"]_vars

-----------------------------------------------------------------------------
(* What the operations promise together *)

\* The box of a key, as its live item shows it.
BoxOfKey(k) ==
  IF Matches(k) = {} THEN [owner |-> "nobody", value |-> Decoy]
  ELSE LET r == CHOOSE r \in Matches(k) : TRUE
       IN  [owner |-> item[r].owner, value |-> item[r].value]

\* An operation whose verified item has left can only find nothing.
StageOf(c) ==
  IF pc[c] = "idle" THEN "idle"
  ELSE IF pc[c] = "verify_all"
  THEN IF \A r \in listed[c] : Live(r) THEN "marked" ELSE "parted"
  ELSE IF pc[c] \in {"load", "delete"} /\ ~Live(ref[c]) THEN "lost"
  ELSE "called"

MarkedOf(c) ==
  IF pc[c] = "verify_all" THEN {item[r].key : r \in {q \in listed[c] : Live(q)}}
  ELSE {}

JobOf(c) == [op |-> job[c].op, key |-> job[c].key, value |-> job[c].value]

V == INSTANCE Vault WITH
  box <- [k \in Keys |-> BoxOfKey(k)],
  stage <- [c \in Callers |-> StageOf(c)],
  job <- [c \in Callers |-> JobOf(c)],
  marked <- [c \in Callers |-> MarkedOf(c)]

\* bridge_darwin.c:957 and the loops that retry beside it: whatever the other
\* callers and processes do between its calls of the Keychain, an operation on
\* one key takes effect at one moment, or fails and leaves the secrets alone.
ImplementsVault == V!Spec
=============================================================================
