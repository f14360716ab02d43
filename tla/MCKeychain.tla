----------------------------- MODULE MCKeychain -----------------------------
(* The instances of Keychain that TLC checks. *)
EXTENDS Keychain, TLC

CONSTANTS app, watcher, k1, k2, r1, r2, r3, s1

TwoAccounts == {k1, k2}
ThreeRefs == {r1, r2, r3}
OneSecret == {s1}
BothCallers == {app, watcher}

\* The lifecycle permits let one operation at a time change the passwords; the
\* watcher loads them meanwhile.
Roles == [c \in BothCallers |->
  IF c = app THEN Operations ELSE {"load"}]

SomeOrder == Permutations(ThreeRefs)
=============================================================================
