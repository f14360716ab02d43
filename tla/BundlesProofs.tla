--------------------------- MODULE BundlesProofs ----------------------------
(***************************************************************************)
(* What Bundles promises for any versions, any process identifiers and any *)
(* number of acts of the user with the Finder.                             *)
(*                                                                         *)
(* Each label of an installation or an update stands for what is at the    *)
(* four paths by then.  The invariant has a part for each question that a  *)
(* label answers: where the versions that were moved away are, whether     *)
(* there is a whole bundle to exchange, what a removal still has to clean, *)
(* and what is in place as long as the user has left it alone.             *)
(***************************************************************************)
EXTENDS Bundles, TLAPS

-----------------------------------------------------------------------------
(* The inductive invariant *)

Types ==
  /\ at \in [Paths -> Content]
  /\ aside \subseteq Versions
  /\ pc \in {"closed", "ready"} \cup InstallLabels \cup UpdateLabels
  /\ process.pid \in Pids /\ process.version \in Versions
  /\ new \in Versions
  /\ outcome \in {"none", "failed", "rollback_failed", "opened_existing",
                  "installed", "updated"}
  /\ userActs \in 0 .. MaxUserActs
  /\ before \in Content
  /\ kept \subseteq Versions
  /\ pc \notin UpdateLabels => at[Staged] = NoBundle

Flags ==
  /\ disturbed \in BOOLEAN /\ litter \in BOOLEAN
  /\ process \in [pid : Pids, version : Versions, image : BOOLEAN]

\* Only a process on a disk image installs, only another one updates.
Roles ==
  /\ process.image => pc \notin UpdateLabels
  /\ ~process.image => pc \notin InstallLabels

\* A version is where no step of the process will lose it.
Safe(v) == v \in aside \/ \E n \in Pids : v = at[<<"backup", n>>]

\* The bundle in place may be the only copy of a version that was moved away
\* before, except while the process would move or remove it; the one in the
\* staging directory may be while it is the previous one.
Secure ==
  \A v \in kept :
    /\ Safe(v) \/ v = at[Installed] \/ v = at[Staged]
    /\ pc \in {"verify_new", "swap_back", "retire_old"} =>
         Safe(v) \/ v = at[Staged]
    /\ pc \in {"unpack", "check", "exchange", "discard"} =>
         Safe(v) \/ v = at[Installed]
    /\ pc \in {"swap", "open", "displace", "restore", "place", "open_fresh",
               "withdraw"} => Safe(v)
    /\ pc \in {"copy", "copied"} /\ before = NoBundle => Safe(v)

\* What an exchange puts in place is a whole bundle, of a later version.
Whole ==
  /\ pc \in {"unpack", "check"} => process.version < new
  /\ pc = "exchange" => at[Staged] = new /\ at[Installed] # Broken
  /\ pc \in {"verify_new", "swap_back", "retire_old"} => at[Staged] \in Versions

\* What is left at the paths that contain the pid, unless a removal failed.
Unlittered ==
  /\ pc \notin {"closed", "copied", "stage", "swap", "restore", "clean",
                "place"} => at[Temporary] = NoBundle
  /\ pc \notin {"closed", "swap", "open", "displace", "restore", "retire"} =>
       at[Backup] = NoBundle

\* What is where, unless the user has acted.
Undisturbed ==
  /\ pc \in {"copy", "copied", "stage", "place", "unpack", "check", "exchange",
             "discard"} => at[Installed] = before
  /\ pc \in {"copy", "copied"} =>
       before = NoBundle \/ (before \in Versions /\ before < new)
  /\ pc \in {"stage", "swap", "open", "displace", "restore", "retire",
             "exchange", "verify_new", "swap_back", "retire_old"} =>
       before \in Versions /\ before < new
  /\ pc \in {"place", "open_fresh", "withdraw"} => before = NoBundle
  /\ pc \in {"stage", "swap", "place"} => at[Temporary] = new
  /\ pc \in {"open", "displace", "retire", "open_fresh", "withdraw",
             "verify_new", "swap_back", "retire_old"} => at[Installed] = new
  /\ pc \in {"swap", "open", "displace", "restore"} => at[Backup] = before
  /\ pc \in {"verify_new", "swap_back"} => at[Staged] = before
  /\ pc \in {"restore", "clean", "discard"} =>
       outcome \in {"none", "failed", "rollback_failed"}
  /\ pc \in {"copy", "copied", "stage", "swap", "open", "displace"} =>
       outcome = "none"
  /\ pc \in {"clean", "discard"} /\ outcome = "failed" => at[Installed] = before
  /\ pc \in {"clean", "discard"} => outcome # "none"

\* What the last installation or update returned.
Returned ==
  pc = "ready" =>
    /\ outcome = "failed" => at[Installed] = before
    /\ outcome = "opened_existing" => at[Installed] = before /\ before >= new
    /\ outcome = "installed" => at[Installed] = new /\ before = NoBundle
    /\ outcome = "updated" => /\ at[Installed] = new
                              /\ before \in Versions /\ before < new

Tidy == ~litter => Unlittered
Calm == ~disturbed => Undisturbed /\ Returned

IInv == Types /\ Flags /\ Roles /\ Secure /\ Whole /\ Tidy /\ Calm

-----------------------------------------------------------------------------
\* The four paths of a process, and those of the others, differ.
LEMMA Elsewhere ==
  ASSUME Types
  PROVE  /\ Installed \in Paths /\ Staged \in Paths
         /\ Temporary \in Paths /\ Backup \in Paths
         /\ Installed # Staged
         /\ Temporary \notin {Installed, Staged}
         /\ \A n \in Pids : /\ <<"backup", n>> \in Paths
                           /\ <<"backup", n>> \notin {Installed, Staged, Temporary}
         /\ \E n \in Pids : Backup = <<"backup", n>>
  BY DEF Types, Paths, Installed, Staged, Temporary, Backup

\* The types, and the empty staging directory outside an update.
LEMMA KeepsTypes ==
  ASSUME BundlesAssumption, Types, Next
  PROVE  Types'
<1> USE DEF BundlesAssumption, Types, Content, InstallLabels, UpdateLabels,
         Paths, Installed, Staged, Temporary, Backup
<1>1. ASSUME NEW p \in Pids, NEW v \in Versions, NEW image \in BOOLEAN,
             Start(p, v, image)
      PROVE  Types'
  BY <1>1 DEF Start, user
<1>2. CASE Quit
  BY <1>2 DEF Quit, user
<1>3. CASE Crash
  BY <1>3 DEF Crash, PutAside, user
<1>4. CASE InstallBegins
  BY <1>4 DEF InstallBegins, Begins, Return
<1>5. CASE Copy
  BY <1>5 DEF Copy, Goto, inputs, user
<1>6. CASE Copied
  BY <1>6 DEF Copied, Goto, Fails, inputs, user
<1>7. CASE Stage
  BY <1>7 DEF Stage, Rename, Goto, Fails, inputs, user
<1>8. CASE Swap
  BY <1>8 DEF Swap, Rename, RenameFails, Goto, inputs, user
<1>9. CASE Open
  BY <1>9 DEF Open, Goto, inputs, user
<1>10. CASE Displace
  BY <1>10 DEF Displace, TakenBack, Rename, RenameFails, inputs, user
<1>11. CASE Restore
  BY <1>11 DEF Restore, Rename, RenameFails, inputs, user
<1>12. CASE Clean
  BY <1>12 DEF Clean, Remove, Return, inputs, user
<1>13. CASE Retire
  BY <1>13 DEF Retire, PutAside, Return, inputs, user
<1>14. CASE Place
  BY <1>14 DEF Place, Rename, RenameFails, Goto, Fails, inputs, user
<1>15. CASE OpenFresh
  BY <1>15 DEF OpenFresh, Goto, Return, inputs, user
<1>16. CASE Withdraw
  BY <1>16 DEF Withdraw, TakenBack, Remove, Return, inputs, user
<1>17. CASE UpdateBegins
  BY <1>17 DEF UpdateBegins, Begins, Return
<1>18. CASE Unpack
  BY <1>18 DEF Unpack, Goto, inputs, user
<1>19. CASE Check
  BY <1>19 DEF Check, DropStaging, Goto, Return, inputs, user
<1>20. CASE GivesUp
  BY <1>20 DEF GivesUp, DropStaging, Return, inputs, user
<1>21. CASE Exchange
  BY <1>21 DEF Exchange, SwapBundles, Goto, inputs, user
<1>22. CASE VerifyNew
  BY <1>22 DEF VerifyNew, Goto, inputs, user
<1>23. CASE SwapBack
  BY <1>23 DEF SwapBack, TakenBack, SwapBundles, PutAside, DropStaging, Return,
      inputs, user
<1>24. CASE Discard
  BY <1>24 DEF Discard, DropStaging, Return, inputs, user
<1>25. CASE RetireOld
  BY <1>25 DEF RetireOld, PutAside, DropStaging, Return, inputs, user
<1>26. CASE UserTrashes
  <2>1. aside' = aside \cup ({at[Installed]} \cap Versions)
    BY <1>26 DEF UserTrashes, PutAside
  <2>2. aside' \subseteq Versions
    BY <2>1
  <2>3. userActs' \in 0 .. MaxUserActs
    BY <1>26 DEF UserTrashes, UserActs
  <2>4. /\ at' = [at EXCEPT ![Installed] = NoBundle]
        /\ UNCHANGED <<pc, process, new, outcome, before, kept>>
    BY <1>26 DEF UserTrashes, UserActs
  <2> QED
    BY <2>2, <2>3, <2>4
<1>27. ASSUME NEW v \in Versions, UserCopies(v)
      PROVE  Types'
  BY <1>27 DEF UserCopies, UserActs
<1> QED
  BY <1>1, <1>2, <1>3, <1>4, <1>5, <1>6, <1>7, <1>8, <1>9, <1>10, <1>11, <1>12,
     <1>13, <1>14, <1>15, <1>16, <1>17, <1>18, <1>19, <1>20, <1>21, <1>22,
     <1>23, <1>24, <1>25, <1>26, <1>27
     DEF Next, Install, Update

\* The Booleans.
LEMMA KeepsFlags ==
  ASSUME Flags, Next
  PROVE  Flags'
<1> USE DEF Flags
<1>1. ASSUME NEW p \in Pids, NEW v \in Versions, NEW image \in BOOLEAN,
             Start(p, v, image)
      PROVE  Flags'
  BY <1>1 DEF Start, user
<1>2. CASE Quit
  BY <1>2 DEF Quit, user
<1>3. CASE Crash
  BY <1>3 DEF Crash, PutAside, user
<1>4. CASE InstallBegins
  BY <1>4 DEF InstallBegins, Begins, Return
<1>5. CASE Copy
  BY <1>5 DEF Copy, Goto, inputs, user
<1>6. CASE Copied
  BY <1>6 DEF Copied, Goto, Fails, inputs, user
<1>7. CASE Stage
  BY <1>7 DEF Stage, Rename, Goto, Fails, inputs, user
<1>8. CASE Swap
  BY <1>8 DEF Swap, Rename, RenameFails, Goto, inputs, user
<1>9. CASE Open
  BY <1>9 DEF Open, Goto, inputs, user
<1>10. CASE Displace
  BY <1>10 DEF Displace, TakenBack, Rename, RenameFails, inputs, user
<1>11. CASE Restore
  BY <1>11 DEF Restore, Rename, RenameFails, inputs, user
<1>12. CASE Clean
  BY <1>12 DEF Clean, Remove, Return, inputs, user
<1>13. CASE Retire
  BY <1>13 DEF Retire, PutAside, Return, inputs, user
<1>14. CASE Place
  BY <1>14 DEF Place, Rename, RenameFails, Goto, Fails, inputs, user
<1>15. CASE OpenFresh
  BY <1>15 DEF OpenFresh, Goto, Return, inputs, user
<1>16. CASE Withdraw
  BY <1>16 DEF Withdraw, TakenBack, Remove, Return, inputs, user
<1>17. CASE UpdateBegins
  BY <1>17 DEF UpdateBegins, Begins, Return
<1>18. CASE Unpack
  BY <1>18 DEF Unpack, Goto, inputs, user
<1>19. CASE Check
  BY <1>19 DEF Check, DropStaging, Goto, Return, inputs, user
<1>20. CASE GivesUp
  BY <1>20 DEF GivesUp, DropStaging, Return, inputs, user
<1>21. CASE Exchange
  BY <1>21 DEF Exchange, SwapBundles, Goto, inputs, user
<1>22. CASE VerifyNew
  BY <1>22 DEF VerifyNew, Goto, inputs, user
<1>23. CASE SwapBack
  BY <1>23 DEF SwapBack, TakenBack, SwapBundles, PutAside, DropStaging, Return,
      inputs, user
<1>24. CASE Discard
  BY <1>24 DEF Discard, DropStaging, Return, inputs, user
<1>25. CASE RetireOld
  BY <1>25 DEF RetireOld, PutAside, DropStaging, Return, inputs, user
<1>26. CASE UserTrashes
  BY <1>26 DEF UserTrashes, UserActs, PutAside
<1>27. ASSUME NEW v \in Versions, UserCopies(v)
      PROVE  Flags'
  BY <1>27 DEF UserCopies, UserActs
<1> QED
  BY <1>1, <1>2, <1>3, <1>4, <1>5, <1>6, <1>7, <1>8, <1>9, <1>10, <1>11, <1>12,
     <1>13, <1>14, <1>15, <1>16, <1>17, <1>18, <1>19, <1>20, <1>21, <1>22,
     <1>23, <1>24, <1>25, <1>26, <1>27
     DEF Next, Install, Update

\* A process keeps its role until the next one starts.
LEMMA KeepsRoles ==
  ASSUME Types, Roles, Next
  PROVE  Roles'
<1> USE DEF Types, Roles, InstallLabels, UpdateLabels
<1>1. ASSUME NEW p \in Pids, NEW v \in Versions, NEW image \in BOOLEAN,
             Start(p, v, image)
      PROVE  Roles'
  BY <1>1 DEF Start, user
<1>2. CASE Quit
  BY <1>2 DEF Quit, user
<1>3. CASE Crash
  BY <1>3 DEF Crash, PutAside, user
<1>4. CASE InstallBegins
  BY <1>4 DEF InstallBegins, Begins, Return
<1>5. CASE Copy
  BY <1>5 DEF Copy, Goto, inputs, user
<1>6. CASE Copied
  BY <1>6 DEF Copied, Goto, Fails, inputs, user
<1>7. CASE Stage
  BY <1>7 DEF Stage, Rename, Goto, Fails, inputs, user
<1>8. CASE Swap
  BY <1>8 DEF Swap, Rename, RenameFails, Goto, inputs, user
<1>9. CASE Open
  BY <1>9 DEF Open, Goto, inputs, user
<1>10. CASE Displace
  BY <1>10 DEF Displace, TakenBack, Rename, RenameFails, inputs, user
<1>11. CASE Restore
  BY <1>11 DEF Restore, Rename, RenameFails, inputs, user
<1>12. CASE Clean
  BY <1>12 DEF Clean, Remove, Return, inputs, user
<1>13. CASE Retire
  BY <1>13 DEF Retire, PutAside, Return, inputs, user
<1>14. CASE Place
  BY <1>14 DEF Place, Rename, RenameFails, Goto, Fails, inputs, user
<1>15. CASE OpenFresh
  BY <1>15 DEF OpenFresh, Goto, Return, inputs, user
<1>16. CASE Withdraw
  BY <1>16 DEF Withdraw, TakenBack, Remove, Return, inputs, user
<1>17. CASE UpdateBegins
  BY <1>17 DEF UpdateBegins, Begins, Return
<1>18. CASE Unpack
  BY <1>18 DEF Unpack, Goto, inputs, user
<1>19. CASE Check
  BY <1>19 DEF Check, DropStaging, Goto, Return, inputs, user
<1>20. CASE GivesUp
  BY <1>20 DEF GivesUp, DropStaging, Return, inputs, user
<1>21. CASE Exchange
  BY <1>21 DEF Exchange, SwapBundles, Goto, inputs, user
<1>22. CASE VerifyNew
  BY <1>22 DEF VerifyNew, Goto, inputs, user
<1>23. CASE SwapBack
  BY <1>23 DEF SwapBack, TakenBack, SwapBundles, PutAside, DropStaging, Return,
      inputs, user
<1>24. CASE Discard
  BY <1>24 DEF Discard, DropStaging, Return, inputs, user
<1>25. CASE RetireOld
  BY <1>25 DEF RetireOld, PutAside, DropStaging, Return, inputs, user
<1>26. CASE UserTrashes
  BY <1>26 DEF UserTrashes, UserActs, PutAside
<1>27. ASSUME NEW v \in Versions, UserCopies(v)
      PROVE  Roles'
  BY <1>27 DEF UserCopies, UserActs
<1> QED
  BY <1>1, <1>2, <1>3, <1>4, <1>5, <1>6, <1>7, <1>8, <1>9, <1>10, <1>11, <1>12,
     <1>13, <1>14, <1>15, <1>16, <1>17, <1>18, <1>19, <1>20, <1>21, <1>22,
     <1>23, <1>24, <1>25, <1>26, <1>27
     DEF Next, Install, Update

\* A rollback takes away nothing but what it has put in place, or the user.
LEMMA NothingElseTaken ==
  ASSUME Calm, pc \in {"displace", "swap_back", "withdraw"}
  PROVE  TakenBack = {}
  BY DEF Calm, Undisturbed, TakenBack

\* A version that was moved away stays reachable.
LEMMA KeepsSecure ==
  ASSUME BundlesAssumption, Types, Secure, Calm, Next
  PROVE  Secure'
<1> USE DEF BundlesAssumption, Types
<1>1. ASSUME NEW p \in Pids, NEW v \in Versions, NEW image \in BOOLEAN,
             Start(p, v, image)
      PROVE  Secure'
  BY <1>1 DEF Start, user, Secure, Safe, Content, Paths, Installed, Staged,
      Temporary, Backup
<1>2. CASE Quit
  BY <1>2 DEF Quit, user, Secure, Safe, Content, Paths, Installed, Staged,
      Temporary, Backup
<1>3. CASE Crash
  BY <1>3 DEF Crash, PutAside, user, Secure, Safe, Content, Paths, Installed,
      Staged, Temporary, Backup
<1>4. CASE InstallBegins
  <2>1. /\ at' = at /\ aside' = aside /\ kept' = kept
        /\ pc = "ready" /\ pc' \in {"copy", "ready"} /\ before' = at[Installed]
        /\ at[Staged] = NoBundle
    BY <1>4 DEF InstallBegins, Begins, Return, UpdateLabels
  <2>2. \A v : Safe(v)' <=> Safe(v)
    BY <2>1 DEF Safe
  <2> QED
    BY <2>1, <2>2 DEF Secure
<1>5. CASE Copy
  BY SMTT(30), <1>5 DEF Copy, Goto, inputs, user, Secure, Safe, Content, Paths,
      Installed, Staged, Temporary, Backup
<1>6. CASE Copied
  BY <1>6 DEF Copied, Goto, Fails, inputs, user, Secure, Safe, Content, Paths,
      Installed, Staged, Temporary, Backup
<1>7. CASE Stage
  <2>1. CASE Rename(Installed, Backup) /\ Goto("swap")
    <3>1. /\ aside' = aside /\ kept' = kept \cup ({at[Installed]} \cap Versions)
          /\ pc = "stage" /\ pc' = "swap"
          /\ at[Backup] = NoBundle /\ at'[Backup] = at[Installed]
          /\ \A p \in Paths \ {Installed, Backup} : at'[p] = at[p]
          /\ at[Staged] = NoBundle
      BY <1>7, <2>1, Elsewhere DEF Stage, Rename, Goto, UpdateLabels
    <3>2. ASSUME NEW v \in Versions, Safe(v) \/ v = at[Installed]
          PROVE  Safe(v)'
      BY <3>1, <3>2, Elsewhere DEF Safe
    <3>3. \A v \in kept' : Safe(v)'
      BY <3>1, <3>2 DEF Secure
    <3> QED
      BY <3>1, <3>3 DEF Secure
  <2>2. CASE Fails /\ UNCHANGED <<at, kept>>
    <3>1. /\ at' = at /\ aside' = aside /\ kept' = kept
          /\ pc = "stage" /\ pc' = "clean"
      BY <1>7, <2>2 DEF Stage, Fails
    <3>2. \A v : Safe(v)' <=> Safe(v)
      BY <3>1 DEF Safe
    <3> QED
      BY <3>1, <3>2 DEF Secure
  <2> QED
    BY <1>7, <2>1, <2>2 DEF Stage
<1>8. CASE Swap
  <2>1. /\ aside' = aside /\ kept' = kept /\ before' = before
        /\ pc = "swap" /\ pc' \in {"open", "restore"}
        /\ \A p \in Paths \ {Installed, Temporary} : at'[p] = at[p]
    BY <1>8 DEF Swap, Rename, RenameFails, Goto, inputs
  <2>2. \A v \in kept : Safe(v)'
    BY <2>1, Elsewhere DEF Safe, Secure
  <2> QED
    BY <2>1, <2>2 DEF Secure
<1>9. CASE Open
  BY <1>9 DEF Open, Goto, inputs, user, Secure, Safe, Content, Paths,
      Installed, Staged, Temporary, Backup
<1>10. CASE Displace
  <2>1. /\ aside' = aside /\ kept' = kept /\ before' = before
        /\ pc = "displace" /\ pc' = "restore"
        /\ \A p \in Paths \ {Installed, Temporary} : at'[p] = at[p]
    BY <1>10, NothingElseTaken DEF Displace, Rename, RenameFails, inputs
  <2>2. \A v \in kept : Safe(v)'
    BY <2>1, Elsewhere DEF Safe, Secure
  <2> QED
    BY <2>1, <2>2 DEF Secure
<1>11. CASE Restore
  BY <1>11 DEF Restore, Rename, RenameFails, inputs, user, Secure, Safe,
      Content, Paths, Installed, Staged, Temporary, Backup
<1>12. CASE Clean
  BY <1>12 DEF Clean, Remove, Return, inputs, user, Secure, Safe, Content,
      Paths, Installed, Staged, Temporary, Backup
<1>13. CASE Retire
  BY <1>13 DEF Retire, PutAside, Return, inputs, user, Secure, Safe, Content,
      Paths, Installed, Staged, Temporary, Backup
<1>14. CASE Place
  <2>1. /\ aside' = aside /\ kept' = kept /\ before' = before
        /\ pc = "place" /\ pc' \in {"open_fresh", "clean"}
        /\ \A p \in Paths \ {Installed, Temporary} : at'[p] = at[p]
    BY <1>14 DEF Place, Rename, RenameFails, Goto, Fails, inputs
  <2>2. \A v \in kept : Safe(v)'
    BY <2>1, Elsewhere DEF Safe, Secure
  <2> QED
    BY <2>1, <2>2 DEF Secure
<1>15. CASE OpenFresh
  BY <1>15 DEF OpenFresh, Goto, Return, inputs, user, Secure, Safe, Content,
      Paths, Installed, Staged, Temporary, Backup
<1>16. CASE Withdraw
  <2>1. kept' = kept
    BY <1>16, NothingElseTaken DEF Withdraw
  <2> QED
    BY <1>16, <2>1 DEF Withdraw, Remove, Return, inputs, user, Secure, Safe,
        Content, Paths, Installed, Staged, Temporary, Backup
<1>17. CASE UpdateBegins
  <2>1. /\ at' = at /\ aside' = aside /\ kept' = kept
        /\ pc = "ready" /\ pc' \in {"unpack", "ready"}
        /\ at[Staged] = NoBundle
    BY <1>17 DEF UpdateBegins, Begins, Return, UpdateLabels
  <2>2. \A v : Safe(v)' <=> Safe(v)
    BY <2>1 DEF Safe
  <2> QED
    BY <2>1, <2>2 DEF Secure
<1>18. CASE Unpack
  BY <1>18 DEF Unpack, Goto, inputs, user, Secure, Safe, Content, Paths,
      Installed, Staged, Temporary, Backup
<1>19. CASE Check
  <2>1. /\ aside' = aside /\ kept' = kept /\ before' = before
        /\ pc = "check" /\ pc' \in {"exchange", "ready"}
        /\ \A p \in Paths \ {Staged} : at'[p] = at[p]
    BY <1>19 DEF Check, DropStaging, Goto, Return, inputs
  <2>2. \A v \in kept : Safe(v)' \/ v = at'[Installed]
    BY <2>1, Elsewhere DEF Safe, Secure
  <2> QED
    BY <2>1, <2>2 DEF Secure
<1>20. CASE GivesUp
  BY <1>20 DEF GivesUp, DropStaging, Return, inputs, user, Secure, Safe,
      Content, Paths, Installed, Staged, Temporary, Backup
<1>21. CASE Exchange
  <2>1. CASE SwapBundles /\ Goto("verify_new")
    <3>1. /\ aside' = aside /\ kept' \subseteq kept \cup {at[Installed]}
          /\ pc = "exchange" /\ pc' = "verify_new"
          /\ at'[Staged] = at[Installed]
          /\ \A p \in Paths \ {Installed, Staged} : at'[p] = at[p]
      BY <1>21, <2>1, Elsewhere DEF Exchange, SwapBundles, Goto
    <3>2. ASSUME NEW v, Safe(v)
          PROVE  Safe(v)'
      BY <3>1, <3>2, Elsewhere DEF Safe
    <3>3. \A v \in kept' : Safe(v)' \/ v = at'[Staged]
      BY <3>1, <3>2 DEF Secure
    <3> QED
      BY <3>1, <3>3 DEF Secure
  <2>2. CASE pc' = "discard" /\ UNCHANGED <<at, kept>>
    <3>1. /\ at' = at /\ aside' = aside /\ kept' = kept
          /\ pc = "exchange" /\ pc' = "discard"
      BY <1>21, <2>2 DEF Exchange
    <3>2. \A v : Safe(v)' <=> Safe(v)
      BY <3>1 DEF Safe
    <3> QED
      BY <3>1, <3>2 DEF Secure
  <2> QED
    BY <1>21, <2>1, <2>2 DEF Exchange
<1>22. CASE VerifyNew
  BY <1>22 DEF VerifyNew, Goto, inputs, user, Secure, Safe, Content, Paths,
      Installed, Staged, Temporary, Backup
<1>23. CASE SwapBack
  <2>1. kept' = kept
    BY <1>23, NothingElseTaken DEF SwapBack
  <2> QED
    BY <1>23, <2>1 DEF SwapBack, SwapBundles, PutAside, DropStaging, Return,
        inputs, user, Secure, Safe, Content, Paths, Installed, Staged,
        Temporary, Backup
<1>24. CASE Discard
  BY <1>24 DEF Discard, DropStaging, Return, inputs, user, Secure, Safe,
      Content, Paths, Installed, Staged, Temporary, Backup
<1>25. CASE RetireOld
  BY <1>25 DEF RetireOld, PutAside, DropStaging, Return, inputs, user, Secure,
      Safe, Content, Paths, Installed, Staged, Temporary, Backup
<1>26. CASE UserTrashes
  <2>1. /\ aside' = aside \cup ({at[Installed]} \cap Versions)
        /\ kept' = kept /\ pc' = pc /\ before' = before
        /\ at'[Installed] = NoBundle
        /\ \A p \in Paths \ {Installed} : at'[p] = at[p]
    BY <1>26, Elsewhere DEF UserTrashes, UserActs, PutAside
  <2>2. ASSUME NEW v \in Versions, Safe(v) \/ v = at[Installed]
        PROVE  Safe(v)'
    BY <2>1, <2>2, Elsewhere DEF Safe
  <2>3. \A v \in kept : v \in Versions /\ (Safe(v) => Safe(v)')
    BY <2>2
  <2> QED
    BY <2>1, <2>2, <2>3, Elsewhere DEF Secure
<1>27. ASSUME NEW v \in Versions, UserCopies(v)
      PROVE  Secure'
  BY SMTT(30), <1>27 DEF UserCopies, UserActs, Secure, Safe, Content, Paths, Installed,
      Staged, Temporary, Backup
<1> QED
  BY <1>1, <1>2, <1>3, <1>4, <1>5, <1>6, <1>7, <1>8, <1>9, <1>10, <1>11, <1>12,
     <1>13, <1>14, <1>15, <1>16, <1>17, <1>18, <1>19, <1>20, <1>21, <1>22,
     <1>23, <1>24, <1>25, <1>26, <1>27
     DEF Next, Install, Update

\* What was checked is what is exchanged.
LEMMA KeepsWhole ==
  ASSUME BundlesAssumption, Types, Whole, Next
  PROVE  Whole'
<1> USE DEF BundlesAssumption, Types, Whole, Content, Paths, Installed, Staged,
         Temporary, Backup
<1>1. ASSUME NEW p \in Pids, NEW v \in Versions, NEW image \in BOOLEAN,
             Start(p, v, image)
      PROVE  Whole'
  BY <1>1 DEF Start, user
<1>2. CASE Quit
  BY <1>2 DEF Quit, user
<1>3. CASE Crash
  BY <1>3 DEF Crash, PutAside, user
<1>4. CASE InstallBegins
  BY <1>4 DEF InstallBegins, Begins, Return
<1>5. CASE Copy
  BY <1>5 DEF Copy, Goto, inputs, user
<1>6. CASE Copied
  BY <1>6 DEF Copied, Goto, Fails, inputs, user
<1>7. CASE Stage
  BY <1>7 DEF Stage, Rename, Goto, Fails, inputs, user
<1>8. CASE Swap
  BY <1>8 DEF Swap, Rename, RenameFails, Goto, inputs, user
<1>9. CASE Open
  BY <1>9 DEF Open, Goto, inputs, user
<1>10. CASE Displace
  BY <1>10 DEF Displace, TakenBack, Rename, RenameFails, inputs, user
<1>11. CASE Restore
  BY <1>11 DEF Restore, Rename, RenameFails, inputs, user
<1>12. CASE Clean
  BY <1>12 DEF Clean, Remove, Return, inputs, user
<1>13. CASE Retire
  BY <1>13 DEF Retire, PutAside, Return, inputs, user
<1>14. CASE Place
  BY <1>14 DEF Place, Rename, RenameFails, Goto, Fails, inputs, user
<1>15. CASE OpenFresh
  BY <1>15 DEF OpenFresh, Goto, Return, inputs, user
<1>16. CASE Withdraw
  BY <1>16 DEF Withdraw, TakenBack, Remove, Return, inputs, user
<1>17. CASE UpdateBegins
  BY <1>17 DEF UpdateBegins, Begins, Return
<1>18. CASE Unpack
  BY <1>18 DEF Unpack, Goto, inputs, user
<1>19. CASE Check
  BY <1>19 DEF Check, DropStaging, Goto, Return, inputs, user
<1>20. CASE GivesUp
  BY <1>20 DEF GivesUp, DropStaging, Return, inputs, user
<1>21. CASE Exchange
  BY <1>21 DEF Exchange, SwapBundles, Goto, inputs, user
<1>22. CASE VerifyNew
  BY <1>22 DEF VerifyNew, Goto, inputs, user
<1>23. CASE SwapBack
  BY <1>23 DEF SwapBack, TakenBack, SwapBundles, PutAside, DropStaging, Return,
      inputs, user
<1>24. CASE Discard
  BY <1>24 DEF Discard, DropStaging, Return, inputs, user
<1>25. CASE RetireOld
  BY <1>25 DEF RetireOld, PutAside, DropStaging, Return, inputs, user
<1>26. CASE UserTrashes
  BY <1>26 DEF UserTrashes, UserActs, PutAside
<1>27. ASSUME NEW v \in Versions, UserCopies(v)
      PROVE  Whole'
  BY <1>27 DEF UserCopies, UserActs
<1> QED
  BY <1>1, <1>2, <1>3, <1>4, <1>5, <1>6, <1>7, <1>8, <1>9, <1>10, <1>11, <1>12,
     <1>13, <1>14, <1>15, <1>16, <1>17, <1>18, <1>19, <1>20, <1>21, <1>22,
     <1>23, <1>24, <1>25, <1>26, <1>27
     DEF Next, Install, Update

\* What each step leaves at the paths of the pid.
LEMMA KeepsTidy ==
  ASSUME BundlesAssumption, Types, Tidy, Next
  PROVE  Tidy'
<1> USE DEF BundlesAssumption, Types, Tidy, Unlittered, Content, Paths,
         Installed, Staged, Temporary, Backup
<1>1. ASSUME NEW p \in Pids, NEW v \in Versions, NEW image \in BOOLEAN,
             Start(p, v, image)
      PROVE  Tidy'
  BY <1>1 DEF Start, user
<1>2. CASE Quit
  BY <1>2 DEF Quit, user
<1>3. CASE Crash
  BY <1>3 DEF Crash, PutAside, user
<1>4. CASE InstallBegins
  BY <1>4 DEF InstallBegins, Begins, Return
<1>5. CASE Copy
  BY <1>5 DEF Copy, Goto, inputs, user
<1>6. CASE Copied
  BY <1>6 DEF Copied, Goto, Fails, inputs, user
<1>7. CASE Stage
  BY <1>7 DEF Stage, Rename, Goto, Fails, inputs, user
<1>8. CASE Swap
  BY <1>8 DEF Swap, Rename, RenameFails, Goto, inputs, user
<1>9. CASE Open
  BY <1>9 DEF Open, Goto, inputs, user
<1>10. CASE Displace
  BY <1>10 DEF Displace, TakenBack, Rename, RenameFails, inputs, user
<1>11. CASE Restore
  BY <1>11 DEF Restore, Rename, RenameFails, inputs, user
<1>12. CASE Clean
  BY <1>12 DEF Clean, Remove, Return, inputs, user
<1>13. CASE Retire
  BY <1>13 DEF Retire, PutAside, Return, inputs, user
<1>14. CASE Place
  BY <1>14 DEF Place, Rename, RenameFails, Goto, Fails, inputs, user
<1>15. CASE OpenFresh
  BY <1>15 DEF OpenFresh, Goto, Return, inputs, user
<1>16. CASE Withdraw
  BY <1>16 DEF Withdraw, TakenBack, Remove, Return, inputs, user
<1>17. CASE UpdateBegins
  BY <1>17 DEF UpdateBegins, Begins, Return
<1>18. CASE Unpack
  BY <1>18 DEF Unpack, Goto, inputs, user
<1>19. CASE Check
  BY <1>19 DEF Check, DropStaging, Goto, Return, inputs, user
<1>20. CASE GivesUp
  BY <1>20 DEF GivesUp, DropStaging, Return, inputs, user
<1>21. CASE Exchange
  BY <1>21 DEF Exchange, SwapBundles, Goto, inputs, user
<1>22. CASE VerifyNew
  BY <1>22 DEF VerifyNew, Goto, inputs, user
<1>23. CASE SwapBack
  BY <1>23 DEF SwapBack, TakenBack, SwapBundles, PutAside, DropStaging, Return,
      inputs, user
<1>24. CASE Discard
  BY <1>24 DEF Discard, DropStaging, Return, inputs, user
<1>25. CASE RetireOld
  BY <1>25 DEF RetireOld, PutAside, DropStaging, Return, inputs, user
<1>26. CASE UserTrashes
  BY <1>26 DEF UserTrashes, UserActs, PutAside
<1>27. ASSUME NEW v \in Versions, UserCopies(v)
      PROVE  Tidy'
  BY <1>27 DEF UserCopies, UserActs
<1> QED
  BY <1>1, <1>2, <1>3, <1>4, <1>5, <1>6, <1>7, <1>8, <1>9, <1>10, <1>11, <1>12,
     <1>13, <1>14, <1>15, <1>16, <1>17, <1>18, <1>19, <1>20, <1>21, <1>22,
     <1>23, <1>24, <1>25, <1>26, <1>27
     DEF Next, Install, Update

\* What is where, and what was returned for it.
LEMMA KeepsCalm ==
  ASSUME BundlesAssumption, Types, Whole, Calm, Next
  PROVE  Calm'
<1> USE DEF BundlesAssumption, Types, Whole, Calm, Undisturbed, Returned,
         Content, Paths, Installed, Staged, Temporary, Backup
<1>1. ASSUME NEW p \in Pids, NEW v \in Versions, NEW image \in BOOLEAN,
             Start(p, v, image)
      PROVE  Calm'
  BY <1>1 DEF Start, user
<1>2. CASE Quit
  BY <1>2 DEF Quit, user
<1>3. CASE Crash
  BY <1>3 DEF Crash, PutAside, user
<1>4. CASE InstallBegins
  BY <1>4 DEF InstallBegins, Begins, Return
<1>5. CASE Copy
  BY <1>5 DEF Copy, Goto, inputs, user
<1>6. CASE Copied
  BY <1>6 DEF Copied, Goto, Fails, inputs, user
<1>7. CASE Stage
  BY <1>7 DEF Stage, Rename, Goto, Fails, inputs, user
<1>8. CASE Swap
  BY <1>8 DEF Swap, Rename, RenameFails, Goto, inputs, user
<1>9. CASE Open
  BY <1>9 DEF Open, Goto, inputs, user
<1>10. CASE Displace
  BY <1>10 DEF Displace, TakenBack, Rename, RenameFails, inputs, user
<1>11. CASE Restore
  BY <1>11 DEF Restore, Rename, RenameFails, inputs, user
<1>12. CASE Clean
  BY <1>12 DEF Clean, Remove, Return, inputs, user
<1>13. CASE Retire
  BY <1>13 DEF Retire, PutAside, Return, inputs, user
<1>14. CASE Place
  BY <1>14 DEF Place, Rename, RenameFails, Goto, Fails, inputs, user
<1>15. CASE OpenFresh
  BY <1>15 DEF OpenFresh, Goto, Return, inputs, user
<1>16. CASE Withdraw
  BY <1>16 DEF Withdraw, TakenBack, Remove, Return, inputs, user
<1>17. CASE UpdateBegins
  BY <1>17 DEF UpdateBegins, Begins, Return
<1>18. CASE Unpack
  BY <1>18 DEF Unpack, Goto, inputs, user
<1>19. CASE Check
  BY <1>19 DEF Check, DropStaging, Goto, Return, inputs, user
<1>20. CASE GivesUp
  BY <1>20 DEF GivesUp, DropStaging, Return, inputs, user
<1>21. CASE Exchange
  BY <1>21 DEF Exchange, SwapBundles, Goto, inputs, user
<1>22. CASE VerifyNew
  BY <1>22 DEF VerifyNew, Goto, inputs, user
<1>23. CASE SwapBack
  BY <1>23 DEF SwapBack, TakenBack, SwapBundles, PutAside, DropStaging, Return,
      inputs, user
<1>24. CASE Discard
  BY <1>24 DEF Discard, DropStaging, Return, inputs, user
<1>25. CASE RetireOld
  BY <1>25 DEF RetireOld, PutAside, DropStaging, Return, inputs, user
<1>26. CASE UserTrashes
  BY <1>26 DEF UserTrashes, UserActs, PutAside
<1>27. ASSUME NEW v \in Versions, UserCopies(v)
      PROVE  Calm'
  BY <1>27 DEF UserCopies, UserActs
<1> HIDE DEF Types, Whole, Calm, Undisturbed, Returned
<1> QED
  BY <1>1, <1>2, <1>3, <1>4, <1>5, <1>6, <1>7, <1>8, <1>9, <1>10, <1>11, <1>12,
     <1>13, <1>14, <1>15, <1>16, <1>17, <1>18, <1>19, <1>20, <1>21, <1>22,
     <1>23, <1>24, <1>25, <1>26, <1>27
     DEF Next, Install, Update

-----------------------------------------------------------------------------
(* The theorems *)

\* A computer with or without an installed version satisfies the invariant.
LEMMA Beginning ==
  ASSUME BundlesAssumption, Init
  PROVE  IInv
<1> USE DEF Init, BundlesAssumption
<1>1. Types
  BY DEF Types, Content, InstallLabels, UpdateLabels, Paths, Installed, Staged
<1>2. Flags
  BY DEF Flags
<1>3. Roles
  BY DEF Roles, InstallLabels, UpdateLabels
<1>4. Secure /\ Whole
  BY DEF Secure, Whole
<1>5. Tidy
  BY DEF Tidy, Unlittered
<1>6. Calm
  BY DEF Calm, Undisturbed, Returned
<1> QED
  BY <1>1, <1>2, <1>3, <1>4, <1>5, <1>6 DEF IInv

\* A step of something else keeps it.
LEMMA Stutter ==
  ASSUME IInv, UNCHANGED vars
  PROVE  IInv'
<1>1. Types' /\ Roles' /\ Flags'
  BY DEF IInv, Types, Roles, Flags, vars, user, Temporary, Backup
<1>2. Secure' /\ Whole'
  BY DEF IInv, Secure, Safe, Whole, vars, user
<1>3. Tidy'
  BY DEF IInv, Tidy, Unlittered, vars, user, Temporary, Backup
<1>4. Calm'
  BY DEF IInv, Calm, Undisturbed, Returned, vars, user, Temporary, Backup
<1> QED
  BY <1>1, <1>2, <1>3, <1>4 DEF IInv

\* The strengthened invariant holds in every reachable state.
THEOREM Inductive == Spec => []IInv
<1>1. Init => IInv
  BY Beginning, BundlesAssumption
<1>2. ASSUME IInv, Next
      PROVE  IInv'
  BY <1>2, BundlesAssumption, KeepsTypes, KeepsFlags, KeepsRoles, KeepsSecure,
     KeepsWhole, KeepsTidy, KeepsCalm DEF IInv
<1>3. IInv /\ [Next]_vars => IInv'
  BY <1>2, Stutter
<1> QED
  BY <1>1, <1>3, PTL DEF Spec

\* Every variable keeps its type, and outside an update there is no staging
\* directory in use.
THEOREM TypeCorrect == Spec => []TypeOK
<1>1. IInv => TypeOK
  BY DEF IInv, Types, Flags, TypeOK
<1> QED
  BY <1>1, Inductive, PTL

\* No version that was taken out of its place is ever lost, whatever fails or is
\* killed: replaced by an installation or an update it is kept even if the user
\* acts at every step; and unless the user acts, a rollback takes away no version
\* but the one it has put in place (install_application_bundle, install_update,
\* rollback_application_replacement).
THEOREM PreviousKept == Spec => []PreviousSurvives
<1>1. ASSUME IInv
      PROVE  PreviousSurvives
  <2>1. ASSUME NEW v \in kept
        PROVE  v \in Recoverable
    <3>1. Safe(v) \/ v = at[Installed] \/ v = at[Staged]
      BY <1>1 DEF IInv, Secure
    <3>2. \A p \in {Installed, Staged} \cup {<<"backup", n>> : n \in Pids} :
            p \in Paths \ ({"temporary"} \X Pids)
      BY DEF Paths, Installed, Staged
    <3> QED
      BY <3>1, <3>2 DEF Recoverable, Safe
  <2> QED
    BY <2>1 DEF PreviousSurvives
<1> QED
  BY <1>1, Inductive, PTL

\* What an installation or an update returns is what it did.
THEOREM OutcomesTrue == Spec => []OutcomeIsTrue
<1>1. IInv => OutcomeIsTrue
  BY DEF IInv, Calm, Returned, OutcomeIsTrue
<1> QED
  BY <1>1, Inductive, PTL

\* An installation leaves no copy and no backup behind, unless a removal failed.
THEOREM NothingLeft == Spec => []NothingLeftBehind
<1>1. IInv => NothingLeftBehind
  BY DEF IInv, Tidy, Unlittered, NothingLeftBehind
<1> QED
  BY <1>1, Inductive, PTL

\* No step of an update takes the application away.
LEMMA NoGap ==
  ASSUME IInv, Next, ~process.image, at[Installed] \in Versions,
         userActs' = userActs
  PROVE  at'[Installed] \in Versions
<1>1. pc \notin InstallLabels
  BY DEF IInv, Roles
<1>2. CASE UNCHANGED at
  BY <1>2
<1>3. CASE Crash \/ Unpack \/ Check \/ GivesUp \/ Discard \/ RetireOld
  <2>1. \A p \in Paths \ {Staged} : at'[p] = at[p]
    BY <1>3 DEF IInv, Types, Crash, Unpack, Check, GivesUp, Discard,
                RetireOld, DropStaging
  <2> QED
    BY <2>1, Elsewhere DEF IInv
<1>4. CASE Exchange
  <2>1. UNCHANGED at \/ SwapBundles
    BY <1>4 DEF Exchange
  <2> QED
    BY <1>4, <2>1, Elsewhere DEF IInv, Types, Whole, Exchange, SwapBundles
<1>5. CASE SwapBack
  <2>1. DropStaging \/ SwapBundles
    BY <1>5 DEF SwapBack
  <2> QED
    BY <1>5, <2>1, Elsewhere DEF IInv, Types, Whole, SwapBack, SwapBundles,
                                 DropStaging
<1>6. ~UserTrashes /\ \A v \in Versions : ~UserCopies(v)
  BY DEF IInv, Types, UserTrashes, UserCopies, UserActs
<1>7. CASE Install
  <2>1. ~process.image => ~InstallBegins
    BY Zenon DEF InstallBegins
  <2> QED
    BY <1>1, <1>7, <2>1
       DEF Install, InstallLabels, Copy, Copied, Stage, Swap, Open, Displace,
           Restore, Clean, Retire, Place, OpenFresh, Withdraw
<1> QED
  BY <1>2, <1>3, <1>4, <1>5, <1>6, <1>7
     DEF Next, Update, Start, Quit, UpdateBegins, Begins, VerifyNew

\* There is a whole application in place at every step of an update
\* (swap_application_bundles), unless the user takes it away.
THEOREM UpdatesLeaveNoGap == Spec => UpdateLeavesNoGap
<1>1. IInv /\ [Next]_vars =>
        [~process.image /\ at[Installed] \in Versions =>
           at'[Installed] \in Versions \/ userActs' # userActs]_vars
  BY NoGap
<1> QED
  BY <1>1, Inductive, PTL DEF Spec, UpdateLeavesNoGap
=============================================================================
