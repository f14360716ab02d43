------------------------------ MODULE Bundles ------------------------------
(***************************************************************************)
(* The application bundles in /Applications and the two ways the program   *)
(* replaces them (app-tauri/src-tauri/src/lib.rs): a copy started from the *)
(* disk image installs itself with two renames, and the installed copy     *)
(* updates itself by an atomic exchange.  Both keep the previous bundle    *)
(* until the new one is verified and its launch is scheduled, and undo     *)
(* what they did otherwise.                                                *)
(*                                                                         *)
(* Each step is one operation on the file system.  Between two of them the *)
(* process may be killed, and the user may move the installed bundle to    *)
(* the Trash or copy another one into place with the Finder.  The          *)
(* single-instance lock admits one process at a time.                      *)
(***************************************************************************)
EXTENDS Naturals

CONSTANTS
  Versions,     \* bundle versions
  Pids,         \* process identifiers, which are used again
  NoBundle,     \* nothing at a path
  Broken,       \* a directory that verify_bundle refuses
  MaxUserActs   \* bound: what the user does with the Finder

ASSUME BundlesAssumption ==
  /\ Versions \subseteq Nat
  /\ NoBundle \notin Versions /\ Broken \notin Versions /\ NoBundle # Broken
  /\ MaxUserActs \in Nat

VARIABLES
  at,         \* the bundle at each path
  aside,      \* whole bundles in the Trash or in a staging directory left behind
  pc,         \* the next operation of the process
  process,    \* its pid, version, and whether it runs from the disk image
  new,        \* the version it installs
  outcome,    \* what its last installation or update returned
  userActs,
  before,     \* what the process found in place when that began
  disturbed,  \* history: the user has acted since
  kept,       \* history: the versions taken out of /Applications/OsaGuard.app
  litter      \* history: a removal or rollback failed, or the pid was used before
              \* and has left files

user == <<userActs, disturbed>>
vars == <<at, aside, pc, process, new, outcome, user, before, kept, litter>>

Content == Versions \cup {NoBundle, Broken}

\* /Applications/OsaGuard.app, the two names that contain the pid, and the
\* bundle in the private staging directory of an update.
Installed == <<"installed", 0>>
Staged == <<"staged", 0>>
Temporary == <<"temporary", process.pid>>
Backup == <<"backup", process.pid>>
Paths == {Installed, Staged} \cup ({"temporary", "backup"} \X Pids)

InstallLabels == {"copy", "copied", "stage", "swap", "open", "displace", "restore",
                  "clean", "retire", "place", "open_fresh", "withdraw"}
UpdateLabels == {"unpack", "check", "exchange", "verify_new", "swap_back",
                 "discard", "retire_old"}

Init ==
  /\ \E c \in Versions \cup {NoBundle} :
       /\ at = [p \in Paths |-> IF p = Installed THEN c ELSE NoBundle]
       /\ before = c
  /\ aside = {}
  /\ pc = "closed"
  /\ process \in [pid : Pids, version : Versions, image : BOOLEAN]
  /\ new = process.version
  /\ outcome = "none"
  /\ userActs = 0 /\ disturbed = FALSE /\ kept = {} /\ litter = FALSE

-----------------------------------------------------------------------------
(* Operations on the file system *)

Rename(a, b) ==
  /\ at[a] # NoBundle /\ at[b] = NoBundle
  /\ at' = [at EXCEPT ![a] = NoBundle, ![b] = at[a]]

\* A rename may fail for reasons of its own.
RenameFails == UNCHANGED at

\* remove_dir_all, which may fail with part of the bundle still there.
Remove(a) ==
  \/ at' = [at EXCEPT ![a] = NoBundle] /\ UNCHANGED litter
  \/ /\ at[a] # NoBundle
     /\ \E c \in {at[a], Broken} : at' = [at EXCEPT ![a] = c]
     /\ litter' = TRUE

PutAside(a) == aside' = aside \cup ({at[a]} \cap Versions)

\* What a rollback takes out of /Applications/OsaGuard.app: it means the version
\* it put there and does not look.  Once the user has acted it may be another
\* one, which the user put there and which goes away with the rollback.
TakenBack == {v \in {at[Installed]} \cap Versions : ~disturbed /\ v # new}

-----------------------------------------------------------------------------
(* The process *)

\* A copy on the disk image is of any version.
Start(p, v, image) ==
  /\ pc = "closed"
  /\ image \/ at[Installed] = v
  /\ pc' = "ready"
  /\ process' = [pid |-> p, version |-> v, image |-> image]
  /\ new' = v /\ outcome' = "none"
  /\ litter' = (at[<<"temporary", p>>] # NoBundle \/ at[<<"backup", p>>] # NoBundle)
  /\ UNCHANGED <<at, aside, user, before, kept>>

\* After a success the process exits by itself.
Quit ==
  /\ pc = "ready" /\ pc' = "closed"
  /\ UNCHANGED <<at, aside, process, new, outcome, user, before, kept, litter>>

\* A kill skips the destructor that removes a staging directory.
Crash ==
  /\ pc \in InstallLabels \cup UpdateLabels
  /\ pc' = "closed"
  /\ PutAside(Staged) /\ at' = [at EXCEPT ![Staged] = NoBundle]
  /\ UNCHANGED <<process, new, outcome, user, before, kept, litter>>

Goto(l) == pc' = l /\ UNCHANGED <<outcome, litter>>
Return(r) == pc' = "ready" /\ outcome' = r

\* What only the first step of an installation or an update changes.
inputs == <<process, new, user, before>>

Begins ==
  /\ pc = "ready"
  /\ before' = at[Installed] /\ disturbed' = FALSE
  /\ UNCHANGED <<at, aside, process, userActs, kept, litter>>

-----------------------------------------------------------------------------
(* install_application_bundle *)

\* Mutant: the bundle in place is replaced whatever its version.
InstallBeginsAnyway ==
  /\ process.image /\ Begins
  /\ new' = process.version
  /\ \/ /\ at[Installed] # Broken /\ at[Temporary] = NoBundle
        /\ pc' = "copy" /\ outcome' = "none"
     \/ Return("failed")

\* The versions are compared, and the temporary path must be free.  A bundle in
\* place that is broken, or that cannot be opened, is an error.
InstallBegins ==
  /\ process.image /\ Begins
  /\ new' = process.version
  /\ \/ /\ at[Installed] \in Versions /\ at[Installed] >= process.version
        /\ Return("opened_existing")
     \/ /\ \/ at[Installed] = NoBundle
           \/ at[Installed] \in Versions /\ at[Installed] < process.version
        /\ at[Temporary] = NoBundle
        /\ pc' = "copy" /\ outcome' = "none"
     \/ Return("failed")

Fails == pc' = "clean" /\ outcome' = "failed" /\ UNCHANGED litter

\* ditto starts; until it has ended there is part of a bundle.
Copy ==
  /\ pc = "copy"
  /\ at' = [at EXCEPT ![Temporary] = Broken]
  /\ Goto("copied")
  /\ UNCHANGED <<inputs, aside, kept>>

\* The copy is complete and verified, or is given up.
Copied ==
  /\ pc = "copied"
  /\ \/ /\ at' = [at EXCEPT ![Temporary] = new]
        /\ Goto(IF before = NoBundle THEN "place" ELSE "stage")
     \/ Fails /\ UNCHANGED at
  /\ UNCHANGED <<inputs, aside, kept>>

\* The bundle in place becomes the backup, unless there is one already.
Stage ==
  /\ pc = "stage"
  /\ \/ /\ Rename(Installed, Backup)
        /\ kept' = kept \cup ({at[Installed]} \cap Versions)
        /\ Goto("swap")
     \/ Fails /\ UNCHANGED <<at, kept>>
  /\ UNCHANGED <<inputs, aside>>

\* The copy takes its place.
Swap ==
  /\ pc = "swap"
  /\ \/ Rename(Temporary, Installed) /\ Goto("open")
     \/ RenameFails /\ Goto("restore")
  /\ UNCHANGED <<inputs, aside, kept>>

\* schedule_open_application
Open ==
  /\ pc = "open"
  /\ Goto("retire") \/ Goto("displace")
  /\ UNCHANGED <<inputs, at, aside, kept>>

Displace ==
  /\ pc = "displace" /\ pc' = "restore"
  /\ \/ Rename(Installed, Temporary) /\ UNCHANGED <<outcome, litter>>
        /\ kept' = kept \cup TakenBack
     \/ RenameFails /\ outcome' = "rollback_failed" /\ litter' = TRUE
        /\ UNCHANGED kept
  /\ UNCHANGED <<inputs, aside>>

Restore ==
  /\ pc = "restore" /\ pc' = "clean"
  /\ \/ /\ Rename(Backup, Installed) /\ UNCHANGED litter
        /\ outcome' = IF outcome = "none" THEN "failed" ELSE outcome
     \/ RenameFails /\ outcome' = "rollback_failed" /\ litter' = TRUE
  /\ UNCHANGED <<inputs, aside, kept>>

\* Mutant: the copy stays when the installation fails.
CleanForgotten ==
  /\ pc = "clean"
  /\ Return(outcome)
  /\ UNCHANGED <<inputs, at, aside, kept, litter>>

\* Whatever is at the temporary path is removed, as far as that succeeds.
Clean ==
  /\ pc = "clean"
  /\ Remove(Temporary)
  /\ Return(outcome)
  /\ UNCHANGED <<inputs, aside, kept>>

\* The backup is moved to the Trash; otherwise it stays where it is.
Retire ==
  /\ pc = "retire"
  /\ \/ PutAside(Backup) /\ at' = [at EXCEPT ![Backup] = NoBundle] /\ UNCHANGED litter
     \/ litter' = TRUE /\ UNCHANGED <<at, aside>>
  /\ Return("updated")
  /\ UNCHANGED <<inputs, kept>>

\* Nothing was in place: the copy takes it, unless something is there by now.
Place ==
  /\ pc = "place"
  /\ \/ Rename(Temporary, Installed) /\ Goto("open_fresh")
     \/ RenameFails /\ Fails
  /\ UNCHANGED <<inputs, aside, kept>>

OpenFresh ==
  /\ pc = "open_fresh"
  /\ \/ Return("installed") /\ UNCHANGED litter
     \/ Goto("withdraw")
  /\ UNCHANGED <<inputs, at, aside, kept>>

Withdraw ==
  /\ pc = "withdraw"
  /\ Remove(Installed)
  /\ Return(IF at[Installed] # NoBundle /\ at'[Installed] = NoBundle THEN "failed"
            ELSE "rollback_failed")
  /\ kept' = kept \cup TakenBack
  /\ UNCHANGED <<inputs, aside>>

-----------------------------------------------------------------------------
(* install_update, from the extraction of the archive on *)

\* A later version was downloaded; nothing happens otherwise.
UpdateBegins ==
  /\ ~process.image /\ outcome # "updated" /\ Begins
  /\ \/ /\ new' \in Versions /\ new' > process.version
        /\ pc' = "unpack" /\ outcome' = "none"
     \/ Return("failed") /\ UNCHANGED new

\* TempDir's destructor, on each early return.
DropStaging == at' = [at EXCEPT ![Staged] = NoBundle]

\* The archive is extracted into a private directory and verified, and so is
\* the bundle in place, whose version must be that of the process.
Unpack ==
  /\ pc = "unpack"
  /\ at' = [at EXCEPT ![Staged] = Broken]
  /\ Goto("check")
  /\ UNCHANGED <<inputs, aside, kept>>

Check ==
  /\ pc = "check"
  /\ \/ /\ at[Installed] = process.version
        /\ at' = [at EXCEPT ![Staged] = new] /\ Goto("exchange")
     \/ DropStaging /\ Return("failed") /\ UNCHANGED litter
  /\ UNCHANGED <<inputs, aside, kept>>

\* The process shuts down, a dialog is open, or the watchers do not stop.
GivesUp ==
  /\ pc = "exchange"
  /\ DropStaging /\ Return("failed")
  /\ UNCHANGED <<inputs, aside, kept, litter>>

\* Mutant: the old bundle is moved away before the new one takes its place.
ExchangeByRename ==
  /\ pc = "exchange"
  /\ at' = [at EXCEPT ![Staged] = at[Installed], ![Installed] = NoBundle]
  /\ kept' = kept \cup ({at[Installed]} \cap Versions)
  /\ Goto("verify_new")
  /\ UNCHANGED <<inputs, aside>>

\* swap_application_bundles: both must be directories; RENAME_SWAP is atomic.
SwapBundles ==
  /\ at[Installed] # NoBundle
  /\ at' = [at EXCEPT ![Staged] = at[Installed], ![Installed] = at[Staged]]

Exchange ==
  /\ pc = "exchange"
  /\ \/ /\ SwapBundles /\ Goto("verify_new")
        /\ kept' = kept \cup ({at[Installed]} \cap Versions)
     \/ /\ pc' = "discard" /\ outcome' = "failed"
        /\ UNCHANGED <<at, kept, litter>>
  /\ UNCHANGED <<inputs, aside>>

\* The bundle in place is verified, and its launch scheduled.
VerifyNew ==
  /\ pc = "verify_new"
  /\ \/ at[Installed] = new /\ Goto("retire_old")
     \/ Goto("swap_back")
  /\ UNCHANGED <<inputs, at, aside, kept>>

\* Mutant: the staging directory is removed although the rollback failed.
SwapBackOrDiscard ==
  /\ pc = "swap_back" /\ pc' = "discard"
  /\ \/ SwapBundles /\ outcome' = "failed"
     \/ UNCHANGED at /\ outcome' = "rollback_failed"
  /\ UNCHANGED <<inputs, aside, kept, litter>>

\* rollback_application_replacement: when it fails, the staging directory is
\* preserved with the previous bundle.
SwapBack ==
  /\ pc = "swap_back"
  /\ \/ /\ SwapBundles /\ pc' = "discard" /\ outcome' = "failed"
        /\ kept' = kept \cup TakenBack
        /\ UNCHANGED <<aside, litter>>
     \/ /\ PutAside(Staged) /\ DropStaging
        /\ Return("rollback_failed") /\ litter' = TRUE
        /\ UNCHANGED kept
  /\ UNCHANGED inputs

\* Mutant: the staging directory is forgotten after a failure.
DiscardForgotten ==
  /\ pc = "discard"
  /\ Return(outcome)
  /\ UNCHANGED <<inputs, at, aside, kept, litter>>

\* The staging directory is removed; what a failed removal leaves is lost.
Discard ==
  /\ pc = "discard"
  /\ DropStaging /\ Return(outcome)
  /\ litter' \in {litter, TRUE}
  /\ UNCHANGED <<inputs, aside, kept>>

\* The previous bundle is moved to the Trash, or stays in the staging directory.
RetireOld ==
  /\ pc = "retire_old"
  /\ PutAside(Staged) /\ DropStaging
  /\ Return("updated")
  /\ litter' \in {litter, TRUE}
  /\ UNCHANGED <<inputs, kept>>

-----------------------------------------------------------------------------
(* The user, with the Finder *)

UserActs ==
  /\ userActs < MaxUserActs /\ userActs' = userActs + 1
  /\ disturbed' = TRUE
  /\ UNCHANGED <<pc, process, new, outcome, before, kept, litter>>

UserTrashes ==
  /\ UserActs
  /\ at[Installed] # NoBundle
  /\ PutAside(Installed) /\ at' = [at EXCEPT ![Installed] = NoBundle]

UserCopies(v) ==
  /\ UserActs
  /\ at[Installed] = NoBundle
  /\ at' = [at EXCEPT ![Installed] = v]
  /\ UNCHANGED aside

-----------------------------------------------------------------------------
Install ==
  \/ InstallBegins \/ Copy \/ Copied \/ Stage \/ Swap \/ Open \/ Displace
  \/ Restore \/ Clean \/ Retire \/ Place \/ OpenFresh \/ Withdraw

Update ==
  \/ UpdateBegins \/ Unpack \/ Check \/ GivesUp \/ Exchange \/ VerifyNew
  \/ SwapBack \/ Discard \/ RetireOld

Next ==
  \/ \E p \in Pids, v \in Versions, image \in BOOLEAN : Start(p, v, image)
  \/ Quit \/ Crash
  \/ Install \/ Update
  \/ UserTrashes
  \/ \E v \in Versions : UserCopies(v)

Spec == Init /\ [][Next]_vars

-----------------------------------------------------------------------------
(* Properties *)

\* Type invariant.  Outside an update there is no staging directory in use.
TypeOK ==
  /\ at \in [Paths -> Content]
  /\ aside \subseteq Versions
  /\ pc \in {"closed", "ready"} \cup InstallLabels \cup UpdateLabels
  /\ process \in [pid : Pids, version : Versions, image : BOOLEAN]
  /\ new \in Versions
  /\ outcome \in {"none", "failed", "rollback_failed", "opened_existing",
                  "installed", "updated"}
  /\ userActs \in 0 .. MaxUserActs
  /\ before \in Content
  /\ disturbed \in BOOLEAN /\ litter \in BOOLEAN
  /\ kept \subseteq Versions
  /\ pc \notin UpdateLabels => at[Staged] = NoBundle

\* A version that an installation or an update has taken out of its place, to
\* replace it or to roll back, is never lost, whatever fails or is killed: it is
\* in place, a backup, in a staging directory or in the Trash.  Of what is in
\* place when a rollback begins this is said as long as the user has not acted:
\* it is then the version the rollback is to withdraw and no other; what the
\* user copies there before a rollback is removed with it
\* (lib.rs:1686-1704, 1800-1857, 2615).
Recoverable == aside \cup {at[p] : p \in Paths \ ({"temporary"} \X Pids)}
PreviousSurvives == kept \subseteq Recoverable

\* What an installation or update returns is what it did: a failure that does
\* not speak of the rollback has left everything in place as it was, and
\* success has put a version in place that is not older (lib.rs:1754-1862).
OutcomeIsTrue ==
  pc = "ready" /\ ~disturbed =>
    /\ outcome = "failed" => at[Installed] = before
    /\ outcome = "opened_existing" => at[Installed] = before /\ before >= new
    /\ outcome = "installed" => at[Installed] = new /\ before = NoBundle
    /\ outcome = "updated" => /\ at[Installed] = new
                              /\ before \in Versions /\ before < new

\* Whatever path an installation takes through its errors, it leaves neither a
\* copy nor a backup behind, unless a removal or the rollback failed
\* (lib.rs:1789-1834).
NothingLeftBehind ==
  pc = "ready" /\ ~litter => at[Temporary] = NoBundle /\ at[Backup] = NoBundle

\* An update never leaves a moment, in which it could be killed, without a whole
\* application in place (lib.rs:1651-1679).
UpdateLeavesNoGap ==
  [][~process.image /\ at[Installed] \in Versions =>
       at'[Installed] \in Versions \/ userActs' # userActs]_vars
=============================================================================
