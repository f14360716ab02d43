----------------------------- MODULE Enrollment -----------------------------
(***************************************************************************)
(* osaguard enroll-next (cmd/osaguard/main.go) with WaitForEnrollment      *)
(* (internal/autotype/enroll.go): wait for one new osascript process and   *)
(* one stable authorization dialog, and add a rule for the two to a policy *)
(* file, either a new one or an existing draft.                            *)
(*                                                                         *)
(* Each driver call and each operation on the file is a step.  In between, *)
(* processes start and exit, dialogs come and go, and other programs (an   *)
(* editor, another enroll-next) write or remove the file.                  *)
(***************************************************************************)
EXTENDS Naturals, FiniteSets

CONSTANTS
  Procs,         \* process generations, that is pairs of pid and start time
  Dialogs,       \* what identifies a dialog: SecurityAgent process and context
  Rules,         \* rule names
  Name,          \* the one of this enrollment
  NoProc, NoDialog,
  StableChecks,  \* polls that must agree
  MaxWrites      \* bound: writes of other programs to the file

ASSUME EnrollmentAssumption ==
  /\ NoProc \notin Procs /\ NoDialog \notin Dialogs
  /\ Name \in Rules
  /\ StableChecks \in Nat /\ StableChecks >= 3
  /\ MaxWrites \in Nat

VARIABLES
  unborn, alive,   \* processes not started yet, and running
  dialog, empty,   \* the eligible dialog in front, and whether its field is empty
  mode,            \* "append" to a draft, "output" to a new file, or "print"
  pc,
  listed,          \* the processes of this poll's list
  seen,            \* observedAuthTargets
  candidate,       \* the process that is being observed
  stable, count,   \* the dialog of the last checks, and their number
  file,            \* the file at the path
  writes,          \* files written so far, each with an inode of its own
  loaded,          \* the draft as it was read at the start
  temp,            \* a temporary file of this enrollment exists
  outcome,
  enrolled,        \* what the rule is made of
  last, steady,    \* history: process and dialog of the last poll, and how many
                   \* polls in a row have found just these
  raced,           \* history: another program wrote after the last check
  stuck            \* history: a clean-up could not remove its file

world == <<unborn, alive, dialog, empty>>
observation == <<listed, seen, candidate, stable, count, last, steady>>
policy == <<file, writes, temp, raced, stuck>>
vars == <<world, mode, pc, observation, policy, loaded, outcome, enrolled>>

NoFile == [inode |-> 0, rules |-> {}, whole |-> TRUE, ours |-> FALSE]
File(rules, whole, ours) ==
  [inode |-> writes + 2, rules |-> rules, whole |-> whole, ours |-> ours]
NoRule == <<NoProc, NoDialog>>

Init ==
  /\ alive \in SUBSET Procs /\ unborn = Procs \ alive
  /\ dialog \in Dialogs \cup {NoDialog} /\ empty = TRUE
  /\ mode \in {"append", "output", "print"}
  /\ pc = "load"
  /\ listed = {} /\ seen = {} /\ candidate = NoProc
  /\ stable = NoDialog /\ count = 0
  /\ writes = 0 /\ temp = FALSE /\ raced = FALSE /\ stuck = FALSE
  /\ file = NoFile \/ \E r \in SUBSET Rules : file = [NoFile EXCEPT !.rules = r, !.inode = 1]
  /\ loaded = NoFile
  /\ outcome = "none" /\ enrolled = NoRule
  /\ last = NoRule /\ steady = 0

-----------------------------------------------------------------------------
(* enroll-next, up to the wait *)

Goto(l) == pc' = l /\ UNCHANGED outcome
Ends(r) == pc' = "done" /\ outcome' = r

\* A draft must be readable and without a rule of that name; a new file must not
\* exist yet.  Whatever else fails here ends the command as well.
Load ==
  /\ pc = "load"
  /\ \/ /\ mode = "append" => file # NoFile /\ file.whole /\ Name \notin file.rules
        /\ mode = "output" => file = NoFile
        /\ loaded' = file /\ Goto("first_list")
     \/ Ends("failed") /\ UNCHANGED loaded
  /\ UNCHANGED <<world, mode, observation, policy, enrolled>>

\* ListOsaScripts passes over a process whose path or arguments it cannot read.
Lists == SUBSET alive

\* WaitForEnrollment starts: no process may be listed, and the dialog that is
\* there already is remembered.
FirstList ==
  /\ pc = "first_list"
  /\ \/ {} \in Lists /\ Goto("first_read")
     \/ Ends("failed")
  /\ UNCHANGED <<world, mode, observation, policy, loaded, enrolled>>

FirstRead ==
  /\ pc = "first_read"
  /\ \/ seen' = {dialog} \ {NoDialog} /\ Goto("wait")
     \/ UNCHANGED seen /\ Ends("failed")
  /\ UNCHANGED <<world, mode, listed, candidate, stable, count, last, steady,
                 policy, loaded, enrolled>>

-----------------------------------------------------------------------------
(* WaitForEnrollment: the polls *)

Tick ==
  /\ pc = "wait" /\ Goto("list")
  /\ UNCHANGED <<world, mode, observation, policy, loaded, enrolled>>

\* Mutant: the deadline only ends a wait that has found no process.
TimeoutUnobserved ==
  /\ pc = "wait" /\ candidate = NoProc /\ Ends("failed")
  /\ UNCHANGED <<world, mode, observation, policy, loaded, enrolled>>

\* The select of the loop picks ctx.Done: the deadline or a signal.
Timeout ==
  /\ pc = "wait" /\ Ends("failed")
  /\ UNCHANGED <<world, mode, observation, policy, loaded, enrolled>>

List ==
  /\ pc = "list"
  /\ \/ listed' \in Lists /\ Goto("read")
     \/ UNCHANGED listed /\ Ends("failed")
  /\ UNCHANGED <<world, mode, seen, candidate, stable, count, last, steady,
                 policy, loaded, enrolled>>

Eligible == dialog # NoDialog /\ empty

\* History: what this poll has found.
Observe ==
  LET now == IF Cardinality(listed) = 1 /\ Eligible
             THEN <<CHOOSE p \in listed : TRUE, dialog>> ELSE NoRule
  IN /\ last' = now
     /\ steady' = IF now = NoRule THEN 0 ELSE IF now # last THEN 1
                  ELSE IF steady < StableChecks THEN steady + 1 ELSE steady

\* Mutant: the dialog of the checks before is kept.
StartOverKeepingDialog == UNCHANGED stable /\ count' = 0 /\ Goto("wait")

StartOver == stable' = NoDialog /\ count' = 0 /\ Goto("wait")

\* A snapshot counts if it is of the dialog of the snapshot before.
Count(p, c) ==
  /\ stable' = dialog
  /\ count' = IF c = 0 \/ stable # dialog THEN 1 ELSE c + 1
  /\ Goto(IF count' < StableChecks THEN "wait" ELSE "final_list")

\* Mutant: a snapshot that is not eligible is passed over.
FoundPassingOver(p) ==
  LET c == IF p = candidate THEN count ELSE 0
  IN /\ p # candidate => dialog \notin seen
     /\ candidate' = p
     /\ \/ Eligible /\ Count(p, c)
        \/ ~Eligible /\ UNCHANGED <<stable, count>> /\ Goto("wait")

\* The list holds one process.  A new one is refused beside a dialog that was
\* there before; the checks start over with a new process, and when there is no
\* dialog or something is typed into it.
Found(p) ==
  LET c == IF p = candidate THEN count ELSE 0
  IN /\ p # candidate => dialog \notin seen
     /\ candidate' = p
     /\ \/ Eligible /\ Count(p, c)
        \/ ~Eligible /\ StartOver

\* The snapshot of a poll.  It may fail, or the fingerprint of the process may;
\* two processes are an error too.
Read ==
  /\ pc = "read"
  /\ Observe
  /\ \/ /\ seen' = seen \cup ({dialog} \ {NoDialog})
        /\ \/ listed = {} /\ candidate' = NoProc /\ StartOver
           \/ \E p \in Procs : listed = {p} /\ Found(p)
     \/ UNCHANGED <<seen, candidate, stable, count>> /\ Ends("failed")
  /\ UNCHANGED <<world, mode, listed, policy, loaded, enrolled>>

\* Process, fingerprint and dialog are read once more and must be the same.
FinalList ==
  /\ pc = "final_list"
  /\ \/ {candidate} \in Lists /\ Goto("final_read")
     \/ Ends("failed")
  /\ UNCHANGED <<world, mode, observation, policy, loaded, enrolled>>

FinalRead ==
  /\ pc = "final_read"
  /\ \/ /\ Eligible /\ dialog = stable
        /\ enrolled' = <<candidate, dialog>>
        /\ \/ mode = "append" /\ Goto("recheck")
           \/ mode = "output" /\ Goto("create")
           \/ mode = "print" /\ (Ends("ok") \/ Ends("failed"))
     \/ UNCHANGED enrolled /\ Ends("failed")
  /\ UNCHANGED <<world, mode, observation, policy, loaded>>

-----------------------------------------------------------------------------
(* enroll-next: the file *)

\* Mutant: the draft is not compared with what was read at the start.
RecheckSkipped ==
  /\ pc = "recheck"
  /\ \/ file.whole /\ Goto("write_temp")
     \/ Ends("failed")
  /\ UNCHANGED <<world, mode, observation, policy, loaded, enrolled>>

\* The draft is read again, and must be the same file with the same contents.
Recheck ==
  /\ pc = "recheck"
  /\ \/ file = loaded /\ Goto("write_temp")
     \/ Ends("failed")
  /\ UNCHANGED <<world, mode, observation, policy, loaded, enrolled>>

\* The deferred clean-up of the temporary file, whose error is ignored.
DropTemp ==
  \/ temp' = FALSE /\ UNCHANGED stuck
  \/ temp' = TRUE /\ stuck' = TRUE

\* replaceEnrollmentDraft: a temporary file beside the draft, ...
WriteTemp ==
  /\ pc = "write_temp"
  /\ \/ temp' = TRUE /\ UNCHANGED stuck /\ Goto("rename")
     \/ DropTemp /\ Ends("failed")
  /\ UNCHANGED <<world, mode, observation, file, writes, raced, loaded, enrolled>>

\* ... which then takes its place.  A failure to sync the directory is an error,
\* although the draft has been replaced.
RenameTemp ==
  /\ pc = "rename"
  /\ \/ /\ file' = File(loaded.rules \cup {Name}, TRUE, TRUE)
        /\ writes' = writes + 1
        /\ temp' = FALSE /\ UNCHANGED stuck
        /\ Ends("ok") \/ Ends("failed")
     \/ UNCHANGED <<file, writes>> /\ DropTemp /\ Ends("failed")
  /\ UNCHANGED <<world, mode, observation, raced, loaded, enrolled>>

\* Mutant: the output is opened without O_EXCL.
CreateOver ==
  /\ pc = "create"
  /\ \/ file' = File({}, FALSE, TRUE) /\ writes' = writes + 1 /\ Goto("write")
     \/ UNCHANGED <<file, writes>> /\ Ends("failed")
  /\ UNCHANGED <<world, mode, observation, temp, raced, stuck, loaded, enrolled>>

\* writeEnrollmentPolicy: the file is created, if there is none, ...
Create ==
  /\ pc = "create"
  /\ \/ /\ file = NoFile
        /\ file' = File({}, FALSE, TRUE) /\ writes' = writes + 1
        /\ Goto("write")
     \/ UNCHANGED <<file, writes>> /\ Ends("failed")
  /\ UNCHANGED <<world, mode, observation, temp, raced, stuck, loaded, enrolled>>

\* The whole policy, unless the path leads to another file by now.
WholePolicy ==
  IF file.ours THEN [file EXCEPT !.rules = {Name}, !.whole = TRUE] ELSE file

\* Mutant: a partial file stays.
WriteLeaving ==
  /\ pc = "write"
  /\ \/ file' = WholePolicy /\ Ends("ok")
     \/ UNCHANGED file /\ Ends("failed")
  /\ UNCHANGED <<world, mode, observation, writes, temp, raced, stuck, loaded,
                 enrolled>>

\* ... and written.  When that fails, or the sync after it, what is at the path
\* is removed; the error of the removal is ignored.
Write ==
  /\ pc = "write"
  /\ \/ file' = WholePolicy /\ UNCHANGED stuck /\ Ends("ok")
     \/ file' = NoFile /\ UNCHANGED stuck /\ Ends("failed")
     \/ file' \in {file, WholePolicy} /\ stuck' = TRUE /\ Ends("failed")
  /\ UNCHANGED <<world, mode, observation, writes, temp, raced, loaded, enrolled>>

-----------------------------------------------------------------------------
(* The rest of the world *)

Kill ==
  /\ pc \notin {"done", "dead"} /\ Goto("dead")
  /\ UNCHANGED <<world, mode, observation, policy, loaded, enrolled>>

\* Nobody looks at processes and dialogs before and after the wait.
Watching == pc \in {"first_list", "first_read", "wait", "list", "read",
                    "final_list", "final_read"}

WorldChanges ==
  /\ Watching
  /\ UNCHANGED <<mode, pc, observation, policy, loaded, outcome, enrolled>>

Launch(p) ==
  /\ WorldChanges /\ p \in unborn
  /\ unborn' = unborn \ {p} /\ alive' = alive \cup {p}
  /\ UNCHANGED <<dialog, empty>>

Exit(p) ==
  /\ WorldChanges /\ p \in alive
  /\ alive' = alive \ {p}
  /\ UNCHANGED <<unborn, dialog, empty>>

DialogChanges(d, e) ==
  /\ WorldChanges
  /\ dialog' = d /\ empty' = e
  /\ UNCHANGED <<unborn, alive>>

Overtaking == pc \in {"write_temp", "rename", "write"}

\* An editor, or another enroll-next, replaces the file or removes it.
OthersWrite(r) ==
  /\ writes < MaxWrites
  /\ file' = File(r, TRUE, FALSE) /\ writes' = writes + 1
  /\ raced' = (raced \/ Overtaking)
  /\ UNCHANGED <<world, mode, pc, observation, temp, stuck, loaded, outcome, enrolled>>

OthersRemove ==
  /\ file # NoFile
  /\ file' = NoFile
  /\ raced' = (raced \/ Overtaking)
  /\ UNCHANGED <<world, mode, pc, observation, writes, temp, stuck, loaded, outcome,
                 enrolled>>

-----------------------------------------------------------------------------
Enroll ==
  \/ Load \/ FirstList \/ FirstRead \/ Tick \/ List \/ Read \/ FinalList \/ FinalRead
  \/ Recheck \/ WriteTemp \/ RenameTemp \/ Create \/ Write

Next ==
  \/ Enroll \/ Timeout \/ Kill
  \/ \E p \in Procs : Launch(p) \/ Exit(p)
  \/ \E d \in Dialogs \cup {NoDialog}, e \in BOOLEAN : DialogChanges(d, e)
  \/ \E r \in SUBSET Rules : OthersWrite(r)
  \/ OthersRemove

Spec == Init /\ [][Next]_vars

\* The goroutine runs, and the select picks the expired deadline in the end.
FairSpec == Spec /\ WF_vars(Enroll) /\ SF_vars(Timeout)

-----------------------------------------------------------------------------
(* Properties *)

\* Type invariant.
TypeOK ==
  /\ unborn \subseteq Procs /\ alive \subseteq Procs
  /\ dialog \in Dialogs \cup {NoDialog} /\ empty \in BOOLEAN
  /\ mode \in {"append", "output", "print"}
  /\ pc \in {"load", "first_list", "first_read", "wait", "list", "read",
             "final_list", "final_read", "recheck", "write_temp", "rename",
             "create", "write", "done", "dead"}
  /\ listed \subseteq Procs /\ seen \subseteq Dialogs
  /\ candidate \in Procs \cup {NoProc} /\ stable \in Dialogs \cup {NoDialog}
  /\ count \in 0 .. StableChecks /\ steady \in 0 .. StableChecks
  /\ file \in [inode : 0 .. MaxWrites + 2, rules : SUBSET Rules,
               whole : BOOLEAN, ours : BOOLEAN]
  /\ loaded \in [inode : 0 .. MaxWrites + 2, rules : SUBSET Rules,
                 whole : BOOLEAN, ours : BOOLEAN]
  /\ writes \in 0 .. MaxWrites + 1
  /\ temp \in BOOLEAN /\ raced \in BOOLEAN /\ stuck \in BOOLEAN
  /\ outcome \in {"none", "ok", "failed"}
  /\ (count = 0) <=> (stable = NoDialog)

\* The rule is made of one process and one dialog that the last polls agree on:
\* in as many in a row as demanded, the process was the only one listed and the
\* dialog was in front and empty, whatever came and went between the reads of a
\* poll and of the final check (enroll.go:92-155).
EnrolledIsOneRequest ==
  enrolled # NoRule =>
    /\ enrolled = last
    /\ steady = StableChecks

\* What another program has written to the file while the enrollment waited is
\* never overwritten or removed: only what was read at the start is replaced.
\* Excused are the two windows in which the command no longer looks: between the
\* last check of a draft and the rename, and between the creation of a new file
\* and its clean-up after a failed write, which removes whatever is at the path
\* by then (main.go:335-350, 457-466).
OthersWorkSurvives ==
  [][file.inode # 0 /\ ~file.ours /\ ~raced /\ file # file' /\ pc # pc'
       => file = loaded]_vars

\* A draft is replaced by a whole one with all its rules and the new one, at no
\* moment by less, whatever fails or is killed; a new file is written in place
\* and is whole when the command ends by itself.  Neither a temporary file nor
\* part of a policy is left then, unless the removal of it fails, and in that
\* case the command has not reported success (main.go:413-481).
Complete == file.ours => file.whole /\ file.rules = loaded.rules \cup {Name}
FileIsWhole ==
  /\ mode = "append" => Complete
  /\ pc = "done" /\ (stuck => outcome = "ok") => ~temp /\ Complete

\* The wait is bounded: the command ends (main.go:321-328).
EnrollmentEnds == <>(pc \in {"done", "dead"})
=============================================================================
