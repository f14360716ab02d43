----------------------------- MODULE AppProofs ------------------------------
(***************************************************************************)
(* What App promises for any number of tasks, and with every fault that    *)
(* its constants allow.                                                    *)
(*                                                                         *)
(* Some sixty handlers touch the lifecycle, but a step does one of six     *)
(* things to it: nothing, go on with the operation it belongs to, begin    *)
(* one, end one, commit a shutdown, or end the process.  The lemmas        *)
(* MainMoves and TaskMoves say so, action by action; the invariants are    *)
(* then proved of these six kinds of step.                                 *)
(***************************************************************************)
EXTENDS App, TLAPS

-----------------------------------------------------------------------------
(* The inductive invariant *)

Saved == saved \in [Actors -> Locals]

\* While someone holds the watcher mutex in stop(), the pipe stays closed:
\* without this, joining a worker might leave the pipe of no worker open.
Pipe ==
  /\ control => worker # "none"
  /\ lock # NoOne => ~control

PasswordLabels ==
  {"prompt", "forget_halt", "forget_stop", "forget_set", "forget_delete",
   "forget_unset", "forget_restore"}

UpdateLabels ==
  {"check", "install_check", "download", "still_running",
   "first_dialog_check", "update_halt", "update_stop", "second_dialog_check",
   "replace", "update_restore"}

UninstallLabels ==
  {"plan", "login_off", "uninstall_halt", "uninstall_stop", "stop_undo",
   "stage", "preflight", "preflight_return", "purge_settings", "purge_state",
   "purge_password", "final_trash", "commit", "rollback_bundle",
   "rollback_settings", "rollback_login", "rollback_state",
   "rollback_watcher", "report"}

\* The operation a step belongs to.
OperationOf(label) ==
  IF label \in PasswordLabels THEN "password"
  ELSE IF label \in UpdateLabels THEN "update"
  ELSE IF label \in UninstallLabels THEN "uninstall"
  ELSE "none"

\* Who is within an operation holds its permit, and who is about to leave the
\* process has announced it.
Held ==
  \A a \in Actors :
    /\ OperationOf(pc[a]) # "none" => permit[a] = OperationOf(pc[a])
    /\ pc[a] = "leave" => phase = "exiting"

\* A permit is of the coordinator's operation, and it is the only one.
Alone ==
  \A a \in Actors : permit[a] # "none" =>
    /\ permit[a] = operation
    /\ \A b \in Actors : b # a => permit[b] = "none"

Coordinated == Held /\ Alone /\ ProgressIsOwned

\* A password that an uninstall deleted stays deleted: the uninstall still has
\* its permit, or has left nothing behind that could grant another one.
Deleted ==
  \A a \in Actors :
    /\ saved[a].deleted =>
         /\ ~password
         /\ permit[a] = "uninstall"
              \/ (phase = "exiting" /\ operation = "none")
    /\ pc[a] \in {"final_trash", "commit"} => saved[a].deleted

Typed == Words /\ Flags /\ Saved /\ Pipe

IInv == Typed /\ Coordinated /\ Deleted

-----------------------------------------------------------------------------
(* What a step does to the lifecycle and to the password *)

Progress == {"checking", "downloading", "installing"}

OthersStay(a) == \A b \in Actors : b # a => pc'[b] = pc[b]

NoProgress == status' \in Progress => status \in Progress

Idles == UNCHANGED <<life, pc>> /\ NoProgress

GoesOn(a) ==
  /\ OthersStay(a)
  /\ operation' = operation /\ permit' = permit
  /\ phase' \in {phase, "exiting"}
  /\ OperationOf(pc'[a]) \in {"none", OperationOf(pc[a])}
  /\ pc'[a] = "leave" => phase' = "exiting"
  /\ NoProgress \/ (a \in Tasks /\ OperationOf(pc'[a]) = "update")

Enters(a) ==
  \E op \in Operations :
    /\ OthersStay(a)
    /\ TryBegin(a, op)
    /\ OperationOf(pc'[a]) = op
    /\ NoProgress \/ (a \in Tasks /\ op = "update")

Leaves(a) ==
  /\ OthersStay(a)
  /\ DropPermit(a)
  /\ OperationOf(pc[a]) # "none" \/ pc[a] = "leave"
  /\ pc'[a] = "idle" /\ saved'[a] = NothingSaved
  /\ NoProgress
  /\ OperationOf(pc[a]) = "update" => status' \notin Progress

Commits(a) ==
  /\ OthersStay(a)
  /\ pc[a] = "commit" /\ pc'[a] = "leave"
  /\ CommitShutdown(a)
  /\ NoProgress

Moves(a) == GoesOn(a) \/ Enters(a) \/ Leaves(a) \/ Commits(a)

\* Only the last purge of an uninstall notes a deletion, once the password is
\* gone, and only the password dialog stores a password.
Purges(a) ==
  /\ \A b \in Actors : b # a => saved'[b] = saved[b] /\ pc'[b] = pc[b]
  /\ saved'[a].deleted =>
       saved[a].deleted \/ (pc'[a] = "final_trash" /\ ~password')
  /\ pc'[a] = "final_trash" =>
       saved'[a].deleted \/ (pc[a] = "final_trash" /\ saved'[a] = saved[a])
  /\ pc'[a] = "commit" =>
       pc[a] \in {"final_trash", "commit"} /\ saved'[a] = saved[a]
  /\ password' => password \/ pc[a] = "prompt"

-----------------------------------------------------------------------------
(* The watcher's calls and the locals *)

\* A call of the watcher keeps the pipe and the worker in step.
LEMMA ReapKeepsPipe ==
  ASSUME Pipe, Reap
  PROVE  Pipe'
  BY Zenon DEF Pipe, Reap, Ended

\* Stopping the watcher closes the pipe.
LEMMA HaltKeepsPipe ==
  ASSUME Pipe, NEW a, Halt(a)
  PROVE  Pipe'
  BY Zenon DEF Pipe, Halt

\* The end of stop() joins a worker whose pipe is closed.
LEMMA StopKeepsPipe ==
  ASSUME ActorsAssumption, Pipe,
         NEW a \in Actors, NEW ok \in BOOLEAN, StopReturns(a, ok)
  PROVE  Pipe'
<1>1. a # NoOne
  BY DEF ActorsAssumption, Actors
<1> QED
  BY <1>1, Zenon DEF Pipe, StopReturns, Ended

\* A new worker has a new pipe.
LEMMA StartKeepsPipe ==
  ASSUME Pipe, NEW ok \in BOOLEAN, StartWatcher(ok)
  PROVE  Pipe'
  BY Zenon DEF Pipe, StartWatcher, StartWorker, Ended

\* Every way of remembering keeps the types of the locals.
LEMMA ReturnKeepsLocals ==
  ASSUME NEW a \in Actors, Saved, Return(a)
  PROVE  Saved'
  BY DEF Saved, Return, Locals, NothingSaved, States

\* So does remembering a flag,
LEMMA RemembersFlag ==
  ASSUME NEW a \in Actors, NEW v \in BOOLEAN, Saved,
         NEW field \in {"autostart", "restore", "settings", "deleted"},
         Remembering(a, field, v)
  PROVE  Saved'
  BY DEF Saved, Remembering, Locals

\* a protected state,
LEMMA RemembersProtected ==
  ASSUME NEW a \in Actors, NEW v \in States, Saved,
         Remembering(a, "protected", v)
  PROVE  Saved'
  BY DEF Saved, Remembering, Locals

\* the status of a failure,
LEMMA RemembersCode ==
  ASSUME NEW a \in Actors, NEW v \in {"error", "ready"}, Saved,
         Remembering(a, "code", v)
  PROVE  Saved'
  BY DEF Saved, Remembering, Locals

\* and the plan of an uninstall.
LEMMA RemembersPlan ==
  ASSUME NEW a \in Actors, NEW v \in States, Saved,
         NEW w \in BOOLEAN, NEW x \in BOOLEAN, NEW y \in BOOLEAN,
         saved' = [saved EXCEPT ![a] =
           [@ EXCEPT !.protected = v, !.autostart = w, !.settings = x,
                     !.restore = y]]
  PROVE  Saved'
  BY DEF Saved, Locals

\* What else is remembered does not count as a deletion.
LEMMA Remembered ==
  ASSUME NEW a \in Actors, NEW v, Saved,
         NEW field \in {"protected", "autostart", "restore", "settings",
                        "code"},
         Remembering(a, field, v)
  PROVE  /\ \A b \in Actors : b # a => saved'[b] = saved[b]
         /\ saved'[a].deleted = saved[a].deleted
  BY DEF Saved, Remembering, Locals

\* The deletion itself does.
LEMMA RememberedDeletion ==
  ASSUME NEW a \in Actors, Saved, Remembering(a, "deleted", TRUE)
  PROVE  /\ \A b \in Actors : b # a => saved'[b] = saved[b]
         /\ saved'[a].deleted
  BY DEF Saved, Remembering, Locals

\* Nor does what Resume remembers.
LEMMA RememberedTwo ==
  ASSUME NEW a \in Actors, Saved,
         saved' = [saved EXCEPT ![a].protected = protected,
                                ![a].autostart = autostart]
  PROVE  /\ \A b \in Actors : b # a => saved'[b] = saved[b]
         /\ saved'[a].deleted = saved[a].deleted
  BY DEF Saved, Locals

\* A handler that returns forgets everything.
LEMMA Returned ==
  ASSUME NEW a \in Actors, Saved, Return(a)
  PROVE  /\ \A b \in Actors : b # a => saved'[b] = saved[b]
         /\ saved'[a] = NothingSaved
         /\ ~saved'[a].deleted
  BY DEF Saved, Return, NothingSaved

-----------------------------------------------------------------------------
(* Types, action by action *)

\* The main thread keeps the types of what is not Boolean ...
LEMMA MainKeepsWords ==
  ASSUME ActorsAssumption, Words, Saved, MainStep
  PROVE  Words'
<1> USE DEF ActorsAssumption, Actors, Labels, States, Goto, life, watch,
         keychain, passwords, files, Words, Operations, Statuses, Saved, Locals
<1>1. CASE MainHalt
  BY <1>1 DEF MainHalt, StopCalls, Halt
<1>2. CASE GetStatus
  BY <1>2 DEF GetStatus, Reap
<1>3. CASE Acknowledge
  BY <1>3 DEF Acknowledge, MayToggle
<1>4. CASE RequestEnable
  BY <1>4 DEF RequestEnable, MayToggle
<1>5. ASSUME NEW ok \in BOOLEAN, EnableChecks(ok)
      PROVE  Words'
  BY <1>5 DEF EnableChecks, Branch, Reap
<1>6. ASSUME NEW ok \in BOOLEAN, EnableLogin(ok)
      PROVE  Words'
  BY <1>6 DEF EnableLogin, Branch, Return
<1>7. ASSUME NEW ok \in BOOLEAN, EnableStart(ok)
      PROVE  Words'
  BY <1>7 DEF EnableStart, Branch, StartWatcher, StartWorker, Ended,
      LoginItemUndone, Return
<1>8. CASE EnableSet
  BY <1>8 DEF EnableSet, Reap, Return
<1>9. CASE EnableSetFails
  BY <1>9 DEF EnableSetFails
<1>10. CASE EnableStopped
  BY <1>10 DEF EnableStopped, StopReturns, Ended
<1>11. CASE UndoEnable
  BY <1>11 DEF UndoEnable, LoginItemUndone, Return
<1>12. CASE RequestPause
  BY <1>12 DEF RequestPause, Remembering
<1>13. ASSUME NEW ok \in BOOLEAN, PauseStopped(ok)
      PROVE  Words'
  BY <1>13 DEF PauseStopped, Branch, StopReturns, Ended, Return
<1>14. CASE PauseSet
  BY <1>14 DEF PauseSet, PausedFrom, Reap, Return
<1>15. CASE PauseSetFails
  BY <1>15 DEF PauseSetFails, Restore, StartWatcher, StartWorker, Ended,
      Return
<1>16. CASE ForgetBegin
  BY <1>16 DEF ForgetBegin, TryBegin, Remembering
<1>17. ASSUME NEW ok \in BOOLEAN, ForgetStopped(ok)
      PROVE  Words'
  BY <1>17 DEF ForgetStopped, Branch, StopReturns, Ended, DropPermit, Return
<1>18. ASSUME NEW ok \in BOOLEAN, ForgetSet(ok)
      PROVE  Words'
  BY <1>18 DEF ForgetSet, Branch, PausedFrom
<1>19. CASE ForgetDelete
  BY <1>19 DEF ForgetDelete, Reap, DropPermit, Return
<1>20. CASE ForgetDeleteFails
  BY <1>20 DEF ForgetDeleteFails, DeletionFails
<1>21. CASE ForgetUnset
  BY <1>21 DEF ForgetUnset
<1>22. CASE ForgetRestore
  BY <1>22 DEF ForgetRestore, Restore, StartWatcher, StartWorker, Ended,
      DropPermit, Return
<1>23. CASE Quit
  BY <1>23 DEF Quit, BeginShutdown
<1>24. CASE QuitStopped
  BY <1>24 DEF QuitStopped, StopReturns, Ended
<1>25. CASE ExitRequested
  BY <1>25 DEF ExitRequested, BeginShutdown
<1>26. CASE ExitStopped
  BY <1>26 DEF ExitStopped, StopReturns, Ended
<1>27. CASE ExitEvent
  BY <1>27 DEF ExitEvent, BeginShutdown
<1>28. CASE Exited
  BY <1>28 DEF Exited, ProcessEnds
<1> QED
  BY <1>1, <1>2, <1>3, <1>4, <1>5, <1>6, <1>7, <1>8, <1>9, <1>10, <1>11, <1>12,
     <1>13, <1>14, <1>15, <1>16, <1>17, <1>18, <1>19, <1>20, <1>21, <1>22,
     <1>23, <1>24, <1>25, <1>26, <1>27, <1>28 DEF MainStep

\* ... and so do the tasks.
LEMMA TaskKeepsWords ==
  ASSUME ActorsAssumption, Words, Saved, NEW t \in Tasks, TaskStep(t)
  PROVE  Words'
<1> USE DEF ActorsAssumption, Actors, Labels, States, Goto, life, watch,
         keychain, passwords, files, Words, Operations, Statuses, Saved, Locals
<1>1. CASE StoreBegin(t)
  BY <1>1 DEF StoreBegin, Begins, TryBegin, MayBegin
<1>2. CASE StoreEnds(t)
  BY <1>2 DEF StoreEnds, End, DropPermit, Return, Reap
<1>3. CASE CheckBegin(t)
  BY <1>3 DEF CheckBegin, Begins, TryBegin, MayBegin, SetStatus, Reap
<1>4. ASSUME NEW s \in Statuses, CheckEnds(t, s)
      PROVE  Words'
  BY <1>4 DEF CheckEnds, End, DropPermit, Return, SetStatus, Reap
<1>5. CASE InstallRefused(t)
  BY <1>5 DEF InstallRefused, Resting, Busy, SetStatus, Reap
<1>6. CASE InstallBegin(t)
  BY <1>6 DEF InstallBegin, Begins, TryBegin, MayBegin, SetStatus, Reap
<1>7. CASE InstallChecked(t)
  BY <1>7 DEF InstallChecked, InstallGoesOn, InstallEnds, End, DropPermit,
      Return, SetStatus, Reap
<1>8. CASE Downloaded(t)
  BY <1>8 DEF Downloaded, InstallGoesOn, InstallEnds, End, DropPermit, Return,
      SetStatus, Reap
<1>9. CASE StillRunning(t)
  BY <1>9 DEF StillRunning, InstallEnds, End, DropPermit, Return, SetStatus,
      Reap
<1>10. CASE FirstDialogCheck(t)
  BY <1>10 DEF FirstDialogCheck, InstallEnds, End, DropPermit, Return,
      SetStatus, Reap, Remembering
<1>11. CASE UpdateHalt(t)
  BY <1>11 DEF UpdateHalt, Halt
<1>12. ASSUME NEW ok \in BOOLEAN, UpdateStopped(t, ok)
      PROVE  Words'
  BY <1>12 DEF UpdateStopped, Branch, StopReturns, Ended, Remembering
<1>13. CASE SecondDialogCheck(t)
  BY <1>13 DEF SecondDialogCheck, InstallGoesOn, SetStatus, Reap, Remembering
<1>14. CASE Replaced(t)
  BY <1>14 DEF Replaced, BeginShutdown
<1>15. CASE ReplaceFails(t)
  BY <1>15 DEF ReplaceFails, Remembering
<1>16. CASE UpdateRestore(t)
  BY <1>16 DEF UpdateRestore, End, DropPermit, Return, Reap, StartWatcher,
      StartWorker, Ended
<1>17. CASE Leave(t)
  BY <1>17 DEF Leave, End, DropPermit, Return
<1>18. CASE UninstallBegin(t)
  BY <1>18 DEF UninstallBegin, Begins, TryBegin, MayBegin
<1>19. CASE Plan(t)
  BY <1>19 DEF Plan, Reap
<1>20. CASE UninstallRefused(t)
  BY <1>20 DEF UninstallRefused, End, DropPermit, Return
<1>21. CASE LoginOff(t)
  BY <1>21 DEF LoginOff
<1>22. CASE UninstallHalt(t)
  BY <1>22 DEF UninstallHalt, Halt
<1>23. ASSUME NEW ok \in BOOLEAN, UninstallStopped(t, ok)
      PROVE  Words'
  BY <1>23 DEF UninstallStopped, Branch, StopReturns, Ended
<1>24. CASE UninstallStopUndo(t)
  BY <1>24 DEF UninstallStopUndo, End, DropPermit, Return, Restore,
      StartWatcher, StartWorker, Ended
<1>25. CASE StageSettings(t)
  BY <1>25 DEF StageSettings, Transacts
<1>26. CASE Preflight(t)
  BY <1>26 DEF Preflight, Transacts
<1>27. CASE PreflightReturn(t)
  BY <1>27 DEF PreflightReturn, Transacts
<1>28. CASE PurgeSettings(t)
  BY <1>28 DEF PurgeSettings, Transacts
<1>29. CASE PurgeState(t)
  BY <1>29 DEF PurgeState, Transacts
<1>30. CASE PurgePassword(t)
  BY <1>30 DEF PurgePassword, Transacts, Remembering
<1>31. CASE FinalTrash(t)
  BY <1>31 DEF FinalTrash, Transacts
<1>32. CASE TransactionFails(t)
  BY <1>32 DEF TransactionFails, Transacts, DeletionFails
<1>33. CASE RollbackBundle(t)
  BY <1>33 DEF RollbackBundle, Transacts
<1>34. CASE RollbackSettings(t)
  BY <1>34 DEF RollbackSettings, Transacts
<1>35. CASE RollbackLogin(t)
  BY <1>35 DEF RollbackLogin
<1>36. CASE RollbackState(t)
  BY <1>36 DEF RollbackState, Transacts
<1>37. CASE RollbackWatcher(t)
  BY <1>37 DEF RollbackWatcher, Restore, StartWatcher, StartWorker, Ended
<1>38. CASE Report(t)
  BY <1>38 DEF Report, End, DropPermit, Return
<1>39. CASE Commit(t)
  BY <1>39 DEF Commit, CommitShutdown
<1> QED
  BY <1>1, <1>2, <1>3, <1>4, <1>5, <1>6, <1>7, <1>8, <1>9, <1>10, <1>11, <1>12,
     <1>13, <1>14, <1>15, <1>16, <1>17, <1>18, <1>19, <1>20, <1>21, <1>22,
     <1>23, <1>24, <1>25, <1>26, <1>27, <1>28, <1>29, <1>30, <1>31, <1>32,
     <1>33, <1>34, <1>35, <1>36, <1>37, <1>38, <1>39 DEF TaskStep

\* The Booleans.
LEMMA MainKeepsFlags ==
  ASSUME ActorsAssumption, Flags, MainStep
  PROVE  Flags'
<1> USE DEF ActorsAssumption, Actors, Goto, life, watch, keychain, passwords,
         files, Flags
<1>1. CASE MainHalt
  BY <1>1 DEF MainHalt, StopCalls, Halt
<1>2. CASE GetStatus
  BY <1>2 DEF GetStatus, Reap
<1>3. CASE Acknowledge
  BY <1>3 DEF Acknowledge, MayToggle
<1>4. CASE RequestEnable
  BY <1>4 DEF RequestEnable, MayToggle
<1>5. ASSUME NEW ok \in BOOLEAN, EnableChecks(ok)
      PROVE  Flags'
  BY <1>5 DEF EnableChecks, Branch, Reap
<1>6. ASSUME NEW ok \in BOOLEAN, EnableLogin(ok)
      PROVE  Flags'
  BY <1>6 DEF EnableLogin, Branch, Return
<1>7. ASSUME NEW ok \in BOOLEAN, EnableStart(ok)
      PROVE  Flags'
  BY <1>7 DEF EnableStart, Branch, StartWatcher, StartWorker, Ended,
      LoginItemUndone, Return
<1>8. CASE EnableSet
  BY <1>8 DEF EnableSet, Reap, Return
<1>9. CASE EnableSetFails
  BY <1>9 DEF EnableSetFails
<1>10. CASE EnableStopped
  BY <1>10 DEF EnableStopped, StopReturns, Ended
<1>11. CASE UndoEnable
  BY <1>11 DEF UndoEnable, LoginItemUndone, Return
<1>12. CASE RequestPause
  BY <1>12 DEF RequestPause, Remembering
<1>13. ASSUME NEW ok \in BOOLEAN, PauseStopped(ok)
      PROVE  Flags'
  BY <1>13 DEF PauseStopped, Branch, StopReturns, Ended, Return
<1>14. CASE PauseSet
  BY <1>14 DEF PauseSet, PausedFrom, Reap, Return
<1>15. CASE PauseSetFails
  BY <1>15 DEF PauseSetFails, Restore, StartWatcher, StartWorker, Ended,
      Return
<1>16. CASE ForgetBegin
  BY <1>16 DEF ForgetBegin, TryBegin, Remembering
<1>17. ASSUME NEW ok \in BOOLEAN, ForgetStopped(ok)
      PROVE  Flags'
  BY <1>17 DEF ForgetStopped, Branch, StopReturns, Ended, DropPermit, Return
<1>18. ASSUME NEW ok \in BOOLEAN, ForgetSet(ok)
      PROVE  Flags'
  BY <1>18 DEF ForgetSet, Branch, PausedFrom
<1>19. CASE ForgetDelete
  BY <1>19 DEF ForgetDelete, Reap, DropPermit, Return
<1>20. CASE ForgetDeleteFails
  BY <1>20 DEF ForgetDeleteFails, DeletionFails
<1>21. CASE ForgetUnset
  BY <1>21 DEF ForgetUnset
<1>22. CASE ForgetRestore
  BY <1>22 DEF ForgetRestore, Restore, StartWatcher, StartWorker, Ended,
      DropPermit, Return
<1>23. CASE Quit
  BY <1>23 DEF Quit, BeginShutdown
<1>24. CASE QuitStopped
  BY <1>24 DEF QuitStopped, StopReturns, Ended
<1>25. CASE ExitRequested
  BY <1>25 DEF ExitRequested, BeginShutdown
<1>26. CASE ExitStopped
  BY <1>26 DEF ExitStopped, StopReturns, Ended
<1>27. CASE ExitEvent
  BY <1>27 DEF ExitEvent, BeginShutdown
<1>28. CASE Exited
  BY <1>28 DEF Exited, ProcessEnds
<1> QED
  BY <1>1, <1>2, <1>3, <1>4, <1>5, <1>6, <1>7, <1>8, <1>9, <1>10, <1>11, <1>12,
     <1>13, <1>14, <1>15, <1>16, <1>17, <1>18, <1>19, <1>20, <1>21, <1>22,
     <1>23, <1>24, <1>25, <1>26, <1>27, <1>28 DEF MainStep

\* The same of the tasks.
LEMMA TaskKeepsFlags ==
  ASSUME ActorsAssumption, Flags, NEW t \in Tasks, TaskStep(t)
  PROVE  Flags'
<1> USE DEF ActorsAssumption, Actors, Goto, life, watch, keychain, passwords,
         files, Flags
<1>1. CASE StoreBegin(t)
  BY <1>1 DEF StoreBegin, Begins, TryBegin, MayBegin
<1>2. CASE StoreEnds(t)
  BY <1>2 DEF StoreEnds, End, DropPermit, Return, Reap
<1>3. CASE CheckBegin(t)
  BY <1>3 DEF CheckBegin, Begins, TryBegin, MayBegin, SetStatus, Reap
<1>4. ASSUME NEW s \in Statuses, CheckEnds(t, s)
      PROVE  Flags'
  BY <1>4 DEF CheckEnds, End, DropPermit, Return, SetStatus, Reap
<1>5. CASE InstallRefused(t)
  BY <1>5 DEF InstallRefused, Resting, Busy, SetStatus, Reap
<1>6. CASE InstallBegin(t)
  BY <1>6 DEF InstallBegin, Begins, TryBegin, MayBegin, SetStatus, Reap
<1>7. CASE InstallChecked(t)
  BY <1>7 DEF InstallChecked, InstallGoesOn, InstallEnds, End, DropPermit,
      Return, SetStatus, Reap
<1>8. CASE Downloaded(t)
  BY <1>8 DEF Downloaded, InstallGoesOn, InstallEnds, End, DropPermit, Return,
      SetStatus, Reap
<1>9. CASE StillRunning(t)
  BY <1>9 DEF StillRunning, InstallEnds, End, DropPermit, Return, SetStatus,
      Reap
<1>10. CASE FirstDialogCheck(t)
  BY <1>10 DEF FirstDialogCheck, InstallEnds, End, DropPermit, Return,
      SetStatus, Reap, Remembering
<1>11. CASE UpdateHalt(t)
  BY <1>11 DEF UpdateHalt, Halt
<1>12. ASSUME NEW ok \in BOOLEAN, UpdateStopped(t, ok)
      PROVE  Flags'
  BY <1>12 DEF UpdateStopped, Branch, StopReturns, Ended, Remembering
<1>13. CASE SecondDialogCheck(t)
  BY <1>13 DEF SecondDialogCheck, InstallGoesOn, SetStatus, Reap, Remembering
<1>14. CASE Replaced(t)
  BY <1>14 DEF Replaced, BeginShutdown
<1>15. CASE ReplaceFails(t)
  BY <1>15 DEF ReplaceFails, Remembering
<1>16. CASE UpdateRestore(t)
  BY <1>16 DEF UpdateRestore, End, DropPermit, Return, Reap, StartWatcher,
      StartWorker, Ended
<1>17. CASE Leave(t)
  BY <1>17 DEF Leave, End, DropPermit, Return
<1>18. CASE UninstallBegin(t)
  BY <1>18 DEF UninstallBegin, Begins, TryBegin, MayBegin
<1>19. CASE Plan(t)
  BY <1>19 DEF Plan, Reap
<1>20. CASE UninstallRefused(t)
  BY <1>20 DEF UninstallRefused, End, DropPermit, Return
<1>21. CASE LoginOff(t)
  BY <1>21 DEF LoginOff
<1>22. CASE UninstallHalt(t)
  BY <1>22 DEF UninstallHalt, Halt
<1>23. ASSUME NEW ok \in BOOLEAN, UninstallStopped(t, ok)
      PROVE  Flags'
  BY <1>23 DEF UninstallStopped, Branch, StopReturns, Ended
<1>24. CASE UninstallStopUndo(t)
  BY <1>24 DEF UninstallStopUndo, End, DropPermit, Return, Restore,
      StartWatcher, StartWorker, Ended
<1>25. CASE StageSettings(t)
  BY <1>25 DEF StageSettings, Transacts
<1>26. CASE Preflight(t)
  BY <1>26 DEF Preflight, Transacts
<1>27. CASE PreflightReturn(t)
  BY <1>27 DEF PreflightReturn, Transacts
<1>28. CASE PurgeSettings(t)
  BY <1>28 DEF PurgeSettings, Transacts
<1>29. CASE PurgeState(t)
  BY <1>29 DEF PurgeState, Transacts
<1>30. CASE PurgePassword(t)
  BY <1>30 DEF PurgePassword, Transacts, Remembering
<1>31. CASE FinalTrash(t)
  BY <1>31 DEF FinalTrash, Transacts
<1>32. CASE TransactionFails(t)
  BY <1>32 DEF TransactionFails, Transacts, DeletionFails
<1>33. CASE RollbackBundle(t)
  BY <1>33 DEF RollbackBundle, Transacts
<1>34. CASE RollbackSettings(t)
  BY <1>34 DEF RollbackSettings, Transacts
<1>35. CASE RollbackLogin(t)
  BY <1>35 DEF RollbackLogin
<1>36. CASE RollbackState(t)
  BY <1>36 DEF RollbackState, Transacts
<1>37. CASE RollbackWatcher(t)
  BY <1>37 DEF RollbackWatcher, Restore, StartWatcher, StartWorker, Ended
<1>38. CASE Report(t)
  BY <1>38 DEF Report, End, DropPermit, Return
<1>39. CASE Commit(t)
  BY <1>39 DEF Commit, CommitShutdown
<1> QED
  BY <1>1, <1>2, <1>3, <1>4, <1>5, <1>6, <1>7, <1>8, <1>9, <1>10, <1>11, <1>12,
     <1>13, <1>14, <1>15, <1>16, <1>17, <1>18, <1>19, <1>20, <1>21, <1>22,
     <1>23, <1>24, <1>25, <1>26, <1>27, <1>28, <1>29, <1>30, <1>31, <1>32,
     <1>33, <1>34, <1>35, <1>36, <1>37, <1>38, <1>39 DEF TaskStep

\* The pipe and the worker.
LEMMA MainKeepsPipe ==
  ASSUME ActorsAssumption, Pipe, MainStep
  PROVE  Pipe'
<1> USE DEF ActorsAssumption, Actors, Goto, life, watch, keychain, passwords,
         files, Pipe
<1>1. CASE MainHalt
  BY <1>1, HaltKeepsPipe DEF MainHalt, StopCalls
<1>2. CASE GetStatus
  BY <1>2, ReapKeepsPipe DEF GetStatus
<1>3. CASE Acknowledge
  BY <1>3 DEF Acknowledge, MayToggle
<1>4. CASE RequestEnable
  BY <1>4 DEF RequestEnable, MayToggle
<1>5. ASSUME NEW ok \in BOOLEAN, EnableChecks(ok)
      PROVE  Pipe'
  BY <1>5, ReapKeepsPipe DEF EnableChecks, Branch
<1>6. ASSUME NEW ok \in BOOLEAN, EnableLogin(ok)
      PROVE  Pipe'
  BY <1>6 DEF EnableLogin, Branch, Return
<1>7. ASSUME NEW ok \in BOOLEAN, EnableStart(ok)
      PROVE  Pipe'
  BY <1>7, StartKeepsPipe DEF EnableStart, Branch, LoginItemUndone, Return
<1>8. CASE EnableSet
  BY <1>8, ReapKeepsPipe DEF EnableSet, Return
<1>9. CASE EnableSetFails
  BY <1>9 DEF EnableSetFails
<1>10. CASE EnableStopped
  BY <1>10, StopKeepsPipe DEF EnableStopped
<1>11. CASE UndoEnable
  BY <1>11 DEF UndoEnable, LoginItemUndone, Return
<1>12. CASE RequestPause
  BY <1>12 DEF RequestPause, Remembering
<1>13. ASSUME NEW ok \in BOOLEAN, PauseStopped(ok)
      PROVE  Pipe'
  BY <1>13, StopKeepsPipe DEF PauseStopped, Branch, Return
<1>14. CASE PauseSet
  BY <1>14, ReapKeepsPipe DEF PauseSet, PausedFrom, Return
<1>15. CASE PauseSetFails
  BY <1>15, StartKeepsPipe DEF PauseSetFails, Restore, Return
<1>16. CASE ForgetBegin
  BY <1>16 DEF ForgetBegin, TryBegin, Remembering
<1>17. ASSUME NEW ok \in BOOLEAN, ForgetStopped(ok)
      PROVE  Pipe'
  BY <1>17, StopKeepsPipe DEF ForgetStopped, Branch, DropPermit, Return
<1>18. ASSUME NEW ok \in BOOLEAN, ForgetSet(ok)
      PROVE  Pipe'
  BY <1>18 DEF ForgetSet, Branch, PausedFrom
<1>19. CASE ForgetDelete
  BY <1>19, ReapKeepsPipe DEF ForgetDelete, DropPermit, Return
<1>20. CASE ForgetDeleteFails
  BY <1>20 DEF ForgetDeleteFails, DeletionFails
<1>21. CASE ForgetUnset
  BY <1>21 DEF ForgetUnset
<1>22. CASE ForgetRestore
  BY <1>22, StartKeepsPipe DEF ForgetRestore, Restore, DropPermit, Return
<1>23. CASE Quit
  BY <1>23 DEF Quit, BeginShutdown
<1>24. CASE QuitStopped
  BY <1>24, StopKeepsPipe DEF QuitStopped
<1>25. CASE ExitRequested
  BY <1>25 DEF ExitRequested, BeginShutdown
<1>26. CASE ExitStopped
  BY <1>26, StopKeepsPipe DEF ExitStopped
<1>27. CASE ExitEvent
  BY <1>27 DEF ExitEvent, BeginShutdown
<1>28. CASE Exited
  BY <1>28 DEF Exited, ProcessEnds
<1> QED
  BY <1>1, <1>2, <1>3, <1>4, <1>5, <1>6, <1>7, <1>8, <1>9, <1>10, <1>11, <1>12,
     <1>13, <1>14, <1>15, <1>16, <1>17, <1>18, <1>19, <1>20, <1>21, <1>22,
     <1>23, <1>24, <1>25, <1>26, <1>27, <1>28 DEF MainStep

\* The same of the tasks.
LEMMA TaskKeepsPipe ==
  ASSUME ActorsAssumption, Pipe, NEW t \in Tasks, TaskStep(t)
  PROVE  Pipe'
<1> USE DEF ActorsAssumption, Actors, Goto, life, watch, keychain, passwords,
         files, Pipe
<1>1. CASE StoreBegin(t)
  BY <1>1 DEF StoreBegin, Begins, TryBegin, MayBegin
<1>2. CASE StoreEnds(t)
  BY <1>2, ReapKeepsPipe DEF StoreEnds, End, DropPermit, Return
<1>3. CASE CheckBegin(t)
  BY <1>3, ReapKeepsPipe DEF CheckBegin, Begins, TryBegin, MayBegin, SetStatus
<1>4. ASSUME NEW s \in Statuses, CheckEnds(t, s)
      PROVE  Pipe'
  BY <1>4, ReapKeepsPipe DEF CheckEnds, End, DropPermit, Return, SetStatus
<1>5. CASE InstallRefused(t)
  BY <1>5, ReapKeepsPipe DEF InstallRefused, Resting, Busy, SetStatus
<1>6. CASE InstallBegin(t)
  BY <1>6, ReapKeepsPipe DEF InstallBegin, Begins, TryBegin, MayBegin,
      SetStatus
<1>7. CASE InstallChecked(t)
  BY <1>7, ReapKeepsPipe DEF InstallChecked, InstallGoesOn, InstallEnds, End,
      DropPermit, Return, SetStatus
<1>8. CASE Downloaded(t)
  BY <1>8, ReapKeepsPipe DEF Downloaded, InstallGoesOn, InstallEnds, End,
      DropPermit, Return, SetStatus
<1>9. CASE StillRunning(t)
  BY <1>9, ReapKeepsPipe DEF StillRunning, InstallEnds, End, DropPermit,
      Return, SetStatus
<1>10. CASE FirstDialogCheck(t)
  BY <1>10, ReapKeepsPipe DEF FirstDialogCheck, InstallEnds, End, DropPermit,
      Return, SetStatus, Remembering
<1>11. CASE UpdateHalt(t)
  BY <1>11, HaltKeepsPipe DEF UpdateHalt
<1>12. ASSUME NEW ok \in BOOLEAN, UpdateStopped(t, ok)
      PROVE  Pipe'
  BY <1>12, StopKeepsPipe DEF UpdateStopped, Branch, Remembering
<1>13. CASE SecondDialogCheck(t)
  BY <1>13, ReapKeepsPipe DEF SecondDialogCheck, InstallGoesOn, SetStatus,
      Remembering
<1>14. CASE Replaced(t)
  BY <1>14 DEF Replaced, BeginShutdown
<1>15. CASE ReplaceFails(t)
  BY <1>15 DEF ReplaceFails, Remembering
<1>16. CASE UpdateRestore(t)
  BY <1>16, ReapKeepsPipe, StartKeepsPipe DEF UpdateRestore, End, DropPermit,
      Return
<1>17. CASE Leave(t)
  BY <1>17 DEF Leave, End, DropPermit, Return
<1>18. CASE UninstallBegin(t)
  BY <1>18 DEF UninstallBegin, Begins, TryBegin, MayBegin
<1>19. CASE Plan(t)
  BY <1>19, ReapKeepsPipe DEF Plan
<1>20. CASE UninstallRefused(t)
  BY <1>20 DEF UninstallRefused, End, DropPermit, Return
<1>21. CASE LoginOff(t)
  BY <1>21 DEF LoginOff
<1>22. CASE UninstallHalt(t)
  BY <1>22, HaltKeepsPipe DEF UninstallHalt
<1>23. ASSUME NEW ok \in BOOLEAN, UninstallStopped(t, ok)
      PROVE  Pipe'
  BY <1>23, StopKeepsPipe DEF UninstallStopped, Branch
<1>24. CASE UninstallStopUndo(t)
  BY <1>24, StartKeepsPipe DEF UninstallStopUndo, End, DropPermit, Return,
      Restore
<1>25. CASE StageSettings(t)
  BY <1>25 DEF StageSettings, Transacts
<1>26. CASE Preflight(t)
  BY <1>26 DEF Preflight, Transacts
<1>27. CASE PreflightReturn(t)
  BY <1>27 DEF PreflightReturn, Transacts
<1>28. CASE PurgeSettings(t)
  BY <1>28 DEF PurgeSettings, Transacts
<1>29. CASE PurgeState(t)
  BY <1>29 DEF PurgeState, Transacts
<1>30. CASE PurgePassword(t)
  BY <1>30 DEF PurgePassword, Transacts, Remembering
<1>31. CASE FinalTrash(t)
  BY <1>31 DEF FinalTrash, Transacts
<1>32. CASE TransactionFails(t)
  BY <1>32 DEF TransactionFails, Transacts, DeletionFails
<1>33. CASE RollbackBundle(t)
  BY <1>33 DEF RollbackBundle, Transacts
<1>34. CASE RollbackSettings(t)
  BY <1>34 DEF RollbackSettings, Transacts
<1>35. CASE RollbackLogin(t)
  BY <1>35 DEF RollbackLogin
<1>36. CASE RollbackState(t)
  BY <1>36 DEF RollbackState, Transacts
<1>37. CASE RollbackWatcher(t)
  BY <1>37, StartKeepsPipe DEF RollbackWatcher, Restore
<1>38. CASE Report(t)
  BY <1>38 DEF Report, End, DropPermit, Return
<1>39. CASE Commit(t)
  BY <1>39 DEF Commit, CommitShutdown
<1> QED
  BY <1>1, <1>2, <1>3, <1>4, <1>5, <1>6, <1>7, <1>8, <1>9, <1>10, <1>11, <1>12,
     <1>13, <1>14, <1>15, <1>16, <1>17, <1>18, <1>19, <1>20, <1>21, <1>22,
     <1>23, <1>24, <1>25, <1>26, <1>27, <1>28, <1>29, <1>30, <1>31, <1>32,
     <1>33, <1>34, <1>35, <1>36, <1>37, <1>38, <1>39 DEF TaskStep

\* What each actor remembers.
LEMMA MainKeepsLocals ==
  ASSUME ActorsAssumption, Words, Flags, Saved, MainStep
  PROVE  Saved'
<1> USE DEF ActorsAssumption, Actors, States, Goto, life, watch, keychain,
         passwords, files, Words, Flags, Saved
<1>1. CASE MainHalt
  BY <1>1 DEF MainHalt, StopCalls, Halt
<1>2. CASE GetStatus
  BY <1>2 DEF GetStatus, Reap
<1>3. CASE Acknowledge
  BY <1>3 DEF Acknowledge, MayToggle
<1>4. CASE RequestEnable
  BY <1>4 DEF RequestEnable, MayToggle
<1>5. ASSUME NEW ok \in BOOLEAN, EnableChecks(ok)
      PROVE  Saved'
  BY <1>5 DEF EnableChecks, Branch, Reap, Locals
<1>6. ASSUME NEW ok \in BOOLEAN, EnableLogin(ok)
      PROVE  Saved'
  BY <1>6, ReturnKeepsLocals DEF EnableLogin, Branch
<1>7. ASSUME NEW ok \in BOOLEAN, EnableStart(ok)
      PROVE  Saved'
  BY <1>7, ReturnKeepsLocals DEF EnableStart, Branch, StartWatcher,
      StartWorker, Ended, LoginItemUndone
<1>8. CASE EnableSet
  BY <1>8, ReturnKeepsLocals DEF EnableSet, Reap
<1>9. CASE EnableSetFails
  BY <1>9 DEF EnableSetFails
<1>10. CASE EnableStopped
  BY <1>10 DEF EnableStopped, StopReturns, Ended
<1>11. CASE UndoEnable
  BY <1>11, ReturnKeepsLocals DEF UndoEnable, LoginItemUndone
<1>12. CASE RequestPause
  BY <1>12, RemembersFlag, RemembersProtected, RemembersCode DEF RequestPause
<1>13. ASSUME NEW ok \in BOOLEAN, PauseStopped(ok)
      PROVE  Saved'
  BY <1>13, ReturnKeepsLocals DEF PauseStopped, Branch, StopReturns, Ended
<1>14. CASE PauseSet
  BY <1>14, ReturnKeepsLocals DEF PauseSet, PausedFrom, Reap
<1>15. CASE PauseSetFails
  BY <1>15, ReturnKeepsLocals DEF PauseSetFails, Restore, StartWatcher,
      StartWorker, Ended
<1>16. CASE ForgetBegin
  BY <1>16, RemembersFlag, RemembersProtected, RemembersCode DEF ForgetBegin,
      TryBegin
<1>17. ASSUME NEW ok \in BOOLEAN, ForgetStopped(ok)
      PROVE  Saved'
  BY <1>17, ReturnKeepsLocals DEF ForgetStopped, Branch, StopReturns, Ended,
      DropPermit
<1>18. ASSUME NEW ok \in BOOLEAN, ForgetSet(ok)
      PROVE  Saved'
  BY <1>18 DEF ForgetSet, Branch, PausedFrom
<1>19. CASE ForgetDelete
  BY <1>19, ReturnKeepsLocals DEF ForgetDelete, Reap, DropPermit
<1>20. CASE ForgetDeleteFails
  BY <1>20 DEF ForgetDeleteFails, DeletionFails
<1>21. CASE ForgetUnset
  BY <1>21 DEF ForgetUnset
<1>22. CASE ForgetRestore
  BY <1>22, ReturnKeepsLocals DEF ForgetRestore, Restore, StartWatcher,
      StartWorker, Ended, DropPermit
<1>23. CASE Quit
  BY <1>23 DEF Quit, BeginShutdown
<1>24. CASE QuitStopped
  BY <1>24 DEF QuitStopped, StopReturns, Ended
<1>25. CASE ExitRequested
  BY <1>25 DEF ExitRequested, BeginShutdown
<1>26. CASE ExitStopped
  BY <1>26 DEF ExitStopped, StopReturns, Ended
<1>27. CASE ExitEvent
  BY <1>27 DEF ExitEvent, BeginShutdown
<1>28. CASE Exited
  BY <1>28 DEF Exited, ProcessEnds, Locals, NothingSaved
<1> QED
  BY <1>1, <1>2, <1>3, <1>4, <1>5, <1>6, <1>7, <1>8, <1>9, <1>10, <1>11, <1>12,
     <1>13, <1>14, <1>15, <1>16, <1>17, <1>18, <1>19, <1>20, <1>21, <1>22,
     <1>23, <1>24, <1>25, <1>26, <1>27, <1>28 DEF MainStep

\* The same of the tasks.
LEMMA TaskKeepsLocals ==
  ASSUME ActorsAssumption, Words, Flags, Saved, NEW t \in Tasks, TaskStep(t)
  PROVE  Saved'
<1> USE DEF ActorsAssumption, Actors, States, Goto, life, watch, keychain,
         passwords, files, Words, Flags, Saved
<1>1. CASE StoreBegin(t)
  BY <1>1 DEF StoreBegin, Begins, TryBegin, MayBegin
<1>2. CASE StoreEnds(t)
  BY <1>2, ReturnKeepsLocals DEF StoreEnds, End, DropPermit, Reap
<1>3. CASE CheckBegin(t)
  BY <1>3 DEF CheckBegin, Begins, TryBegin, MayBegin, SetStatus, Reap
<1>4. ASSUME NEW s \in Statuses, CheckEnds(t, s)
      PROVE  Saved'
  BY <1>4, ReturnKeepsLocals DEF CheckEnds, End, DropPermit, SetStatus, Reap
<1>5. CASE InstallRefused(t)
  BY <1>5 DEF InstallRefused, Resting, Busy, SetStatus, Reap
<1>6. CASE InstallBegin(t)
  BY <1>6 DEF InstallBegin, Begins, TryBegin, MayBegin, SetStatus, Reap
<1>7. CASE InstallChecked(t)
  BY <1>7, ReturnKeepsLocals DEF InstallChecked, InstallGoesOn, InstallEnds,
      End, DropPermit, SetStatus, Reap
<1>8. CASE Downloaded(t)
  BY <1>8, ReturnKeepsLocals DEF Downloaded, InstallGoesOn, InstallEnds, End,
      DropPermit, SetStatus, Reap
<1>9. CASE StillRunning(t)
  BY <1>9, ReturnKeepsLocals DEF StillRunning, InstallEnds, End, DropPermit,
      SetStatus, Reap
<1>10. CASE FirstDialogCheck(t)
  BY <1>10, ReturnKeepsLocals, RemembersFlag, RemembersProtected, RemembersCode DEF 
      FirstDialogCheck, InstallEnds, End, DropPermit, SetStatus, Reap
<1>11. CASE UpdateHalt(t)
  BY <1>11 DEF UpdateHalt, Halt
<1>12. ASSUME NEW ok \in BOOLEAN, UpdateStopped(t, ok)
      PROVE  Saved'
  BY <1>12, RemembersFlag, RemembersProtected, RemembersCode DEF UpdateStopped,
      Branch, StopReturns, Ended
<1>13. CASE SecondDialogCheck(t)
  BY <1>13, RemembersFlag, RemembersProtected, RemembersCode DEF 
      SecondDialogCheck, InstallGoesOn, SetStatus, Reap
<1>14. CASE Replaced(t)
  BY <1>14 DEF Replaced, BeginShutdown
<1>15. CASE ReplaceFails(t)
  BY <1>15, RemembersFlag, RemembersProtected, RemembersCode DEF ReplaceFails
<1>16. CASE UpdateRestore(t)
  BY <1>16, ReturnKeepsLocals DEF UpdateRestore, End, DropPermit, Reap,
      StartWatcher, StartWorker, Ended
<1>17. CASE Leave(t)
  BY <1>17, ReturnKeepsLocals DEF Leave, End, DropPermit
<1>18. CASE UninstallBegin(t)
  BY <1>18 DEF UninstallBegin, Begins, TryBegin, MayBegin
<1>19. CASE Plan(t)
  <2>1. (worker = "live" \/ protected = "enabled") \in BOOLEAN
    OBVIOUS
  <2> QED
    BY <1>19, <2>1, RemembersPlan DEF Plan
<1>20. CASE UninstallRefused(t)
  BY <1>20, ReturnKeepsLocals DEF UninstallRefused, End, DropPermit
<1>21. CASE LoginOff(t)
  BY <1>21 DEF LoginOff
<1>22. CASE UninstallHalt(t)
  BY <1>22 DEF UninstallHalt, Halt
<1>23. ASSUME NEW ok \in BOOLEAN, UninstallStopped(t, ok)
      PROVE  Saved'
  BY <1>23 DEF UninstallStopped, Branch, StopReturns, Ended
<1>24. CASE UninstallStopUndo(t)
  BY <1>24, ReturnKeepsLocals DEF UninstallStopUndo, End, DropPermit, Restore,
      StartWatcher, StartWorker, Ended
<1>25. CASE StageSettings(t)
  BY <1>25 DEF StageSettings, Transacts
<1>26. CASE Preflight(t)
  BY <1>26 DEF Preflight, Transacts
<1>27. CASE PreflightReturn(t)
  BY <1>27 DEF PreflightReturn, Transacts
<1>28. CASE PurgeSettings(t)
  BY <1>28 DEF PurgeSettings, Transacts
<1>29. CASE PurgeState(t)
  BY <1>29 DEF PurgeState, Transacts
<1>30. CASE PurgePassword(t)
  BY <1>30, RemembersFlag, RemembersProtected, RemembersCode DEF PurgePassword,
      Transacts
<1>31. CASE FinalTrash(t)
  BY <1>31 DEF FinalTrash, Transacts
<1>32. CASE TransactionFails(t)
  BY <1>32 DEF TransactionFails, Transacts, DeletionFails
<1>33. CASE RollbackBundle(t)
  BY <1>33 DEF RollbackBundle, Transacts
<1>34. CASE RollbackSettings(t)
  BY <1>34 DEF RollbackSettings, Transacts
<1>35. CASE RollbackLogin(t)
  BY <1>35 DEF RollbackLogin
<1>36. CASE RollbackState(t)
  BY <1>36 DEF RollbackState, Transacts
<1>37. CASE RollbackWatcher(t)
  BY <1>37 DEF RollbackWatcher, Restore, StartWatcher, StartWorker, Ended
<1>38. CASE Report(t)
  BY <1>38, ReturnKeepsLocals DEF Report, End, DropPermit
<1>39. CASE Commit(t)
  BY <1>39 DEF Commit, CommitShutdown
<1> QED
  BY <1>1, <1>2, <1>3, <1>4, <1>5, <1>6, <1>7, <1>8, <1>9, <1>10, <1>11, <1>12,
     <1>13, <1>14, <1>15, <1>16, <1>17, <1>18, <1>19, <1>20, <1>21, <1>22,
     <1>23, <1>24, <1>25, <1>26, <1>27, <1>28, <1>29, <1>30, <1>31, <1>32,
     <1>33, <1>34, <1>35, <1>36, <1>37, <1>38, <1>39 DEF TaskStep

-----------------------------------------------------------------------------
(* The kind of step that each action is *)

\* A handler of the main thread does one of four things to the lifecycle.
LEMMA MainMoves ==
  ASSUME ActorsAssumption, Words, Saved, MainStep
  PROVE  Moves(Main) \/ ProcessEnds
<1> USE DEF ActorsAssumption, Actors, Labels, Goto, life, watch, keychain,
         passwords, files, Words, Statuses, Saved, GoesOn, Enters, Leaves,
         Commits, Moves, OthersStay, NoProgress, Idles, OperationOf,
         PasswordLabels, UpdateLabels, UninstallLabels, Progress, Operations
<1>1. CASE MainHalt
  BY <1>1 DEF MainHalt, StopCalls
<1>2. CASE GetStatus
  BY <1>2 DEF GetStatus
<1>3. CASE Acknowledge
  BY <1>3 DEF Acknowledge
<1>4. CASE RequestEnable
  BY <1>4 DEF RequestEnable
<1>5. ASSUME NEW ok \in BOOLEAN, EnableChecks(ok)
      PROVE  Moves(Main) \/ ProcessEnds
  BY <1>5 DEF EnableChecks, Branch
<1>6. ASSUME NEW ok \in BOOLEAN, EnableLogin(ok)
      PROVE  Moves(Main) \/ ProcessEnds
  BY <1>6, Returned DEF EnableLogin, Branch
<1>7. ASSUME NEW ok \in BOOLEAN, EnableStart(ok)
      PROVE  Moves(Main) \/ ProcessEnds
  BY <1>7, Returned DEF EnableStart, Branch
<1>8. CASE EnableSet
  BY <1>8, Returned DEF EnableSet
<1>9. CASE EnableSetFails
  BY <1>9 DEF EnableSetFails
<1>10. CASE EnableStopped
  BY <1>10 DEF EnableStopped
<1>11. CASE UndoEnable
  BY <1>11, Returned DEF UndoEnable
<1>12. CASE RequestPause
  BY <1>12 DEF RequestPause
<1>13. ASSUME NEW ok \in BOOLEAN, PauseStopped(ok)
      PROVE  Moves(Main) \/ ProcessEnds
  BY <1>13, Returned DEF PauseStopped, Branch
<1>14. CASE PauseSet
  BY <1>14, Returned DEF PauseSet
<1>15. CASE PauseSetFails
  BY <1>15, Returned DEF PauseSetFails
<1>16. CASE ForgetBegin
  BY <1>16 DEF ForgetBegin
<1>17. ASSUME NEW ok \in BOOLEAN, ForgetStopped(ok)
      PROVE  Moves(Main) \/ ProcessEnds
  BY <1>17, Returned DEF ForgetStopped, Branch
<1>18. ASSUME NEW ok \in BOOLEAN, ForgetSet(ok)
      PROVE  Moves(Main) \/ ProcessEnds
  BY <1>18 DEF ForgetSet, Branch
<1>19. CASE ForgetDelete
  BY <1>19, Returned DEF ForgetDelete
<1>20. CASE ForgetDeleteFails
  BY <1>20 DEF ForgetDeleteFails
<1>21. CASE ForgetUnset
  BY <1>21 DEF ForgetUnset
<1>22. CASE ForgetRestore
  BY <1>22, Returned DEF ForgetRestore
<1>23. CASE Quit
  BY <1>23 DEF Quit, BeginShutdown
<1>24. CASE QuitStopped
  BY <1>24 DEF QuitStopped
<1>25. CASE ExitRequested
  BY <1>25 DEF ExitRequested, BeginShutdown
<1>26. CASE ExitStopped
  BY <1>26 DEF ExitStopped
<1>27. CASE ExitEvent
  BY <1>27 DEF ExitEvent, BeginShutdown
<1>28. CASE Exited
  BY <1>28 DEF Exited, ProcessEnds
<1> HIDE DEF Moves, Words, Saved
<1> QED
  BY <1>1, <1>2, <1>3, <1>4, <1>5, <1>6, <1>7, <1>8, <1>9, <1>10, <1>11, <1>12,
     <1>13, <1>14, <1>15, <1>16, <1>17, <1>18, <1>19, <1>20, <1>21, <1>22,
     <1>23, <1>24, <1>25, <1>26, <1>27, <1>28 DEF MainStep

\* So does a task.
LEMMA TaskMoves ==
  ASSUME ActorsAssumption, Words, Saved, NEW t \in Tasks, TaskStep(t)
  PROVE  Moves(t) \/ Idles
<1> USE DEF ActorsAssumption, Actors, Labels, Goto, life, watch, keychain,
         passwords, files, Words, Statuses, Saved, GoesOn, Enters, Leaves,
         Commits, Moves, OthersStay, NoProgress, Idles, OperationOf,
         PasswordLabels, UpdateLabels, UninstallLabels, Progress, Operations
<1>1. CASE StoreBegin(t)
  BY <1>1 DEF StoreBegin, Begins
<1>2. CASE StoreEnds(t)
  BY <1>2, Returned DEF StoreEnds, End
<1>3. CASE CheckBegin(t)
  BY <1>3 DEF CheckBegin, Begins, SetStatus
<1>4. ASSUME NEW s \in Statuses, CheckEnds(t, s)
      PROVE  Moves(t) \/ Idles
  BY <1>4, Returned DEF CheckEnds, End, SetStatus
<1>5. CASE InstallRefused(t)
  BY <1>5 DEF InstallRefused, Resting, Busy, SetStatus
<1>6. CASE InstallBegin(t)
  BY <1>6 DEF InstallBegin, Begins, SetStatus
<1>7. CASE InstallChecked(t)
  BY <1>7, Returned DEF InstallChecked, InstallGoesOn, InstallEnds, End,
      SetStatus
<1>8. CASE Downloaded(t)
  BY <1>8, Returned DEF Downloaded, InstallGoesOn, InstallEnds, End, SetStatus
<1>9. CASE StillRunning(t)
  BY <1>9, Returned DEF StillRunning, InstallEnds, End, SetStatus
<1>10. CASE FirstDialogCheck(t)
  BY <1>10, Returned DEF FirstDialogCheck, InstallEnds, End, SetStatus
<1>11. CASE UpdateHalt(t)
  BY <1>11 DEF UpdateHalt
<1>12. ASSUME NEW ok \in BOOLEAN, UpdateStopped(t, ok)
      PROVE  Moves(t) \/ Idles
  BY <1>12 DEF UpdateStopped, Branch
<1>13. CASE SecondDialogCheck(t)
  BY <1>13 DEF SecondDialogCheck, InstallGoesOn, SetStatus
<1>14. CASE Replaced(t)
  BY <1>14 DEF Replaced, BeginShutdown
<1>15. CASE ReplaceFails(t)
  BY <1>15 DEF ReplaceFails
<1>16. CASE UpdateRestore(t)
  BY <1>16, Returned DEF UpdateRestore, End, Locals
<1>17. CASE Leave(t)
  BY <1>17, Returned DEF Leave, End
<1>18. CASE UninstallBegin(t)
  BY <1>18 DEF UninstallBegin, Begins
<1>19. CASE Plan(t)
  BY <1>19 DEF Plan
<1>20. CASE UninstallRefused(t)
  BY <1>20, Returned DEF UninstallRefused, End
<1>21. CASE LoginOff(t)
  BY <1>21 DEF LoginOff
<1>22. CASE UninstallHalt(t)
  BY <1>22 DEF UninstallHalt
<1>23. ASSUME NEW ok \in BOOLEAN, UninstallStopped(t, ok)
      PROVE  Moves(t) \/ Idles
  BY <1>23 DEF UninstallStopped, Branch
<1>24. CASE UninstallStopUndo(t)
  BY <1>24, Returned DEF UninstallStopUndo, End
<1>25. CASE StageSettings(t)
  BY <1>25 DEF StageSettings, Transacts
<1>26. CASE Preflight(t)
  BY <1>26 DEF Preflight, Transacts
<1>27. CASE PreflightReturn(t)
  BY <1>27 DEF PreflightReturn, Transacts
<1>28. CASE PurgeSettings(t)
  BY <1>28 DEF PurgeSettings, Transacts
<1>29. CASE PurgeState(t)
  BY <1>29 DEF PurgeState, Transacts
<1>30. CASE PurgePassword(t)
  BY <1>30 DEF PurgePassword, Transacts
<1>31. CASE FinalTrash(t)
  BY <1>31 DEF FinalTrash, Transacts
<1>32. CASE TransactionFails(t)
  BY <1>32 DEF TransactionFails, Transacts
<1>33. CASE RollbackBundle(t)
  BY <1>33 DEF RollbackBundle, Transacts
<1>34. CASE RollbackSettings(t)
  BY <1>34 DEF RollbackSettings, Transacts
<1>35. CASE RollbackLogin(t)
  BY <1>35 DEF RollbackLogin
<1>36. CASE RollbackState(t)
  BY <1>36 DEF RollbackState, Transacts
<1>37. CASE RollbackWatcher(t)
  BY <1>37 DEF RollbackWatcher
<1>38. CASE Report(t)
  BY <1>38, Returned DEF Report, End
<1>39. CASE Commit(t)
  BY <1>39 DEF Commit
<1> HIDE DEF Moves, Words, Saved
<1> QED
  BY <1>1, <1>2, <1>3, <1>4, <1>5, <1>6, <1>7, <1>8, <1>9, <1>10, <1>11, <1>12,
     <1>13, <1>14, <1>15, <1>16, <1>17, <1>18, <1>19, <1>20, <1>21, <1>22,
     <1>23, <1>24, <1>25, <1>26, <1>27, <1>28, <1>29, <1>30, <1>31, <1>32,
     <1>33, <1>34, <1>35, <1>36, <1>37, <1>38, <1>39 DEF TaskStep

\* No handler of the main thread stores a password or notes a deletion.
LEMMA MainPurges ==
  ASSUME ActorsAssumption, Words, Saved, MainStep
  PROVE  Purges(Main) \/ ProcessEnds
<1> USE DEF ActorsAssumption, Actors, Labels, Goto, life, watch, keychain,
         passwords, files, Words, Saved, Purges
<1>1. CASE MainHalt
  BY <1>1 DEF MainHalt, StopCalls
<1>2. CASE GetStatus
  BY <1>2 DEF GetStatus
<1>3. CASE Acknowledge
  BY <1>3 DEF Acknowledge
<1>4. CASE RequestEnable
  BY <1>4 DEF RequestEnable
<1>5. ASSUME NEW ok \in BOOLEAN, EnableChecks(ok)
      PROVE  Purges(Main) \/ ProcessEnds
  BY <1>5, RememberedTwo DEF EnableChecks, Branch
<1>6. ASSUME NEW ok \in BOOLEAN, EnableLogin(ok)
      PROVE  Purges(Main) \/ ProcessEnds
  BY <1>6, Returned DEF EnableLogin, Branch
<1>7. ASSUME NEW ok \in BOOLEAN, EnableStart(ok)
      PROVE  Purges(Main) \/ ProcessEnds
  BY <1>7, Returned DEF EnableStart, Branch
<1>8. CASE EnableSet
  BY <1>8, Returned DEF EnableSet
<1>9. CASE EnableSetFails
  BY <1>9 DEF EnableSetFails
<1>10. CASE EnableStopped
  BY <1>10 DEF EnableStopped
<1>11. CASE UndoEnable
  BY <1>11, Returned DEF UndoEnable
<1>12. CASE RequestPause
  BY <1>12, Remembered DEF RequestPause
<1>13. ASSUME NEW ok \in BOOLEAN, PauseStopped(ok)
      PROVE  Purges(Main) \/ ProcessEnds
  BY <1>13, Returned DEF PauseStopped, Branch
<1>14. CASE PauseSet
  BY <1>14, Returned DEF PauseSet
<1>15. CASE PauseSetFails
  BY <1>15, Returned DEF PauseSetFails
<1>16. CASE ForgetBegin
  BY <1>16, Remembered DEF ForgetBegin
<1>17. ASSUME NEW ok \in BOOLEAN, ForgetStopped(ok)
      PROVE  Purges(Main) \/ ProcessEnds
  BY <1>17, Returned DEF ForgetStopped, Branch
<1>18. ASSUME NEW ok \in BOOLEAN, ForgetSet(ok)
      PROVE  Purges(Main) \/ ProcessEnds
  BY <1>18 DEF ForgetSet, Branch
<1>19. CASE ForgetDelete
  BY <1>19, Returned DEF ForgetDelete
<1>20. CASE ForgetDeleteFails
  BY <1>20 DEF ForgetDeleteFails, DeletionFails
<1>21. CASE ForgetUnset
  BY <1>21 DEF ForgetUnset
<1>22. CASE ForgetRestore
  BY <1>22, Returned DEF ForgetRestore
<1>23. CASE Quit
  BY <1>23 DEF Quit, BeginShutdown
<1>24. CASE QuitStopped
  BY <1>24 DEF QuitStopped
<1>25. CASE ExitRequested
  BY <1>25 DEF ExitRequested, BeginShutdown
<1>26. CASE ExitStopped
  BY <1>26 DEF ExitStopped
<1>27. CASE ExitEvent
  BY <1>27 DEF ExitEvent, BeginShutdown
<1>28. CASE Exited
  BY <1>28 DEF Exited, ProcessEnds
<1> QED
  BY <1>1, <1>2, <1>3, <1>4, <1>5, <1>6, <1>7, <1>8, <1>9, <1>10, <1>11, <1>12,
     <1>13, <1>14, <1>15, <1>16, <1>17, <1>18, <1>19, <1>20, <1>21, <1>22,
     <1>23, <1>24, <1>25, <1>26, <1>27, <1>28 DEF MainStep

\* Of the tasks, only the dialog and the last purge do.
LEMMA TaskPurges ==
  ASSUME ActorsAssumption, Words, Saved, NEW t \in Tasks, TaskStep(t)
  PROVE  Purges(t)
<1> USE DEF ActorsAssumption, Actors, Labels, Goto, life, watch, keychain,
         passwords, files, Words, Saved, Purges
<1>1. CASE StoreBegin(t)
  BY <1>1 DEF StoreBegin, Begins
<1>2. CASE StoreEnds(t)
  BY <1>2, Returned DEF StoreEnds, End
<1>3. CASE CheckBegin(t)
  BY <1>3 DEF CheckBegin, Begins, SetStatus
<1>4. ASSUME NEW s \in Statuses, CheckEnds(t, s)
      PROVE  Purges(t)
  BY <1>4, Returned DEF CheckEnds, End, SetStatus
<1>5. CASE InstallRefused(t)
  BY <1>5 DEF InstallRefused, Resting, Busy, SetStatus
<1>6. CASE InstallBegin(t)
  BY <1>6 DEF InstallBegin, Begins, SetStatus
<1>7. CASE InstallChecked(t)
  BY <1>7, Returned DEF InstallChecked, InstallGoesOn, InstallEnds, End,
      SetStatus
<1>8. CASE Downloaded(t)
  BY <1>8, Returned DEF Downloaded, InstallGoesOn, InstallEnds, End, SetStatus
<1>9. CASE StillRunning(t)
  BY <1>9, Returned DEF StillRunning, InstallEnds, End, SetStatus
<1>10. CASE FirstDialogCheck(t)
  BY <1>10, Returned, Remembered DEF FirstDialogCheck, InstallEnds, End,
      SetStatus
<1>11. CASE UpdateHalt(t)
  BY <1>11 DEF UpdateHalt
<1>12. ASSUME NEW ok \in BOOLEAN, UpdateStopped(t, ok)
      PROVE  Purges(t)
  BY <1>12, Remembered DEF UpdateStopped, Branch
<1>13. CASE SecondDialogCheck(t)
  BY <1>13, Remembered DEF SecondDialogCheck, InstallGoesOn, SetStatus
<1>14. CASE Replaced(t)
  BY <1>14 DEF Replaced, BeginShutdown
<1>15. CASE ReplaceFails(t)
  BY <1>15, Remembered DEF ReplaceFails
<1>16. CASE UpdateRestore(t)
  BY <1>16, Returned DEF UpdateRestore, End
<1>17. CASE Leave(t)
  BY <1>17, Returned DEF Leave, End
<1>18. CASE UninstallBegin(t)
  BY <1>18 DEF UninstallBegin, Begins
<1>19. CASE Plan(t)
  BY <1>19 DEF Plan
<1>20. CASE UninstallRefused(t)
  BY <1>20, Returned DEF UninstallRefused, End
<1>21. CASE LoginOff(t)
  BY <1>21 DEF LoginOff
<1>22. CASE UninstallHalt(t)
  BY <1>22 DEF UninstallHalt
<1>23. ASSUME NEW ok \in BOOLEAN, UninstallStopped(t, ok)
      PROVE  Purges(t)
  BY <1>23 DEF UninstallStopped, Branch
<1>24. CASE UninstallStopUndo(t)
  BY <1>24, Returned DEF UninstallStopUndo, End
<1>25. CASE StageSettings(t)
  BY <1>25 DEF StageSettings, Transacts
<1>26. CASE Preflight(t)
  BY <1>26 DEF Preflight, Transacts
<1>27. CASE PreflightReturn(t)
  BY <1>27 DEF PreflightReturn, Transacts
<1>28. CASE PurgeSettings(t)
  BY <1>28 DEF PurgeSettings, Transacts
<1>29. CASE PurgeState(t)
  BY <1>29 DEF PurgeState, Transacts
<1>30. CASE PurgePassword(t)
  <2>1. Remembering(t, "deleted", TRUE) /\ pc[t] = "purge_password"
        /\ pc' = [pc EXCEPT ![t] = "final_trash"]
    BY <1>30 DEF PurgePassword, Transacts
  <2>2. ~password'
    BY <1>30, Zenon DEF PurgePassword
  <2>3. /\ \A b \in Actors : b # t => saved'[b] = saved[b]
        /\ saved'[t].deleted
    BY <2>1, RememberedDeletion
  <2>4. pc'[t] = "final_trash" /\ \A b \in Actors : b # t => pc'[b] = pc[b]
    BY <2>1 DEF Words
  <2> QED
    BY <2>2, <2>3, <2>4, Zenon
<1>31. CASE FinalTrash(t)
  BY <1>31 DEF FinalTrash, Transacts
<1>32. CASE TransactionFails(t)
  BY <1>32 DEF TransactionFails, Transacts, DeletionFails
<1>33. CASE RollbackBundle(t)
  BY <1>33 DEF RollbackBundle, Transacts
<1>34. CASE RollbackSettings(t)
  BY <1>34 DEF RollbackSettings, Transacts
<1>35. CASE RollbackLogin(t)
  BY <1>35 DEF RollbackLogin
<1>36. CASE RollbackState(t)
  BY <1>36 DEF RollbackState, Transacts
<1>37. CASE RollbackWatcher(t)
  BY <1>37 DEF RollbackWatcher
<1>38. CASE Report(t)
  BY <1>38, Returned DEF Report, End
<1>39. CASE Commit(t)
  BY <1>39 DEF Commit
<1> QED
  BY <1>1, <1>2, <1>3, <1>4, <1>5, <1>6, <1>7, <1>8, <1>9, <1>10, <1>11, <1>12,
     <1>13, <1>14, <1>15, <1>16, <1>17, <1>18, <1>19, <1>20, <1>21, <1>22,
     <1>23, <1>24, <1>25, <1>26, <1>27, <1>28, <1>29, <1>30, <1>31, <1>32,
     <1>33, <1>34, <1>35, <1>36, <1>37, <1>38, <1>39 DEF TaskStep

-----------------------------------------------------------------------------
(* The rest of the next-state relation *)

OtherStep == WorkerCancelled \/ WorkerFails \/ Launch \/ PutBack

\* The kinds of steps there are.
LEMMA Kinds ==
  ASSUME [Next]_vars
  PROVE  \/ MainStep
         \/ \E t \in Tasks : TaskStep(t)
         \/ OtherStep
         \/ ProcessEnds
         \/ UNCHANGED vars
  BY DEF Next, OtherStep, Crash

\* The types, across the steps of the worker, the launch and the end.
LEMMA OthersKeepTypes ==
  ASSUME ActorsAssumption, Typed, OtherStep \/ ProcessEnds \/ UNCHANGED vars
  PROVE  Typed'
<1> USE DEF Typed, ActorsAssumption, life, watch, keychain, passwords, files
<1>1. CASE WorkerCancelled \/ WorkerFails
  <2>1. Words' /\ Flags' /\ Saved'
    BY <1>1 DEF WorkerCancelled, WorkerFails, Words, Flags, Saved
  <2>2. control' = control /\ lock' = lock /\ worker' \in {"done", "failed"}
    BY <1>1 DEF WorkerCancelled, WorkerFails
  <2>3. Pipe'
    BY <2>2, Zenon DEF Pipe
  <2> QED
    BY <2>1, <2>3
<1>2. CASE Launch
  <2>1. \/ UNCHANGED watch
        \/ \E ok \in BOOLEAN : StartWatcher(ok)
    BY <1>2 DEF Launch
  <2>2. Words'
    BY <1>2, <2>1 DEF Launch, Words, StartWatcher, StartWorker, Ended
  <2>3. Flags'
    BY <1>2, <2>1 DEF Launch, Flags, StartWatcher, StartWorker, Ended
  <2>4. Pipe'
    <3>1. CASE UNCHANGED watch
      BY <3>1 DEF Pipe
    <3> QED
      BY <2>1, <3>1, StartKeepsPipe
  <2>5. Saved'
    BY <1>2 DEF Launch, Saved
  <2> QED
    BY <2>2, <2>3, <2>4, <2>5
<1>3. CASE PutBack
  BY <1>3 DEF PutBack, Words, Flags, Saved, Pipe
<1>4. CASE ProcessEnds
  <2>1. Words'
    BY <1>4 DEF ProcessEnds, Words, Statuses, Labels
  <2>2. Flags'
    BY <1>4 DEF ProcessEnds, Flags
  <2>3. Saved'
    BY <1>4 DEF ProcessEnds, Saved, Locals, NothingSaved, States
  <2>4. Pipe'
    BY <1>4, Zenon DEF ProcessEnds, Pipe
  <2> QED
    BY <2>1, <2>2, <2>3, <2>4
<1>5. CASE UNCHANGED vars
  BY <1>5 DEF vars, Words, Flags, Saved, Pipe
<1> QED
  BY <1>1, <1>2, <1>3, <1>4, <1>5 DEF OtherStep

\* Every step keeps the types.
LEMMA StepKeepsTypes ==
  ASSUME ActorsAssumption, Typed, [Next]_vars
  PROVE  Typed'
<1>1. CASE MainStep
  BY <1>1, MainKeepsWords, MainKeepsFlags, MainKeepsPipe, MainKeepsLocals
     DEF Typed
<1>2. ASSUME NEW t \in Tasks, TaskStep(t)
      PROVE  Typed'
  BY <1>2, TaskKeepsWords, TaskKeepsFlags, TaskKeepsPipe, TaskKeepsLocals
     DEF Typed
<1> QED
  BY <1>1, <1>2, Kinds, OthersKeepTypes

\* Every step does one of these things to the lifecycle.
LEMMA StepMoves ==
  ASSUME ActorsAssumption, Typed, [Next]_vars
  PROVE  Idles \/ ProcessEnds \/ \E a \in Actors : Moves(a)
<1>1. CASE OtherStep \/ UNCHANGED vars
  BY <1>1 DEF OtherStep, WorkerCancelled, WorkerFails, Launch, PutBack, vars,
              life, Idles, NoProgress
<1> QED
  BY <1>1, Kinds, MainMoves, TaskMoves DEF Typed, Actors

\* And one of these to the password.
LEMMA StepPurges ==
  ASSUME ActorsAssumption, Typed, [Next]_vars
  PROVE  ProcessEnds \/ \E a \in Actors : Purges(a)
<1>1. CASE OtherStep \/ UNCHANGED vars
  <2>1. UNCHANGED <<saved, pc, password>>
    BY <1>1 DEF OtherStep, WorkerCancelled, WorkerFails, Launch, PutBack,
                vars, keychain, passwords
  <2>2. Purges(Main)
    BY <2>1 DEF Purges
  <2> QED
    BY <2>2 DEF Actors
<1> QED
  BY <1>1, Kinds, MainPurges, TaskPurges DEF Typed, Actors

-----------------------------------------------------------------------------
(* The coordinator *)

\* None of them breaks the coordination.
LEMMA StepIsCoordinated ==
  ASSUME ActorsAssumption, Words, Coordinated,
         Idles \/ ProcessEnds \/ \E a \in Actors : Moves(a)
  PROVE  Coordinated'
<1> USE DEF Coordinated, Held, Alone, ProgressIsOwned, NoProgress, OthersStay,
            Words
<1>1. CASE Idles
  BY <1>1 DEF Idles, life, Progress
<1>2. CASE ProcessEnds
  BY <1>2 DEF ProcessEnds, OperationOf, PasswordLabels, UpdateLabels,
              UninstallLabels
<1>3. ASSUME NEW a \in Actors, GoesOn(a)
      PROVE  Coordinated'
  <2>1. Held'
    BY <1>3 DEF GoesOn
  <2>2. Alone'
    BY <1>3 DEF GoesOn
  <2>3. ProgressIsOwned'
    BY <1>3, <2>1 DEF GoesOn, Progress
  <2> QED
    BY <2>1, <2>2, <2>3
<1>4. ASSUME NEW a \in Actors, Enters(a)
      PROVE  Coordinated'
  <2>1. PICK op \in Operations :
          /\ OthersStay(a) /\ TryBegin(a, op)
          /\ OperationOf(pc'[a]) = op
          /\ NoProgress \/ (a \in Tasks /\ op = "update")
    BY <1>4 DEF Enters
  <2>2. /\ phase = "running" /\ operation = "none" /\ operation' = op
        /\ permit'[a] = op /\ op # "none"
        /\ \A b \in Actors : b # a => permit'[b] = permit[b]
        /\ pc'[a] # "leave"
    BY <2>1 DEF TryBegin, Operations, OperationOf, PasswordLabels,
                UpdateLabels, UninstallLabels
  <2>3. \A b \in Actors : permit[b] = "none"
    BY <2>2
  <2>4. \A b \in Actors : pc[b] # "leave" /\ OperationOf(pc[b]) = "none"
    BY <2>2, <2>3
  <2>5. Held' /\ Alone'
    BY <2>1, <2>2, <2>3, <2>4
  <2>6. ProgressIsOwned'
    <3>1. status \in Progress => FALSE
      BY <2>2, <2>3 DEF Progress, Actors
    <3> QED
      BY <2>1, <2>2, <3>1 DEF Progress
  <2> QED
    BY <2>5, <2>6
<1>5. ASSUME NEW a \in Actors, Leaves(a)
      PROVE  Coordinated'
  <2>1. /\ permit'[a] = "none"
        /\ \A b \in Actors : b # a => permit'[b] = permit[b]
        /\ phase = "exiting" => phase' = "exiting"
        /\ operation' = IF operation = permit[a] THEN "none" ELSE operation
    BY <1>5 DEF Leaves, DropPermit
  <2>2. Held'
    BY <1>5, <2>1 DEF Leaves, OperationOf, PasswordLabels, UpdateLabels,
                      UninstallLabels
  <2>3. Alone'
    BY <2>1
  <2>4. ASSUME status' \in Progress, phase # "exiting"
        PROVE  \E t \in Tasks : permit'[t] = "update"
    <3>1. OperationOf(pc[a]) \notin {"none", "update"} /\ status \in Progress
      BY <1>5, <2>4 DEF Leaves
    <3>2. PICK t \in Tasks : permit[t] = "update"
      BY <2>4, <3>1 DEF Progress
    <3>3. t # a
      BY <3>1, <3>2
    <3> QED
      BY <2>1, <3>2, <3>3 DEF Actors
  <2>5. ProgressIsOwned'
    BY <2>1, <2>4 DEF Progress
  <2> QED
    BY <2>2, <2>3, <2>5
<1>6. ASSUME NEW a \in Actors, Commits(a)
      PROVE  Coordinated'
  <2>1. permit[a] = "uninstall"
    BY <1>6 DEF Commits, OperationOf, PasswordLabels, UpdateLabels,
                UninstallLabels
  <2>2. \A b \in Actors : permit'[b] = "none" /\ phase' = "exiting"
    BY <1>6, <2>1 DEF Commits, CommitShutdown
  <2>3. Held'
    BY <1>6, <2>1, <2>2 DEF Commits, OperationOf, PasswordLabels,
                            UpdateLabels, UninstallLabels
  <2> QED
    BY <2>2, <2>3
<1> QED
  BY <1>1, <1>2, <1>3, <1>4, <1>5, <1>6 DEF Moves

-----------------------------------------------------------------------------
(* The password of an uninstall *)

\* Nor brings back a password that was deleted.
LEMMA StepKeepsDeleted ==
  ASSUME ActorsAssumption, Words, Coordinated, Coordinated', Deleted,
         Idles \/ ProcessEnds \/ \E a \in Actors : Moves(a),
         ProcessEnds \/ \E a \in Actors : Purges(a)
  PROVE  Deleted'
<1>1. CASE ProcessEnds
  BY <1>1 DEF ProcessEnds, Deleted, NothingSaved
<1>2. ASSUME NEW c \in Actors, Purges(c),
             Idles \/ \E a \in Actors : Moves(a)
      PROVE  Deleted'
  <2>1. ASSUME NEW a \in Actors, pc'[a] \in {"final_trash", "commit"}
        PROVE  saved'[a].deleted
    <3>1. CASE a # c
      BY <1>2, <2>1, <3>1 DEF Purges, Deleted
    <3>2. CASE a = c
      BY <1>2, <2>1, <3>2 DEF Purges, Deleted
    <3> QED
      BY <3>1, <3>2
  <2>2. ASSUME NEW a \in Actors, saved'[a].deleted
        PROVE  saved[a].deleted
                 \/ (a = c /\ pc'[a] = "final_trash" /\ ~password')
    BY <1>2, <2>2 DEF Purges
  <2>3. ASSUME NEW a \in Actors, saved[a].deleted
        PROVE  pc[c] # "prompt"
    <3>1. permit[a] = "uninstall" \/ operation = "none"
      BY <2>3 DEF Deleted
    <3> QED
      BY <3>1 DEF Coordinated, Held, Alone, OperationOf, PasswordLabels
  <2>4. ASSUME NEW a \in Actors, saved'[a].deleted
        PROVE  ~password'
    BY <1>2, <2>2, <2>3, <2>4 DEF Purges, Deleted
  <2>5. ASSUME NEW a \in Actors, saved'[a].deleted
        PROVE  permit'[a] = "uninstall"
                 \/ (phase' = "exiting" /\ operation' = "none")
    <3>1. CASE pc'[a] = "final_trash"
      BY <3>1 DEF Coordinated, Held, OperationOf, PasswordLabels,
                  UpdateLabels, UninstallLabels
    <3>2. CASE saved[a].deleted
      <4>1. permit[a] = "uninstall"
              \/ (phase = "exiting" /\ operation = "none")
        BY <3>2 DEF Deleted
      <4>2. CASE Idles
        BY <4>1, <4>2 DEF Idles, life
      <4>3. ASSUME NEW b \in Actors, GoesOn(b)
            PROVE  permit'[a] = "uninstall"
                     \/ (phase' = "exiting" /\ operation' = "none")
        BY <4>1, <4>3 DEF GoesOn
      <4>4. ASSUME NEW b \in Actors, Enters(b)
            PROVE  FALSE
        BY <4>1, <4>4 DEF Enters, TryBegin, Coordinated, Alone
      <4>5. ASSUME NEW b \in Actors, Leaves(b)
            PROVE  permit'[a] = "uninstall"
                     \/ (phase' = "exiting" /\ operation' = "none")
        <5>1. a # b
          BY <2>5, <4>5 DEF Leaves, NothingSaved
        <5> QED
          BY <4>1, <4>5, <5>1 DEF Leaves, DropPermit, Words
      <4>6. ASSUME NEW b \in Actors, Commits(b)
            PROVE  phase' = "exiting" /\ operation' = "none"
        BY <4>6 DEF Commits, CommitShutdown
      <4> QED
        BY <1>2, <4>2, <4>3, <4>4, <4>5, <4>6 DEF Moves
    <3> QED
      BY <2>2, <2>5, <3>1, <3>2
  <2> QED
    BY <2>1, <2>4, <2>5 DEF Deleted
<1> QED
  BY <1>1, <1>2

-----------------------------------------------------------------------------
(* The theorems *)

\* A fresh installation satisfies the invariant.
LEMMA Beginning ==
  ASSUME Init
  PROVE  IInv
<1> USE DEF Init
<1>1. Words
  BY DEF Words, States, Statuses, Labels
<1>2. Flags
  BY DEF Flags
<1>3. Saved
  BY DEF Saved, Locals, NothingSaved, States
<1>4. Pipe
  BY Zenon DEF Pipe
<1>5. Coordinated
  BY DEF Coordinated, Held, Alone, ProgressIsOwned, OperationOf,
         PasswordLabels, UpdateLabels, UninstallLabels
<1>6. Deleted
  BY DEF Deleted, NothingSaved
<1> QED
  BY <1>1, <1>2, <1>3, <1>4, <1>5, <1>6 DEF IInv, Typed

\* And every step keeps it.
LEMMA Step ==
  ASSUME ActorsAssumption, IInv, [Next]_vars
  PROVE  IInv'
<1>1. Typed'
  BY StepKeepsTypes DEF IInv
<1>2. Coordinated'
  BY StepMoves, StepIsCoordinated DEF IInv, Typed
<1>3. Deleted'
  BY <1>2, StepMoves, StepPurges, StepKeepsDeleted DEF IInv, Typed
<1> QED
  BY <1>1, <1>2, <1>3 DEF IInv

\* The strengthened invariant holds in every reachable state.
THEOREM Inductive == Spec => []IInv
<1>1. Init => IInv
  BY Beginning
<1>2. IInv /\ [Next]_vars => IInv'
  BY Step, ActorsAssumption
<1> QED
  BY <1>1, <1>2, PTL DEF Spec

\* Every variable keeps its type, and an open pipe belongs to a worker.
THEOREM TypeCorrect == Spec => []TypeOK
<1>1. IInv => TypeOK
  BY DEF IInv, Typed, TypeOK, Saved, Pipe
<1> QED
  BY <1>1, Inductive, PTL

\* Never do two protected operations run at once (try_begin and the Drop of
\* LifecyclePermit), whatever the tasks and the main thread do.
THEOREM OperationsExclude == Spec => []OneProtectedOperation
<1>1. IInv => OneProtectedOperation
  BY DEF IInv, Coordinated, Alone, OneProtectedOperation
<1> QED
  BY <1>1, Inductive, PTL

\* A progress that the update status shows is that of a running operation.
THEOREM ProgressOwned == Spec => []ProgressIsOwned
<1>1. IInv => ProgressIsOwned
  BY DEF IInv, Coordinated
<1> QED
  BY <1>1, Inductive, PTL

\* An uninstall that puts the bundle in the Trash leaves no password behind,
\* and none can be stored until the process is gone.
THEOREM UninstallRemovesPassword == Spec => []UninstallLeavesNoPassword
<1>1. IInv => UninstallLeavesNoPassword
  BY DEF IInv, Deleted, UninstallLeavesNoPassword, Actors
<1> QED
  BY <1>1, Inductive, PTL

\* An exit that has begun is never taken back: no permit that is dropped late
\* and no operation reopens the application.
THEOREM ExitStays == Spec => ExitingIsFinal
<1>1. ASSUME IInv, [Next]_vars, phase = "exiting"
      PROVE  phase' = "exiting" \/ ~up'
  <2>1. CASE ProcessEnds
    BY <2>1, Zenon DEF ProcessEnds
  <2>2. CASE Idles
    BY <1>1, <2>2 DEF Idles, life
  <2>3. ASSUME NEW a \in Actors, Moves(a)
        PROVE  phase' = "exiting"
    BY <1>1, <2>3 DEF Moves, GoesOn, Enters, Leaves, Commits, TryBegin,
                      DropPermit, CommitShutdown
  <2> QED
    BY <1>1, <2>1, <2>2, <2>3, StepMoves, ActorsAssumption DEF IInv
<1>2. IInv /\ [Next]_vars => [phase = "exiting" => phase' = "exiting" \/ ~up']_vars
  BY <1>1
<1> QED
  BY <1>2, Inductive, PTL DEF Spec, ExitingIsFinal
-----------------------------------------------------------------------------
(* Why the operations end *)

\* Where an actor waits in stop() for the worker, with the watcher mutex.
StopLabels ==
  {"undo_stop", "pause_stop", "forget_stop", "quit_stop", "exit_stop",
   "exited", "update_stop", "uninstall_stop"}

\* How many steps an actor has left, at most.
Rank(label) ==
  CASE label = "idle" -> 0
    [] label \in {"undo", "pause_set", "forget_restore", "quit_stop", "exited",
                  "prompt", "check", "update_restore", "leave", "stop_undo",
                  "report"} -> 1
    [] label \in {"undo_stop", "pause_stop", "forget_unset", "quit_halt",
                  "last_halt", "replace", "commit", "rollback_watcher"} -> 2
    [] label \in {"undo_halt", "pause_halt", "forget_delete", "exit",
                  "second_dialog_check", "rollback_state"} -> 3
    [] label \in {"enable_set", "forget_set", "exit_stop", "update_stop",
                  "rollback_login"} -> 4
    [] label \in {"enable_start", "forget_stop", "exit_halt", "update_halt",
                  "rollback_settings"} -> 5
    [] label \in {"enable_login", "forget_halt", "first_dialog_check",
                  "rollback_bundle"} -> 6
    [] label \in {"enable", "still_running", "final_trash"} -> 7
    [] label \in {"download", "purge_password"} -> 8
    [] label \in {"install_check", "purge_state"} -> 9
    [] label = "purge_settings" -> 10
    [] label = "preflight_return" -> 11
    [] label = "preflight" -> 12
    [] label = "stage" -> 13
    [] label = "uninstall_stop" -> 14
    [] label = "uninstall_halt" -> 15
    [] label = "login_off" -> 16
    [] label = "plan" -> 17

\* A permit is held within an operation only, or on the way out of the process.
Holds(a) ==
  permit[a] # "none" => OperationOf(pc[a]) # "none" \/ pc[a] = "leave"

\* An actor that is not at rest comes closer to its end, and takes the mutex to
\* one of the stop labels and gives it back behind it.
Advances(a) ==
  /\ \A b \in Actors : b # a => pc'[b] = pc[b] /\ permit'[b] = permit[b]
  /\ pc[a] # "idle" => Rank(pc'[a]) < Rank(pc[a])
  /\ Holds(a) => Holds(a)'
  /\ \/ lock' = lock /\ (pc'[a] \in StopLabels <=> pc[a] \in StopLabels)
     \/ lock = NoOne /\ lock' = a /\ pc'[a] \in StopLabels
     \/ lock = a /\ lock' = NoOne /\ pc'[a] \notin StopLabels

\* So does the main thread with every handler,
LEMMA MainAdvances ==
  ASSUME ActorsAssumption, Words, MainStep
  PROVE  Advances(Main) \/ ProcessEnds
<1> USE DEF ActorsAssumption, Actors, Labels, Goto, life, watch, Words,
         Advances, Holds, Resting, OperationOf, PasswordLabels, UpdateLabels,
         UninstallLabels, StopLabels, Rank
<1>1. CASE MainHalt
  BY <1>1 DEF MainHalt, StopCalls, Halt
<1>2. CASE GetStatus
  BY <1>2 DEF GetStatus, Reap
<1>3. CASE Acknowledge
  BY <1>3 DEF Acknowledge
<1>4. CASE RequestEnable
  BY <1>4 DEF RequestEnable
<1>5. ASSUME NEW ok \in BOOLEAN, EnableChecks(ok)
      PROVE  Advances(Main) \/ ProcessEnds
  BY <1>5 DEF EnableChecks, Branch, Reap
<1>6. ASSUME NEW ok \in BOOLEAN, EnableLogin(ok)
      PROVE  Advances(Main) \/ ProcessEnds
  BY <1>6 DEF EnableLogin, Branch
<1>7. ASSUME NEW ok \in BOOLEAN, EnableStart(ok)
      PROVE  Advances(Main) \/ ProcessEnds
  BY <1>7 DEF EnableStart, Branch, StartWatcher
<1>8. CASE EnableSet
  BY <1>8 DEF EnableSet, Reap
<1>9. CASE EnableSetFails
  BY <1>9 DEF EnableSetFails
<1>10. CASE EnableStopped
  BY <1>10 DEF EnableStopped, StopReturns
<1>11. CASE UndoEnable
  BY <1>11 DEF UndoEnable
<1>12. CASE RequestPause
  BY <1>12 DEF RequestPause
<1>13. ASSUME NEW ok \in BOOLEAN, PauseStopped(ok)
      PROVE  Advances(Main) \/ ProcessEnds
  BY <1>13 DEF PauseStopped, Branch, StopReturns
<1>14. CASE PauseSet
  BY <1>14 DEF PauseSet, Reap
<1>15. CASE PauseSetFails
  BY <1>15 DEF PauseSetFails, Restore, StartWatcher
<1>16. CASE ForgetBegin
  BY <1>16 DEF ForgetBegin, TryBegin
<1>17. ASSUME NEW ok \in BOOLEAN, ForgetStopped(ok)
      PROVE  Advances(Main) \/ ProcessEnds
  BY <1>17 DEF ForgetStopped, Branch, StopReturns, DropPermit
<1>18. ASSUME NEW ok \in BOOLEAN, ForgetSet(ok)
      PROVE  Advances(Main) \/ ProcessEnds
  BY <1>18 DEF ForgetSet, Branch
<1>19. CASE ForgetDelete
  BY <1>19 DEF ForgetDelete, Reap, DropPermit
<1>20. CASE ForgetDeleteFails
  BY <1>20 DEF ForgetDeleteFails
<1>21. CASE ForgetUnset
  BY <1>21 DEF ForgetUnset
<1>22. CASE ForgetRestore
  BY <1>22 DEF ForgetRestore, Restore, StartWatcher, DropPermit
<1>23. CASE Quit
  BY <1>23 DEF Quit, BeginShutdown
<1>24. CASE QuitStopped
  BY <1>24 DEF QuitStopped, StopReturns
<1>25. CASE ExitRequested
  BY <1>25 DEF ExitRequested, BeginShutdown
<1>26. CASE ExitStopped
  BY <1>26 DEF ExitStopped, StopReturns
<1>27. CASE ExitEvent
  BY <1>27 DEF ExitEvent, BeginShutdown
<1>28. CASE Exited
  BY <1>28 DEF Exited, ProcessEnds
<1> HIDE DEF Advances, Words
<1> QED
  BY <1>1, <1>2, <1>3, <1>4, <1>5, <1>6, <1>7, <1>8, <1>9, <1>10, <1>11, <1>12,
     <1>13, <1>14, <1>15, <1>16, <1>17, <1>18, <1>19, <1>20, <1>21, <1>22,
     <1>23, <1>24, <1>25, <1>26, <1>27, <1>28 DEF MainStep

\* and a task with every step but a request that is refused.
LEMMA TaskAdvances ==
  ASSUME ActorsAssumption, Words, NEW t \in Tasks, TaskStep(t)
  PROVE  Advances(t) \/ (Resting(t) /\ UNCHANGED <<pc, permit, lock>>)
<1> USE DEF ActorsAssumption, Actors, Labels, Goto, life, watch, Words,
         Advances, Holds, Resting, OperationOf, PasswordLabels, UpdateLabels,
         UninstallLabels, StopLabels, Rank
<1>1. CASE StoreBegin(t)
  BY <1>1 DEF StoreBegin, Begins, TryBegin
<1>2. CASE StoreEnds(t)
  BY <1>2 DEF StoreEnds, End, Reap, DropPermit
<1>3. CASE CheckBegin(t)
  BY <1>3 DEF CheckBegin, Begins, SetStatus, TryBegin, Reap
<1>4. ASSUME NEW s \in Statuses, CheckEnds(t, s)
      PROVE  Advances(t) \/ (Resting(t) /\ UNCHANGED <<pc, permit, lock>>)
  BY <1>4 DEF CheckEnds, End, SetStatus, Reap, DropPermit
<1>5. CASE InstallRefused(t)
  BY <1>5 DEF InstallRefused, Resting, Busy, SetStatus, Reap
<1>6. CASE InstallBegin(t)
  BY <1>6 DEF InstallBegin, Begins, SetStatus, TryBegin, Reap
<1>7. CASE InstallChecked(t)
  BY <1>7 DEF InstallChecked, InstallGoesOn, InstallEnds, End, SetStatus, Reap,
      DropPermit
<1>8. CASE Downloaded(t)
  BY <1>8 DEF Downloaded, InstallGoesOn, InstallEnds, End, SetStatus, Reap,
      DropPermit
<1>9. CASE StillRunning(t)
  BY <1>9 DEF StillRunning, InstallEnds, End, SetStatus, Reap, DropPermit
<1>10. CASE FirstDialogCheck(t)
  BY <1>10 DEF FirstDialogCheck, InstallEnds, End, SetStatus, Reap, DropPermit
<1>11. CASE UpdateHalt(t)
  BY <1>11 DEF UpdateHalt, Halt
<1>12. ASSUME NEW ok \in BOOLEAN, UpdateStopped(t, ok)
      PROVE  Advances(t) \/ (Resting(t) /\ UNCHANGED <<pc, permit, lock>>)
  BY <1>12 DEF UpdateStopped, Branch, StopReturns
<1>13. CASE SecondDialogCheck(t)
  BY <1>13 DEF SecondDialogCheck, InstallGoesOn, SetStatus, Reap
<1>14. CASE Replaced(t)
  BY <1>14 DEF Replaced, BeginShutdown
<1>15. CASE ReplaceFails(t)
  BY <1>15 DEF ReplaceFails
<1>16. CASE UpdateRestore(t)
  BY <1>16 DEF UpdateRestore, End, Reap, StartWatcher, DropPermit
<1>17. CASE Leave(t)
  BY <1>17 DEF Leave, End, DropPermit
<1>18. CASE UninstallBegin(t)
  BY <1>18 DEF UninstallBegin, Begins, TryBegin
<1>19. CASE Plan(t)
  BY <1>19 DEF Plan, Reap
<1>20. CASE UninstallRefused(t)
  BY <1>20 DEF UninstallRefused, End, DropPermit
<1>21. CASE LoginOff(t)
  BY <1>21 DEF LoginOff
<1>22. CASE UninstallHalt(t)
  BY <1>22 DEF UninstallHalt, Halt
<1>23. ASSUME NEW ok \in BOOLEAN, UninstallStopped(t, ok)
      PROVE  Advances(t) \/ (Resting(t) /\ UNCHANGED <<pc, permit, lock>>)
  BY <1>23 DEF UninstallStopped, Branch, StopReturns
<1>24. CASE UninstallStopUndo(t)
  BY <1>24 DEF UninstallStopUndo, End, Restore, StartWatcher, DropPermit
<1>25. CASE StageSettings(t)
  BY <1>25 DEF StageSettings, Transacts
<1>26. CASE Preflight(t)
  BY <1>26 DEF Preflight, Transacts
<1>27. CASE PreflightReturn(t)
  BY <1>27 DEF PreflightReturn, Transacts
<1>28. CASE PurgeSettings(t)
  BY <1>28 DEF PurgeSettings, Transacts
<1>29. CASE PurgeState(t)
  BY <1>29 DEF PurgeState, Transacts
<1>30. CASE PurgePassword(t)
  BY <1>30 DEF PurgePassword, Transacts
<1>31. CASE FinalTrash(t)
  BY <1>31 DEF FinalTrash, Transacts
<1>32. CASE TransactionFails(t)
  BY <1>32 DEF TransactionFails, Transacts
<1>33. CASE RollbackBundle(t)
  BY <1>33 DEF RollbackBundle, Transacts
<1>34. CASE RollbackSettings(t)
  BY <1>34 DEF RollbackSettings, Transacts
<1>35. CASE RollbackLogin(t)
  BY <1>35 DEF RollbackLogin
<1>36. CASE RollbackState(t)
  BY <1>36 DEF RollbackState, Transacts
<1>37. CASE RollbackWatcher(t)
  BY <1>37 DEF RollbackWatcher, Restore, StartWatcher
<1>38. CASE Report(t)
  BY <1>38 DEF Report, End, DropPermit
<1>39. CASE Commit(t)
  BY <1>39 DEF Commit, CommitShutdown
<1> HIDE DEF Advances, Words
<1> QED
  BY <1>1, <1>2, <1>3, <1>4, <1>5, <1>6, <1>7, <1>8, <1>9, <1>10, <1>11, <1>12,
     <1>13, <1>14, <1>15, <1>16, <1>17, <1>18, <1>19, <1>20, <1>21, <1>22,
     <1>23, <1>24, <1>25, <1>26, <1>27, <1>28, <1>29, <1>30, <1>31, <1>32,
     <1>33, <1>34, <1>35, <1>36, <1>37, <1>38, <1>39 DEF TaskStep

\* Who waits in stop() is the one who holds the mutex, and an operation that the
\* coordinator knows is that of some actor.
Owned ==
  /\ \A a \in Actors : pc[a] \in StopLabels <=> lock = a
  /\ \A a \in Actors : Holds(a)
  /\ operation # "none" => \E a \in Actors : permit[a] = operation

\* What a step does to the labels, the permits and the mutex.
LEMMA StepAdvances ==
  ASSUME ActorsAssumption, Typed, [Next]_vars
  PROVE  \/ UNCHANGED <<pc, permit, lock>>
         \/ ProcessEnds
         \/ \E a \in Actors : Advances(a)
<1>1. CASE OtherStep \/ UNCHANGED vars
  BY <1>1 DEF OtherStep, WorkerCancelled, WorkerFails, Launch, PutBack, vars,
              life, watch, StartWatcher
<1> QED
  BY <1>1, Kinds, MainAdvances, TaskAdvances DEF Typed, Actors

\* No operation outlives the permit of its actor.
LEMMA StepKeepsOperation ==
  ASSUME Words, Idles \/ ProcessEnds \/ \E a \in Actors : Moves(a),
         operation # "none" => \E a \in Actors : permit[a] = operation
  PROVE  operation' # "none" => \E a \in Actors : permit'[a] = operation'
<1> USE DEF Words
<1>1. CASE Idles \/ ProcessEnds
  BY <1>1 DEF Idles, life, ProcessEnds
<1>2. ASSUME NEW a \in Actors, GoesOn(a) \/ Enters(a) \/ Commits(a)
      PROVE  operation' # "none" => \E b \in Actors : permit'[b] = operation'
  BY <1>2 DEF GoesOn, Enters, TryBegin, Commits, CommitShutdown
<1>3. ASSUME NEW a \in Actors, Leaves(a)
      PROVE  operation' # "none" => \E b \in Actors : permit'[b] = operation'
  <2>1. /\ \A b \in Actors : b # a => permit'[b] = permit[b]
        /\ operation' = IF operation = permit[a] THEN "none" ELSE operation
    BY <1>3 DEF Leaves, DropPermit
  <2> QED
    BY <2>1
<1> QED
  BY <1>1, <1>2, <1>3 DEF Moves

\* Every step keeps the mutex and the operation with an owner.
LEMMA StepKeepsOwned ==
  ASSUME ActorsAssumption, IInv, Owned, [Next]_vars
  PROVE  Owned'
<1>1. Typed /\ Words
  BY DEF IInv, Typed
<1>2. (operation # "none" => \E a \in Actors : permit[a] = operation)'
  BY <1>1, StepMoves, StepKeepsOperation DEF Owned
<1>3. CASE UNCHANGED <<pc, permit, lock>>
  BY <1>2, <1>3 DEF Owned, Holds
<1>4. CASE ProcessEnds
  BY <1>4 DEF ProcessEnds, Owned, Holds, StopLabels, ActorsAssumption, Actors
<1>5. ASSUME NEW a \in Actors, Advances(a)
      PROVE  Owned'
  <2>1. \A b \in Actors : Holds(b)'
    BY <1>5 DEF Advances, Owned, Holds
  <2>2. \A b \in Actors : pc'[b] \in StopLabels <=> lock' = b
    BY <1>5 DEF Advances, Owned, ActorsAssumption, Actors
  <2> QED
    BY <1>2, <2>1, <2>2 DEF Owned
<1> QED
  BY <1>1, <1>3, <1>4, <1>5, StepAdvances

\* The mutex and the operation have an owner in every reachable state.
LEMMA AlwaysOwned == Spec => []Owned
<1>1. Init => Owned
  BY ActorsAssumption DEF Init, Owned, Holds, StopLabels, ActorsAssumption,
                          Actors
<1>2. IInv /\ Owned /\ [Next]_vars => Owned'
  BY StepKeepsOwned, ActorsAssumption
<1> QED
  BY <1>1, <1>2, Inductive, PTL DEF Spec

\* Whoever finds the watcher mutex taken waits for one actor, and that one only
\* for a worker whose pipe is closed.
MutexIsHandedOn ==
  lock # NoOne =>
    /\ lock \in Actors /\ pc[lock] \in StopLabels
    /\ \A a \in Actors : pc[a] \in StopLabels => a = lock
    /\ ~control

\* Nobody waits for an actor that waits for somebody, so that no two handlers ever
\* wait for each other (stop_all_watchers, WatcherProcess).
THEOREM NobodyWaitsForWaiters == Spec => []MutexIsHandedOn
<1>1. IInv /\ Owned => MutexIsHandedOn
  <2> SUFFICES ASSUME IInv, Owned, lock # NoOne
               PROVE  /\ lock \in Actors /\ pc[lock] \in StopLabels
                      /\ \A a \in Actors : pc[a] \in StopLabels => a = lock
                      /\ ~control
    BY DEF MutexIsHandedOn
  <2>1. lock \in Actors
    BY DEF IInv, Typed, Words
  <2>2. ~control
    BY Zenon DEF IInv, Typed, Pipe
  <2> QED
    BY <2>1, <2>2 DEF Owned
<1> QED
  BY <1>1, Inductive, AlwaysOwned, PTL

\* An operation that refuses the others is that of an actor on its way.
OperationIsOwned ==
  operation # "none" =>
    \E a \in Actors :
      permit[a] = operation /\ (OperationOf(pc[a]) = operation \/ pc[a] = "leave")

\* No permit is lost: while the coordinator refuses the others, an actor within the
\* operation has the permit and will drop it (LifecyclePermit).
THEOREM NoPermitIsLost == Spec => []OperationIsOwned
<1>1. IInv /\ Owned => OperationIsOwned
  <2> SUFFICES ASSUME IInv, Owned, operation # "none"
               PROVE  \E a \in Actors :
                        /\ permit[a] = operation
                        /\ OperationOf(pc[a]) = operation \/ pc[a] = "leave"
    BY DEF OperationIsOwned
  <2>1. PICK a \in Actors : permit[a] = operation
    BY DEF Owned
  <2>2. OperationOf(pc[a]) # "none" \/ pc[a] = "leave"
    BY <2>1 DEF Owned, Holds
  <2>3. OperationOf(pc[a]) # "none" => permit[a] = OperationOf(pc[a])
    BY DEF IInv, Coordinated, Held
  <2> QED
    BY <2>1, <2>2, <2>3
<1> QED
  BY <1>1, Inductive, AlwaysOwned, PTL

\* Every step of an actor that is not at rest leaves it fewer steps, and no step of
\* another one leaves it more.
StepsCountDown ==
  [][/\ MainStep /\ ~Resting(Main) => Rank(pc'[Main]) < Rank(pc[Main])
     /\ \A t \in Tasks :
          TaskStep(t) /\ ~Resting(t) => Rank(pc'[t]) < Rank(pc[t])
     /\ \A a \in Actors :
          pc'[a] # pc[a] => Resting(a) \/ Rank(pc'[a]) < Rank(pc[a])]_vars

\* No handler goes round in circles: with the two theorems before, this is what
\* OperationsEnd asks of the code, and the rest is fairness.
THEOREM HandlersAreFinite == Spec => StepsCountDown
<1> DEFINE Counts(a) == Rank(pc'[a]) < Rank(pc[a])
           CountsDown ==
             /\ MainStep /\ ~Resting(Main) => Counts(Main)
             /\ \A t \in Tasks : TaskStep(t) /\ ~Resting(t) => Counts(t)
             /\ \A a \in Actors : pc'[a] # pc[a] => Resting(a) \/ Counts(a)
<1>1. ASSUME IInv, [Next]_vars PROVE CountsDown
  <2>1. Typed /\ Words
    BY <1>1 DEF IInv, Typed
  <2>2. ASSUME NEW a \in Actors, Advances(a), ~Resting(a) PROVE Counts(a)
    BY <2>2 DEF Advances, Resting
  <2>3. ASSUME NEW a \in Actors, ProcessEnds, ~Resting(a) PROVE Counts(a)
    <3>1. pc'[a] = "idle" /\ pc[a] \in Labels \ {"idle"}
      BY <2>1, <2>3 DEF ProcessEnds, Words, Resting
    <3> QED
      BY <3>1 DEF Labels, Rank
  <2> HIDE DEF Counts
  <2>4. MainStep /\ ~Resting(Main) => Counts(Main)
    BY <2>1, <2>2, <2>3, MainAdvances, ActorsAssumption DEF Actors
  <2>5. \A t \in Tasks : TaskStep(t) /\ ~Resting(t) => Counts(t)
    BY <2>1, <2>2, TaskAdvances, ActorsAssumption DEF Actors
  <2>6. ASSUME NEW a \in Actors, pc'[a] # pc[a], ~Resting(a) PROVE Counts(a)
    <3>1. ASSUME NEW b \in Actors, Advances(b) PROVE Counts(a)
      <4>1. a = b
        BY <2>6, <3>1 DEF Advances
      <4> QED
        BY <2>2, <2>6, <3>1, <4>1
    <3> QED
      BY <1>1, <2>1, <2>3, <2>6, <3>1, StepAdvances, ActorsAssumption
  <2> QED
    BY <2>4, <2>5, <2>6
<1>2. IInv /\ [Next]_vars => [CountsDown]_vars
  BY <1>1
<1> QED
  BY <1>2, Inductive, PTL DEF Spec, StepsCountDown
=============================================================================
