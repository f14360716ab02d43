--------------------------- MODULE AppQuietProofs ---------------------------
(***************************************************************************)
(* What App promises as long as the user leaves the toggle alone while an  *)
(* operation runs: for any number of tasks, with failed writes, failed     *)
(* operations, crashes and restarts at any moment.                         *)
(*                                                                         *)
(* The main thread and the tasks then take turns at what outlives the      *)
(* process, and each label of a turn tells what is there by then.  The     *)
(* rest of the argument is that nobody else's step changes any of it.      *)
(***************************************************************************)
EXTENDS AppProofs

-----------------------------------------------------------------------------
(* The inductive invariant *)

\* The handlers of the main thread that change what outlives the process.
ResumeLabels == {"enable_login", "enable_start", "enable_set", "undo_halt",
                 "undo_stop", "undo"}
PauseLabels == {"pause_halt", "pause_stop", "pause_set"}
ForgetLabels == PasswordLabels \ {"prompt"}
TurnLabels == {"enable"} \cup ResumeLabels \cup PauseLabels \cup ForgetLabels

AllRest == \A t \in Tasks : Resting(t)

\* The main thread and the tasks take turns, and without a process nobody does.
Turns ==
  /\ pc[Main] \in TurnLabels => AllRest
  /\ \A t \in Tasks : pc[t] \in {"idle", "leave"} \/ OperationOf(pc[t]) # "none"
  /\ ~up => AllRest /\ pc[Main] = "idle"

\* The password is there, or a deletion that failed has removed it.
Accounted == password \/ torn

\* Who is about to enable automatic mode, or to restore it, has a password to
\* account for; who is about to delete it has disabled automatic mode.
PasswordOfMain ==
  /\ pc[Main] \in ResumeLabels => Accounted
  /\ pc[Main] \in ForgetLabels
       /\ saved[Main].protected = "enabled" => Accounted
  /\ pc[Main] = "forget_delete" => protected # "enabled"

Planned == UninstallLabels \ {"plan"}
Undoing == {"rollback_login", "rollback_state", "rollback_watcher"}

PasswordOf(t) ==
  /\ pc[t] \in Planned /\ ~saved[t].deleted /\ saved[t].protected = "enabled" =>
       Accounted
  /\ pc[t] \in Undoing => ~saved[t].deleted
  /\ pc[t] = "purge_password" => protected = "missing"

\* What an uninstall has taken away, and what its rollback has put back.
Stopped == Planned \ {"login_off", "uninstall_halt"}
Deleting == Stopped \ ({"uninstall_stop", "stop_undo", "report"} \cup Undoing)

PlanOf(t) ==
  /\ pc[t] = "login_off" => autostart = saved[t].autostart
  /\ pc[t] \in Deleting \cup {"uninstall_halt", "uninstall_stop",
                              "rollback_login"} => ~autostart
  /\ pc[t] \in Deleting \cup {"uninstall_stop"} => ~control
  /\ pc[t] \in Deleting \cup {"report"} /\ saved[t].deleted =>
       protected = "missing" /\ ~autostart /\ ~control
  /\ saved[t].deleted =>
       pc[t] \in {"final_trash", "commit", "leave", "rollback_bundle",
                 "rollback_settings", "report"}
  /\ pc[t] = "purge_password" => protected = "missing"
  /\ pc[t] \in {"rollback_settings", "report"} \cup Undoing =>
       bundle = "installed"
  /\ pc[t] \in {"report"} \cup Undoing =>
       ~staged /\ (saved[t].settings => settings)
  /\ pc[t] \in {"rollback_state", "rollback_watcher", "report"}
       /\ ~saved[t].deleted => autostart = saved[t].autostart
  /\ pc[t] \in {"rollback_watcher", "report"} /\ ~saved[t].deleted =>
       protected = saved[t].protected

\* The watcher that runs is that of the enabled mode, and so is the one that
\* comes back.
Runs == control \/ worker = "live"

WatcherOfMain ==
  /\ Runs => \/ protected = "enabled"
             \/ pc[Main] \in {"enable_set", "undo_halt", "undo_stop"}
  /\ pc[Main] \in {"undo", "pause_set", "forget_set", "forget_delete",
                   "forget_unset", "forget_restore"} => ~Runs
  /\ pc[Main] \in PauseLabels \cup {"forget_halt", "forget_stop", "forget_set",
                                    "forget_restore"} =>
       protected = saved[Main].protected

WatcherOf(t) ==
  /\ pc[t] \in {"update_halt", "update_stop", "second_dialog_check", "replace",
                "update_restore"} /\ saved[t].restore => protected = "enabled"
  /\ pc[t] \in Planned /\ saved[t].restore => saved[t].protected = "enabled"
  /\ pc[t] \in {"login_off", "uninstall_halt", "uninstall_stop", "stop_undo"} =>
       protected = saved[t].protected
  /\ pc[t] \in Deleting \cup {"stop_undo"} \cup Undoing => ~Runs

\* Each property has faults that it does not stand.
PasswordKept ==
  EnabledHasPassword /\ PasswordOfMain /\ \A t \in Tasks : PasswordOf(t)

PlanKept == ~RollbackFails => \A t \in Tasks : PlanOf(t)

WatcherKept ==
  ~RollbackFails /\ ~StopFails =>
    WatcherOfMain /\ \A t \in Tasks : WatcherOf(t)

QuietInv == Turns /\ PasswordKept /\ PlanKept /\ WatcherKept

-----------------------------------------------------------------------------
(* Turns *)

\* A step that changes nothing outside the process and starts no watcher.
LeavesAlone ==
  /\ UNCHANGED <<keychain, autostart, files>>
  /\ control' => control
  /\ worker' = "live" => worker = "live"

\* With no operation begun, every task is at rest.
LEMMA NoOperation ==
  ASSUME Coordinated, Turns, phase = "running", operation = "none"
  PROVE  AllRest
<1>1. ASSUME NEW t \in Tasks PROVE Resting(t)
  <2>1. OperationOf(pc[t]) \in Operations \cup {"none"}
    BY DEF OperationOf, Operations
  <2>2. OperationOf(pc[t]) = "none"
    BY <2>1 DEF Coordinated, Held, Alone, Actors, Operations
  <2>3. pc[t] # "leave"
    BY DEF Coordinated, Held, Actors
  <2> QED
    BY <2>2, <2>3 DEF Turns, Resting
<1> QED
  BY <1>1 DEF AllRest

\* The main thread has its turn, or leaves alone what is in one.
MainTurn ==
  /\ up /\ up'
  /\ AllRest \/ (LeavesAlone /\ pc'[Main] \notin TurnLabels)

\* Handler by handler.
LEMMA MainTurns ==
  ASSUME ActorsAssumption, Words, Flags, ~MidToggle, Coordinated, Turns,
         MainStep
  PROVE  MainTurn \/ ProcessEnds
<1> USE DEF ActorsAssumption, Actors, Labels, Goto, life, watch, keychain,
         passwords, files, Words, LeavesAlone, TurnLabels, ResumeLabels,
         PauseLabels, ForgetLabels, PasswordLabels, Flags, MainTurn, Turns
<1>1. CASE MainHalt
  BY <1>1 DEF MainHalt, StopCalls, Halt
<1>2. CASE GetStatus
  BY <1>2 DEF GetStatus, Reap
<1>3. CASE Acknowledge
  BY <1>3 DEF Acknowledge, MayToggle, AllRest
<1>4. CASE RequestEnable
  BY <1>4 DEF RequestEnable, MayToggle, AllRest
<1>5. ASSUME NEW ok \in BOOLEAN, EnableChecks(ok)
      PROVE  MainTurn \/ ProcessEnds
  BY <1>5 DEF EnableChecks, Branch, Reap
<1>6. ASSUME NEW ok \in BOOLEAN, EnableLogin(ok)
      PROVE  MainTurn \/ ProcessEnds
  BY <1>6 DEF EnableLogin, Branch
<1>7. ASSUME NEW ok \in BOOLEAN, EnableStart(ok)
      PROVE  MainTurn \/ ProcessEnds
  BY <1>7 DEF EnableStart, Branch, Ended
<1>8. CASE EnableSet
  BY <1>8 DEF EnableSet, Reap
<1>9. CASE EnableSetFails
  BY <1>9 DEF EnableSetFails
<1>10. CASE EnableStopped
  BY <1>10 DEF EnableStopped, StopReturns, Ended
<1>11. CASE UndoEnable
  BY <1>11 DEF UndoEnable
<1>12. CASE RequestPause
  BY <1>12 DEF RequestPause, MayToggle, AllRest
<1>13. ASSUME NEW ok \in BOOLEAN, PauseStopped(ok)
      PROVE  MainTurn \/ ProcessEnds
  BY <1>13 DEF PauseStopped, Branch, StopReturns, Ended
<1>14. CASE PauseSet
  BY <1>14 DEF PauseSet, Reap
<1>15. CASE PauseSetFails
  BY <1>15 DEF PauseSetFails, Ended
<1>16. CASE ForgetBegin
  BY <1>16, NoOperation DEF ForgetBegin, TryBegin
<1>17. ASSUME NEW ok \in BOOLEAN, ForgetStopped(ok)
      PROVE  MainTurn \/ ProcessEnds
  BY <1>17 DEF ForgetStopped, Branch, StopReturns, Ended
<1>18. ASSUME NEW ok \in BOOLEAN, ForgetSet(ok)
      PROVE  MainTurn \/ ProcessEnds
  BY <1>18 DEF ForgetSet, Branch
<1>19. CASE ForgetDelete
  BY <1>19 DEF ForgetDelete, Reap
<1>20. CASE ForgetDeleteFails
  BY <1>20 DEF ForgetDeleteFails
<1>21. CASE ForgetUnset
  BY <1>21 DEF ForgetUnset
<1>22. CASE ForgetRestore
  BY <1>22 DEF ForgetRestore, Ended
<1>23. CASE Quit
  BY <1>23 DEF Quit, BeginShutdown
<1>24. CASE QuitStopped
  BY <1>24 DEF QuitStopped, StopReturns, Ended
<1>25. CASE ExitRequested
  BY <1>25 DEF ExitRequested, BeginShutdown
<1>26. CASE ExitStopped
  BY <1>26 DEF ExitStopped, StopReturns, Ended
<1>27. CASE ExitEvent
  BY <1>27 DEF ExitEvent, BeginShutdown
<1>28. CASE Exited
  BY <1>28 DEF Exited, ProcessEnds
<1> QED
  BY <1>1, <1>2, <1>3, <1>4, <1>5, <1>6, <1>7, <1>8, <1>9, <1>10, <1>11, <1>12,
     <1>13, <1>14, <1>15, <1>16, <1>17, <1>18, <1>19, <1>20, <1>21, <1>22,
     <1>23, <1>24, <1>25, <1>26, <1>27, <1>28 DEF MainStep

\* So does a task, which is within an operation in its turn.
TaskTurn(t) ==
  /\ up /\ up'
  /\ \/ OperationOf(pc[t]) # "none"
     \/ LeavesAlone /\ (pc'[t] = "idle" \/ pc[Main] = "idle")
  /\ pc'[t] \in {"idle", "leave"} \/ OperationOf(pc'[t]) # "none"

\* Command by command.
LEMMA TaskTurns ==
  ASSUME ActorsAssumption, ~MidToggle, Words, Flags, Turns, NEW t \in Tasks,
         TaskStep(t)
  PROVE  TaskTurn(t)
<1> USE DEF ActorsAssumption, Actors, Labels, Goto, life, watch, keychain,
         passwords, files, Words, Flags, LeavesAlone, TaskTurn, Turns,
         OperationOf, PasswordLabels, UpdateLabels, UninstallLabels, Resting
<1>1. CASE StoreBegin(t)
  BY <1>1 DEF StoreBegin, Begins, MayBegin
<1>2. CASE StoreEnds(t)
  BY <1>2 DEF StoreEnds, End, Reap
<1>3. CASE CheckBegin(t)
  BY <1>3 DEF CheckBegin, Begins, MayBegin, SetStatus, Reap
<1>4. ASSUME NEW s \in Statuses, CheckEnds(t, s)
      PROVE  TaskTurn(t)
  BY <1>4 DEF CheckEnds, End, SetStatus, Reap
<1>5. CASE InstallRefused(t)
  BY <1>5 DEF InstallRefused, SetStatus, Reap
<1>6. CASE InstallBegin(t)
  BY <1>6 DEF InstallBegin, Begins, MayBegin, SetStatus, Reap
<1>7. CASE InstallChecked(t)
  BY <1>7 DEF InstallChecked, InstallGoesOn, InstallEnds, End, SetStatus, Reap
<1>8. CASE Downloaded(t)
  BY <1>8 DEF Downloaded, InstallGoesOn, InstallEnds, End, SetStatus, Reap
<1>9. CASE StillRunning(t)
  BY <1>9 DEF StillRunning, InstallEnds, End, SetStatus, Reap
<1>10. CASE FirstDialogCheck(t)
  BY <1>10 DEF FirstDialogCheck, InstallEnds, End, SetStatus, Reap
<1>11. CASE UpdateHalt(t)
  BY <1>11 DEF UpdateHalt
<1>12. ASSUME NEW ok \in BOOLEAN, UpdateStopped(t, ok)
      PROVE  TaskTurn(t)
  BY <1>12 DEF UpdateStopped, Branch
<1>13. CASE SecondDialogCheck(t)
  BY <1>13 DEF SecondDialogCheck, InstallGoesOn, SetStatus, Reap
<1>14. CASE Replaced(t)
  BY <1>14 DEF Replaced, BeginShutdown
<1>15. CASE ReplaceFails(t)
  BY <1>15 DEF ReplaceFails
<1>16. CASE UpdateRestore(t)
  BY <1>16 DEF UpdateRestore, End
<1>17. CASE Leave(t)
  BY <1>17 DEF Leave, End
<1>18. CASE UninstallBegin(t)
  BY <1>18 DEF UninstallBegin, Begins, MayBegin
<1>19. CASE Plan(t)
  BY <1>19 DEF Plan, Reap
<1>20. CASE UninstallRefused(t)
  BY <1>20 DEF UninstallRefused, End
<1>21. CASE LoginOff(t)
  BY <1>21 DEF LoginOff
<1>22. CASE UninstallHalt(t)
  BY <1>22 DEF UninstallHalt
<1>23. ASSUME NEW ok \in BOOLEAN, UninstallStopped(t, ok)
      PROVE  TaskTurn(t)
  BY <1>23 DEF UninstallStopped, Branch
<1>24. CASE UninstallStopUndo(t)
  BY <1>24 DEF UninstallStopUndo, End
<1>25. CASE StageSettings(t)
  BY <1>25 DEF StageSettings, Transacts
<1>26. CASE Preflight(t)
  BY <1>26 DEF Preflight, Transacts
<1>27. CASE PreflightReturn(t)
  BY <1>27 DEF PreflightReturn, Transacts
<1>28. CASE PurgeSettings(t)
  BY <1>28 DEF PurgeSettings, Transacts
<1>29. CASE PurgeState(t)
  BY <1>29 DEF PurgeState, Transacts
<1>30. CASE PurgePassword(t)
  BY <1>30 DEF PurgePassword, Transacts
<1>31. CASE FinalTrash(t)
  BY <1>31 DEF FinalTrash, Transacts
<1>32. CASE TransactionFails(t)
  BY <1>32 DEF TransactionFails, Transacts
<1>33. CASE RollbackBundle(t)
  BY <1>33 DEF RollbackBundle, Transacts
<1>34. CASE RollbackSettings(t)
  BY <1>34 DEF RollbackSettings, Transacts
<1>35. CASE RollbackLogin(t)
  BY <1>35 DEF RollbackLogin
<1>36. CASE RollbackState(t)
  BY <1>36 DEF RollbackState, Transacts
<1>37. CASE RollbackWatcher(t)
  BY <1>37 DEF RollbackWatcher
<1>38. CASE Report(t)
  BY <1>38 DEF Report, End
<1>39. CASE Commit(t)
  BY <1>39 DEF Commit, CommitShutdown
<1> QED
  BY <1>1, <1>2, <1>3, <1>4, <1>5, <1>6, <1>7, <1>8, <1>9, <1>10, <1>11, <1>12,
     <1>13, <1>14, <1>15, <1>16, <1>17, <1>18, <1>19, <1>20, <1>21, <1>22,
     <1>23, <1>24, <1>25, <1>26, <1>27, <1>28, <1>29, <1>30, <1>31, <1>32,
     <1>33, <1>34, <1>35, <1>36, <1>37, <1>38, <1>39 DEF TaskStep

-----------------------------------------------------------------------------
(* The password *)

\* The main thread, in its turn.
LEMMA MainKeepsPassword ==
  ASSUME ActorsAssumption, Words, Flags, Saved, EnabledHasPassword,
         PasswordOfMain, MainStep
  PROVE  (EnabledHasPassword /\ PasswordOfMain)'
<1> USE DEF ActorsAssumption, Actors, Labels, Goto, life, watch, keychain,
         passwords, files, Words, Flags, Saved, Locals, NothingSaved, States,
         Accounted, EnabledHasPassword, PasswordOfMain, TurnLabels, ResumeLabels,
         PauseLabels, ForgetLabels, PasswordLabels
<1>1. CASE MainHalt
  BY <1>1 DEF MainHalt, StopCalls
<1>2. CASE GetStatus
  BY <1>2 DEF GetStatus
<1>3. CASE Acknowledge
  BY <1>3 DEF Acknowledge
<1>4. CASE RequestEnable
  BY <1>4 DEF RequestEnable
<1>5. ASSUME NEW ok \in BOOLEAN, EnableChecks(ok)
      PROVE  (EnabledHasPassword /\ PasswordOfMain)'
  BY <1>5 DEF EnableChecks, Branch
<1>6. ASSUME NEW ok \in BOOLEAN, EnableLogin(ok)
      PROVE  (EnabledHasPassword /\ PasswordOfMain)'
  BY <1>6 DEF EnableLogin, Branch, Return
<1>7. ASSUME NEW ok \in BOOLEAN, EnableStart(ok)
      PROVE  (EnabledHasPassword /\ PasswordOfMain)'
  BY <1>7 DEF EnableStart, Branch, Return
<1>8. CASE EnableSet
  BY <1>8 DEF EnableSet, Return
<1>9. CASE EnableSetFails
  BY <1>9 DEF EnableSetFails
<1>10. CASE EnableStopped
  BY <1>10 DEF EnableStopped
<1>11. CASE UndoEnable
  BY <1>11 DEF UndoEnable, Return
<1>12. CASE RequestPause
  BY <1>12 DEF RequestPause, Remembering
<1>13. ASSUME NEW ok \in BOOLEAN, PauseStopped(ok)
      PROVE  (EnabledHasPassword /\ PasswordOfMain)'
  BY <1>13 DEF PauseStopped, Branch, Return
<1>14. CASE PauseSet
  BY <1>14 DEF PauseSet, PausedFrom, Return
<1>15. CASE PauseSetFails
  BY <1>15 DEF PauseSetFails, Return
<1>16. CASE ForgetBegin
  BY <1>16 DEF ForgetBegin, Remembering
<1>17. ASSUME NEW ok \in BOOLEAN, ForgetStopped(ok)
      PROVE  (EnabledHasPassword /\ PasswordOfMain)'
  BY <1>17 DEF ForgetStopped, Branch, Return
<1>18. ASSUME NEW ok \in BOOLEAN, ForgetSet(ok)
      PROVE  (EnabledHasPassword /\ PasswordOfMain)'
  BY <1>18 DEF ForgetSet, Branch, PausedFrom
<1>19. CASE ForgetDelete
  BY <1>19 DEF ForgetDelete, Return
<1>20. CASE ForgetDeleteFails
  BY <1>20 DEF ForgetDeleteFails, DeletionFails
<1>21. CASE ForgetUnset
  BY <1>21 DEF ForgetUnset
<1>22. CASE ForgetRestore
  BY <1>22 DEF ForgetRestore, Return
<1>23. CASE Quit
  BY <1>23 DEF Quit, BeginShutdown
<1>24. CASE QuitStopped
  BY <1>24 DEF QuitStopped
<1>25. CASE ExitRequested
  BY <1>25 DEF ExitRequested, BeginShutdown
<1>26. CASE ExitStopped
  BY <1>26 DEF ExitStopped
<1>27. CASE ExitEvent
  BY <1>27 DEF ExitEvent, BeginShutdown
<1>28. CASE Exited
  BY <1>28 DEF Exited, ProcessEnds
<1> QED
  BY <1>1, <1>2, <1>3, <1>4, <1>5, <1>6, <1>7, <1>8, <1>9, <1>10, <1>11, <1>12,
     <1>13, <1>14, <1>15, <1>16, <1>17, <1>18, <1>19, <1>20, <1>21, <1>22,
     <1>23, <1>24, <1>25, <1>26, <1>27, <1>28 DEF MainStep

\* A task, in its own.
LEMMA TaskKeepsPassword ==
  ASSUME ActorsAssumption, Words, Flags, Saved, EnabledHasPassword,
         NEW t \in Tasks, PasswordOf(t), TaskStep(t)
  PROVE  (EnabledHasPassword /\ PasswordOf(t))'
<1> USE DEF ActorsAssumption, Actors, Labels, Goto, life, watch, keychain,
         passwords, files, Words, Flags, Saved, Locals, NothingSaved, States,
         Accounted, EnabledHasPassword, PasswordOf, UninstallLabels, Planned,
         Undoing
<1>1. CASE StoreBegin(t)
  BY <1>1 DEF StoreBegin, Begins
<1>2. CASE StoreEnds(t)
  <2>1. pc[t] = "prompt" /\ pc'[t] = "idle" /\ protected' = protected
    BY <1>2 DEF StoreEnds, End
  <2>2. Accounted => Accounted'
    BY <1>2, Zenon DEF StoreEnds, Accounted
  <2> QED
    BY <2>1, <2>2
<1>3. CASE CheckBegin(t)
  BY <1>3 DEF CheckBegin, Begins, SetStatus
<1>4. ASSUME NEW s \in Statuses, CheckEnds(t, s)
      PROVE  (EnabledHasPassword /\ PasswordOf(t))'
  BY <1>4 DEF CheckEnds, End, Return, SetStatus
<1>5. CASE InstallRefused(t)
  BY <1>5 DEF InstallRefused, Resting, SetStatus
<1>6. CASE InstallBegin(t)
  BY <1>6 DEF InstallBegin, Begins, SetStatus
<1>7. CASE InstallChecked(t)
  BY <1>7 DEF InstallChecked, InstallGoesOn, InstallEnds, End, Return,
      SetStatus
<1>8. CASE Downloaded(t)
  BY <1>8 DEF Downloaded, InstallGoesOn, InstallEnds, End, Return, SetStatus
<1>9. CASE StillRunning(t)
  BY <1>9 DEF StillRunning, InstallEnds, End, Return, SetStatus
<1>10. CASE FirstDialogCheck(t)
  BY <1>10 DEF FirstDialogCheck, InstallEnds, End, Return, SetStatus,
      Remembering
<1>11. CASE UpdateHalt(t)
  BY <1>11 DEF UpdateHalt
<1>12. ASSUME NEW ok \in BOOLEAN, UpdateStopped(t, ok)
      PROVE  (EnabledHasPassword /\ PasswordOf(t))'
  BY <1>12 DEF UpdateStopped, Branch, Remembering
<1>13. CASE SecondDialogCheck(t)
  BY <1>13 DEF SecondDialogCheck, InstallGoesOn, SetStatus, Remembering
<1>14. CASE Replaced(t)
  BY <1>14 DEF Replaced
<1>15. CASE ReplaceFails(t)
  BY <1>15 DEF ReplaceFails, Remembering
<1>16. CASE UpdateRestore(t)
  BY <1>16 DEF UpdateRestore, End, Return
<1>17. CASE Leave(t)
  BY <1>17 DEF Leave, End, Return
<1>18. CASE UninstallBegin(t)
  BY <1>18 DEF UninstallBegin, Begins
<1>19. CASE Plan(t)
  BY <1>19 DEF Plan
<1>20. CASE UninstallRefused(t)
  BY <1>20 DEF UninstallRefused, End, Return
<1>21. CASE LoginOff(t)
  BY <1>21 DEF LoginOff
<1>22. CASE UninstallHalt(t)
  BY <1>22 DEF UninstallHalt
<1>23. ASSUME NEW ok \in BOOLEAN, UninstallStopped(t, ok)
      PROVE  (EnabledHasPassword /\ PasswordOf(t))'
  BY <1>23 DEF UninstallStopped, Branch
<1>24. CASE UninstallStopUndo(t)
  BY <1>24 DEF UninstallStopUndo, End, Return
<1>25. CASE StageSettings(t)
  BY <1>25 DEF StageSettings, Transacts
<1>26. CASE Preflight(t)
  BY <1>26 DEF Preflight, Transacts
<1>27. CASE PreflightReturn(t)
  BY <1>27 DEF PreflightReturn, Transacts
<1>28. CASE PurgeSettings(t)
  BY <1>28 DEF PurgeSettings, Transacts
<1>29. CASE PurgeState(t)
  BY <1>29 DEF PurgeState, Transacts
<1>30. CASE PurgePassword(t)
  BY <1>30 DEF PurgePassword, Transacts, Remembering
<1>31. CASE FinalTrash(t)
  BY <1>31 DEF FinalTrash, Transacts
<1>32. CASE TransactionFails(t)
  BY <1>32 DEF TransactionFails, Transacts, DeletionFails
<1>33. CASE RollbackBundle(t)
  BY <1>33 DEF RollbackBundle, Transacts
<1>34. CASE RollbackSettings(t)
  BY <1>34 DEF RollbackSettings, Transacts
<1>35. CASE RollbackLogin(t)
  BY <1>35 DEF RollbackLogin
<1>36. CASE RollbackState(t)
  BY <1>36 DEF RollbackState, Transacts
<1>37. CASE RollbackWatcher(t)
  BY <1>37 DEF RollbackWatcher
<1>38. CASE Report(t)
  BY <1>38 DEF Report, End, Return
<1>39. CASE Commit(t)
  BY <1>39 DEF Commit
<1> QED
  BY <1>1, <1>2, <1>3, <1>4, <1>5, <1>6, <1>7, <1>8, <1>9, <1>10, <1>11, <1>12,
     <1>13, <1>14, <1>15, <1>16, <1>17, <1>18, <1>19, <1>20, <1>21, <1>22,
     <1>23, <1>24, <1>25, <1>26, <1>27, <1>28, <1>29, <1>30, <1>31, <1>32,
     <1>33, <1>34, <1>35, <1>36, <1>37, <1>38, <1>39 DEF TaskStep

-----------------------------------------------------------------------------
(* The plan of an uninstall *)

\* A task keeps to its plan.
LEMMA TaskKeepsPlan ==
  ASSUME ActorsAssumption, ~RollbackFails, Words, Flags, Saved,
         NEW t \in Tasks, PlanOf(t), TaskStep(t)
  PROVE  PlanOf(t)'
<1> USE DEF ActorsAssumption, Actors, Labels, Goto, life, watch, keychain,
         passwords, files, Words, Flags, Saved, Locals, NothingSaved, States,
         PlanOf, Deleting, Stopped, UninstallLabels, Planned, Undoing
<1>1. CASE StoreBegin(t)
  BY <1>1 DEF StoreBegin, Begins
<1>2. CASE StoreEnds(t)
  BY <1>2 DEF StoreEnds, End, Return, Reap
<1>3. CASE CheckBegin(t)
  BY <1>3 DEF CheckBegin, Begins, SetStatus, Reap
<1>4. ASSUME NEW s \in Statuses, CheckEnds(t, s)
      PROVE  PlanOf(t)'
  BY <1>4 DEF CheckEnds, End, Return, SetStatus, Reap
<1>5. CASE InstallRefused(t)
  BY <1>5 DEF InstallRefused, Resting, SetStatus, Reap
<1>6. CASE InstallBegin(t)
  BY <1>6 DEF InstallBegin, Begins, SetStatus, Reap
<1>7. CASE InstallChecked(t)
  BY <1>7 DEF InstallChecked, InstallGoesOn, InstallEnds, End, Return,
      SetStatus, Reap
<1>8. CASE Downloaded(t)
  BY <1>8 DEF Downloaded, InstallGoesOn, InstallEnds, End, Return, SetStatus,
      Reap
<1>9. CASE StillRunning(t)
  BY <1>9 DEF StillRunning, InstallEnds, End, Return, SetStatus, Reap
<1>10. CASE FirstDialogCheck(t)
  BY <1>10 DEF FirstDialogCheck, InstallEnds, End, Return, SetStatus, Reap,
      Remembering
<1>11. CASE UpdateHalt(t)
  BY <1>11 DEF UpdateHalt, Halt
<1>12. ASSUME NEW ok \in BOOLEAN, UpdateStopped(t, ok)
      PROVE  PlanOf(t)'
  BY <1>12 DEF UpdateStopped, Branch, StopReturns, Ended, Remembering
<1>13. CASE SecondDialogCheck(t)
  BY <1>13 DEF SecondDialogCheck, InstallGoesOn, SetStatus, Reap, Remembering
<1>14. CASE Replaced(t)
  BY <1>14 DEF Replaced, BeginShutdown
<1>15. CASE ReplaceFails(t)
  BY <1>15 DEF ReplaceFails, Remembering
<1>16. CASE UpdateRestore(t)
  BY <1>16 DEF UpdateRestore, End, Return, Reap, Ended
<1>17. CASE Leave(t)
  BY <1>17 DEF Leave, End, Return
<1>18. CASE UninstallBegin(t)
  BY <1>18 DEF UninstallBegin, Begins
<1>19. CASE Plan(t)
  BY <1>19 DEF Plan, Reap
<1>20. CASE UninstallRefused(t)
  BY <1>20 DEF UninstallRefused, End, Return
<1>21. CASE LoginOff(t)
  BY <1>21 DEF LoginOff
<1>22. CASE UninstallHalt(t)
  BY <1>22 DEF UninstallHalt, Halt
<1>23. ASSUME NEW ok \in BOOLEAN, UninstallStopped(t, ok)
      PROVE  PlanOf(t)'
  BY <1>23 DEF UninstallStopped, Branch, StopReturns, Ended
<1>24. CASE UninstallStopUndo(t)
  BY <1>24 DEF UninstallStopUndo, End, Return, Ended
<1>25. CASE StageSettings(t)
  BY <1>25 DEF StageSettings, Transacts
<1>26. CASE Preflight(t)
  BY <1>26 DEF Preflight, Transacts
<1>27. CASE PreflightReturn(t)
  BY <1>27 DEF PreflightReturn, Transacts
<1>28. CASE PurgeSettings(t)
  BY <1>28 DEF PurgeSettings, Transacts
<1>29. CASE PurgeState(t)
  BY <1>29 DEF PurgeState, Transacts
<1>30. CASE PurgePassword(t)
  BY <1>30 DEF PurgePassword, Transacts, Remembering
<1>31. CASE FinalTrash(t)
  BY <1>31 DEF FinalTrash, Transacts
<1>32. CASE TransactionFails(t)
  BY <1>32 DEF TransactionFails, Transacts, DeletionFails
<1>33. CASE RollbackBundle(t)
  BY <1>33 DEF RollbackBundle, Transacts
<1>34. CASE RollbackSettings(t)
  BY <1>34 DEF RollbackSettings, Transacts
<1>35. CASE RollbackLogin(t)
  BY <1>35 DEF RollbackLogin
<1>36. CASE RollbackState(t)
  BY <1>36 DEF RollbackState, Transacts
<1>37. CASE RollbackWatcher(t)
  BY <1>37 DEF RollbackWatcher, Ended
<1>38. CASE Report(t)
  BY <1>38 DEF Report, End, Return
<1>39. CASE Commit(t)
  BY <1>39 DEF Commit
<1> QED
  BY <1>1, <1>2, <1>3, <1>4, <1>5, <1>6, <1>7, <1>8, <1>9, <1>10, <1>11, <1>12,
     <1>13, <1>14, <1>15, <1>16, <1>17, <1>18, <1>19, <1>20, <1>21, <1>22,
     <1>23, <1>24, <1>25, <1>26, <1>27, <1>28, <1>29, <1>30, <1>31, <1>32,
     <1>33, <1>34, <1>35, <1>36, <1>37, <1>38, <1>39 DEF TaskStep

-----------------------------------------------------------------------------
(* The watcher *)

\* The main thread starts a watcher with the enabled mode.
LEMMA MainKeepsWatcher ==
  ASSUME ActorsAssumption, ~RollbackFails, ~StopFails, Words, Flags, Saved,
         Pipe, WatcherOfMain, MainStep
  PROVE  WatcherOfMain'
<1> USE DEF ActorsAssumption, Actors, Labels, Goto, life, watch, keychain,
         passwords, files, Words, Flags, Saved, Locals, NothingSaved, States,
         Pipe, Runs, WatcherOfMain, TurnLabels, ResumeLabels, PauseLabels,
         ForgetLabels, PasswordLabels
<1>1. CASE MainHalt
  BY <1>1 DEF MainHalt, StopCalls, Halt
<1>2. CASE GetStatus
  BY <1>2 DEF GetStatus, Reap
<1>3. CASE Acknowledge
  BY <1>3 DEF Acknowledge
<1>4. CASE RequestEnable
  BY <1>4 DEF RequestEnable
<1>5. ASSUME NEW ok \in BOOLEAN, EnableChecks(ok)
      PROVE  WatcherOfMain'
  BY <1>5 DEF EnableChecks, Branch, Reap
<1>6. ASSUME NEW ok \in BOOLEAN, EnableLogin(ok)
      PROVE  WatcherOfMain'
  BY <1>6 DEF EnableLogin, Branch, Return
<1>7. ASSUME NEW ok \in BOOLEAN, EnableStart(ok)
      PROVE  WatcherOfMain'
  BY <1>7 DEF EnableStart, Branch, StartWatcher, StartWorker, Ended, Return
<1>8. CASE EnableSet
  BY <1>8 DEF EnableSet, Reap, Return
<1>9. CASE EnableSetFails
  BY <1>9 DEF EnableSetFails
<1>10. CASE EnableStopped
  BY <1>10 DEF EnableStopped, StopReturns, Ended
<1>11. CASE UndoEnable
  BY <1>11 DEF UndoEnable, Return
<1>12. CASE RequestPause
  BY <1>12 DEF RequestPause, Remembering
<1>13. ASSUME NEW ok \in BOOLEAN, PauseStopped(ok)
      PROVE  WatcherOfMain'
  BY <1>13 DEF PauseStopped, Branch, StopReturns, Ended, Return
<1>14. CASE PauseSet
  BY <1>14 DEF PauseSet, PausedFrom, Reap, Return
<1>15. CASE PauseSetFails
  BY <1>15 DEF PauseSetFails, Restore, StartWatcher, StartWorker, Ended,
      Return
<1>16. CASE ForgetBegin
  BY <1>16 DEF ForgetBegin, Remembering
<1>17. ASSUME NEW ok \in BOOLEAN, ForgetStopped(ok)
      PROVE  WatcherOfMain'
  BY <1>17 DEF ForgetStopped, Branch, StopReturns, Ended, Return
<1>18. ASSUME NEW ok \in BOOLEAN, ForgetSet(ok)
      PROVE  WatcherOfMain'
  BY <1>18 DEF ForgetSet, Branch, PausedFrom
<1>19. CASE ForgetDelete
  BY <1>19 DEF ForgetDelete, Reap, Return
<1>20. CASE ForgetDeleteFails
  BY <1>20 DEF ForgetDeleteFails
<1>21. CASE ForgetUnset
  BY <1>21 DEF ForgetUnset
<1>22. CASE ForgetRestore
  BY <1>22 DEF ForgetRestore, Restore, StartWatcher, StartWorker, Ended,
      Return
<1>23. CASE Quit
  BY <1>23 DEF Quit
<1>24. CASE QuitStopped
  BY <1>24 DEF QuitStopped, StopReturns, Ended
<1>25. CASE ExitRequested
  BY <1>25 DEF ExitRequested
<1>26. CASE ExitStopped
  BY <1>26 DEF ExitStopped, StopReturns, Ended
<1>27. CASE ExitEvent
  BY <1>27 DEF ExitEvent
<1>28. CASE Exited
  BY <1>28 DEF Exited, ProcessEnds
<1> QED
  BY <1>1, <1>2, <1>3, <1>4, <1>5, <1>6, <1>7, <1>8, <1>9, <1>10, <1>11, <1>12,
     <1>13, <1>14, <1>15, <1>16, <1>17, <1>18, <1>19, <1>20, <1>21, <1>22,
     <1>23, <1>24, <1>25, <1>26, <1>27, <1>28 DEF MainStep

\* A task starts one again if the mode is, or will be, enabled.
LEMMA TaskKeepsWatcher ==
  ASSUME ActorsAssumption, ~RollbackFails, ~StopFails, Words, Flags, Saved,
         Pipe, NEW t \in Tasks, PlanOf(t), WatcherOf(t),
         Runs => protected = "enabled", TaskStep(t)
  PROVE  (Runs => protected = "enabled")' /\ WatcherOf(t)'
<1> USE DEF ActorsAssumption, Actors, Labels, Goto, life, watch, keychain,
         passwords, files, Words, Flags, Saved, Locals, NothingSaved, States,
         Pipe, Runs, PlanOf, WatcherOf, Deleting, Stopped, UninstallLabels,
         Planned, Undoing
<1>1. CASE StoreBegin(t)
  BY <1>1 DEF StoreBegin, Begins
<1>2. CASE StoreEnds(t)
  BY <1>2 DEF StoreEnds, End, Return, Reap
<1>3. CASE CheckBegin(t)
  BY <1>3 DEF CheckBegin, Begins, SetStatus, Reap
<1>4. ASSUME NEW s \in Statuses, CheckEnds(t, s)
      PROVE  (Runs => protected = "enabled")' /\ WatcherOf(t)'
  BY <1>4 DEF CheckEnds, End, Return, SetStatus, Reap
<1>5. CASE InstallRefused(t)
  BY <1>5 DEF InstallRefused, Resting, SetStatus, Reap
<1>6. CASE InstallBegin(t)
  BY <1>6 DEF InstallBegin, Begins, SetStatus, Reap
<1>7. CASE InstallChecked(t)
  BY <1>7 DEF InstallChecked, InstallGoesOn, InstallEnds, End, Return,
      SetStatus, Reap
<1>8. CASE Downloaded(t)
  BY <1>8 DEF Downloaded, InstallGoesOn, InstallEnds, End, Return, SetStatus,
      Reap
<1>9. CASE StillRunning(t)
  BY <1>9 DEF StillRunning, InstallEnds, End, Return, SetStatus, Reap
<1>10. CASE FirstDialogCheck(t)
  BY <1>10 DEF FirstDialogCheck, InstallEnds, End, Return, SetStatus, Reap,
      Remembering
<1>11. CASE UpdateHalt(t)
  BY <1>11 DEF UpdateHalt, Halt
<1>12. ASSUME NEW ok \in BOOLEAN, UpdateStopped(t, ok)
      PROVE  (Runs => protected = "enabled")' /\ WatcherOf(t)'
  BY <1>12 DEF UpdateStopped, Branch, StopReturns, Ended, Remembering
<1>13. CASE SecondDialogCheck(t)
  BY <1>13 DEF SecondDialogCheck, InstallGoesOn, SetStatus, Reap, Remembering
<1>14. CASE Replaced(t)
  BY <1>14 DEF Replaced
<1>15. CASE ReplaceFails(t)
  BY <1>15 DEF ReplaceFails, Remembering
<1>16. CASE UpdateRestore(t)
  BY <1>16 DEF UpdateRestore, End, Return, Reap, StartWatcher, StartWorker,
      Ended
<1>17. CASE Leave(t)
  BY <1>17 DEF Leave, End, Return
<1>18. CASE UninstallBegin(t)
  BY <1>18 DEF UninstallBegin, Begins
<1>19. CASE Plan(t)
  BY <1>19 DEF Plan, Reap
<1>20. CASE UninstallRefused(t)
  BY <1>20 DEF UninstallRefused, End, Return
<1>21. CASE LoginOff(t)
  BY <1>21 DEF LoginOff
<1>22. CASE UninstallHalt(t)
  BY <1>22 DEF UninstallHalt, Halt
<1>23. ASSUME NEW ok \in BOOLEAN, UninstallStopped(t, ok)
      PROVE  (Runs => protected = "enabled")' /\ WatcherOf(t)'
  BY <1>23 DEF UninstallStopped, Branch, StopReturns, Ended
<1>24. CASE UninstallStopUndo(t)
  BY <1>24 DEF UninstallStopUndo, End, Return, Restore, StartWatcher,
      StartWorker, Ended
<1>25. CASE StageSettings(t)
  BY <1>25 DEF StageSettings, Transacts
<1>26. CASE Preflight(t)
  BY <1>26 DEF Preflight, Transacts
<1>27. CASE PreflightReturn(t)
  BY <1>27 DEF PreflightReturn, Transacts
<1>28. CASE PurgeSettings(t)
  BY <1>28 DEF PurgeSettings, Transacts
<1>29. CASE PurgeState(t)
  BY <1>29 DEF PurgeState, Transacts
<1>30. CASE PurgePassword(t)
  BY <1>30 DEF PurgePassword, Transacts, Remembering
<1>31. CASE FinalTrash(t)
  BY <1>31 DEF FinalTrash, Transacts
<1>32. CASE TransactionFails(t)
  BY <1>32 DEF TransactionFails, Transacts
<1>33. CASE RollbackBundle(t)
  BY <1>33 DEF RollbackBundle, Transacts
<1>34. CASE RollbackSettings(t)
  BY <1>34 DEF RollbackSettings, Transacts
<1>35. CASE RollbackLogin(t)
  BY <1>35 DEF RollbackLogin
<1>36. CASE RollbackState(t)
  BY <1>36 DEF RollbackState, Transacts
<1>37. CASE RollbackWatcher(t)
  BY <1>37 DEF RollbackWatcher, Restore, StartWatcher, StartWorker, Ended
<1>38. CASE Report(t)
  BY <1>38 DEF Report, End, Return
<1>39. CASE Commit(t)
  BY <1>39 DEF Commit
<1> QED
  BY <1>1, <1>2, <1>3, <1>4, <1>5, <1>6, <1>7, <1>8, <1>9, <1>10, <1>11, <1>12,
     <1>13, <1>14, <1>15, <1>16, <1>17, <1>18, <1>19, <1>20, <1>21, <1>22,
     <1>23, <1>24, <1>25, <1>26, <1>27, <1>28, <1>29, <1>30, <1>31, <1>32,
     <1>33, <1>34, <1>35, <1>36, <1>37, <1>38, <1>39 DEF TaskStep

-----------------------------------------------------------------------------
(* Whose turn it is not *)

\* Nobody else's step changes what a label tells.
LEMMA PasswordStays ==
  ASSUME LeavesAlone, NEW t \in Tasks, PasswordOf(t),
         pc'[t] = pc[t], saved'[t] = saved[t]
  PROVE  PasswordOf(t)'
  BY DEF LeavesAlone, keychain, passwords, Accounted, PasswordOf

\* The same of its plan.
LEMMA PlanStays ==
  ASSUME LeavesAlone, NEW t \in Tasks, PlanOf(t),
         pc'[t] = pc[t], saved'[t] = saved[t]
  PROVE  PlanOf(t)'
  BY DEF LeavesAlone, keychain, passwords, files, PlanOf

\* The same of the watcher.
LEMMA WatcherStays ==
  ASSUME LeavesAlone, NEW t \in Tasks, WatcherOf(t),
         pc'[t] = pc[t], saved'[t] = saved[t]
  PROVE  WatcherOf(t)'
  BY DEF LeavesAlone, keychain, passwords, WatcherOf, Runs

\* The same of the main thread.
LEMMA PasswordStaysOfMain ==
  ASSUME LeavesAlone, PasswordOfMain, pc'[Main] = pc[Main],
         saved'[Main] = saved[Main]
  PROVE  PasswordOfMain'
  BY DEF LeavesAlone, keychain, passwords, Accounted, PasswordOfMain

\* The same of the watcher.
LEMMA WatcherStaysOfMain ==
  ASSUME LeavesAlone, WatcherOfMain, pc'[Main] = pc[Main],
         saved'[Main] = saved[Main]
  PROVE  WatcherOfMain'
  BY DEF LeavesAlone, keychain, passwords, WatcherOfMain, Runs

\* A task within an operation is the only one, and the main thread has no turn.
LEMMA OneInTurn ==
  ASSUME Coordinated, Turns, NEW t \in Tasks, OperationOf(pc[t]) # "none"
  PROVE  /\ pc[Main] \notin TurnLabels
         /\ \A u \in Tasks : u # t => pc[u] \in {"idle", "leave"}
<1>1. ~Resting(t)
  BY DEF Resting, OperationOf, PasswordLabels, UpdateLabels, UninstallLabels
<1>2. pc[Main] \notin TurnLabels
  BY <1>1 DEF Turns, AllRest
<1>3. ASSUME NEW u \in Tasks, u # t
      PROVE  pc[u] \in {"idle", "leave"}
  <2>1. permit[t] # "none"
    BY DEF Coordinated, Held, Actors
  <2>2. permit[u] = "none"
    BY <1>3, <2>1 DEF Coordinated, Alone, Actors
  <2>3. OperationOf(pc[u]) = "none"
    BY <2>2 DEF Coordinated, Held, Actors
  <2> QED
    BY <2>3 DEF Turns
<1> QED
  BY <1>2, <1>3

\* Nothing is told of a task that rests or leaves, but that only the uninstall
\* that is done with its work has deleted the password.
LEMMA LeavingTellsNothing ==
  ASSUME NEW t \in Tasks, pc'[t] \in {"idle", "leave"}
  PROVE  PasswordOf(t)' /\ WatcherOf(t)'
  BY DEF PasswordOf, WatcherOf, Planned, Undoing, Stopped, Deleting,
         UninstallLabels

\* And that stays so.
LEMMA LeavingTellsNoPlan ==
  ASSUME NEW t \in Tasks, PlanOf(t), pc[t] \in {"idle", "leave"},
         pc'[t] = pc[t], saved'[t] = saved[t]
  PROVE  PlanOf(t)'
  BY DEF PlanOf, Planned, Undoing, Stopped, Deleting, UninstallLabels

-----------------------------------------------------------------------------
(* Every step *)

\* One of the main thread, be it its turn or that of the tasks.
LEMMA MainStepStaysQuiet ==
  ASSUME ActorsAssumption, ~MidToggle, IInv, QuietInv, MainStep, ~ProcessEnds
  PROVE  QuietInv'
<1>1. Words /\ Flags /\ Saved /\ Pipe /\ Coordinated
  BY DEF IInv, Typed
<1>2. MainTurn
  BY <1>1, MainTurns DEF QuietInv
<1>3. ASSUME NEW t \in Tasks
      PROVE  pc'[t] = pc[t] /\ saved'[t] = saved[t]
  BY <1>1, MainPurges DEF Purges, Actors, ActorsAssumption
<1>4. Turns'
  BY <1>2, <1>3 DEF MainTurn, QuietInv, Turns, AllRest, Resting
<1>5. ASSUME AllRest, NEW t \in Tasks
      PROVE  /\ pc[t] \in {"idle", "leave"} /\ pc'[t] \in {"idle", "leave"}
  BY <1>3, <1>5 DEF AllRest, Resting
<1>6. PasswordKept'
  <2> SUFFICES /\ (EnabledHasPassword /\ PasswordOfMain)'
               /\ \A t \in Tasks : PasswordOf(t)'
    BY DEF PasswordKept
  <2>1. /\ EnabledHasPassword /\ PasswordOfMain
        /\ \A t \in Tasks : PasswordOf(t)
    BY DEF QuietInv, PasswordKept
  <2>2. (EnabledHasPassword /\ PasswordOfMain)'
    BY <1>1, <2>1, MainKeepsPassword
  <2>3. ASSUME NEW t \in Tasks PROVE PasswordOf(t)'
    <3>1. CASE AllRest
      BY <1>5, <3>1, LeavingTellsNothing
    <3>2. CASE LeavesAlone
      BY <1>3, <2>1, <3>2, PasswordStays
    <3> QED
      BY <1>2, <3>1, <3>2 DEF MainTurn
  <2> QED
    BY <2>2, <2>3
<1>7. PlanKept'
  <2> SUFFICES ASSUME ~RollbackFails, NEW t \in Tasks
               PROVE  PlanOf(t)'
    BY DEF PlanKept
  <2>1. PlanOf(t)
    BY DEF QuietInv, PlanKept
  <2>2. CASE AllRest
    BY <1>3, <1>5, <2>1, <2>2, LeavingTellsNoPlan
  <2>3. CASE LeavesAlone
    BY <1>3, <2>1, <2>3, PlanStays
  <2> QED
    BY <1>2, <2>2, <2>3 DEF MainTurn
<1>8. WatcherKept'
  <2> SUFFICES ASSUME ~RollbackFails, ~StopFails
               PROVE  WatcherOfMain' /\ \A t \in Tasks : WatcherOf(t)'
    BY DEF WatcherKept
  <2>1. WatcherOfMain /\ \A t \in Tasks : WatcherOf(t)
    BY DEF QuietInv, WatcherKept
  <2>2. WatcherOfMain'
    BY <1>1, <2>1, MainKeepsWatcher
  <2>3. ASSUME NEW t \in Tasks PROVE WatcherOf(t)'
    <3>1. CASE AllRest
      BY <1>5, <3>1, LeavingTellsNothing
    <3>2. CASE LeavesAlone
      BY <1>3, <2>1, <3>2, WatcherStays
    <3> QED
      BY <1>2, <3>1, <3>2 DEF MainTurn
  <2> QED
    BY <2>2, <2>3
<1> QED
  BY <1>4, <1>6, <1>7, <1>8 DEF QuietInv

\* One of a task, within an operation or outside.
LEMMA TaskStepStaysQuiet ==
  ASSUME ActorsAssumption, ~MidToggle, IInv, QuietInv, NEW t \in Tasks,
         TaskStep(t)
  PROVE  QuietInv'
<1>1. Words /\ Flags /\ Saved /\ Pipe /\ Coordinated /\ Turns
  BY DEF IInv, Typed, QuietInv
<1>2. TaskTurn(t)
  BY <1>1, TaskTurns
<1>3. /\ pc'[Main] = pc[Main] /\ saved'[Main] = saved[Main]
      /\ \A u \in Tasks : u # t => pc'[u] = pc[u] /\ saved'[u] = saved[u]
  BY <1>1, TaskPurges DEF Purges, Actors, ActorsAssumption
<1>4. CASE OperationOf(pc[t]) # "none"
  <2>1. /\ pc[Main] \notin TurnLabels
        /\ \A u \in Tasks : u # t =>
             pc[u] \in {"idle", "leave"} /\ pc'[u] \in {"idle", "leave"}
    BY <1>1, <1>3, <1>4, OneInTurn
  <2>2. Turns'
    BY <1>1, <1>2, <1>3, <2>1 DEF TaskTurn, Turns
  <2>3. PasswordKept'
    <3> SUFFICES /\ (EnabledHasPassword /\ PasswordOfMain)'
                 /\ \A u \in Tasks : PasswordOf(u)'
      BY DEF PasswordKept
    <3>1. EnabledHasPassword /\ PasswordOf(t)
      BY DEF QuietInv, PasswordKept
    <3>2. EnabledHasPassword' /\ PasswordOf(t)'
      BY <1>1, <3>1, TaskKeepsPassword
    <3>3. PasswordOfMain'
      BY <1>3, <2>1 DEF PasswordOfMain, TurnLabels, ResumeLabels, ForgetLabels,
                         PasswordLabels
    <3> QED
      BY <2>1, <3>2, <3>3, LeavingTellsNothing
  <2>4. PlanKept'
    <3> SUFFICES ASSUME ~RollbackFails, NEW u \in Tasks
                 PROVE  PlanOf(u)'
      BY DEF PlanKept
    <3>1. PlanOf(u)
      BY DEF QuietInv, PlanKept
    <3>2. CASE u = t
      BY <1>1, <3>1, <3>2, TaskKeepsPlan
    <3>3. CASE u # t
      BY <1>3, <2>1, <3>1, <3>3, LeavingTellsNoPlan
    <3> QED
      BY <3>2, <3>3
  <2>5. WatcherKept'
    <3> SUFFICES ASSUME ~RollbackFails, ~StopFails
                 PROVE  WatcherOfMain' /\ \A u \in Tasks : WatcherOf(u)'
      BY DEF WatcherKept
    <3>1. WatcherOfMain /\ WatcherOf(t) /\ PlanOf(t)
      BY DEF QuietInv, WatcherKept, PlanKept
    <3>2. Runs => protected = "enabled"
      BY <2>1, <3>1 DEF WatcherOfMain, TurnLabels, ResumeLabels
    <3>3. (Runs => protected = "enabled")' /\ WatcherOf(t)'
      BY <1>1, <3>1, <3>2, TaskKeepsWatcher
    <3>4. WatcherOfMain'
      BY <1>3, <2>1, <3>3 DEF WatcherOfMain, TurnLabels, ResumeLabels,
         PauseLabels, ForgetLabels, PasswordLabels
    <3> QED
      BY <2>1, <3>3, <3>4, LeavingTellsNothing
  <2> QED
    BY <2>2, <2>3, <2>4, <2>5 DEF QuietInv
<1>5. CASE OperationOf(pc[t]) = "none"
  <2>1. LeavesAlone /\ (pc'[t] = "idle" \/ pc[Main] = "idle")
    BY <1>2, <1>5 DEF TaskTurn
  <2>2. Turns'
    <3>1. CASE pc[Main] \in TurnLabels
      <4>1. pc[Main] # "idle"
        BY <3>1 DEF TurnLabels, ResumeLabels, PauseLabels, ForgetLabels,
                    PasswordLabels
      <4>2. AllRest'
        BY <1>1, <1>3, <2>1, <3>1, <4>1 DEF Turns, AllRest, Resting
      <4> QED
        BY <1>1, <1>2, <1>3, <4>2 DEF TaskTurn, Turns
    <3>2. CASE pc[Main] \notin TurnLabels
      BY <1>1, <1>2, <1>3, <3>2 DEF TaskTurn, Turns
    <3> QED
      BY <3>1, <3>2
  <2>3. PasswordKept'
    <3> SUFFICES ASSUME NEW u \in Tasks
                 PROVE  /\ (EnabledHasPassword /\ PasswordOfMain)'
                        /\ PasswordOf(u)'
      BY <1>1, TaskKeepsPassword DEF PasswordKept, QuietInv
    <3>1. EnabledHasPassword /\ PasswordOfMain /\ PasswordOf(t) /\ PasswordOf(u)
      BY DEF QuietInv, PasswordKept
    <3>2. EnabledHasPassword' /\ PasswordOf(t)'
      BY <1>1, <3>1, TaskKeepsPassword
    <3>3. PasswordOfMain'
      BY <1>3, <2>1, <3>1, PasswordStaysOfMain
    <3>4. u # t => PasswordOf(u)'
      BY <1>3, <2>1, <3>1, PasswordStays
    <3> QED
      BY <3>2, <3>3, <3>4
  <2>4. PlanKept'
    <3> SUFFICES ASSUME ~RollbackFails, NEW u \in Tasks
                 PROVE  PlanOf(u)'
      BY DEF PlanKept
    <3>1. PlanOf(u)
      BY DEF QuietInv, PlanKept
    <3>2. CASE u = t
      BY <1>1, <3>1, <3>2, TaskKeepsPlan
    <3>3. CASE u # t
      BY <1>3, <2>1, <3>1, <3>3, PlanStays
    <3> QED
      BY <3>2, <3>3
  <2>5. WatcherKept'
    <3> SUFFICES ASSUME ~RollbackFails, ~StopFails, NEW u \in Tasks
                 PROVE  WatcherOfMain' /\ WatcherOf(u)'
      BY WatcherStaysOfMain, <1>3, <2>1 DEF WatcherKept, QuietInv
    <3>1. WatcherOfMain /\ WatcherOf(t) /\ WatcherOf(u) /\ PlanOf(t)
      BY DEF QuietInv, WatcherKept, PlanKept
    <3>2. WatcherOfMain'
      BY <1>3, <2>1, <3>1, WatcherStaysOfMain
    <3>3. u # t => WatcherOf(u)'
      BY <1>3, <2>1, <3>1, WatcherStays
    <3>4. pc'[t] = "idle" => WatcherOf(t)'
      BY LeavingTellsNothing
    <3>5. pc[Main] = "idle" => WatcherOf(t)'
      BY <1>1, <3>1, TaskKeepsWatcher DEF WatcherOfMain
    <3> QED
      BY <2>1, <3>2, <3>3, <3>4, <3>5
  <2> QED
    BY <2>2, <2>3, <2>4, <2>5 DEF QuietInv
<1> QED
  BY <1>4, <1>5

\* The worker, a process that starts, and one that ends, break nothing.
LEMMA OthersStayQuiet ==
  ASSUME ActorsAssumption, IInv, QuietInv,
         OtherStep \/ ProcessEnds \/ UNCHANGED vars
  PROVE  QuietInv'
<1> USE DEF QuietInv
<1>1. Words /\ Flags
  BY DEF IInv, Typed
<1>2. CASE WorkerCancelled \/ WorkerFails \/ UNCHANGED vars
  <2>1. LeavesAlone /\ UNCHANGED <<up, pc, saved>>
    BY <1>2 DEF WorkerCancelled, WorkerFails, vars, keychain, passwords, files,
          watch, LeavesAlone
  <2>2. Turns'
    BY <2>1 DEF Turns, AllRest, Resting
  <2>3. EnabledHasPassword => EnabledHasPassword'
    BY <2>1 DEF LeavesAlone, keychain, passwords, EnabledHasPassword
  <2>4. PasswordKept'
    BY <2>1, <2>3, PasswordStays, PasswordStaysOfMain DEF PasswordKept
  <2>5. PlanKept'
    BY <2>1, PlanStays DEF PlanKept
  <2>6. WatcherKept'
    BY <2>1, WatcherStays, WatcherStaysOfMain DEF WatcherKept
  <2> QED
    BY <2>2, <2>4, <2>5, <2>6
<1>3. CASE Launch \/ PutBack
  <2>1. /\ ~up /\ pc' = pc /\ saved' = saved /\ UNCHANGED keychain
        /\ pc[Main] = "idle" /\ \A t \in Tasks : pc[t] = "idle"
    BY <1>3 DEF Launch, PutBack, Turns, AllRest, Resting
  <2>2. Turns'
    BY <2>1 DEF Turns, AllRest, Resting, TurnLabels, ResumeLabels, PauseLabels,
                ForgetLabels, PasswordLabels
  <2>3. PasswordKept'
    <3>1. EnabledHasPassword => EnabledHasPassword'
      BY <2>1 DEF keychain, passwords, EnabledHasPassword
    <3>2. PasswordOfMain'
      BY <2>1 DEF PasswordOfMain, ResumeLabels, ForgetLabels, PasswordLabels
    <3> QED
      BY <2>1, <3>1, <3>2, LeavingTellsNothing DEF PasswordKept
  <2>4. PlanKept'
    BY <2>1, LeavingTellsNoPlan DEF PlanKept
  <2>5. WatcherKept'
    <3> SUFFICES ASSUME ~RollbackFails, ~StopFails
                 PROVE  WatcherOfMain' /\ \A t \in Tasks : WatcherOf(t)'
      BY DEF WatcherKept
    <3>1. Runs => protected = "enabled"
      BY <2>1 DEF WatcherKept, WatcherOfMain
    <3>2. Runs' => Runs \/ protected = "enabled"
      BY <1>3 DEF Launch, PutBack, watch, Runs
    <3>3. WatcherOfMain'
      BY <2>1, <3>1, <3>2 DEF keychain, passwords, WatcherOfMain, PauseLabels
    <3> QED
      BY <2>1, <3>3, LeavingTellsNothing
  <2> QED
    BY <2>2, <2>3, <2>4, <2>5
<1>4. CASE ProcessEnds
  <2>1. /\ pc'[Main] = "idle" /\ ~Runs' /\ UNCHANGED keychain
        /\ \A t \in Tasks : pc'[t] = "idle" /\ ~saved'[t].deleted
    BY <1>4 DEF ProcessEnds, Actors, NothingSaved, Runs
  <2>2. Turns'
    BY <2>1 DEF Turns, AllRest, Resting
  <2>3. PasswordKept'
    <3>1. EnabledHasPassword => EnabledHasPassword'
      BY <2>1 DEF keychain, passwords, EnabledHasPassword
    <3>2. PasswordOfMain'
      BY <2>1 DEF PasswordOfMain, ResumeLabels, ForgetLabels, PasswordLabels
    <3> QED
      BY <2>1, <3>1, <3>2, LeavingTellsNothing DEF PasswordKept
  <2>4. PlanKept'
    BY <2>1 DEF PlanKept, PlanOf, Planned, Undoing, Stopped, Deleting,
                UninstallLabels
  <2>5. WatcherKept'
    BY <2>1, LeavingTellsNothing DEF WatcherKept, WatcherOfMain, PauseLabels
  <2> QED
    BY <2>2, <2>3, <2>4, <2>5
<1> QED
  BY <1>2, <1>3, <1>4 DEF OtherStep

-----------------------------------------------------------------------------
(* The theorems *)

\* The two invariants hold together, as long as the user leaves the toggle
\* alone.
THEOREM Quiet == ~MidToggle => (Spec => [](IInv /\ QuietInv))
<1> SUFFICES ASSUME ~MidToggle PROVE Spec => [](IInv /\ QuietInv)
  OBVIOUS
<1>1. Init => QuietInv
  <2> SUFFICES ASSUME Init PROVE QuietInv
    OBVIOUS
  <2>1. /\ pc[Main] = "idle" /\ ~Runs /\ ~password /\ protected = "missing"
        /\ \A t \in Tasks : pc[t] = "idle" /\ ~saved[t].deleted
    BY DEF Init, Actors, NothingSaved, Runs
  <2>2. Turns
    BY <2>1 DEF Turns, AllRest, Resting
  <2>3. PasswordKept
    BY <2>1 DEF PasswordKept, EnabledHasPassword, PasswordOfMain, ResumeLabels,
                ForgetLabels, PasswordLabels, PasswordOf, Planned, Undoing,
                UninstallLabels
  <2>4. PlanKept
    BY <2>1 DEF PlanKept, PlanOf, Planned, Undoing, Stopped, Deleting,
                UninstallLabels
  <2>5. WatcherKept
    BY <2>1 DEF WatcherKept, WatcherOfMain, PauseLabels, WatcherOf, Planned,
                Undoing, Stopped, Deleting, UninstallLabels
  <2> QED
    BY <2>2, <2>3, <2>4, <2>5 DEF QuietInv
<1>2. IInv /\ QuietInv /\ [Next]_vars => QuietInv'
  BY Kinds, MainStepStaysQuiet, TaskStepStaysQuiet, OthersStayQuiet,
     ActorsAssumption
<1> QED
  BY <1>1, <1>2, Inductive, PTL DEF Spec

\* Automatic mode is never enabled without a password, also across crashes,
\* unless a deletion that failed half-way has taken the password away.
THEOREM EnabledKeepsPassword ==
  ~MidToggle => (Spec => []EnabledHasPassword)
<1> SUFFICES ASSUME ~MidToggle PROVE Spec => []EnabledHasPassword
  OBVIOUS
<1>1. QuietInv => EnabledHasPassword
  BY DEF QuietInv, PasswordKept
<1>2. Spec => [](IInv /\ QuietInv)
  BY Quiet
<1> QED
  BY <1>1, <1>2, PTL

\* An uninstall that reports an error has put back what it took, if no system
\* call of its rollback fails.
THEOREM FailuresRestored ==
  ~MidToggle /\ ~RollbackFails => (Spec => []FailedUninstallRestores)
<1> SUFFICES ASSUME ~MidToggle, ~RollbackFails
             PROVE  Spec => []FailedUninstallRestores
  OBVIOUS
<1>1. QuietInv => FailedUninstallRestores
  <2> SUFFICES ASSUME QuietInv, NEW t \in Tasks, pc[t] = "report"
               PROVE  /\ bundle = "installed" /\ ~staged
                      /\ saved[t].settings => settings
                      /\ IF saved[t].deleted
                         THEN protected = "missing" /\ ~autostart /\ ~control
                         ELSE /\ autostart = saved[t].autostart
                              /\ protected = saved[t].protected
    BY DEF FailedUninstallRestores
  <2>1. PlanOf(t)
    BY DEF QuietInv, PlanKept
  <2> QED
    BY <2>1 DEF PlanOf
<1>2. Spec => [](IInv /\ QuietInv)
  BY Quiet
<1> QED
  BY <1>1, <1>2, PTL

\* With every command at its end, the watcher runs only in enabled mode, if a
\* stop fails only for a worker that has ended in error.
THEOREM WatchersAreEnabled ==
  ~MidToggle /\ ~RollbackFails /\ ~StopFails
    => (Spec => []WatcherOnlyWhenEnabled)
<1> SUFFICES ASSUME ~MidToggle, ~RollbackFails, ~StopFails
             PROVE  Spec => []WatcherOnlyWhenEnabled
  OBVIOUS
<1>1. QuietInv => WatcherOnlyWhenEnabled
  BY DEF QuietInv, WatcherKept, WatcherOfMain, Runs, WatcherOnlyWhenEnabled,
         Resting, Actors
<1>2. Spec => [](IInv /\ QuietInv)
  BY Quiet
<1> QED
  BY <1>1, <1>2, PTL
=============================================================================
