------------------------------ MODULE AppMain -------------------------------
(***************************************************************************)
(* The handlers of the main thread: the toggle (the set_enabled and        *)
(* enable_automatic commands and the menu), forget_password, Quit, the     *)
(* exit events, and the start of the process.  None of the toggle's steps  *)
(* takes a lifecycle permit.                                               *)
(***************************************************************************)
EXTENDS AppState

\* A handler returns: its locals are gone.
Return(a) == saved' = [saved EXCEPT ![a] = NothingSaved]

Remembering(a, field, value) == saved' = [saved EXCEPT ![a][field] = value]

\* set_protected_state(paused) keeps an item that does not exist missing.
PausedFrom(previous) == IF previous = "missing" THEN "missing" ELSE "paused"

\* The calls of stop_all_watchers on the main thread: where each waits for the
\* watcher mutex, and where it then waits for the worker.
StopCalls ==
  {<<"undo_halt", "undo_stop">>, <<"pause_halt", "pause_stop">>,
   <<"forget_halt", "forget_stop">>, <<"quit_halt", "quit_stop">>,
   <<"exit_halt", "exit_stop">>, <<"last_halt", "exited">>}

MainHalt ==
  /\ \E call \in StopCalls : Goto(Main, call[1], call[2])
  /\ Halt(Main)
  /\ UNCHANGED <<up, exitAsked, life, keychain, autostart, files, status,
                 saved>>

\* get_status, and the refresh of the menu.
GetStatus ==
  /\ Goto(Main, "idle", "idle")
  /\ Reap
  /\ UNCHANGED <<up, exitAsked, life, keychain, autostart, files, status,
                 saved>>

-----------------------------------------------------------------------------
(* Resume *)

\* enable_automatic: the acknowledgement creates the protected item.
Acknowledge ==
  /\ MayToggle
  /\ Goto(Main, "idle", "enable")
  /\ protected = "missing" /\ protected' = "paused"
  /\ UNCHANGED <<up, exitAsked, life, watch, passwords, autostart, files,
                 status, saved>>

\* set_enabled(true), or the toggle of the menu while it shows Resume.
RequestEnable ==
  /\ MayToggle
  /\ Goto(Main, "idle", "enable")
  /\ UNCHANGED <<up, exitAsked, life, watch, keychain, autostart, files,
                 status, saved>>

\* The checks of set_enabled_inner, on what compute_status reads.
EnableChecks(ok) ==
  /\ Branch(Main, "enable", ok, "enable_login", "idle")
  /\ Reap
  /\ ok => password /\ protected # "missing" /\ worker # "failed"
  /\ IF ok
     THEN saved' = [saved EXCEPT ![Main].protected = protected,
                                 ![Main].autostart = autostart]
     ELSE UNCHANGED saved
  /\ UNCHANGED <<up, exitAsked, life, keychain, autostart, files, status>>

EnableLogin(ok) ==
  /\ Branch(Main, "enable_login", ok, "enable_start", "idle")
  /\ autostart' = (autostart \/ (ok /\ ~saved[Main].autostart))
  /\ IF ok THEN UNCHANGED saved ELSE Return(Main)
  /\ UNCHANGED <<up, exitAsked, life, watch, keychain, files, status>>

\* The login item goes back to what it was, in a rollback of Resume.
LoginItemUndone ==
  \/ autostart' = (autostart /\ saved[Main].autostart)
  \/ RollbackFails /\ UNCHANGED autostart

EnableStart(ok) ==
  /\ Branch(Main, "enable_start", ok, "enable_set", "idle")
  /\ StartWatcher(ok)
  /\ IF ok THEN UNCHANGED <<autostart, saved>>
           ELSE LoginItemUndone /\ Return(Main)
  /\ UNCHANGED <<up, exitAsked, life, keychain, files, status>>

EnableSet ==
  /\ Goto(Main, "enable_set", "idle")
  /\ protected' = "enabled"
  /\ Reap
  /\ Return(Main)
  /\ UNCHANGED <<up, exitAsked, life, passwords, autostart, files, status>>

\* Mutant: the watcher that was just started is not stopped.
EnableSetFailsRunning ==
  /\ WritesFail
  /\ Goto(Main, "enable_set", "undo")
  /\ UNCHANGED <<up, exitAsked, life, watch, keychain, autostart, files,
                 status, saved>>

\* The protected state cannot be written: Resume is rolled back.
EnableSetFails ==
  /\ WritesFail
  /\ Goto(Main, "enable_set", "undo_halt")
  /\ UNCHANGED <<up, exitAsked, life, watch, keychain, autostart, files,
                 status, saved>>

EnableStopped ==
  /\ Goto(Main, "undo_stop", "undo")
  /\ \E ok \in BOOLEAN : StopReturns(Main, ok)
  /\ UNCHANGED <<up, exitAsked, life, keychain, autostart, files, status,
                 saved>>

UndoEnable ==
  /\ Goto(Main, "undo", "idle")
  /\ LoginItemUndone
  /\ \/ protected' = saved[Main].protected
     \/ RollbackFails /\ UNCHANGED protected
  /\ Return(Main)
  /\ UNCHANGED <<up, exitAsked, life, watch, passwords, files, status>>

-----------------------------------------------------------------------------
(* Pause *)

RequestPause ==
  /\ MayToggle
  /\ Goto(Main, "idle", "pause_halt")
  /\ Remembering(Main, "protected", protected)
  /\ UNCHANGED <<up, exitAsked, life, watch, keychain, autostart, files,
                 status>>

\* The watcher may be left running without its pipe when this fails.
PauseStopped(ok) ==
  /\ Branch(Main, "pause_stop", ok, "pause_set", "idle")
  /\ StopReturns(Main, ok)
  /\ IF ok THEN UNCHANGED saved ELSE Return(Main)
  /\ UNCHANGED <<up, exitAsked, life, keychain, autostart, files, status>>

PauseSet ==
  /\ Goto(Main, "pause_set", "idle")
  /\ protected' = PausedFrom(saved[Main].protected)
  /\ Reap
  /\ Return(Main)
  /\ UNCHANGED <<up, exitAsked, life, passwords, autostart, files, status>>

PauseSetFails ==
  /\ WritesFail
  /\ Goto(Main, "pause_set", "idle")
  /\ \E ok \in BOOLEAN : Restore(saved[Main].protected = "enabled", ok)
  /\ Return(Main)
  /\ UNCHANGED <<up, exitAsked, life, keychain, autostart, files, status>>

-----------------------------------------------------------------------------
(* forget_password *)

ForgetBegin ==
  /\ Goto(Main, "idle", "forget_halt")
  /\ TryBegin(Main, "password")
  /\ Remembering(Main, "protected", protected)
  /\ UNCHANGED <<up, exitAsked, watch, keychain, autostart, files, status>>

ForgetStopped(ok) ==
  /\ Branch(Main, "forget_stop", ok, "forget_set", "idle")
  /\ StopReturns(Main, ok)
  /\ IF ok THEN UNCHANGED <<life, saved>> ELSE DropPermit(Main) /\ Return(Main)
  /\ UNCHANGED <<up, exitAsked, keychain, autostart, files, status>>

\* Mutant: the protected state is left for the end, and is never paused.
ForgetSetSkipped(ok) ==
  /\ ok \/ WritesFail
  /\ Branch(Main, "forget_set", ok, "forget_delete", "forget_restore")
  /\ UNCHANGED <<up, exitAsked, life, watch, keychain, autostart, files,
                 status, saved>>

\* The state is paused before the password goes.
ForgetSet(ok) ==
  /\ ok \/ WritesFail
  /\ Branch(Main, "forget_set", ok, "forget_delete", "forget_restore")
  /\ protected' = IF ok THEN PausedFrom(saved[Main].protected) ELSE protected
  /\ UNCHANGED <<up, exitAsked, life, watch, passwords, autostart, files,
                 status, saved>>

ForgetDelete ==
  /\ Goto(Main, "forget_delete", "idle")
  /\ password' = FALSE /\ torn' = FALSE
  /\ Reap
  /\ DropPermit(Main) /\ Return(Main)
  /\ UNCHANGED <<up, exitAsked, protected, autostart, files, status>>

\* A deletion that fails may have removed some of the verified items.
DeletionFails ==
  \/ UNCHANGED passwords
  \/ password' = FALSE /\ torn' = (torn \/ password)

ForgetDeleteFails ==
  /\ Goto(Main, "forget_delete", "forget_unset")
  /\ DeletionFails
  /\ UNCHANGED <<up, exitAsked, life, watch, protected, autostart, files,
                 status, saved>>

ForgetUnset ==
  /\ Goto(Main, "forget_unset", "forget_restore")
  /\ \/ protected' = saved[Main].protected
     \/ RollbackFails /\ UNCHANGED protected
  /\ UNCHANGED <<up, exitAsked, life, watch, passwords, autostart, files,
                 status, saved>>

ForgetRestore ==
  /\ Goto(Main, "forget_restore", "idle")
  /\ \E ok \in BOOLEAN : Restore(saved[Main].protected = "enabled", ok)
  /\ DropPermit(Main) /\ Return(Main)
  /\ UNCHANGED <<up, exitAsked, keychain, autostart, files, status>>

-----------------------------------------------------------------------------
(* Quit and the exit events *)

Quit ==
  /\ Goto(Main, "idle", "quit_halt")
  /\ BeginShutdown
  /\ UNCHANGED <<up, exitAsked, operation, permit, watch, keychain, autostart,
                 files, status, saved>>

QuitStopped ==
  /\ Goto(Main, "quit_stop", "idle")
  /\ \E ok \in BOOLEAN : StopReturns(Main, ok)
  /\ exitAsked' = TRUE
  /\ UNCHANGED <<up, life, keychain, autostart, files, status, saved>>

\* RunEvent::ExitRequested with an exit code.
ExitRequested ==
  /\ exitAsked
  /\ Goto(Main, "idle", "exit_halt")
  /\ BeginShutdown
  /\ UNCHANGED <<up, exitAsked, operation, permit, watch, keychain, autostart,
                 files, status, saved>>

ExitStopped ==
  /\ Goto(Main, "exit_stop", "exit")
  /\ \E ok \in BOOLEAN : StopReturns(Main, ok)
  /\ UNCHANGED <<up, exitAsked, life, keychain, autostart, files, status,
                 saved>>

\* RunEvent::Exit stops the watcher again.
ExitEvent ==
  /\ Goto(Main, "exit", "last_halt")
  /\ BeginShutdown
  /\ UNCHANGED <<up, exitAsked, operation, permit, watch, keychain, autostart,
                 files, status, saved>>

\* The process is gone, with its threads, its permit and its worker.
ProcessEnds ==
  /\ up' = FALSE /\ exitAsked' = FALSE
  /\ phase' = "running" /\ operation' = "none"
  /\ permit' = [a \in Actors |-> "none"]
  /\ lock' = NoOne /\ control' = FALSE /\ worker' = "none"
  /\ staged' = FALSE
  /\ status' = "idle"
  /\ pc' = [a \in Actors |-> "idle"]
  /\ saved' = [a \in Actors |-> NothingSaved]
  /\ UNCHANGED <<keychain, autostart, bundle, settings>>

Exited == up /\ pc[Main] = "exited" /\ ProcessEnds

Crash == up /\ Crashes /\ ProcessEnds

-----------------------------------------------------------------------------
(* Start of the process *)

\* setup() starts the watcher of a configuration that is enabled.
Launch ==
  /\ ~up /\ up' = TRUE
  /\ bundle = "installed"
  /\ IF password /\ protected = "enabled"
     THEN \E ok \in BOOLEAN : StartWatcher(ok)
     ELSE UNCHANGED watch
  /\ UNCHANGED <<exitAsked, life, keychain, autostart, files, status, pc,
                 saved>>

MainStep ==
  \/ MainHalt \/ GetStatus
  \/ Acknowledge \/ RequestEnable
  \/ \E ok \in BOOLEAN : \/ EnableChecks(ok) \/ EnableLogin(ok)
                         \/ EnableStart(ok) \/ PauseStopped(ok)
                         \/ ForgetStopped(ok) \/ ForgetSet(ok)
  \/ EnableSet \/ EnableSetFails \/ EnableStopped \/ UndoEnable
  \/ RequestPause \/ PauseSet \/ PauseSetFails
  \/ ForgetBegin \/ ForgetDelete \/ ForgetDeleteFails \/ ForgetUnset
  \/ ForgetRestore
  \/ Quit \/ QuitStopped \/ ExitRequested \/ ExitStopped \/ ExitEvent \/ Exited
=============================================================================
