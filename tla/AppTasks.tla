------------------------------ MODULE AppTasks ------------------------------
(***************************************************************************)
(* The asynchronous commands: the password dialog, the check for updates,  *)
(* install_update and uninstall_app.  Each runs in a task of its own under *)
(* a lifecycle permit, and interleaves with the main thread.               *)
(***************************************************************************)
EXTENDS AppMain

\* A task returns and drops its permit.
End(t, from) == Goto(t, from, "idle") /\ DropPermit(t) /\ Return(t)

\* set_update_status, which refreshes the menu from compute_status.
SetStatus(s) == status' = s /\ Reap

\* The command is invoked.
Begins(t, op, first) ==
  /\ MayBegin
  /\ Goto(t, "idle", first)
  /\ TryBegin(t, op)

-----------------------------------------------------------------------------
(* store_password *)

\* Mutant: the dialog opens without a permit.
StoreUnguarded(t) ==
  /\ MayBegin
  /\ Goto(t, "idle", "prompt")
  /\ UNCHANGED <<up, exitAsked, life, watch, keychain, autostart, files,
                 status, saved>>

StoreBegin(t) ==
  /\ Begins(t, "password", "prompt")
  /\ UNCHANGED <<up, exitAsked, watch, keychain, autostart, files, status,
                 saved>>

\* The dialog stores a password, or is cancelled, or fails.
StoreEnds(t) ==
  /\ End(t, "prompt")
  /\ password' \in {password, TRUE} /\ torn' = (torn /\ ~password')
  /\ Reap
  /\ UNCHANGED <<up, exitAsked, protected, autostart, files, status>>

-----------------------------------------------------------------------------
(* check_for_updates *)

CheckBegin(t) ==
  /\ Begins(t, "update", "check")
  /\ SetStatus("checking")
  /\ UNCHANGED <<up, exitAsked, keychain, autostart, files, saved>>

\* A new version is notified once, and its notification is remembered.
CheckEnds(t, s) ==
  /\ End(t, "check")
  /\ s \in {"available", "uptodate", "error"}
  /\ SetStatus(s)
  /\ settings' \in {settings, settings \/ (s = "available" /\ phase = "running")}
  /\ UNCHANGED <<up, exitAsked, keychain, autostart, bundle, staged>>

-----------------------------------------------------------------------------
(* install_update *)

\* Refused, for want of a confirmation, of the installed copy or of the rights,
\* or because an operation is running, whose status is overwritten then.
InstallRefused(t) ==
  /\ up /\ Resting(t)
  /\ SetStatus("ready")
  /\ UNCHANGED <<up, exitAsked, life, keychain, autostart, files, pc, saved>>

InstallBegin(t) ==
  /\ Begins(t, "update", "install_check")
  /\ SetStatus("checking")
  /\ UNCHANGED <<up, exitAsked, keychain, autostart, files, saved>>

\* install_update returns an error before it has touched the watcher.
InstallEnds(t, from, s) ==
  /\ End(t, from)
  /\ SetStatus(s)
  /\ UNCHANGED <<up, exitAsked, keychain, autostart, files>>

InstallGoesOn(t, from, to, s) ==
  /\ Goto(t, from, to)
  /\ SetStatus(s)
  /\ UNCHANGED <<up, exitAsked, life, keychain, autostart, files, saved>>

\* The version is checked again: it may have failed, gone or changed.
InstallChecked(t) ==
  \/ InstallGoesOn(t, "install_check", "download", "downloading")
  \/ \E s \in {"error", "uptodate", "available"} :
       InstallEnds(t, "install_check", s)

\* Mutant: a failed download leaves its status behind.
DownloadedSilently(t) ==
  \/ InstallGoesOn(t, "download", "still_running", "ready")
  \/ InstallEnds(t, "download", status)

\* Download, extraction and verification of both bundles.
Downloaded(t) ==
  \/ InstallGoesOn(t, "download", "still_running", "ready")
  \/ InstallEnds(t, "download", "error")

\* The one check of the lifecycle after the download.
StillRunning(t) ==
  \/ /\ phase = "running"
     /\ Goto(t, "still_running", "first_dialog_check")
     /\ UNCHANGED <<up, exitAsked, life, watch, keychain, autostart, files,
                    status, saved>>
  \/ phase # "running" /\ InstallEnds(t, "still_running", "ready")

\* No administrator dialog is open, and the user has a name: note whether the
\* watcher is to come back.
FirstDialogCheck(t) ==
  \/ /\ Goto(t, "first_dialog_check", "update_halt")
     /\ Reap
     /\ Remembering(t, "restore", worker = "live" \/ protected = "enabled")
     /\ UNCHANGED <<up, exitAsked, life, keychain, autostart, files, status>>
  \/ \E s \in {"ready", "error"} : InstallEnds(t, "first_dialog_check", s)

UpdateHalt(t) ==
  /\ Goto(t, "update_halt", "update_stop")
  /\ Halt(t)
  /\ UNCHANGED <<up, exitAsked, life, keychain, autostart, files, status,
                 saved>>

UpdateStopped(t, ok) ==
  /\ Branch(t, "update_stop", ok, "second_dialog_check", "update_restore")
  /\ StopReturns(t, ok)
  /\ Remembering(t, "code", "error")
  /\ UNCHANGED <<up, exitAsked, life, keychain, autostart, files, status>>

SecondDialogCheck(t) ==
  \/ InstallGoesOn(t, "second_dialog_check", "replace", "installing")
  \/ /\ Goto(t, "second_dialog_check", "update_restore")
     /\ Remembering(t, "code", "ready")
     /\ UNCHANGED <<up, exitAsked, life, watch, keychain, autostart, files,
                    status>>

\* The bundles are swapped, and the process leaves for the new version.
Replaced(t) ==
  /\ Goto(t, "replace", "leave")
  /\ BeginShutdown
  /\ UNCHANGED <<up, exitAsked, operation, permit, watch, keychain, autostart,
                 files, status, saved>>

ReplaceFails(t) ==
  /\ Goto(t, "replace", "update_restore")
  /\ Remembering(t, "code", "error")
  /\ UNCHANGED <<up, exitAsked, life, watch, keychain, autostart, files,
                 status>>

\* The watcher that was stopped comes back, whatever became of the state.
UpdateRestore(t) ==
  /\ End(t, "update_restore")
  /\ \/ saved[t].restore /\ StartWatcher(TRUE)
     \/ (saved[t].restore => RollbackFails \/ worker = "failed") /\ Reap
  /\ status' = saved[t].code
  /\ UNCHANGED <<up, exitAsked, keychain, autostart, files>>

\* app.exit(0), from the task of an update or the thread of an uninstall.
Leave(t) ==
  /\ End(t, "leave")
  /\ exitAsked' = TRUE
  /\ UNCHANGED <<up, watch, keychain, autostart, files, status>>

-----------------------------------------------------------------------------
(* uninstall_app *)

UninstallBegin(t) ==
  /\ bundle = "installed"
  /\ Begins(t, "uninstall", "plan")
  /\ UNCHANGED <<up, exitAsked, watch, keychain, autostart, files, status,
                 saved>>

\* What a rollback will restore is read before anything changes.
Plan(t) ==
  /\ Goto(t, "plan", "login_off")
  /\ Reap
  /\ saved' = [saved EXCEPT ![t] =
       [@ EXCEPT !.protected = protected, !.autostart = autostart,
                 !.settings = settings,
                 !.restore = worker = "live" \/ protected = "enabled"]]
  /\ UNCHANGED <<up, exitAsked, life, keychain, autostart, files, status>>

\* The plan cannot be made, or the login item cannot be disabled.
UninstallRefused(t) ==
  /\ End(t, "plan") \/ (saved[t].autostart /\ End(t, "login_off"))
  /\ UNCHANGED <<up, exitAsked, watch, keychain, autostart, files, status>>

LoginOff(t) ==
  /\ Goto(t, "login_off", "uninstall_halt")
  /\ autostart' = (autostart /\ ~saved[t].autostart)
  /\ UNCHANGED <<up, exitAsked, life, watch, keychain, files, status, saved>>

UninstallHalt(t) ==
  /\ Goto(t, "uninstall_halt", "uninstall_stop")
  /\ Halt(t)
  /\ UNCHANGED <<up, exitAsked, life, keychain, autostart, files, status,
                 saved>>

UninstallStopped(t, ok) ==
  /\ Branch(t, "uninstall_stop", ok, "stage", "stop_undo")
  /\ StopReturns(t, ok)
  /\ UNCHANGED <<up, exitAsked, life, keychain, autostart, files, status,
                 saved>>

\* The watcher did not stop: the login item and the watcher come back.
UninstallStopUndo(t) ==
  /\ End(t, "stop_undo")
  /\ \/ autostart' = (autostart \/ saved[t].autostart)
     \/ RollbackFails /\ UNCHANGED autostart
  /\ \E ok \in BOOLEAN : Restore(saved[t].restore, ok)
  /\ UNCHANGED <<up, exitAsked, keychain, files, status>>

\* A step of the transaction that leaves the process itself alone.
Transacts(t, from, to) ==
  /\ Goto(t, from, to)
  /\ UNCHANGED <<up, exitAsked, life, watch, autostart, status>>

StageSettings(t) ==
  /\ Transacts(t, "stage", "preflight")
  /\ settings' = FALSE /\ staged' = settings
  /\ UNCHANGED <<keychain, bundle, saved>>

\* The bundle makes the round trip through the Trash.
Preflight(t) ==
  /\ Transacts(t, "preflight", "preflight_return")
  /\ bundle' = "trash"
  /\ UNCHANGED <<keychain, settings, staged, saved>>

PreflightReturn(t) ==
  /\ Transacts(t, "preflight_return", "purge_settings")
  /\ bundle' = "installed"
  /\ UNCHANGED <<keychain, settings, staged, saved>>

PurgeSettings(t) ==
  /\ Transacts(t, "purge_settings", "purge_state")
  /\ staged' = FALSE
  /\ UNCHANGED <<keychain, bundle, settings, saved>>

PurgeState(t) ==
  /\ Transacts(t, "purge_state", "purge_password")
  /\ protected' = "missing"
  /\ UNCHANGED <<passwords, files, saved>>

PurgePassword(t) ==
  /\ Transacts(t, "purge_password", "final_trash")
  /\ password' = FALSE /\ torn' = FALSE
  /\ Remembering(t, "deleted", TRUE)
  /\ UNCHANGED <<protected, files>>

FinalTrash(t) ==
  /\ Transacts(t, "final_trash", "commit")
  /\ bundle' = "trash"
  /\ UNCHANGED <<keychain, settings, staged, saved>>

\* A step fails.  A bundle may have moved although its move is reported as
\* failed: it was not found in the Trash, or not verified on its return.
TransactionFails(t) ==
  /\ \/ /\ \E from \in {"stage", "purge_settings", "purge_state"} :
             Transacts(t, from, "rollback_bundle")
        /\ UNCHANGED <<keychain, files>>
     \/ /\ \E from \in {"preflight", "preflight_return", "final_trash"} :
             Transacts(t, from, "rollback_bundle")
        /\ bundle' \in {"installed", "trash"}
        /\ UNCHANGED <<keychain, settings, staged>>
     \/ /\ Transacts(t, "purge_password", "rollback_bundle")
        /\ DeletionFails
        /\ UNCHANGED <<protected, files>>
  /\ UNCHANGED saved

\* Mutant: a bundle left in the Trash stays there.
RollbackBundleForgotten(t) ==
  /\ Transacts(t, "rollback_bundle", "rollback_settings")
  /\ UNCHANGED <<keychain, files, saved>>

\* A bundle found in the Trash comes back.
RollbackBundle(t) ==
  /\ Transacts(t, "rollback_bundle", "rollback_settings")
  /\ \/ bundle' = "installed"
     \/ RollbackFails /\ UNCHANGED bundle
  /\ UNCHANGED <<keychain, settings, staged, saved>>

\* The settings come back from the staged copy or from their snapshot, then
\* the rest, unless the password is gone.
RollbackSettings(t) ==
  /\ Transacts(t, "rollback_settings",
               IF saved[t].deleted THEN "report" ELSE "rollback_login")
  /\ \/ settings' = (settings \/ saved[t].settings) /\ staged' = FALSE
     \/ RollbackFails /\ UNCHANGED <<settings, staged>>
  /\ UNCHANGED <<keychain, bundle, saved>>

RollbackLogin(t) ==
  /\ Goto(t, "rollback_login", "rollback_state")
  /\ \/ autostart' = (autostart \/ saved[t].autostart)
     \/ RollbackFails /\ UNCHANGED autostart
  /\ UNCHANGED <<up, exitAsked, life, watch, keychain, files, status, saved>>

RollbackState(t) ==
  /\ Transacts(t, "rollback_state", "rollback_watcher")
  /\ \/ protected' = saved[t].protected
     \/ RollbackFails /\ UNCHANGED protected
  /\ UNCHANGED <<passwords, files, saved>>

RollbackWatcher(t) ==
  /\ Goto(t, "rollback_watcher", "report")
  /\ \E ok \in BOOLEAN : Restore(saved[t].restore, ok)
  /\ UNCHANGED <<up, exitAsked, life, keychain, autostart, files, status,
                 saved>>

\* The error of the transaction is returned, with those of the rollback.
Report(t) ==
  /\ End(t, "report")
  /\ UNCHANGED <<up, exitAsked, watch, keychain, autostart, files, status>>

Commit(t) ==
  /\ Goto(t, "commit", "leave")
  /\ CommitShutdown(t)
  /\ UNCHANGED <<up, exitAsked, watch, keychain, autostart, files, status,
                 saved>>

TaskStep(t) ==
  \/ StoreBegin(t) \/ StoreEnds(t) \/ CheckBegin(t)
  \/ \E s \in Statuses : CheckEnds(t, s)
  \/ InstallRefused(t) \/ InstallBegin(t) \/ InstallChecked(t)
  \/ Downloaded(t) \/ StillRunning(t) \/ FirstDialogCheck(t)
  \/ UpdateHalt(t) \/ \E ok \in BOOLEAN : UpdateStopped(t, ok)
  \/ SecondDialogCheck(t) \/ Replaced(t) \/ ReplaceFails(t)
  \/ UpdateRestore(t) \/ Leave(t)
  \/ UninstallBegin(t) \/ Plan(t) \/ UninstallRefused(t) \/ LoginOff(t)
  \/ UninstallHalt(t) \/ \E ok \in BOOLEAN : UninstallStopped(t, ok)
  \/ UninstallStopUndo(t) \/ StageSettings(t) \/ Preflight(t)
  \/ PreflightReturn(t) \/ PurgeSettings(t) \/ PurgeState(t)
  \/ PurgePassword(t) \/ FinalTrash(t) \/ TransactionFails(t)
  \/ RollbackBundle(t) \/ RollbackSettings(t) \/ RollbackLogin(t)
  \/ RollbackState(t) \/ RollbackWatcher(t) \/ Report(t) \/ Commit(t)
=============================================================================
