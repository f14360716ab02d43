-------------------------------- MODULE App ---------------------------------
(***************************************************************************)
(* The application: the main thread, the tasks and the worker thread of    *)
(* automatic confirmation, across exits, crashes and restarts, with the    *)
(* properties of its protected operations.                                 *)
(***************************************************************************)
EXTENDS AppTasks

\* A fresh installation that has not been started.
Init ==
  /\ up = FALSE /\ exitAsked = FALSE
  /\ phase = "running" /\ operation = "none"
  /\ permit = [a \in Actors |-> "none"]
  /\ lock = NoOne /\ control = FALSE /\ worker = "none"
  /\ protected = "missing" /\ password = FALSE /\ torn = FALSE
  /\ autostart = FALSE
  /\ bundle = "installed" /\ settings = FALSE /\ staged = FALSE
  /\ status = "idle"
  /\ pc = [a \in Actors |-> "idle"]
  /\ saved = [a \in Actors |-> NothingSaved]

\* The user takes the application out of the Trash.
PutBack ==
  /\ ~up /\ bundle = "trash"
  /\ bundle' = "installed"
  /\ UNCHANGED <<up, exitAsked, life, watch, keychain, autostart, settings,
                 staged, status, pc, saved>>

Next ==
  \/ MainStep
  \/ \E t \in Tasks : TaskStep(t)
  \/ WorkerCancelled \/ WorkerFails
  \/ Crash \/ Launch \/ PutBack

Spec == Init /\ [][Next]_vars

\* Every command runs to its end once it has begun: each of its waits has a
\* limit, except the password dialog, which waits for the user.  The user leaves
\* the watcher mutex alone again and again, so that a task gets it in the end.
\* A cancelled watcher ends: every call it makes returns.
FairSpec ==
  /\ Spec
  /\ \A t \in Tasks :
       SF_vars(~Resting(t) /\ pc[t] # "prompt" /\ TaskStep(t))
  /\ WF_vars(pc[Main] # "idle" /\ MainStep)
  /\ WF_vars(WorkerCancelled)

-----------------------------------------------------------------------------
(* Properties *)

Labels ==
  {"idle", "enable", "enable_login", "enable_start", "enable_set",
   "undo_halt", "undo_stop", "undo", "pause_halt", "pause_stop", "pause_set",
   "forget_halt", "forget_stop",
   "forget_set", "forget_delete", "forget_unset", "forget_restore",
   "quit_halt", "quit_stop", "exit_halt", "exit_stop", "exit", "last_halt",
   "exited", "prompt", "check",
   "install_check", "download", "still_running", "first_dialog_check",
   "update_halt", "update_stop", "second_dialog_check", "replace",
   "update_restore", "leave", "plan", "login_off", "uninstall_halt",
   "uninstall_stop", "stop_undo", "stage", "preflight", "preflight_return",
   "purge_settings", "purge_state", "purge_password", "final_trash",
   "commit", "rollback_bundle", "rollback_settings", "rollback_login",
   "rollback_state", "rollback_watcher", "report"}

States == {"missing", "paused", "enabled"}

Locals ==
  [protected : States, autostart : BOOLEAN, restore : BOOLEAN,
   settings : BOOLEAN, deleted : BOOLEAN, code : {"error", "ready"}]

Words ==
  /\ phase \in {"running", "uninstalling", "exiting"}
  /\ operation \in Operations \cup {"none"}
  /\ permit \in [Actors -> Operations \cup {"none"}]
  /\ lock \in Actors \cup {NoOne}
  /\ worker \in {"none", "live", "done", "failed"}
  /\ protected \in States
  /\ bundle \in {"installed", "trash"}
  /\ status \in Statuses
  /\ pc \in [Actors -> Labels]

Flags ==
  /\ up \in BOOLEAN /\ exitAsked \in BOOLEAN
  /\ control \in BOOLEAN
  /\ password \in BOOLEAN /\ torn \in BOOLEAN /\ autostart \in BOOLEAN
  /\ settings \in BOOLEAN /\ staged \in BOOLEAN

\* Every variable has its type, and an open pipe belongs to a worker.
TypeOK ==
  /\ Words /\ Flags
  /\ saved \in [Actors -> Locals]
  /\ control => worker # "none"

\* The password dialog, an update, an uninstall and the removal of the password
\* exclude one another, also while the application is shutting down.
OneProtectedOperation ==
  \A a, b \in Actors :
    permit[a] # "none" /\ permit[b] # "none" => a = b

\* Once the application is exiting it stays so until the process is gone: a
\* permit dropped late, by an uninstall that failed, must not reopen it.
ExitingIsFinal == [][phase = "exiting" => phase' = "exiting" \/ ~up']_vars

\* When the uninstaller moves the bundle to the Trash for good, and until the
\* process is gone, the password is not in the Keychain: no dialog that was
\* opened before, or is opened meanwhile, puts it back.
UninstallLeavesNoPassword ==
  \A t \in Tasks :
    pc[t] = "commit" \/ (pc[t] = "leave" /\ saved[t].deleted) => ~password

\* The update status that disables the update buttons is never left behind: it
\* shows progress only while some update operation is there to change it.
ProgressIsOwned ==
  status \in {"checking", "downloading", "installing"} =>
    \/ \E t \in Tasks : permit[t] = "update"
    \/ phase = "exiting"

\* Automatic mode is never enabled without a password, at no instant of its
\* removal or of an uninstall, so that not even a crash leaves it so.  The one
\* exception is the rollback of a deletion that failed half-way (lib.rs:2176).
EnabledHasPassword == protected = "enabled" => password \/ torn

\* With every command at its end, the watcher runs only in enabled mode.
WatcherOnlyWhenEnabled ==
  (\A a \in Actors : Resting(a)) /\ control => protected = "enabled"

\* An uninstall that reports an error has put back the bundle and the
\* settings always, and, as long as the password was not removed, the login item
\* and the protected state; otherwise automatic mode stays off.
FailedUninstallRestores ==
  \A t \in Tasks : pc[t] = "report" =>
    /\ bundle = "installed" /\ ~staged
    /\ saved[t].settings => settings
    /\ IF saved[t].deleted
       THEN protected = "missing" /\ ~autostart /\ ~control
       ELSE autostart = saved[t].autostart /\ protected = saved[t].protected

\* An update or an uninstall that has begun ends, and gives its permit back,
\* unless the process is killed (lib.rs:2424-2645, 2075-2211).
OperationsEnd ==
  /\ operation = "update" ~> operation # "update" \/ ~up
  /\ operation = "uninstall" ~> operation # "uninstall" \/ ~up

\* README.md:95 "Pausing stops automatic entry": while the application is paused
\* and the toggle is not used, nothing starts the watcher.
PausedStaysPaused ==
  [][protected = "paused" /\ Resting(Main) /\ ~control => ~control']_vars

\* README.md:161 "disables launch at login, removes only the current v2 Keychain
\* records": an uninstall that is done has left neither behind.
UninstallIsComplete ==
  \A t \in Tasks : pc[t] = "leave" /\ saved[t].deleted =>
    protected = "missing" /\ ~autostart
=============================================================================
