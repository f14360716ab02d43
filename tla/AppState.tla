------------------------------ MODULE AppState ------------------------------
(***************************************************************************)
(* The state shared by the command handlers of the Tauri application       *)
(* (app-tauri/src-tauri/src/lib.rs), with the two objects that guard it:   *)
(*                                                                         *)
(*   LifecycleCoordinator  admits one protected operation at a time and    *)
(*                         none once the application is exiting;           *)
(*   WatcherProcess        the worker thread of automatic confirmation and *)
(*                         the pipe whose closing cancels it.              *)
(*                                                                         *)
(* Actors are the main thread, which runs the synchronous commands, the    *)
(* menu and the exit events, and the Tasks of the asynchronous commands.   *)
(* What an actor does between two reads or writes of shared state is one   *)
(* step.  A crash or an exit loses all the state of the process and keeps  *)
(* the Keychain, the login item and the files.                             *)
(***************************************************************************)
EXTENDS Naturals

CONSTANTS
  Main,           \* the main thread
  Tasks,          \* tasks of the asynchronous runtime
  NoOne,          \* the watcher mutex is free
  MidToggle,      \* the user may use the toggle while an operation runs
  RollbackFails,  \* the steps of a rollback may fail too
  WritesFail,     \* writing the protected state may fail
  StopFails,      \* the watcher may fail to stop in time
  Crashes         \* the process may be killed at any time

ASSUME ActorsAssumption ==
  /\ Main \notin Tasks
  /\ NoOne \notin Tasks \cup {Main}
  /\ {MidToggle, RollbackFails, WritesFail, StopFails, Crashes} \subseteq BOOLEAN

Actors == Tasks \cup {Main}

VARIABLES
  up,          \* the process is running
  exitAsked,   \* app.exit(0) has posted its event to the main thread
  phase,       \* LifecycleState.phase
  operation,   \* LifecycleState.operation
  permit,      \* the operation of the LifecyclePermit each actor holds
  lock,        \* who holds the watcher mutex across its wait in stop()
  control,     \* WatcherProcess.control: the write end of the pipe is open
  worker,      \* WatcherProcess.worker
  protected,   \* the protected state item of the Keychain
  password,    \* the password item of this user is in the Keychain
  torn,        \* history: a deletion that failed has removed it
  autostart,   \* the login item
  bundle,      \* where the application bundle is
  settings,    \* the settings directory exists
  staged,      \* its staged copy exists (named after this process)
  status,      \* UpdateStatus.phase
  pc,          \* the next step of each actor
  saved        \* the locals each actor carries from step to step

life == <<phase, operation, permit>>
watch == <<lock, control, worker>>
passwords == <<password, torn>>
keychain == <<protected, passwords>>
files == <<bundle, settings, staged>>
vars == <<up, exitAsked, life, watch, keychain, autostart, files, status, pc,
          saved>>

Operations == {"password", "update", "uninstall"}
Statuses == {"idle", "checking", "uptodate", "available", "downloading",
             "ready", "installing", "error"}
NothingSaved ==
  [protected |-> "missing", autostart |-> FALSE, restore |-> FALSE,
   settings |-> FALSE, deleted |-> FALSE, code |-> "error"]

Goto(a, from, to) ==
  /\ up /\ pc[a] = from
  /\ pc' = [pc EXCEPT ![a] = to]

\* From label from, to label yes if ok, and to label no otherwise.
Branch(a, from, ok, yes, no) == Goto(a, from, IF ok THEN yes ELSE no)

-----------------------------------------------------------------------------
(* LifecycleCoordinator *)

\* Mutant: an operation may begin beside another one.
TryBeginBeside(a, op) ==
  /\ phase = "running"
  /\ operation' = op
  /\ permit' = [permit EXCEPT ![a] = op]
  /\ phase' = IF op = "uninstall" THEN "uninstalling" ELSE phase

\* try_begin, when it grants a permit.
TryBegin(a, op) ==
  /\ phase = "running" /\ operation = "none"
  /\ operation' = op
  /\ permit' = [permit EXCEPT ![a] = op]
  /\ phase' = IF op = "uninstall" THEN "uninstalling" ELSE phase

\* try_begin refuses.
Busy == phase # "running" \/ operation # "none"

BeginShutdown == phase' = "exiting"

\* Mutants: the drop of a permit resets the phase whatever it has become, or
\* leaves the operation in place.
DropPermitToRunning(a) ==
  /\ operation' = IF operation = permit[a] THEN "none" ELSE operation
  /\ phase' = IF permit[a] = "uninstall" THEN "running" ELSE phase
  /\ permit' = [permit EXCEPT ![a] = "none"]
DropPermitLeaking(a) ==
  /\ phase' = IF permit[a] = "uninstall" /\ phase = "uninstalling"
              THEN "running" ELSE phase
  /\ permit' = [permit EXCEPT ![a] = "none"]
  /\ UNCHANGED operation

\* Drop for LifecyclePermit, when no shutdown was committed.
DropPermit(a) ==
  /\ operation' = IF operation = permit[a] THEN "none" ELSE operation
  /\ phase' = IF permit[a] = "uninstall" /\ phase = "uninstalling"
              THEN "running" ELSE phase
  /\ permit' = [permit EXCEPT ![a] = "none"]

\* commit_shutdown, then the drop of the permit.
CommitShutdown(a) ==
  /\ phase' = "exiting"
  /\ operation' = "none"
  /\ permit' = [permit EXCEPT ![a] = "none"]

-----------------------------------------------------------------------------
(* WatcherProcess.  Every call takes the watcher mutex; only stop() keeps  *)
(* it while time passes.                                                   *)

Ended == worker \in {"done", "failed"}

\* Mutant: the pipe of the worker that ended is kept.
ReapKeepingPipe ==
  /\ lock = NoOne
  /\ worker' = IF Ended THEN "none" ELSE worker
  /\ UNCHANGED <<lock, control>>

\* is_running (take_finished): a worker that ended is joined, and its result
\* is reported to this caller only.
Reap ==
  /\ lock = NoOne
  /\ worker' = IF Ended THEN "none" ELSE worker
  /\ control' = (worker = "live" /\ control)
  /\ UNCHANGED lock

\* start_worker, when it succeeds: a live worker is left as it is, even when
\* its pipe has been closed; otherwise a new one gets a new pipe.
StartWorker ==
  \/ worker = "live" /\ UNCHANGED <<worker, control>>
  \/ worker \in {"none", "done"} /\ worker' = "live" /\ control' = TRUE

\* start_watcher returns ok.  It fails with the error of the last worker, and
\* when the obsolete launch agent cannot be removed or no thread started.
StartWatcher(ok) ==
  /\ lock = NoOne
  /\ UNCHANGED lock
  /\ IF ok
     THEN StartWorker
     ELSE \/ UNCHANGED <<worker, control>>
          \/ Ended /\ worker' = "none" /\ control' = FALSE

\* The beginning of stop(): the mutex is taken and the pipe closed.
Halt(a) ==
  /\ lock = NoOne /\ lock' = a
  /\ control' = FALSE
  /\ UNCHANGED worker

\* The end of stop_all_watchers: the worker was joined, or had ended in error, or
\* is left as it is after 80 waits of 25 ms, when it may just have ended; or the
\* launch agent is in the way.
StopReturns(a, ok) ==
  /\ lock = a /\ lock' = NoOne
  /\ \/ /\ worker # "live" /\ worker' = "none"
        /\ ok => worker # "failed"
        /\ ~ok => StopFails \/ worker = "failed"
     \/ ~ok /\ StopFails /\ UNCHANGED worker
  /\ UNCHANGED control

\* The worker thread: a closed pipe ends the watcher, an error may at any time.
WorkerCancelled ==
  /\ up /\ worker = "live" /\ ~control
  /\ worker' = "done"
  /\ UNCHANGED <<up, exitAsked, life, lock, control, keychain, autostart,
                 files, status, pc, saved>>

WorkerFails ==
  /\ up /\ worker = "live"
  /\ worker' = "failed"
  /\ UNCHANGED <<up, exitAsked, life, lock, control, keychain, autostart,
                 files, status, pc, saved>>

-----------------------------------------------------------------------------
(* Combinations the handlers use *)

\* restore_watcher, whose result the caller notes: done, or failed.
Restore(should, ok) ==
  IF should
  THEN StartWatcher(ok) /\ (ok \/ RollbackFails \/ worker = "failed")
  ELSE ok /\ UNCHANGED watch

\* An actor is at rest.
Resting(a) == pc[a] = "idle"

\* With MidToggle = FALSE the user lets an operation end before the next.
MayToggle == MidToggle \/ \A t \in Tasks : Resting(t)
MayBegin == MidToggle \/ Resting(Main)
=============================================================================
