------------------------------- MODULE Bridge -------------------------------
(***************************************************************************)
(* The worker thread of automatic confirmation from both of its ends:      *)
(* WatcherProcess, which starts, reaps and stops it                        *)
(* (app-tauri/src-tauri/src/lib.rs:621-717), and the thread itself, which  *)
(* is in runUniversalWatcherWithOptions of the bridge                      *)
(* (cmd/osaguard-appbridge/main.go:212-283) with a goroutine that reads    *)
(* the control pipe.  Nobody writes to the pipe; its end, once every copy  *)
(* of the write end is closed, cancels the watcher.                        *)
(*                                                                         *)
(* AppState has all of this as the variables control and worker; the last  *)
(* property shows that this is what there is.                              *)
(***************************************************************************)
CONSTANTS
  Threads,   \* worker threads with their pipes; one is used again once joined
  Children,  \* programs the application runs: launchctl, codesign, ditto, open
  NoThread

ASSUME BridgeAssumption == NoThread \notin Threads

VARIABLES
  caller,   \* the call that has the watcher mutex: "start", "stop" or "none"
  fresh,    \* the pipe start_worker has made and not protected yet
  handle,   \* WatcherProcess.worker
  control,  \* WatcherProcess.control is there
  active,   \* watcherActive
  work,     \* each thread and its goroutine
  child     \* the pipe whose write end each program has inherited

vars == <<caller, fresh, handle, control, active, work, child>>

Unused ==
  [at |-> "none", cancelled |-> FALSE, told |-> FALSE, reader |-> "none",
   answer |-> "none", result |-> "none"]

Init ==
  /\ caller = "none" /\ fresh = NoThread
  /\ handle = NoThread /\ control = FALSE /\ active = FALSE
  /\ work = [g \in Threads |-> Unused]
  /\ child = [c \in Children |-> NoThread]

Finished(g) == work[g].at = "returned"

-----------------------------------------------------------------------------
(* WatcherProcess *)

\* The worker was joined, or there was none.
Joined ==
  /\ handle' = NoThread
  /\ work' = [g \in Threads |-> IF g = handle THEN Unused ELSE work[g]]

Idle == \A g \in Threads : g = handle => Finished(g)

\* Mutant: the pipe of the worker that ended is kept.
ReapKeepingPipe ==
  /\ caller = "none" /\ Idle
  /\ Joined
  /\ UNCHANGED <<caller, fresh, control, active, child>>

\* take_finished.  A worker that runs is left alone.
Reap ==
  /\ caller = "none" /\ Idle
  /\ Joined /\ control' = FALSE
  /\ UNCHANGED <<caller, fresh, active, child>>

\* start_worker with no worker that runs, nor one whose error is to be returned:
\* pipe(), whose ends every program inherits that another thread starts now.
StartBegins(g) ==
  /\ caller = "none" /\ caller' = "start"
  /\ Idle /\ \A h \in Threads : h = handle => work[h].result = "ok"
  /\ work[g] = Unused /\ \A c \in Children : child[c] # g
  /\ fresh' = g
  /\ Joined /\ control' = FALSE
  /\ UNCHANGED <<active, child>>

\* FD_CLOEXEC is set on both ends, and the thread started.
StartSpawns ==
  /\ caller = "start" /\ caller' = "none"
  /\ handle' = fresh /\ control' = TRUE /\ fresh' = NoThread
  /\ work' = [work EXCEPT ![fresh].at = "swap"]
  /\ UNCHANGED <<active, child>>

StartFails ==
  /\ caller = "start" /\ caller' = "none"
  /\ fresh' = NoThread
  /\ UNCHANGED <<handle, control, active, work, child>>

StopBegins ==
  /\ caller = "none" /\ caller' = "stop"
  /\ control' = FALSE
  /\ UNCHANGED <<fresh, handle, active, work, child>>

StopJoins ==
  /\ caller = "stop" /\ caller' = "none"
  /\ Idle /\ Joined
  /\ UNCHANGED <<fresh, control, active, child>>

\* Mutant: a worker that does not stop in time is forgotten.
StopForgets ==
  /\ caller = "stop" /\ caller' = "none"
  /\ handle # NoThread /\ handle' = NoThread
  /\ UNCHANGED <<fresh, control, active, work, child>>

\* After 80 waits; the worker may have ended during the last one.
StopGivesUp ==
  /\ caller = "stop" /\ caller' = "none"
  /\ handle # NoThread
  /\ UNCHANGED <<fresh, handle, control, active, work, child>>

WatcherProcess ==
  \/ Reap \/ \E g \in Threads : StartBegins(g)
  \/ StartSpawns \/ StartFails
  \/ StopBegins \/ StopJoins \/ StopGivesUp

-----------------------------------------------------------------------------
(* The programs the application runs *)

Inherit(c) ==
  /\ child[c] = NoThread /\ fresh # NoThread
  /\ child' = [child EXCEPT ![c] = fresh]
  /\ UNCHANGED <<caller, fresh, handle, control, active, work>>

ChildEnds(c) ==
  /\ child[c] # NoThread
  /\ child' = [child EXCEPT ![c] = NoThread]
  /\ UNCHANGED <<caller, fresh, handle, control, active, work>>

\* Some process has the write end of the pipe.
Open(g) ==
  (handle = g /\ control) \/ fresh = g \/ \E c \in Children : child[c] = g

-----------------------------------------------------------------------------
(* runUniversalWatcherWithOptions *)

process == <<caller, fresh, handle, control, child>>

Goto(g, from, to) ==
  /\ work[g].at = from
  /\ work' = [work EXCEPT ![g].at = to]

Ends(g, from, to, result) ==
  /\ work[g].at = from
  /\ work' = [work EXCEPT ![g].at = to, ![g].result = result]

Swap(g) ==
  /\ IF active THEN Ends(g, "swap", "returned", "error")
               ELSE Goto(g, "swap", "dup")
  /\ active' = TRUE
  /\ UNCHANGED process

\* The descriptor is duplicated and the goroutine started.
Dup(g) ==
  /\ work[g].at = "dup"
  /\ work' = [work EXCEPT ![g].at = "watch", ![g].reader = "select"]
  /\ UNCHANGED <<process, active>>

DupFails(g) == Ends(g, "dup", "leave", "error") /\ UNCHANGED <<process, active>>

\* Run returns ctx.Err(), or the error of its start.
WatchCancelled(g) ==
  /\ work[g].cancelled
  /\ Ends(g, "watch", "close", "cancelled")
  /\ UNCHANGED <<process, active>>

WatchFails(g) == Ends(g, "watch", "close", "error") /\ UNCHANGED <<process, active>>

\* Mutant: the goroutine is not told.
CloseForgotten(g) == Goto(g, "close", "await") /\ UNCHANGED <<process, active>>

\* close(watcherDone).
Close(g) ==
  /\ work[g].at = "close"
  /\ work' = [work EXCEPT ![g].at = "await", ![g].told = TRUE]
  /\ UNCHANGED <<process, active>>

\* <-readerDone.
Await(g) ==
  /\ work[g].answer # "none"
  /\ Ends(g, "await", "leave",
          IF work[g].result = "cancelled" /\ work[g].answer = "nil"
          THEN "ok" ELSE "error")
  /\ UNCHANGED <<process, active>>

\* The deferred calls, and the return to the thread, which ends.
Leave(g) ==
  /\ Goto(g, "leave", "returned")
  /\ active' = FALSE
  /\ UNCHANGED process

ThreadStep(g) ==
  \/ Swap(g) \/ Dup(g) \/ DupFails(g) \/ Close(g) \/ Await(g) \/ Leave(g)

-----------------------------------------------------------------------------
(* The goroutine *)

Reads(g, from, to) ==
  /\ work[g].reader = from
  /\ work' = [work EXCEPT ![g].reader = to]
  /\ UNCHANGED <<process, active>>

\* The goroutine returns.
Answers(g, from, cancels, answer) ==
  /\ work[g].reader = from
  /\ work' = [work EXCEPT ![g].reader = "ended", ![g].answer = answer,
                          ![g].cancelled = @ \/ cancels]
  /\ UNCHANGED <<process, active>>

Select(g) ==
  IF work[g].told THEN Answers(g, "select", FALSE, "nil")
                  ELSE Reads(g, "select", "poll")

\* poll(2) reports the end of the pipe.
PollSees(g) == ~Open(g) /\ Reads(g, "poll", "read")

\* It returns after 100 ms or for a signal, or fails.
PollReturns(g) == Reads(g, "poll", "select")
PollFails(g) == Answers(g, "poll", TRUE, "error")

Read(g) == \E answer \in {"nil", "error"} : Answers(g, "read", TRUE, answer)
ReadInterrupted(g) == Reads(g, "read", "select")

ReaderStep(g) ==
  Select(g) \/ PollSees(g) \/ PollReturns(g) \/ PollFails(g)
    \/ Read(g) \/ ReadInterrupted(g)

-----------------------------------------------------------------------------
Next ==
  \/ WatcherProcess
  \/ \E c \in Children : Inherit(c) \/ ChildEnds(c)
  \/ \E g \in Threads :
       ThreadStep(g) \/ WatchCancelled(g) \/ WatchFails(g) \/ ReaderStep(g)

\* Threads and goroutines are scheduled; a signal does not come at every call; a
\* program that was started ends; Run looks at its context between two ticks.
Fairness ==
  /\ \A g \in Threads :
       /\ WF_vars(ThreadStep(g)) /\ WF_vars(WatchCancelled(g))
       /\ WF_vars(ReaderStep(g)) /\ SF_vars(PollSees(g)) /\ SF_vars(Read(g))
  /\ \A c \in Children : WF_vars(ChildEnds(c))

Spec == Init /\ [][Next]_vars
FairSpec == Spec /\ Fairness

-----------------------------------------------------------------------------
(* Properties *)

Works ==
  [at : {"none", "swap", "dup", "watch", "close", "await", "leave", "returned"},
   cancelled : BOOLEAN, told : BOOLEAN,
   reader : {"none", "select", "poll", "read", "ended"},
   answer : {"none", "nil", "error"},
   result : {"none", "cancelled", "error", "ok"}]

\* Every variable has its type, and an open pipe belongs to a worker.
TypeOK ==
  /\ caller \in {"none", "start", "stop"}
  /\ fresh \in Threads \cup {NoThread} /\ handle \in Threads \cup {NoThread}
  /\ control \in BOOLEAN /\ active \in BOOLEAN
  /\ work \in [Threads -> Works]
  /\ child \in [Children -> Threads \cup {NoThread}]
  /\ control => handle # NoThread

\* The only thread that is anywhere in the bridge is the one WatcherProcess
\* knows of, also after a stop() that gave up: no watcher types a password that
\* nobody could stop any more, and no start is refused by watcherActive for a
\* predecessor that was joined (lib.rs:627-717, main.go:222-225).
NoStrayWatcher ==
  \A g \in Threads :
    /\ work[g].at # "none" => g = handle
    /\ work[g].at = "swap" => ~active

\* The watcher mutex across the wait of stop(), and the worker, as AppState has
\* them.
Lock == IF caller = "stop" THEN "main" ELSE "nobody"
Worker ==
  IF handle = NoThread THEN "none"
  ELSE IF ~Finished(handle) THEN "live"
  ELSE IF work[handle].result = "ok" THEN "done" ELSE "failed"

App == INSTANCE AppState WITH
  Main <- "main", Tasks <- {}, NoOne <- "nobody", MidToggle <- TRUE,
  RollbackFails <- TRUE, WritesFail <- TRUE, StopFails <- TRUE,
  Crashes <- FALSE,
  up <- TRUE, exitAsked <- FALSE, phase <- "running", operation <- "none",
  permit <- <<>>, protected <- "enabled", password <- TRUE, torn <- FALSE,
  autostart <- TRUE, bundle <- "installed", settings <- TRUE,
  staged <- FALSE, status <- "idle", pc <- <<>>, saved <- <<>>,
  lock <- Lock, worker <- Worker

WorkerStep ==
  \/ App!Reap \/ App!Halt("main")
  \/ \E ok \in BOOLEAN : App!StartWatcher(ok) \/ App!StopReturns("main", ok)
  \/ App!WorkerCancelled \/ App!WorkerFails

\* Seen from the commands of the application, the two descriptors, the thread and
\* the goroutine are one worker that ends well only when it was cancelled, that
\* is joined once, and that a stop() can leave behind: AppState's methods of
\* WatcherProcess (lib.rs:621-717, main.go:212-283).
WorkerSteps == [][WorkerStep]_(App!watch)

\* A cancelled worker ends, which App!FairSpec assumes, and so does one that
\* failed with the pipe still open: the thread and the goroutine do not wait for
\* each other for ever (main.go:232-281).
WorkersEnd ==
  \A g \in Threads :
    (handle = g /\ ~control) \/ work[g].at = "close"
      ~> work[g].at \in {"none", "returned"}

\* The thread, its pipe and its goroutine implement the worker of AppState, whose
\* steps they take and whose fairness they justify.
ImplementsWorker == WorkerSteps /\ WorkersEnd
=============================================================================
