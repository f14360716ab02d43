---------------------------- MODULE BridgeProofs ----------------------------
(***************************************************************************)
(* What Bridge promises for any number of threads and of programs that     *)
(* inherit the pipe: WatcherProcess never loses a thread, and every step   *)
(* is a step of the worker of AppState or leaves it unchanged.             *)
(*                                                                         *)
(* The second needs to know why a thread ended well: its result is "ok"    *)
(* only when the goroutine saw the end of the pipe, and no pipe is opened  *)
(* again.  Heard carries that from the read to the return.                 *)
(***************************************************************************)
EXTENDS Bridge, Naturals, TLAPS

-----------------------------------------------------------------------------
(* The inductive invariant *)

\* The only thread that is in use is the one of the handle.
Known ==
  /\ \A g \in Threads : g # handle => work[g] = Unused
  /\ handle # NoThread => work[handle].at # "none"

\* A pipe is fresh only while a call starts a worker beside no other, and control
\* is closed before stop() waits.
Calls ==
  /\ fresh # NoThread <=> caller = "start"
  /\ caller = "start" => handle = NoThread
  /\ caller = "stop" => ~control

\* watcherActive is set by the thread of the handle, between its two ends.
Inside == {"dup", "watch", "close", "await", "leave"}
Active == active => handle # NoThread /\ work[handle].at \in Inside

\* WatcherProcess holds the write end of the pipe of this thread.
Held(g) == handle = g /\ control

\* The thread is told of the end of the pipe by the goroutine only, which is
\* started once and answers once.
Heard ==
  \A g \in Threads :
    /\ work[g].at \in {"swap", "dup"} => work[g].reader = "none"
    /\ work[g].reader = "read" => ~Held(g)
    /\ work[g].cancelled => work[g].reader = "ended"
    /\ work[g].cancelled /\ work[g].answer = "nil" => ~Held(g)
    /\ work[g].result = "cancelled" => work[g].cancelled
    /\ work[g].result = "ok" => ~Held(g)

IInv == TypeOK /\ Known /\ Calls /\ Active /\ Heard

-----------------------------------------------------------------------------
(* Joining *)

\* A worker is joined when its thread has ended, which nobody counts as active,
\* and its pipe is closed: nothing is left of it (lib.rs:628-650).
LEMMA JoinedKeeps ==
  ASSUME IInv, Idle, Joined, control' = FALSE, UNCHANGED <<active, child>>,
         caller' \in {"none", "start", "stop"},
         fresh' \in Threads \cup {NoThread},
         fresh' # NoThread <=> caller' = "start"
  PROVE  IInv'
<1>1. Unused \in Works
  BY DEF Unused, Works
<1>2. work' \in [Threads -> Works] /\ \A g \in Threads : work'[g] = Unused
  <2>1. work' = [g \in Threads |-> Unused]
    BY DEF Joined, IInv, Known, TypeOK
  <2>2. QED BY <2>1, <1>1
<1>3. TypeOK'
  BY <1>2 DEF IInv, TypeOK, Joined
<1>4. ~active
  BY DEF IInv, TypeOK, Active, Idle, Finished, Inside
<1>5. Known' /\ Calls' /\ Active' /\ Heard'
  BY <1>2, <1>4 DEF Joined, Known, Calls, Active, Heard, Held, Unused
<1>6. QED
  BY <1>3, <1>5 DEF IInv

-----------------------------------------------------------------------------
(* The steps of a thread *)

\* A step of the thread or of its goroutine, which only the thread of the handle
\* takes.
LEMMA OnlyTheHandleMoves ==
  ASSUME IInv, NEW g \in Threads,
         work[g].at # "none" \/ work[g].reader # "none" \/ work[g].cancelled
  PROVE  g = handle
  BY DEF IInv, Known, Unused

\* When one thread has moved within the bridge, only what is said of it and of
\* watcherActive has to be shown again (main.go:212-283).
LEMMA MoveKeeps ==
  ASSUME IInv, NEW g \in Threads, g = handle,
         NEW w \in Works, work' = [work EXCEPT ![g] = w],
         UNCHANGED process, active' \in BOOLEAN,
         w.at # "none", active' => w.at \in Inside,
         w.at \in {"swap", "dup"} => w.reader = "none",
         w.reader = "read" => ~control,
         w.cancelled => w.reader = "ended",
         w.cancelled /\ w.answer = "nil" => ~control,
         w.result = "cancelled" => w.cancelled,
         w.result = "ok" => ~control
  PROVE  IInv'
<1>1. work' \in [Threads -> Works] /\ work'[g] = w
      /\ \A h \in Threads : h # g => work'[h] = work[h]
  BY DEF IInv, TypeOK
<1>2. g # NoThread
  BY BridgeAssumption
<1>3. TypeOK'
  BY <1>1 DEF IInv, TypeOK, process
<1>4. Known' /\ Calls' /\ Active'
  BY <1>1, <1>2 DEF IInv, Known, Calls, Active, process
<1>5. Heard'
  <2> SUFFICES ASSUME NEW h \in Threads
               PROVE  (/\ work[h].at \in {"swap", "dup"} => work[h].reader = "none"
                       /\ work[h].reader = "read" => ~Held(h)
                       /\ work[h].cancelled => work[h].reader = "ended"
                       /\ work[h].cancelled /\ work[h].answer = "nil" => ~Held(h)
                       /\ work[h].result = "cancelled" => work[h].cancelled
                       /\ work[h].result = "ok" => ~Held(h))'
    BY DEF Heard
  <2>1. CASE h = g
    BY <2>1, <1>1 DEF Held, process
  <2>2. CASE h # g
    BY <2>2, <1>1 DEF Held, process, IInv, Heard
  <2>3. QED BY <2>1, <2>2
<1>6. QED
  BY <1>3, <1>4, <1>5 DEF IInv

-----------------------------------------------------------------------------
(* Steps of WatcherProcess and of the programs *)

\* The methods of WatcherProcess (lib.rs:628-717).
LEMMA WatcherProcessKeeps == IInv /\ WatcherProcess => IInv'
<1> SUFFICES ASSUME IInv, WatcherProcess PROVE IInv'
  OBVIOUS
<1>1. CASE Reap
  BY <1>1, JoinedKeeps DEF Reap, IInv, TypeOK, Calls
<1>2. ASSUME NEW g \in Threads, StartBegins(g) PROVE IInv'
  <2>1. fresh' \in Threads \cup {NoThread} /\ fresh' # NoThread
    BY <1>2, BridgeAssumption DEF StartBegins
  <2>2. QED
    BY <1>2, <2>1, JoinedKeeps DEF StartBegins
<1>3. CASE StartSpawns
  <2> DEFINE w == [Unused EXCEPT !.at = "swap"]
  <2>1. fresh \in Threads /\ handle = NoThread /\ handle' = fresh /\ ~active
    BY <1>3 DEF StartSpawns, IInv, TypeOK, Calls, Active
  <2>2. \A g \in Threads : work[g] = Unused
    BY <2>1, BridgeAssumption DEF IInv, Known
  <2>3. /\ work' \in [Threads -> Works]
        /\ \A g \in Threads : work'[g] = IF g = fresh THEN w ELSE Unused
    <3>1. w \in Works /\ work \in [Threads -> Works]
      BY DEF IInv, TypeOK, Works, Unused
    <3>2. work' = [work EXCEPT ![fresh] = w]
      BY <1>3, <2>1, <2>2 DEF StartSpawns
    <3> HIDE DEF w
    <3>3. QED BY <2>1, <2>2, <3>1, <3>2
  <2>4. TypeOK'
    BY <1>3, <2>1, <2>3, BridgeAssumption DEF StartSpawns, IInv, TypeOK
  <2>5. Known' /\ Calls' /\ Active'
    BY <1>3, <2>1, <2>3, BridgeAssumption
       DEF StartSpawns, IInv, Known, Calls, Active, Unused
  <2>6. Heard'
    BY <2>3 DEF Heard, Unused
  <2>7. QED BY <2>4, <2>5, <2>6 DEF IInv
<1>4. CASE StartFails
  BY <1>4 DEF StartFails, IInv, TypeOK, Known, Calls, Active, Heard, Held
<1>5. CASE StopBegins
  BY <1>5 DEF StopBegins, IInv, TypeOK, Known, Calls, Active, Heard, Held
<1>6. CASE StopJoins
  <2>1. control' = FALSE /\ fresh' = NoThread
    BY <1>6 DEF StopJoins, IInv, TypeOK, Calls
  <2>2. QED
    BY <1>6, <2>1, JoinedKeeps DEF StopJoins
<1>7. CASE StopGivesUp
  BY <1>7 DEF StopGivesUp, IInv, TypeOK, Known, Calls, Active, Heard, Held
<1>8. QED
  BY <1>1, <1>2, <1>3, <1>4, <1>5, <1>6, <1>7 DEF WatcherProcess

\* Programs that start and end only have the pipe that is fresh.
LEMMA ProgramsKeep ==
  ASSUME IInv, NEW c \in Children, Inherit(c) \/ ChildEnds(c)
  PROVE  IInv'
<1>1. child' \in [Children -> Threads \cup {NoThread}]
  BY DEF IInv, TypeOK, Inherit, ChildEnds
<1>2. UNCHANGED <<caller, fresh, handle, control, active, work>>
  BY DEF Inherit, ChildEnds
<1>3. QED
  BY <1>1, <1>2 DEF IInv, TypeOK, Known, Calls, Active, Heard, Held

-----------------------------------------------------------------------------
(* Steps of the thread and of the goroutine *)

\* A thread within runUniversalWatcherWithOptions (main.go:214-283).
LEMMA ThreadKeeps ==
  ASSUME IInv, NEW g \in Threads,
         ThreadStep(g) \/ WatchCancelled(g) \/ WatchFails(g)
  PROVE  IInv'
<1> DEFINE v == work[g]
<1>1. v \in Works
  BY DEF IInv, TypeOK
<1>2. v.at # "none" /\ g = handle
  <2>1. v.at # "none"
    BY DEF ThreadStep, Swap, Dup, DupFails, Close, Await, Leave, WatchCancelled,
           WatchFails, Goto, Ends
  <2>2. QED BY <2>1, OnlyTheHandleMoves
<1>3. /\ v.at \in {"swap", "dup"} => v.reader = "none"
      /\ v.reader = "read" => ~control
      /\ v.cancelled => v.reader = "ended"
      /\ v.cancelled /\ v.answer = "nil" => ~control
      /\ v.result = "cancelled" => v.cancelled
      /\ v.result = "ok" => ~control
  BY <1>2 DEF IInv, Heard, Held
<1>4. active => v.at \in Inside
  BY <1>2 DEF IInv, Active
<1>5. ASSUME NEW w \in Works, work' = [work EXCEPT ![g] = w],
             UNCHANGED process, active' \in BOOLEAN,
             w.at # "none", active' => w.at \in Inside,
             w.at \in {"swap", "dup"} => w.reader = "none",
             w.reader = "read" => ~control,
             w.cancelled => w.reader = "ended",
             w.cancelled /\ w.answer = "nil" => ~control,
             w.result = "cancelled" => w.cancelled,
             w.result = "ok" => ~control
      PROVE  IInv'
  BY <1>2, <1>5, MoveKeeps
<1>6. CASE Swap(g)
  <2>1. ~active
    BY <1>6, <1>4 DEF Swap, Ends, Goto, Inside
  <2> DEFINE w == [v EXCEPT !.at = "dup"]
  <2>2. work' = [work EXCEPT ![g] = w] /\ active' = TRUE /\ v.at = "swap"
    BY <1>6, <2>1 DEF Swap, Goto
  <2>3. w \in Works
    BY <1>1 DEF Works
  <2>4. QED
    BY <1>1, <1>3, <1>5, <1>6, <2>2, <2>3 DEF Swap, Inside, Works
<1>7. CASE Dup(g)
  <2> DEFINE w == [v EXCEPT !.at = "watch", !.reader = "select"]
  <2>1. work' = [work EXCEPT ![g] = w] /\ v.at = "dup"
    BY <1>7 DEF Dup
  <2>2. w \in Works
    BY <1>1 DEF Works
  <2>3. QED
    <3>1. /\ w.at = "watch" /\ w.reader = "select" /\ ~w.cancelled
          /\ w.result = v.result
      BY <1>1, <1>3, <2>1 DEF Works
    <3>2. UNCHANGED process /\ active' \in BOOLEAN /\ "watch" \in Inside
      BY <1>7 DEF Dup, IInv, TypeOK, Inside
    <3> HIDE DEF w
    <3>3. QED BY <1>3, <1>5, <2>1, <2>2, <3>1, <3>2
<1>8. ASSUME NEW from \in {"dup", "watch"}, NEW to \in {"leave", "close"},
             NEW result \in {"error", "cancelled"},
             result = "cancelled" => v.cancelled,
             Ends(g, from, to, result), UNCHANGED <<process, active>>
      PROVE  IInv'
  <2> DEFINE w == [v EXCEPT !.at = to, !.result = result]
  <2>1. work' = [work EXCEPT ![g] = w]
    BY <1>8 DEF Ends
  <2>2. w \in Works
    BY <1>1 DEF Works
  <2>3. QED
    <3>1. /\ w.at = to /\ w.result = result /\ w.reader = v.reader
          /\ w.cancelled = v.cancelled /\ w.answer = v.answer
      BY <1>1 DEF Works
    <3>2. UNCHANGED process /\ active' \in BOOLEAN /\ to \in Inside
      BY <1>8 DEF IInv, TypeOK, Inside
    <3> HIDE DEF w
    <3>3. QED BY <1>3, <1>5, <1>8, <2>1, <2>2, <3>1, <3>2
<1>9. CASE DupFails(g) \/ WatchFails(g) \/ WatchCancelled(g)
  BY <1>8, <1>9 DEF DupFails, WatchFails, WatchCancelled
<1>10. CASE Close(g)
  <2> DEFINE w == [v EXCEPT !.at = "await", !.told = TRUE]
  <2>1. work' = [work EXCEPT ![g] = w]
    BY <1>10 DEF Close
  <2>2. w \in Works
    BY <1>1 DEF Works
  <2>3. QED
    <3>1. /\ w.at = "await" /\ w.result = v.result /\ w.reader = v.reader
          /\ w.cancelled = v.cancelled /\ w.answer = v.answer
      BY <1>1 DEF Works
    <3>2. UNCHANGED process /\ active' \in BOOLEAN /\ "await" \in Inside
      BY <1>10 DEF Close, IInv, TypeOK, Inside
    <3> HIDE DEF w
    <3>3. QED BY <1>3, <1>5, <2>1, <2>2, <3>1, <3>2
<1>11. CASE Await(g)
  <2> DEFINE r == IF v.result = "cancelled" /\ v.answer = "nil"
                  THEN "ok" ELSE "error"
             w == [v EXCEPT !.at = "leave", !.result = r]
  <2>1. work' = [work EXCEPT ![g] = w]
    BY <1>11 DEF Await, Ends
  <2>2. w \in Works
    BY <1>1 DEF Works
  <2>3. /\ w.at = "leave" /\ w.result = r /\ w.reader = v.reader
        /\ w.cancelled = v.cancelled /\ w.answer = v.answer
    BY <1>1 DEF Works
  <2>4. r # "cancelled" /\ (r = "ok" => ~control)
    BY <1>3
  <2>5. UNCHANGED process /\ active' \in BOOLEAN /\ "leave" \in Inside
    BY <1>11 DEF Await, IInv, TypeOK, Inside
  <2> HIDE DEF w, r
  <2>6. QED
    BY <1>3, <1>5, <2>1, <2>2, <2>3, <2>4, <2>5
<1>12. CASE Leave(g)
  <2> DEFINE w == [v EXCEPT !.at = "returned"]
  <2>1. work' = [work EXCEPT ![g] = w] /\ active' = FALSE
    BY <1>12 DEF Leave, Goto
  <2>2. w \in Works
    BY <1>1 DEF Works
  <2>3. QED
    BY <1>1, <1>3, <1>5, <1>12, <2>1, <2>2 DEF Leave, Works
<1>13. QED
  BY <1>6, <1>7, <1>9, <1>10, <1>11, <1>12 DEF ThreadStep

\* The goroutine that reads the pipe (main.go:236-266).
LEMMA ReaderKeeps ==
  ASSUME IInv, NEW g \in Threads, ReaderStep(g)
  PROVE  IInv'
<1> DEFINE v == work[g]
<1>1. v \in Works
  BY DEF IInv, TypeOK
<1>2. v.reader \in {"select", "poll", "read"} /\ g = handle
  <2>1. v.reader \in {"select", "poll", "read"}
    BY DEF ReaderStep, Select, PollSees, PollReturns, PollFails, Read,
           ReadInterrupted, Reads, Answers
  <2>2. QED BY <2>1, OnlyTheHandleMoves
<1>3. /\ v.at \notin {"none", "swap", "dup"} /\ ~v.cancelled
      /\ v.reader = "read" => ~control
      /\ v.result # "cancelled"
      /\ v.result = "ok" => ~control
      /\ active => v.at \in Inside
  BY <1>2, BridgeAssumption DEF IInv, Heard, Held, Active, Known, Unused
<1>4. ASSUME NEW w \in Works, work' = [work EXCEPT ![g] = w],
             UNCHANGED <<process, active>>, w.at = v.at, w.result = v.result,
             w.reader = "read" => ~control,
             w.cancelled => w.reader = "ended",
             w.cancelled /\ w.answer = "nil" => ~control
      PROVE  IInv'
  <2>1. active' \in BOOLEAN /\ UNCHANGED process /\ active' = active
    BY <1>4 DEF IInv, TypeOK
  <2>2. /\ w.at # "none" /\ (active' => w.at \in Inside)
        /\ w.at \in {"swap", "dup"} => w.reader = "none"
        /\ w.result = "cancelled" => w.cancelled
        /\ w.result = "ok" => ~control
    BY <1>3, <1>4, <2>1
  <2>3. QED
    BY <1>2, <1>4, <2>1, <2>2, MoveKeeps
<1>5. ASSUME NEW from \in {"select", "poll", "read"},
             NEW to \in {"select", "poll", "read"},
             to = "read" => ~control, Reads(g, from, to)
      PROVE  IInv'
  <2> DEFINE w == [v EXCEPT !.reader = to]
  <2>1. work' = [work EXCEPT ![g] = w] /\ UNCHANGED <<process, active>>
    BY <1>5 DEF Reads
  <2>2. w \in Works
    BY <1>1, <1>5 DEF Works
  <2>3. /\ w.at = v.at /\ w.result = v.result /\ w.reader = to
        /\ w.cancelled = v.cancelled
    BY <1>1 DEF Works
  <2> HIDE DEF w
  <2>4. QED
    BY <1>3, <1>4, <1>5, <2>1, <2>2, <2>3
<1>6. ASSUME NEW from \in {"select", "poll", "read"},
             NEW cancels \in BOOLEAN, NEW answer \in {"nil", "error"},
             cancels /\ answer = "nil" => ~control,
             Answers(g, from, cancels, answer)
      PROVE  IInv'
  <2> DEFINE w == [v EXCEPT !.reader = "ended", !.answer = answer,
                            !.cancelled = @ \/ cancels]
  <2>1. work' = [work EXCEPT ![g] = w] /\ UNCHANGED <<process, active>>
    BY <1>6 DEF Answers
  <2>2. w \in Works
    BY <1>1, <1>6 DEF Works
  <2>3. /\ w.at = v.at /\ w.result = v.result /\ w.reader = "ended"
        /\ w.answer = answer /\ (w.cancelled => cancels)
    BY <1>1, <1>3 DEF Works
  <2> HIDE DEF w
  <2>4. QED
    BY <1>4, <1>6, <2>1, <2>2, <2>3
<1>7. CASE Select(g)
  BY <1>5, <1>6, <1>7 DEF Select
<1>8. CASE PollSees(g)
  <2>1. ~control
    BY <1>2, <1>8 DEF PollSees, Open
  <2>2. QED BY <1>5, <1>8, <2>1 DEF PollSees
<1>9. CASE PollReturns(g) \/ ReadInterrupted(g)
  BY <1>5, <1>9 DEF PollReturns, ReadInterrupted
<1>10. CASE PollFails(g)
  BY <1>6, <1>10 DEF PollFails
<1>11. CASE Read(g)
  <2>1. ~control
    BY <1>3, <1>11 DEF Read, Answers
  <2>2. QED BY <1>6, <1>11, <2>1 DEF Read
<1>12. QED
  BY <1>7, <1>8, <1>9, <1>10, <1>11 DEF ReaderStep

-----------------------------------------------------------------------------
(* Theorems *)

\* In every reachable state the thread of the handle is the only one in use,
\* watcherActive speaks of it, and it is cancelled only by the end of its pipe or
\* an error of poll(2) (lib.rs:621-717, main.go:212-283).
THEOREM Inductive == Spec => []IInv
<1>1. Init => IInv
  <2>1. Unused \in Works
    BY DEF Unused, Works
  <2>2. Init => TypeOK
    BY <2>1 DEF Init, TypeOK
  <2>3. Init => Known /\ Calls /\ Active
    BY DEF Init, Known, Calls, Active
  <2>4. Init => Heard
    <3>1. ~Unused.cancelled /\ Unused.reader = "none" /\ Unused.result = "none"
      BY DEF Unused
    <3>2. QED BY <3>1 DEF Init, Heard, Held
  <2>5. QED BY <2>2, <2>3, <2>4 DEF IInv
<1>2. IInv /\ [Next]_vars => IInv'
  <2> SUFFICES ASSUME IInv, [Next]_vars PROVE IInv'
    OBVIOUS
  <2>1. CASE UNCHANGED vars
    BY <2>1 DEF vars, IInv, TypeOK, Known, Calls, Active, Heard, Held
  <2>2. CASE Next
    BY <2>2, WatcherProcessKeeps, ProgramsKeep, ThreadKeeps, ReaderKeeps DEF Next
  <2>3. QED BY <2>1, <2>2
<1>3. QED BY <1>1, <1>2, PTL DEF Spec

\* Every variable keeps its type, and no pipe is open without a worker.
THEOREM TypeCorrect == Spec => []TypeOK
<1>1. IInv => TypeOK
  BY DEF IInv
<1>2. QED BY <1>1, Inductive, PTL

\* WatcherProcess never loses a thread, and watcherActive never refuses one, for
\* any number of threads and programs.
THEOREM NoneStrays == Spec => []NoStrayWatcher
<1>1. ASSUME IInv, NEW g \in Threads
      PROVE  /\ work[g].at # "none" => g = handle
             /\ work[g].at = "swap" => ~active
  <2>1. work[g].at # "none" => g = handle
    BY <1>1, OnlyTheHandleMoves
  <2>2. QED BY <1>1, <2>1 DEF IInv, Active, Inside
<1>2. IInv => NoStrayWatcher
  BY <1>1 DEF NoStrayWatcher
<1>3. QED BY <1>2, Inductive, PTL

-----------------------------------------------------------------------------
(* The refinement *)

\* What a joined worker leaves to see: none, with its pipe closed, where there was
\* none or one that had ended.
LEMMA JoinedWorker ==
  ASSUME IInv, Idle, Joined
  PROVE  Worker # "live" /\ Worker' = "none"
  BY DEF Idle, Joined, Worker, IInv, TypeOK

\* Each step of WatcherProcess is the step of AppState of the same name
\* (lib.rs:628-717).
LEMMA WatcherProcessSteps ==
  ASSUME IInv, WatcherProcess
  PROVE  WorkerStep \/ UNCHANGED <<Lock, control, Worker>>
<1>1. Worker \in {"none", "live", "done", "failed"}
  BY DEF Worker
<1>2. CASE Reap
  <2>1. Lock = "nobody" /\ Lock' = Lock
    BY <1>2 DEF Reap, Lock
  <2>2. control' = FALSE /\ Worker # "live" /\ Worker' = "none"
    BY <1>2, JoinedWorker DEF Reap
  <2>3. App!Reap
    BY <1>1, <2>1, <2>2 DEF App!Reap, App!Ended
  <2>4. QED BY <2>3 DEF WorkerStep
<1>3. ASSUME NEW g \in Threads, StartBegins(g)
      PROVE  WorkerStep
  <2>1. Lock = "nobody" /\ Lock' = Lock
    BY <1>3 DEF StartBegins, Lock
  <2>2. control' = FALSE /\ Worker # "live" /\ Worker' = "none"
    BY <1>3, JoinedWorker DEF StartBegins
  <2>3. App!Reap
    BY <1>1, <2>1, <2>2 DEF App!Reap, App!Ended
  <2>4. QED BY <2>3 DEF WorkerStep
<1>4. CASE StartSpawns
  <2>1. Lock = "nobody" /\ Lock' = Lock /\ control' = TRUE
    BY <1>4 DEF StartSpawns, Lock
  <2>2. Worker = "none"
    BY <1>4 DEF StartSpawns, Worker, IInv, Calls
  <2>3. Worker' = "live"
    <3>1. fresh \in Threads /\ handle' = fresh /\ fresh # NoThread
      BY <1>4, BridgeAssumption DEF StartSpawns, IInv, TypeOK, Calls
    <3>2. work'[fresh].at = "swap"
      BY <1>4, <3>1 DEF StartSpawns, IInv, TypeOK, Works
    <3>3. QED BY <3>1, <3>2 DEF Worker, Finished
  <2>4. App!StartWatcher(TRUE)
    BY <2>1, <2>2, <2>3 DEF App!StartWatcher, App!StartWorker
  <2>5. QED BY <2>4 DEF WorkerStep
<1>5. CASE StartFails
  BY <1>5 DEF StartFails, Lock, Worker, Finished
<1>6. CASE StopBegins
  <2>1. Lock = "nobody" /\ Lock' = "main" /\ control' = FALSE
    BY <1>6 DEF StopBegins, Lock
  <2>2. Worker' = Worker
    BY <1>6 DEF StopBegins, Worker, Finished
  <2>3. App!Halt("main")
    BY <2>1, <2>2 DEF App!Halt
  <2>4. QED BY <2>3 DEF WorkerStep
<1>7. CASE StopJoins
  <2>1. Lock = "main" /\ Lock' = "nobody" /\ control' = control
    BY <1>7 DEF StopJoins, Lock
  <2>2. Worker # "live" /\ Worker' = "none"
    BY <1>7, JoinedWorker DEF StopJoins
  <2>3. App!StopReturns("main", FALSE)
    BY <2>1, <2>2 DEF App!StopReturns
  <2>4. QED BY <2>3 DEF WorkerStep
<1>8. CASE StopGivesUp
  <2>1. Lock = "main" /\ Lock' = "nobody" /\ control' = control
    BY <1>8 DEF StopGivesUp, Lock
  <2>2. Worker' = Worker
    BY <1>8 DEF StopGivesUp, Worker, Finished
  <2>3. App!StopReturns("main", FALSE)
    BY <2>1, <2>2 DEF App!StopReturns
  <2>4. QED BY <2>3 DEF WorkerStep
<1>9. QED
  BY <1>2, <1>3, <1>4, <1>5, <1>6, <1>7, <1>8 DEF WatcherProcess

\* The worker is live until its thread leaves the bridge.
LEMMA LiveWithin ==
  ASSUME IInv, NEW g \in Threads, g = handle, UNCHANGED process,
         ~Finished(g), ~Finished(g)'
  PROVE  UNCHANGED <<Lock, control, Worker>>
<1>1. g # NoThread
  BY BridgeAssumption
<1>2. QED
  BY <1>1 DEF process, Lock, Worker

\* Within the bridge only the return of the thread is seen: it is cancelled when
\* its result is ok, and has failed otherwise (main.go:214-283).
LEMMA ThreadSteps ==
  ASSUME IInv, NEW g \in Threads,
         \/ ThreadStep(g) \/ WatchCancelled(g) \/ WatchFails(g)
         \/ ReaderStep(g)
  PROVE  WorkerStep \/ UNCHANGED <<Lock, control, Worker>>
<1>1. work[g] \in Works /\ g # NoThread
  BY BridgeAssumption DEF IInv, TypeOK
<1>2. g = handle
  <2>1. work[g].at # "none" \/ work[g].reader # "none"
    BY DEF ThreadStep, Swap, Dup, DupFails, Close, Await, Leave, WatchCancelled,
           WatchFails, Goto, Ends, ReaderStep, Select, PollSees, PollReturns,
           PollFails, Read, ReadInterrupted, Reads, Answers
  <2>2. QED BY <2>1, OnlyTheHandleMoves
<1>3. UNCHANGED process
  BY DEF ThreadStep, Swap, Dup, DupFails, Close, Await, Leave, WatchCancelled,
         WatchFails, ReaderStep, Select, PollSees, PollReturns, PollFails, Read,
         ReadInterrupted, Reads, Answers
<1>4. CASE Leave(g)
  <2>1. work[g].at = "leave" /\ work'[g].at = "returned"
        /\ work'[g].result = work[g].result
    BY <1>1, <1>4 DEF Leave, Goto, IInv, TypeOK, Works
  <2>2. Lock' = Lock /\ control' = control /\ Worker = "live"
    BY <1>1, <1>2, <1>3, <2>1 DEF process, Lock, Worker, Finished
  <2>3. CASE work[g].result = "ok"
    <3>1. Worker' = "done" /\ ~control
      BY <1>1, <1>2, <1>3, <2>1, <2>3
         DEF process, Worker, Finished, IInv, Heard, Held
    <3>2. App!WorkerCancelled
      BY <2>2, <3>1
         DEF App!WorkerCancelled, App!life, App!keychain,
             App!passwords, App!files
    <3>3. QED BY <3>2 DEF WorkerStep
  <2>4. CASE work[g].result # "ok"
    <3>1. Worker' = "failed"
      BY <1>1, <1>2, <1>3, <2>1, <2>4 DEF process, Worker, Finished
    <3>2. App!WorkerFails
      BY <2>2, <3>1 DEF App!WorkerFails, App!life, App!keychain, App!passwords,
             App!files
    <3>3. QED BY <3>2 DEF WorkerStep
  <2>5. QED BY <2>3, <2>4
<1>5. ASSUME ~Finished(g), ~Finished(g)'
      PROVE  UNCHANGED <<Lock, control, Worker>>
  BY <1>2, <1>3, <1>5, LiveWithin
<1>6. CASE Swap(g)
  <2>1. ~active
    BY <1>2, <1>6 DEF IInv, Active, Inside, Swap, Goto, Ends
  <2>2. ~Finished(g) /\ ~Finished(g)'
    BY <1>1, <1>6, <2>1 DEF Swap, Goto, Finished, IInv, TypeOK, Works
  <2>3. QED BY <1>5, <2>2
<1>7. CASE Dup(g) \/ DupFails(g) \/ Close(g) \/ Await(g) \/ WatchCancelled(g)
           \/ WatchFails(g)
  <2>1. ~Finished(g) /\ ~Finished(g)'
    BY <1>1, <1>7 DEF Dup, DupFails, Close, Await, WatchCancelled, WatchFails, Goto,
                      Ends, Finished, IInv, TypeOK, Works
  <2>2. QED BY <1>5, <2>1
<1>8. CASE ReaderStep(g)
  <2>1. work'[g].at = work[g].at /\ work'[g].result = work[g].result
    BY <1>1, <1>8 DEF ReaderStep, Select, PollSees, PollReturns, PollFails, Read,
                      ReadInterrupted, Reads, Answers, IInv, TypeOK, Works
  <2>2. QED
    BY <1>2, <1>3, <2>1 DEF process, Lock, Worker, Finished
<1>9. QED
  BY <1>4, <1>6, <1>7, <1>8 DEF ThreadStep

\* Every step of the thread, its pipe and its goroutine is a step of AppState's
\* worker, or leaves it as it is: in particular it ends well only when its pipe
\* was closed, and a stop() that gives up leaves it as AppState says.
THEOREM WorkerImplemented == Spec => WorkerSteps
<1>1. IInv /\ [Next]_vars => [WorkerStep]_<<Lock, control, Worker>>
  <2> SUFFICES ASSUME IInv, [Next]_vars
               PROVE  WorkerStep \/ UNCHANGED <<Lock, control, Worker>>
    OBVIOUS
  <2>1. CASE UNCHANGED vars
    BY <2>1 DEF vars, Lock, Worker, Finished
  <2>2. ASSUME NEW c \in Children, Inherit(c) \/ ChildEnds(c)
        PROVE  UNCHANGED <<Lock, control, Worker>>
    BY <2>2 DEF Inherit, ChildEnds, Lock, Worker, Finished
  <2>3. QED
    BY <2>1, <2>2, WatcherProcessSteps, ThreadSteps DEF Next
<1>2. QED
  BY <1>1, Inductive, PTL DEF Spec, WorkerSteps, App!watch
-----------------------------------------------------------------------------
(* Why the workers end *)

\* The steps a thread has left, at most.
Left(at) ==
  CASE at = "swap" -> 6 [] at = "dup" -> 5 [] at = "watch" -> 4
    [] at = "close" -> 3 [] at = "await" -> 2 [] at = "leave" -> 1
    [] at \in {"none", "returned"} -> 0

\* The goroutine is there while the thread waits for it, and it returns only when
\* it has cancelled the watcher or was told.
Meets(w) ==
  /\ w.reader = "ended" <=> w.answer # "none"
  /\ w.reader = "ended" => w.cancelled \/ w.told
  /\ w.at \in {"watch", "close", "await"} => w.reader # "none"
  /\ w.told => w.at \in {"await", "leave", "returned"}
  /\ w.at = "await" => w.told
Meeting == \A g \in Threads : Meets(work[g])

\* What a step may do to a thread: it is joined, it is left alone, or it comes
\* closer to its end.
Comes(g) ==
  \/ work'[g] = work[g]
  \/ work[g].at = "returned" /\ work'[g] = Unused
  \/ work[g].at = "none" /\ work'[g] = [Unused EXCEPT !.at = "swap"]
  \/ /\ Meets(work[g]) => Meets(work'[g])
     /\ work'[g].at = work[g].at \/ Left(work'[g].at) < Left(work[g].at)

\* The methods of WatcherProcess (lib.rs:628-717),
LEMMA WatcherProcessComes ==
  ASSUME IInv, WatcherProcess, NEW g \in Threads PROVE Comes(g)
<1>1. CASE Joined /\ Idle
  BY <1>1 DEF Joined, Idle, Finished, Comes, IInv, TypeOK, Known
<1>2. CASE StartSpawns
  <2>1. fresh \in Threads /\ handle = NoThread
    BY <1>2 DEF StartSpawns, IInv, TypeOK, Calls
  <2>2. work[fresh] = Unused /\ work[fresh].at = "none"
    BY <2>1, BridgeAssumption DEF IInv, Known, Unused
  <2>3. work' = [work EXCEPT ![fresh] = [Unused EXCEPT !.at = "swap"]]
    BY <1>2, <2>2 DEF StartSpawns
  <2> QED
    BY <2>1, <2>2, <2>3 DEF Comes, IInv, TypeOK
<1>3. CASE work' = work
  BY <1>3 DEF Comes
<1> QED
  BY <1>1, <1>2, <1>3 DEF WatcherProcess, Reap, StartBegins, StartFails,
                          StopBegins, StopJoins, StopGivesUp

\* the thread, which only goes forward (main.go:214-283),
LEMMA ThreadComes ==
  ASSUME IInv, NEW g \in Threads, NEW h \in Threads,
         ThreadStep(h) \/ WatchCancelled(h) \/ WatchFails(h)
  PROVE  Comes(g)
<1>1. work \in [Threads -> Works] /\ work[g] \in Works
  BY DEF IInv, TypeOK
<1>2. work[g].at \in {"swap", "dup"} => work[g].reader = "none"
  BY DEF IInv, Heard
<1>3. CASE g # h
  BY <1>1, <1>3 DEF ThreadStep, Swap, Dup, DupFails, Close, Await, Leave,
                    WatchCancelled, WatchFails, Goto, Ends, Comes
<1>4. CASE g = h
  <2>1. CASE Swap(h)
    <3>1. ~active
      <4>1. work[g].at = "swap"
        BY <1>4, <2>1 DEF Swap, Goto, Ends
      <4>2. g = handle
        BY <4>1, OnlyTheHandleMoves
      <4> QED
        BY <4>1, <4>2 DEF IInv, Active, Inside
    <3> QED
      BY <1>1, <1>4, <2>1, <3>1 DEF Swap, Goto, Comes, Meets, Left, Works
  <2>2. CASE Dup(h)
    BY <1>1, <1>2, <1>4, <2>2 DEF Dup, Comes, Meets, Left, Works
  <2>3. CASE DupFails(h)
    BY <1>1, <1>4, <2>3 DEF DupFails, Ends, Comes, Meets, Left, Works
  <2>4. CASE WatchCancelled(h) \/ WatchFails(h)
    BY <1>1, <1>4, <2>4
       DEF WatchCancelled, WatchFails, Ends, Comes, Meets, Left, Works
  <2>5. CASE Close(h)
    BY <1>1, <1>4, <2>5 DEF Close, Comes, Meets, Left, Works
  <2>6. CASE Await(h) \/ Leave(h)
    BY <1>1, <1>4, <2>6 DEF Await, Leave, Goto, Ends, Comes, Meets, Left, Works
  <2> QED
    BY <2>1, <2>2, <2>3, <2>4, <2>5, <2>6 DEF ThreadStep
<1> QED
  BY <1>3, <1>4

\* and the goroutine (main.go:236-266).
LEMMA ReaderComes ==
  ASSUME IInv, NEW g \in Threads, NEW h \in Threads, ReaderStep(h)
  PROVE  Comes(g)
<1>1. work \in [Threads -> Works] /\ work[g] \in Works
  BY DEF IInv, TypeOK
<1>2. CASE g # h
  BY <1>1, <1>2 DEF ReaderStep, Select, PollSees, PollReturns, PollFails, Read,
                    ReadInterrupted, Reads, Answers, Comes
<1>3. CASE g = h
  <2>1. CASE Select(h) \/ PollSees(h) \/ PollReturns(h) \/ ReadInterrupted(h)
    BY <1>1, <1>3, <2>1 DEF Select, PollSees, PollReturns, ReadInterrupted, Reads,
                            Answers, Comes, Meets, Works
  <2>2. CASE PollFails(h) \/ Read(h)
    BY <1>1, <1>3, <2>2 DEF PollFails, Read, Answers, Comes, Meets, Works
  <2> QED
    BY <2>1, <2>2 DEF ReaderStep
<1> QED
  BY <1>2, <1>3

\* Every step is one of these to every thread.
LEMMA AllCome == ASSUME IInv, [Next]_vars, NEW g \in Threads PROVE Comes(g)
<1>1. CASE UNCHANGED vars
  BY <1>1 DEF vars, Comes
<1>2. ASSUME NEW c \in Children, Inherit(c) \/ ChildEnds(c) PROVE Comes(g)
  BY <1>2 DEF Inherit, ChildEnds, Comes
<1> QED
  BY <1>1, <1>2, WatcherProcessComes, ThreadComes, ReaderComes DEF Next

\* In every reachable state the thread and the goroutine meet.
LEMMA AlwaysMeeting == Spec => []Meeting
<1>1. Meets(Unused) /\ Meets([Unused EXCEPT !.at = "swap"])
  BY DEF Meets, Unused
<1>2. Init => Meeting
  BY <1>1 DEF Init, Meeting
<1>3. IInv /\ Meeting /\ [Next]_vars => Meeting'
  BY <1>1, AllCome DEF Meeting, Comes
<1> QED
  BY <1>2, <1>3, Inductive, PTL DEF Spec

\* A thread that waits for the cancellation, or for the answer of the goroutine,
\* has a goroutine on its way to give it.
Reading == {"select", "poll", "read"}
EachHasAnAnswerComing ==
  \A g \in Threads :
    /\ work[g].at = "watch" /\ ~work[g].cancelled =>
         work[g].reader \in Reading /\ ~work[g].told
    /\ work[g].at = "await" /\ work[g].answer = "none" =>
         work[g].reader \in Reading /\ work[g].told

\* The thread and the goroutine never wait for each other: <-readerDone is only
\* waited for when watcherDone is closed, and Run only goes on while a goroutine
\* watches the pipe (main.go:232-281).
THEOREM NobodyWaitsInVain == Spec => []EachHasAnAnswerComing
<1>1. IInv /\ Meeting => EachHasAnAnswerComing
  <2> SUFFICES ASSUME IInv, Meeting, NEW g \in Threads
               PROVE  /\ work[g].at = "watch" /\ ~work[g].cancelled =>
                           work[g].reader \in Reading /\ ~work[g].told
                      /\ work[g].at = "await" /\ work[g].answer = "none" =>
                           work[g].reader \in Reading /\ work[g].told
    BY DEF EachHasAnAnswerComing
  <2>1. work[g] \in Works /\ Meets(work[g])
    BY DEF IInv, TypeOK, Meeting
  <2> QED
    BY <2>1 DEF Works, Meets, Reading
<1> QED
  BY <1>1, Inductive, AlwaysMeeting, PTL

\* A thread goes only forward until it is joined, and once its pipe is closed no
\* step opens it again or hands it to another program.
ThreadsComeHome ==
  [][\A g \in Threads :
       /\ work'[g].at # work[g].at =>
            \/ work[g].at \in {"none", "returned"}
            \/ Left(work'[g].at) < Left(work[g].at)
       /\ handle = g /\ ~control /\ handle' = g =>
            /\ ~control'
            /\ \A c \in Children : child'[c] = g => child[c] = g]_vars

\* With the theorem before, this is what WorkersEnd asks of the code, and the rest
\* is fairness: a worker has a bounded number of steps to its return, and the
\* programs that hold its pipe open only become fewer (lib.rs:684-717,
\* main.go:232-281).
THEOREM WorkersComeHome == Spec => ThreadsComeHome
<1> DEFINE Home(g) ==
             /\ work'[g].at # work[g].at =>
                  \/ work[g].at \in {"none", "returned"}
                  \/ Left(work'[g].at) < Left(work[g].at)
             /\ handle = g /\ ~control /\ handle' = g =>
                  /\ ~control'
                  /\ \A c \in Children : child'[c] = g => child[c] = g
           AllHome == \A g \in Threads : Home(g)
<1>1. ASSUME IInv, [Next]_vars, NEW g \in Threads PROVE Home(g)
  <2>1. work'[g].at # work[g].at =>
          \/ work[g].at \in {"none", "returned"}
          \/ Left(work'[g].at) < Left(work[g].at)
    BY <1>1, AllCome DEF Comes
  <2>2. ASSUME handle = g, ~control, handle' = g
        PROVE  ~control' /\ \A c \in Children : child'[c] = g => child[c] = g
    <3>1. fresh = NoThread /\ handle # NoThread
      BY <1>1, <2>2, BridgeAssumption DEF IInv, TypeOK, Calls
    <3>2. ~control'
      BY <1>1, <2>2, <3>1 DEF Next, vars, WatcherProcess, Reap, StartBegins,
         StartSpawns, StartFails, StopBegins, StopJoins, StopGivesUp, Joined,
         Inherit, ChildEnds, process, ThreadStep, Swap, Dup, DupFails, Close,
         Await, Leave, WatchCancelled, WatchFails, ReaderStep, Select, PollSees,
         PollReturns, PollFails, Read, ReadInterrupted, Reads, Answers
    <3>3. \A c \in Children : child'[c] = g => child[c] = g
      BY <1>1, <2>2, <3>1, BridgeAssumption DEF IInv, TypeOK, Next, vars,
         WatcherProcess, Reap, StartBegins,
         StartSpawns, StartFails, StopBegins, StopJoins, StopGivesUp, Joined,
         Inherit, ChildEnds, process, ThreadStep, Swap, Dup, DupFails, Close,
         Await, Leave, WatchCancelled, WatchFails, ReaderStep, Select, PollSees,
         PollReturns, PollFails, Read, ReadInterrupted, Reads, Answers
    <3> QED
      BY <3>2, <3>3
  <2> QED
    BY <2>1, <2>2
<1>2. IInv /\ [Next]_vars => [AllHome]_vars
  BY <1>1
<1> QED
  BY <1>2, Inductive, PTL DEF Spec, ThreadsComeHome
=============================================================================
