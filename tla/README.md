# OsaGuard in TLA+

This directory holds a verification project for OsaGuard: TLA+ modules translated
from the source, TLC runs that check them on small instances, and theorems that
TLAPS proves for every value of the constants. `PROJECT.json` lists the modules,
the runs, the theorems, the hazards the properties are aimed at, and the source
lines each definition stands for.

OsaGuard watches for the administrator-password dialog that `osascript` opens,
and types and submits a password kept in the Keychain. Its difficulty is not in
algorithms: it lies in acting on the right dialog although everything it reads
may change before it acts, in acting at most once per process, in never losing
track of the secret, and in commands (toggle, update, uninstall, Quit) that
interleave in one application and are cut short by failures and crashes.

Contents: 1 inventory, 2 modules, 3 runs, 4 proofs, 5 disagreements between
documents and code, 6 abstractions and what is not modelled, 7 plan.

## 1. Inventory

### Components

| component | source | state | operations | modelled in |
|---|---|---|---|---|
| watcher | `internal/autotype/watcher.go` | observed processes (`firstSeen`, rule, handled), seen dialogs, `lastTarget`, `lastType` | `Run`, `poll`, `confirmAndType` | `AutotypeWatcher`, `AutotypeContract`, `WatcherAge` |
| autotype policy | `internal/autotype/policy.go` | a decoded file | `Match`, effective limits, validation | constants and choices of the watcher |
| enrollment | `internal/autotype/enroll.go`, `cmd/osaguard/main.go:270-481` | the process and dialog under observation, a policy file | `WaitForEnrollment`, `enroll-next` | `Enrollment` |
| native driver | `internal/darwinbridge/bridge_darwin.c`, `.go` | none of its own (Accessibility, processes, events) | snapshot, process list, Escape state, inject text and Return | driver calls of `AutotypeWatcher` |
| Keychain access | `bridge_darwin.c:470-1270`, `bridge_darwin.go:167-270` | Keychain items of four services | store, load, exists, delete, delete all | `Keychain`, `Vault` |
| bridge | `cmd/osaguard-appbridge/main.go` | `watcherActive`, control pipe, context | `osaguard_watcher_run`, password and state calls | `Bridge`; the worker of `AppState`, `Cancel` of the watcher |
| lifecycle | `app-tauri/src-tauri/src/lib.rs:732-849` | phase, operation | `try_begin`, `begin_shutdown`, permits | `AppState` |
| watcher process | `lib.rs:602-730` | `control`, `worker` | `start_worker`, `stop`, `take_finished` | `AppState`, `Bridge` |
| toggle, removal, exit | `lib.rs:1332-1498, 2650-2877` | protected state, login item | `set_enabled`, `enable_automatic`, `forget_password`, menu, exit events | `AppMain` |
| updates | `lib.rs:2206-2647` | `UpdateStatus`, the record of notifications | the periodic check, `check_for_updates`, `install_update` | `UpdateChannel`, `AppTasks`, `Bundles` |
| uninstaller | `lib.rs:1913-2212` | bundle, settings, staged copy, plan | `uninstall_app` | `AppTasks` |
| bundle replacement | `lib.rs:1651-1862` | two bundles on disk | transactional swap, installation with rollback | `Bundles` |
| update selection, archive | `preview_update.rs`, `update_archive.rs` | the page and the release selected so far; the paths seen in an archive | `discover_preview_release`, `validate_update_archive`, `extract_update_archive` | `Discovery`, `UpdateArchive`, `UpdateChannel` |
| password dialog | `internal/secureenroll`, `dialog_darwin.m` | a panel | prompt, store | its outcome in `AppTasks` |
| process hardening | `internal/processhardening` | none | two system calls | no |
| command policy, runner, sudoers | `internal/policy`, `internal/runner`, `internal/sudoers` | a file, a child process | validate, run, render | no |
| web interface | `app-tauri/src/main.js` | the last status | renders; invokes commands | no (plan) |

### How they interact

- The **application** (Rust) has a main thread, on which the synchronous
  commands, the menu and the exit events run, and tasks of an asynchronous
  runtime for the password dialog, update check, installation and uninstall.
  They share two mutexes' worth of state, `LifecycleCoordinator` and
  `WatcherProcess`, and everything that outlives the process: Keychain, login
  item, bundle, settings.
- `WatcherProcess` owns one **worker thread** inside the bridge (Go), where a
  goroutine reads a pipe on its behalf. The only message to it is the closing of
  that pipe; its only answer is its exit code. Programs that the application runs
  (`codesign`, `ditto`, `open`) inherit what is not protected from it.
- An **update** is found on a list of releases that the publisher changes at any
  moment, confirmed by the user hours after it was shown, and arrives as an archive
  whose entries decide what the volume holds.
- In the worker, the **watcher** polls. Each driver call is a moment at which
  processes start and exit, dialogs appear and change, the user types or cancels.
- The same application, opened **from its disk image**, installs itself over the
  copy in `/Applications`; the installed copy exchanges itself for an update. Both
  work on directories that the Finder, a kill or a later process with the same pid
  may change between two steps.
- **Enrollment** is a command of its own: it looks through the same driver at
  processes and dialogs, and shares nothing else with the application than the
  policy file, which editors and other enrollments write too.
- The watcher loads the password from the **Keychain**, which the application and
  any other process of the user change at the same time.

### What is hard, and the properties that answer it

`PROJECT.json` has the full list of hazards, each at its line. The main ones:

- *Watcher.* What was read is stale when it is used (dialog, process, field,
  Escape key); two reads are not one instant (dialog, then process list); an
  attempt fails half-way and is retried by the next poll; a `select` picks a tick
  over a cancellation; the set of seen dialogs overflows. Answers:
  `AttemptKnowsItsDialog`, `SecretOnlyForOpenProcess`,
  `VisibleTargetBarsNewcomers`, `LateAttemptReadsNoSecret`, `EveryProcessSettles`,
  and the refinement `ImplementsContract`; proved only, `SettledStaysSettled` and
  `KnownTargetsBounded`.
- *Worker thread.* Four parties hold ends of one pipe; a stop gives up on a thread
  that is busy; a thread and its goroutine wait for each other. Answers:
  `NoStrayWatcher` and the refinement `ImplementsWorker`.
- *Keychain.* An item is verified by one call and changed by the next. Answers:
  `ForeignItemsUntouched`, `ConflictDeletesNothing`, `RemovalIsComplete`,
  `StoreRemovesNothing`, and the refinement `ImplementsVault`; proved only,
  `SecretsStayOwn` and `LoadsOnlySecrets`.
- *Application.* Commands with and without a permit interleave; a permit is
  dropped after the shutdown has begun; an operation fails in the middle and its
  rollback meets a changed world; the process dies between two steps. Answers:
  `OneProtectedOperation`, `ExitingIsFinal`, `UninstallLeavesNoPassword`,
  `EnabledHasPassword`, `FailedUninstallRestores`, `WatcherOnlyWhenEnabled`,
  `ProgressIsOwned`, `OperationsEnd`.
- *Bundles.* A rename, a launch or the rollback of either fails, or the process is
  killed, between two steps that each leave another set of half-finished
  directories. Answers: `PreviousSurvives`, `OutcomeIsTrue`, `NothingLeftBehind`,
  `UpdateLeavesNoGap`.
- *Updates.* A list is read page by page while it moves; a version is checked,
  shown, confirmed, checked again, downloaded, inspected and unpacked, and each of
  these may see another one; a notification and its record are two steps. Answers:
  `SelectedIsNewest`, `InstallsOnlyConfirmed`, `NotifiedOnce`, `UpdateIsOffered`.
- *Enrollment.* Several reads at different times are combined into one rule; a
  draft is read, waited over for minutes, and replaced. Answers:
  `EnrolledIsOneRequest`, `OthersWorkSurvives`, `FileIsWhole`, `EnrollmentEnds`.

## 2. Modules

```
AutotypeContract <-(refines)- AutotypeWatcher <- MCAutotypeWatcher
                                   ^  ^
                                   |  +--- WatcherAge <- MCWatcherAge
                                   +------ AutotypeWatcherProofs
AppState <- AppMain <- AppTasks <- App <- MCApp
   ^                                ^
   |                                +------ AppProofs <- AppQuietProofs
   +--(refines)-- Bridge <- MCBridge
                    ^------ BridgeProofs
Discovery, UpdateArchive <- UpdateChannel <- MCUpdateChannel
                                 ^--------- UpdateChannelProofs
Vault <-(refines)- Keychain <- MCKeychain
                      ^------- KeychainProofs
Bundles <- MCBundles
   ^------ BundlesProofs
Enrollment <- MCEnrollment
   ^--------- EnrollmentProofs
```

### AutotypeWatcher

One step per driver call of `poll` and `confirmAndType`; what the code computes
between two calls belongs to the step of the call before. `pc` names the call
that comes next (`list`, `correlate`, `scan`, `stable`, `osa1`, `escape1`,
`load`, `recheck`, `osa2`, `type`, `settle`, `escape2`, `osa3`, `return`), so
that every early return of `confirmAndType` is a disjunct of a named step.

| TLA+ | Go |
|---|---|
| `Procs`, `spawned`, `alive` | process generations, i.e. pairs (pid, `StartSeconds`); pids are reused, generations are not |
| `observed`, `handled`, `rule`, `age` | `observedProcess`: map key, `Handled`, `Rule`, time since `FirstSeen` |
| `known`, `lastTarget` | `observedAuthTargets`, `lastAuthTarget` |
| `sinceType` | time since `lastType`, saturating at the cooldown |
| `cur`, `stable`, `checks`, `secret` | the process of the attempt, the snapshot of the first stability check, the counter, the password in memory |
| `ui` | the dialog that is really on the screen: target, whether its application is frontmost, and the field: `empty`, `typed` by this attempt, `alike` (other text of that length), `other` |
| `late`, `stale` | history: the attempt's poll began after the cancellation; the dialog or its field changed after the attempt last compared it |
| `overlooked` | history: running processes whose entries the last list has dropped |

What the code compares is modelled as it compares it: `settle` looks at the target
and the length (`FullLength`), the two injections at the process and the length only,
so that another dialog of the process or other text of that length is typed into and
submitted. A list is any subset of the processes that run (`Lists`), because
`ListOsaScripts` passes over one whose arguments or path it cannot read; the entry of
such a process is dropped with its `Handled` flag, and the process is a new one when
it is listed again.

The environment (`Launch`, `Exit`, `DialogChanges`, `UserEdits`, `SwitchApp`,
`Cancel`, `Tick`) acts between any two steps.

`AutotypeContract` is the abstract specification: a process is unseen, open for
one delivery, then served, or closed without one, for good; deliveries are
`Cooldown` apart. `ImplementsContract` maps the entries of the watcher to these
phases, with the history variable `served` to tell a delivery from a refusal, and
`missed` to the processes a list has passed over: only these may go back to unseen, and
only so can a process be served twice.
`WatcherAge` adds a history variable with the real age of a process.

### Keychain

Items have an identity (`Refs`), a key (the account), an owner and data. Other
processes add items of the same name and delete any item. Callers run `store`,
`load`, `exists`, `delete` and `deleteAll`; each Security framework call is one
step (`Lookup`, `Verify`, `UpdateItem`, `AddItem`, `LoadData`, `DeleteItem`,
`List`, `VerifyListed`, `DeleteListed`), each may fail. The caller of kind `app`
is the serialised side (the lifecycle permits keep store, delete and delete all
apart); the caller `watcher` only loads, concurrently. `SecItemDelete` of a list
is not atomic: it may stop after some items, with an error (`DeleteListedFails`) or at
one that is not there any more, which the code takes for success
(`DeleteListedStops`). `RemovalIsComplete` excuses that case and no other. In
`AppTasks` nobody else deletes items while `delete_all` runs, so a success there
empties the Keychain.

`Vault` is the abstract specification: one box per key, empty or with what the
application or somebody else put there, and operations that take effect at one
moment between their call and their return. It has no lists, references or retries.
`ImplementsVault` maps the live item of a key to its box without any history
variable. A verified item may be gone before it is loaded or deleted, so a box that
is emptied by anyone may turn a `load` or `delete` that is under way with it into
one that finds nothing (`"lost"`). In `Vault` a box emptied by another process looks
like one emptied by the application; `StoreRemovesNothing` and
`ConflictDeletesNothing`, which tell these apart, are therefore stated of `Keychain`.

### AppState, AppMain, AppTasks, App

`AppState` has the shared variables and the methods of `LifecycleCoordinator`
and `WatcherProcess`; `AppMain` the main thread; `AppTasks` the asynchronous
commands; `App` the whole, its fairness and its properties. Every actor (the main
thread and each task) has a label `pc[a]` and its locals `saved[a]` (what the
code reads into locals and uses after other steps: `should_restore`, the
uninstall plan, whether the password is gone). A step of an actor is what it
does between two accesses to shared state that another actor can come between.

| TLA+ | Rust |
|---|---|
| `phase`, `operation`, `permit[a]` | `LifecycleState`, and the `LifecyclePermit` on the stack of `a` |
| `lock`, `control`, `worker` | the watcher mutex while `stop()` waits with it, `WatcherProcess.control` and `.worker` (with the result the thread has left) |
| `protected`, `password` | the two Keychain items |
| `autostart`, `bundle`, `settings`, `staged` | login item, bundle, settings directory, its staged copy |
| `status` | the phase of `UpdateStatus` |
| `exitAsked`, `up` | `app.exit(0)` was called; the process runs |

The steps that wait for the watcher mutex have labels of their own (`..._halt`),
because `stop()` keeps the mutex for up to two seconds and others queue behind
it. Every status change and every command ends with a menu refresh, which calls
`is_running()` and so reaps a worker that has ended: `SetStatus` and `GetStatus`.

### Bundles

`at` maps each path to the version of the bundle there, to nothing, or to
`Broken`, a directory `verify_bundle` refuses. The paths are
`/Applications/OsaGuard.app`, the copy and the backup of each pid, and the
directory an update stages its bundle in. One step is one operation on the file
system (the start of `ditto` and its end are two), and each may fail; `Crash` is
possible at every label. The user drags bundles to the Trash and to Applications.

| TLA+ | Rust |
|---|---|
| `Temporary`, `Backup` | `.OsaGuard-installing-<pid>.app`, `.OsaGuard-replaced-<pid>.app` |
| `Staged` | the candidate in the `TempDir` of an update, after the exchange the previous bundle |
| `aside` | the Trash, and staging directories that are left behind |
| `before` | the version found when the command began: `replacing`, and what a failure must leave |
| `outcome` | the `InstallResult`, or whether the error speaks of a failed rollback |
| `kept`, `disturbed`, `litter` | history: versions taken out of place, an act of the user since the command began, a failed clean-up |

`kept` grows with every step that takes a version out of
`/Applications/OsaGuard.app`: the replacement of the old bundle (`Stage`,
`Exchange`), whoever put it there, and the rollbacks (`Displace`, `Withdraw`,
`SwapBack`), as long as the user has not acted: then what is there is the version the
rollback is to withdraw and no other (`TakenBack`). The code does not look at what it
takes away; a bundle the user copied into place between the exchange and the rollback
is removed with the staging directory (`lib.rs:1691`, `2615`), or with the copy
(`lib.rs:1826`, `1828`).

`AppTasks` has all of the exchange as one step; `Bundles` has what is inside it.

### Bridge

What `AppState` has as `control` and `worker`, from both ends: `WatcherProcess` in
Rust and `runUniversalWatcherWithOptions` in Go. A step of a thread or of its
goroutine is one statement that another party can observe: the swap of
`watcherActive`, the duplication of the descriptor, the end of `watcher.Run`, the
closing of `watcherDone`, the receipt from `readerDone`, the deferred calls.

| TLA+ | Rust, Go |
|---|---|
| `handle`, `control` | `WatcherProcess.worker`, `.control` |
| `caller` | who has the watcher mutex across a wait: `start` between `pipe` and the spawn, `stop` in its loop |
| `fresh` | the pipe of a start whose ends are not yet protected by `FD_CLOEXEC` |
| `work[g].at`, `.result` | where the thread is, and what `Run`, then the call, returned |
| `work[g].reader`, `.answer` | the goroutine, and what it sent to `readerDone` |
| `work[g].cancelled`, `.told` | the context is cancelled, `watcherDone` is closed |
| `active` | `watcherActive` |
| `child[c]` | the write end a program has inherited |

`Worker` maps a thread to the four values of `AppState!worker`. `ImplementsWorker`
says that the steps are those of `AppState` (`WorkerSteps`), and that a cancelled or
failed thread ends, which is the fairness `App` assumes (`WorkersEnd`). What a
stop that gives up leaves behind (`AppState!StopReturns`) is worded after this
refinement: the worker may have ended during the last wait without being joined.

### Discovery, UpdateArchive, UpdateChannel

`Discovery` is the reading of the list, one page per step, beside a publisher;
`UpdateArchive` the inspection of an archive, one entry per step; `UpdateChannel`
composes them with the commands, the periodic check, its notification and the
restart of the process.

| TLA+ | Rust |
|---|---|
| `feed` | the list of releases: a version for one that may be installed, `NoVersion` for one that may not |
| `page`, `selected` | the locals of `discover_preview_release` |
| `lasting`, `withdrawn` | history: the newer releases listed since the discovery began; one was deleted since |
| `paths`, `disk` | `seen_paths`; the version in the `Info.plist` that the volume holds after unpacking |
| `pc`, `op`, `expected`, `update` | the step of the operation that holds the permit; `expected_version`; the checked `Update` |
| `status`, `offered` | `UpdateStatus`; history: the versions the window has shown |
| `running`, `installed` | the version of the process, and of the bundle in place |
| `last`, `file` | `last_notified_version` in memory and in `update-notifications.json` |
| `notified`, `lost` | history: the version notified last; its record was not written or not read |

### Enrollment

`enroll-next` from the flags to the file. `load` to `final_read` are the driver
calls of `WaitForEnrollment` in their order; `recheck`, `write_temp`, `rename` are
the append to a draft, `create`, `write` a new file; the third mode prints. What
identifies a dialog for `sameAuthTarget` and `authTargetIdentity` is one value of
`Dialogs`; `empty` is `FocusedValueLength = 0`. A file is a set of rule names with
an inode that no other file has had. `last` and `steady` are history: what the
last poll found, and how many in a row found the same; `raced` notes that another
program wrote the file after the last check. The deferred `os.Remove` of a temporary
file or of a half-written policy may fail like every other call, and its error is
ignored; `stuck` notes it, and what stays then is excused by `FileIsWhole` if the
command has failed. A draft, which is replaced by a rename, is whole at every moment.
As for the watcher, a list may pass over a running process.

## 3. Runs

Passing runs (from 3 608 distinct states in `bridge`, whose state is small, to 1.3
million in `watcher_universal` and 3.1 million in `bundles`).

| run | what it asks | bounds |
|---|---|---|
| `watcher_universal` | six safety and refinement properties of the application's watcher | 2 processes, 1 agent with 2 contexts, 3 stability checks (the minimum the policy accepts), age limit 1, cooldown 2, 1 remembered target; the user may empty the field or leave text of the same length in it (`Texts`; text of another length fails the same comparisons as an emptied field, so it is not a value of its own here) |
| `watcher_live` | every observed process is settled in the end, with the command line's rules (bound to a context, Return left to the user) | 2 processes that compete for the single-process gate, 1 context, cooldown 1; the user only empties the field (`Texts` is empty: any edit makes an attempt fail, and no `Return` is pressed here) |
| `keychain` | the Keychain operations against other processes, and that each takes effect at one moment | 2 accounts, 3 item identities, 1 secret, 2 callers |
| `app_faults` | permits and phases, update status and the removed password with every fault, and what is exiting stays so | 2 tasks, failed writes, stops and rollbacks, partial deletions, crashes |
| `app_quiet` | what crashes, failed writes and a failed uninstall leave behind; an update or uninstall ends | 2 tasks, toggle and operations not at once |
| `bundles` | what installations and updates leave behind, kills and the user included | 3 versions, 2 pids, 2 acts of the user |
| `updates` | from the list of releases to the bundle in place and the notification | versions 1 to 3, every initial list of up to 4 releases, 2 pages of 2, 1 act of the publisher, responses of 3 units, where versions 2 and 3 take two each and other releases one; version 1 runs and is not itself on the first list |
| `bridge` | the worker thread, and that it implements `AppState`'s worker | 3 threads, 2 programs; a thread identity is used again once it is joined and its pipe no longer inherited, so starts and stops are not bounded |
| `enrollment` | one rule from many reads; the file; the end of the wait | 2 processes, 2 dialogs, 2 rules, 3 stability checks, 1 write of another program |

Why the bounds suffice. Two processes are what the single-process gate, the
cooldown and the "seen for the first time beside a known dialog" rule need to
meet; two contexts distinguish the dialog of the rule from any other; one
remembered target makes the set overflow at once, age limit 1 and cooldown 2 are
each crossed in both directions. Three item identities allow an own item, a
foreign one of the same name and one that replaces either between two calls; two
accounts distinguish `delete` from `deleteAll`. One task is enough for what one
operation does against the main thread; two tasks are needed for permits that
exclude each other and are used where the state space allows it. Three versions
are the running one, an older and a newer one, or two newer ones; two pids let a
process meet its own leftovers or another's; after two acts of the user
(`MaxUserActs`: trash, copy) the bundle in place is another than the one that was
compared. The number of installations and updates in a row is not bounded, and the
pids are symmetric. Of the writes of other programs (`MaxWrites`) one is enough to
come before, between or after any two steps of an enrollment; removals are not
bounded. Of releases, a list of four with pages of two reaches the last allowed page
and ends exactly there or before; one act of the publisher falls between any two
requests and moves a release over the edge of a page; a page of two fits into a
response (`MaxBytes`) unless the two newest versions share it; three versions are the
one
that runs, one that is confirmed and one that is published meanwhile. Three threads
are one that was left behind, its successor, and one whose pipe a program still
has. Ages, the cooldown and the counter of stability checks saturate at their limits in the
model (`MaxAge + 1`, `Cooldown`, `StableChecks`), beyond which the code does not
tell values apart.

The switches of the application:

- `MidToggle = FALSE`: the user leaves the toggle, the menu and the dialog
  buttons alone while an operation runs. `app_quiet` needs it, because
  `set_enabled` takes no permit and the properties it checks are false otherwise:
  section 5 has the runs that show how.
  `app_faults` has it too, since its two tasks and its faults already fill its
  state space; Quit and the password removal, which do not ask for a task at rest,
  still interleave with every operation there. The runs of section 5 use the toggle
  in the middle of operations, and the theorems of `AppProofs` hold with it.
- `Crashes`, `WritesFail`, `StopFails`, `RollbackFails` switch on a fault.
  `FailedUninstallRestores` presupposes `RollbackFails = FALSE`: it says what a
  rollback restores, not that its system calls never fail.
- With `StopFails = FALSE` a stop still fails when the worker has ended in error;
  `OperationsEnd` sees the failed branches through that.
- `WatcherOnlyWhenEnabled` presupposes `StopFails = FALSE`: a worker that was
  cancelled but is still busy counts as running for `is_running`, so that a later
  operation notes that it has to restore it.

The password may be several items: a `password_delete_all` that fails may have
removed this account's before it met the one it could not remove, and the rollback
then enables automatic mode without a password (`lib.rs:2176`). No order of the
caller's steps helps. The history variable `torn` says that it has happened, and
`EnabledHasPassword` excepts just that.

Deadlock is checked in every run but `enrollment`, whose command ends: a stopped
watcher, a finished process or a full Keychain always has a further step, so a
state without one is a real deadlock (for instance of the watcher mutex).

### Fairness

- `AutotypeWatcher!FairSpec`: weak fairness of the goroutine's steps and of the
  clock, which are ordinary scheduling. Strong fairness of `Stop`: a `select`
  with two ready channels picks at random, so the cancellation is picked in the
  end. Strong fairness of `PollStarts`, `ListProcesses` and `Correlate`: the
  session is not locked for ever and the system's lists do not fail for ever,
  which the properties need since a locked screen suspends the age of nothing
  but lets the watcher look at nothing either. That lists do not pass over running
  processes for ever is a premise of `EveryProcessSettles`, because fairness cannot
  say it: a process that is dropped and found again is new, and young, and may close
  the gate to the others each time. Without the premise TLC finds this behaviour.
- `App!FairSpec`: weak fairness of the main thread once a command has begun, and
  strong fairness of each task, except in the password dialog, which waits for
  the user, and weak fairness of `WorkerCancelled`: the watcher looks at its
  context between two driver calls, each of which returns. All other waits have a
  limit in the code (80 waits of 25 ms in
  `stop()`, request time limits in the updater). Strong, because a task competes
  for the watcher mutex with a user who may toggle again and again.
- `UpdateChannel!FairSpec`: weak fairness of `Launch` (the application is opened
  again) and of the steps of an operation, each of which has a time limit. Strong
  fairness of `CheckBegins`: the loop checks every six hours, at moments of which
  some find the permit free. Strong fairness of each page of a check and of
  `Checked`: the requests of a check do not fail for ever. An installation has no
  such assumption; it may fail every time.
- `Bridge!FairSpec`: weak fairness of the threads, of the goroutines and of the
  ends of programs; `WatchCancelled` as in `App`. Strong fairness of `PollSees` and
  `Read`: not every system call is interrupted by a signal, and a `poll` that
  returns after 100 ms is called again.
- `Enrollment!FairSpec`: weak fairness of the steps of the command, which a
  goroutine takes without waiting for anyone, and strong fairness of `Timeout`:
  once the deadline has passed, each `select` of the loop may pick it, and one
  will.

## 4. Proofs

Eight modules hold the proofs. They use the assumptions stated with the constants
and nothing else: `ConstantsAssumption` and `NoTargetAssumption` (the watcher's
limits are positive, at least three stability checks as the policy demands, and the
markers `NoProc`, `NoTarget`, `AnyContext`, `Unmatched` are none of the values they
stand beside), `KeychainAssumption`, `ActorsAssumption`, `BundlesAssumption`,
`EnrollmentAssumption` and `BridgeAssumption` (likewise), `DiscoveryAssumption`
(versions are positive, and so are the size and the number of pages) and
`SizeAssumption` (releases and responses have a size).
Every invariant that a passing run checks is also a theorem.

**Watcher.** `Inductive` proves `Spec => []IInv`. The safety invariants are not
inductive: that the dialog is still the one of the stability checks when Return
is pressed follows only if one knows, at each label between, what the last
snapshot established and what the environment can have done since. `IInv` is the
conjunction of the type invariant, of what each label knows of `cur`, `stable`
and `rule`, of `secret` being confined to the labels after the load, of `late`
attempts not getting past the first stability wait, and of the field and target
of `ui` as long as neither has changed since the last comparison (`stale`). The key
of the argument is that every comparison is with the dialog of the stability checks,
and that only a change makes what was compared untrue. From `IInv` follow
`TypeCorrect`, `SecretConfined`, `DialogKnown`, `LateAttemptsHarmless`,
`DryRunHarmless` and `KnownTargetsStayBounded`. `ServedInv` (a served process that
may still be listed has a handled entry) is what excludes a second delivery, and
is kept only because a list keeps the entries of the generations it still finds and
`served` forgets, with the entry, the ones it has passed over (`ListStep`).
Step by step follow also the action
properties `SettledForGood` and `NewcomersBarred`; and `WatcherImplementsContract`
shows that the initial states of the watcher are initial for the contract and that
each of its steps is a `Survey`, a `Deliver`, a `Tick` or a stutter of it.
`PollsAreFinite` gives the order in which every poll runs down (`Closer`: the part of
the poll, then the processes still to be looked at, then the calls left with this
one), and `RetriesRunOut` that no retry makes a process young again: together, what
`EveryProcessSettles` needs of the code.

**Keychain.** `KeychainProofs!Inductive` proves that the reference a caller is
about to act on denotes an item that is its own, in every interleaving with other
processes. It holds because identities are never reused and an item's owner never
changes, so a verification cannot become false; this is why the code acts on the
verified reference and not on the name. `SecretsConfined`, `LoadsAreGenuine` and
`ForeignItemsSafe` follow from it; `StoresKeep` needs no invariant. With one writer,
which is what the lifecycle permits guarantee, `ListsHold` adds that the list of a
removal stays true: no own password is missing from it, and until all are verified
none of it was removed by the application. From it follow `ConflictsSpare` and
`RemovalsComplete`, which is a property of the step that completes a removal
(`RemovalStep`): afterwards other processes change nothing about it, since they add
no own item.

`OperationsAreAtomic` is the refinement `Spec => ImplementsVault`, for any number of
callers, accounts, items and other processes. `VInv` adds to `IInv` that at most one
item of a key is live and that what a caller has verified is of its key
(`KeysHold`). The proof names for each step of a caller the step of `Vault` it is:
a lookup and a verification that go on are none; an update, an addition, a load, a
deletion and an answer are one each; the removal of all passwords marks with its list
and takes effect with its deletion. The step that needs most care is that deletion
when it stops half-way: it empties, at one moment, the boxes of the items that are
gone (`DeletingListed`), whether it then returns an error or, at an item that is
missing, success.

**Application.** Some sixty handlers touch the lifecycle, but a step does one of six
things to it: nothing, go on, begin an operation, end one, commit a shutdown, or end
the process. `MainMoves` and `TaskMoves` prove this action by action, and the
invariants are proved of the six kinds. The invariant says who holds a permit at
which label (`Held`), that it is the only one (`Alone`), that the pipe stays closed
while someone waits in `stop()` (`Pipe`; without it, a worker could be joined while
a pipe of nobody stays open), and where the password is gone (`Deleted`).
`OperationsExclude`, `ProgressOwned`, `UninstallRemovesPassword` and `ExitStays`
hold for any number of tasks, with every fault and with the toggle in use.

What `OperationsEnd` needs of the code is proved too. `Advances` says of every handler
that its step comes closer to its end (`Rank`), that the watcher mutex is taken on
the way into a label of `StopLabels` and given back on the way out, and that a permit
is held within an operation only. From it follow that who waits for the mutex waits
for one actor, and that one only for a worker whose pipe is closed
(`NobodyWaitsForWaiters`); that no permit is lost, whichever way an operation ends
(`NoPermitIsLost`); and that no handler goes round in circles (`HandlersAreFinite`).

**Application, toggle left alone.** `AppQuietProofs` adds that the main thread and the
tasks take turns (`Turns`) and what is outside the process at each label of a turn:
`PasswordKept` (unless a removal was torn), `PlanKept` (if no rollback fails) and
`WatcherKept` (if stops do not fail either). For the first,
`Accounted` is the invariant: the password is there, or a removal that failed has
taken it, and no label forgets which. `EnabledKeepsPassword`,
`FailuresRestored` and `WatchersAreEnabled` carry these conditions in their
statements; they are the switches of the run `app_quiet`.

**Bundles.** Each label tells what is at the four paths. `Secure` says where every
version that was moved away is by then, and which of the places may be its only
one; `Whole` that an exchange finds two whole bundles; `Tidy` and `Calm` what is
left and what is in place as long as no removal failed and the user has not acted.
`Calm` is also what `Secure` needs at a rollback: what is in place is then the version
that was put there (`NothingElseTaken`).

**Enrollment.** `Counted`: the count is never more than the polls in a row that found
what it is about to enroll. `Met`: which version of the file each step can meet.
`PollsAreFinite`: every step but the start of a poll leaves the command fewer, so
that it is never far from the `select` that looks at the deadline.

**Updates.** `Covered`: a release that was listed all along is not newer than the
selected one or is still ahead, behind the pages already read. This is what a
publication between two pages preserves (it moves releases back) and a deletion does
not, hence the exception of `SelectedIsNewest`. `Agreed`: what an operation has in
hand is the version that was confirmed. `Recorded`: what the record says of the last
notification. `FittingListsAreRead` is what `UpdateIsOffered` needs of every page: one
of a list that fits is neither too large nor one too many, and there is a newest
release to select. That a finite set of versions has a greatest one (`NewestExists`)
would be an induction over its size; it is proved from the well-foundedness of the
naturals instead, by a version with the fewest newer ones (`Least`).

**Bridge.** `Known`, `Calls`, `Active`: the thread of the handle is the only one in
use, and `watcherActive` speaks of it. `Heard` carries the reason of a cancellation
from the read of the goroutine to the return of the thread. `NoneStrays` and
`WorkerImplemented` (the safety part of `ImplementsWorker`) hold for any number of
threads and programs. Behind `WorkersEnd` are `NobodyWaitsInVain` (`Meets`: while the
thread waits for the goroutine, that one is on its way, since it returns only when it
has cancelled the watcher or `watcherDone` is closed) and `WorkersComeHome` (a thread
goes only forward, and nobody inherits a pipe any more that was closed).

**Only model-checked:** liveness, since TLAPS does not do ENABLED:
`EveryProcessSettles`, `OperationsEnd`, `EnrollmentEnds`, `UpdateIsOffered` and
`WorkersEnd`. For each of them the part that is not about fairness is proved, for
every value of the constants: nobody waits for one who waits, and every step counts
something down. What TLC adds is that the step which counts down is enabled and that
the fairness reaches it.

**Only proved:** `DryRunHarmless`, `SettledForGood`, `KnownTargetsStayBounded`,
`SecretsConfined`, `LoadsAreGenuine`, and the theorems named in the paragraph before,
are theorems that no run repeats.

## 5. Disagreements between documents and code

Each of these runs ends with a counterexample of TLC.

- `watcher_young` — the security design asks for "a young process". The limit
  counts from the first poll that lists the process (`watcher.go:167, 206`), not
  from its start: after a locked session or failed lists an old process is
  attempted.
- `app_paused` — "Pausing stops automatic entry". `set_enabled` takes no permit:
  a Pause that completes while an operation runs is undone when that operation
  fails and restores the watcher it noted before (`lib.rs:2107-2112`, and likewise
  in `install_update`). The watcher then runs in the paused state.
- `app_leftover` — the uninstaller removes the Keychain records and the login
  item. `enable_automatic`, confirmed in the middle of it, writes the protected
  state again after its deletion (`lib.rs:1495`, `2139`) and the completed
  uninstall leaves it behind.

Three further ones were met while modelling and have no run of their own; the
properties name them as exceptions. The design says that the UI context "must remain
stable [...] before targeted text injection, and before Return"
(`SECURITY_DESIGN.md:97-100`), but the last look before each of them compares only the
process and the length (`bridge_darwin.c:1544-1558`, `1583-1598`;
`AttemptKnowsItsDialog`). It says that removal deletes "every" password item of the
program and that "a native deletion failure is surfaced" (`SECURITY_DESIGN.md:71-79`),
but a deletion that stops at an item which another process has removed counts as
success (`bridge_darwin.c:1265`; `RemovalIsComplete`). And a "newly observed" process
(`SECURITY_DESIGN.md:91`) is also one that a list has passed over
(`bridge_darwin.go:486-489`; `ImplementsContract`).

The same missing permit also lets Resume start a watcher between the stop and the
swap of an update (`lib.rs:1358`, `2563`, `2608`).

Two limits of the update check came up while modelling; no document speaks of them.
A list that ends exactly with the last allowed page counts as too long although all
of it was read (`preview_update.rs:212`): `UpdateIsOffered` therefore asks for one
release less. And a page of a hundred releases may exceed the 256 KiB a response may
have (`preview_update.rs:190`) long before that.

## 6. Abstractions and what is not modelled

- A process is a generation (pid, start second). One whose arguments cannot be
  read is not listed, at startup, later or in between (`Lists`). The order in which a poll visits the processes
  is that of a Go map, hence any.
- Handled entries have a normalised rule and age: the code never reads them again.
- The clock unit is longer than a driver call; a tick is consumed by one poll.
- A dialog that opens is empty; one that comes back holds what was left in it. Two
  texts of the same length are told apart only as typed by this attempt or not.
- Inside one driver call the Accessibility tree walk, code-signature checks and
  the posting of key events are one step, except that what is *not* checked by
  the injection (it compares process and length only) is not checked in the model.
- Consecutive reads in the application are one step; `compute_status` may fail
  (Accessibility missing) as a choice of the guard of the command. Of the update
  status only the phase is kept. Commands refused before they change anything
  are no steps; the refusal of an update is one, since it overwrites the status.
- In `AppTasks` the swap of the two bundles and the `begin_shutdown` after it are
  one step, and so is the download with extraction and verification, which may
  fail. `Bundles` has the steps of the exchange.
- One installation or update runs at a time: the single-instance plugin keeps a
  second process from starting, and the window disables its button. `install_app`
  itself takes no permit, so two calls in one process are kept apart by nothing
  but that button.
- A staging directory has a random name: one that is left behind is never met
  again, so its bundle goes to `aside`.
- The window of an enrollment between the second read of the draft and the rename,
  and of a new file that fails to be written, is not closed by the code;
  `OthersWorkSurvives` excludes just it (`raced`).
- `NotifiedOnce` says that no version is announced twice in a row; one that is
  announced again after another was announced in between is allowed, as in the code,
  which records the last one only. That an uninstall removes the record is left out.
- The destructor of `WatcherProcess` (`lib.rs:719-730`) runs only at the end of the
  process and is left out of `Bridge`.
- Whether a dialog was there before the process is asked only in the poll that
  first lists the process (`enroll.go:105`), so one that was seen earlier and was
  hidden in that poll can be enrolled. `EnrolledIsOneRequest` promises what the
  polls establish and not more.
- Of releases and appcasts only versions are kept. A release that a preview build
  may not install (a draft, another tag, missing or doubled assets) is `NoVersion`;
  the appcast of a tag is chosen when it is read. The signature check is part of the
  download. Sizes and budgets are refusals that may happen at any entry or request.
  Static endpoints of a stable build are left out: the configured builds have none
  (`endpoints: []`). The user exchanges the installed bundle in `Bundles` only.
- In `Bridge` the 80 waits of `stop()` are a choice to give up at any moment; nobody
  writes a byte to the pipe, as in the code; the end of the process is `AppState`'s.
- A bundle whose return from the Trash fails twice stays there; this is part of
  `RollbackFails`.
- Not modelled: parsing, formatting, the AppKit panel, process hardening, the
  command policy with its runner and sudoers text, scripts and workflows. They
  have no shared state or are pure text.

## 7. Plan

What is left to do:

1. `StatusEvents`: delivery of the status to a window that is opened, closed and
   opened again (`main.js`), against the commands it offers.
2. Deletions in `SelectedIsNewest`: how far a deletion can set a check back, and
   that the next check repairs it.
3. Proofs: that `AppTasks`' exchange of the bundles, one step there, is what
   `Bundles` does in several.

The order of work was: watcher (the reason the program exists), its contract and
proofs; Keychain and proofs; application; bundles; enrollment; the update channel;
the bridge; the proofs of these.
