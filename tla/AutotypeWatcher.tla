-------------------------- MODULE AutotypeWatcher --------------------------
(***************************************************************************)
(* The watcher of internal/autotype/watcher.go: one goroutine that polls   *)
(* the osascript processes of the user and the SecurityAgent dialog, and   *)
(* types the stored password into a dialog that stays put.                 *)
(*                                                                         *)
(* Every call of the Driver interface is one step of the goroutine, so     *)
(* that processes, dialogs and the cancellation of the context interleave  *)
(* with the goroutine between any two calls.                               *)
(*                                                                         *)
(* A process here is a generation, the pair (pid, startSeconds): a reused  *)
(* pid is another member of Procs, and a generation that exits never comes *)
(* back.  A target is what authTargetKey identifies: a SecurityAgent       *)
(* generation together with the digest of the dialog's text.               *)
(***************************************************************************)
EXTENDS Naturals, FiniteSets

CONSTANTS
  Procs,          \* generations of osascript processes of the current user
  Agents,         \* generations of the SecurityAgent process
  Contexts,       \* digests of dialog contexts (AuthContextSHA256)
  NoProc,         \* no process: outside an attempt
  NoTarget,       \* no eligible dialog
  AnyContext,     \* the rule Match builds in universal mode
  Unmatched,      \* the process has not been fingerprinted
  Universal,      \* policy.IsUniversal()
  RequireSingle,  \* policy.RequiresSingleOsaScriptProcess()
  DryRun,         \* options.DryRun
  AutoSubmit,     \* rule.ShouldSubmitAutomatically()
  StableChecks,   \* policy.EffectiveStableChecks()
  MaxAge,         \* policy.EffectiveProcessMaxAgeSeconds(), in clock units
  Cooldown,       \* policy.EffectiveCooldownSeconds(), in clock units
  MaxTargets,     \* the capacity of observedAuthTargets (128 in the code)
  Texts           \* what the user may leave in the field, see Fields

ASSUME ConstantsAssumption ==
  /\ Universal \in BOOLEAN /\ RequireSingle \in BOOLEAN
  /\ DryRun \in BOOLEAN /\ AutoSubmit \in BOOLEAN
  /\ StableChecks \in Nat /\ StableChecks >= 3
  /\ MaxAge \in Nat \ {0}
  /\ Cooldown \in Nat \ {0}
  /\ MaxTargets \in Nat \ {0}
  /\ Texts \subseteq {"alike", "other"}
  /\ NoProc \notin Procs
  /\ AnyContext \notin Contexts
  /\ Unmatched \notin Contexts \cup {AnyContext}

Targets == [agent : Agents, context : Contexts]

ASSUME NoTargetAssumption == NoTarget \notin Targets

\* What policy.Match may answer: a rule, identified by the context it
\* expects, no rule, or a fingerprint error.
Rules == IF Universal THEN {AnyContext} ELSE Contexts

VARIABLES
  (* the world the driver reads *)
  alive,       \* osascript generations that are running
  spawned,     \* generations that have been running at some time
  ui,          \* the SecurityAgent dialog: target, field contents, frontmost?
  cancelled,   \* the context handed to Run is cancelled
  ticked,      \* the clock has advanced since the last step of the goroutine
  (* the fields of Watcher *)
  observed,    \* w.observed: the generations seen by the last list
  handled,     \* those whose entry has handled = true
  rule,        \* the rule memorised in the entry, Unmatched before Match
  age,         \* time since firstSeen, saturating at MaxAge + 1
  known,       \* w.observedAuthTargets
  sinceType,   \* time since lastType, saturating at Cooldown
  (* the locals of Run, poll and confirmAndType *)
  pc,          \* the next driver call of the goroutine
  newly,       \* newlyObserved
  todo,        \* processes of this poll still to be looked at
  cur,         \* the process being looked at
  checks,      \* stability checks passed by this attempt
  stable,      \* the target of those checks
  secret,      \* the password is in memory
  (* history *)
  lastTarget,  \* the target read by the last correlation
  late,        \* the context was already cancelled when the attempt began
  stale,       \* the dialog or its field has changed since the attempt last
               \* compared it
  served,      \* the processes whose attempt was completed, by their entries
  overlooked   \* running processes whose entries the last list has dropped

world == <<alive, spawned, ui, cancelled>>
fields == <<observed, handled, rule, age, known, sinceType>>
locals == <<newly, todo, cur, checks, stable, secret, late, stale>>
history == <<lastTarget, served, overlooked>>
vars == <<world, ticked, fields, pc, locals, history>>

\* What the field holds: nothing, what this attempt has typed, other text of
\* the same length, or text of another length.
Fields == {"empty", "typed"} \cup Texts
FullLength == {"typed", "alike"}
Dialogs == [target : Targets \cup {NoTarget}, field : Fields, front : BOOLEAN]
PCs == {"baseline", "baselineUI", "idle", "list", "correlate", "scan",
        "stable", "wait", "osa1", "escape1", "load", "recheck", "osa2", "type",
        "settle", "escape2", "osa3", "return", "stopped"}

-----------------------------------------------------------------------------
(* Helpers *)

\* The target of ReadAuthSnapshot, when eligibleAuthSnapshot accepts it: a
\* dialog of an application that is not frontmost is not eligible.
Visible == IF ui.front THEN ui.target ELSE NoTarget

\* Mutants of rememberAuthTarget: the full set is emptied after the insertion;
\* ineligible snapshots are remembered too.
RememberThenClear(t) ==
  IF t = NoTarget THEN known
  ELSE IF Cardinality(known) >= MaxTargets THEN {} ELSE known \cup {t}
RememberIneligible(t) ==
  (IF Cardinality(known) >= MaxTargets THEN {} ELSE known) \cup {t}

\* rememberAuthTarget: a full set is emptied before the target goes in.
Remember(t) ==
  IF t = NoTarget THEN known
  ELSE (IF Cardinality(known) >= MaxTargets THEN {} ELSE known) \cup {t}

\* handled = true for the entries of S.  The rule and the age of a handled
\* entry are never read again, so they return to their defaults.
Settle(S) ==
  /\ handled' = handled \cup S
  /\ rule' = [p \in Procs |-> IF p \in S THEN Unmatched ELSE rule[p]]
  /\ age' = [p \in Procs |-> IF p \in S THEN 0 ELSE age[p]]

\* Mutant: an attempt that ends does not zero the password.
LeaveAttemptUnwiped ==
  /\ cur' = NoProc
  /\ checks' = 0
  /\ stable' = NoTarget
  /\ late' = FALSE /\ stale' = FALSE
  /\ UNCHANGED secret

\* The attempt on cur is over: the deferred zero(secret) and munlock run.
LeaveAttempt ==
  /\ cur' = NoProc
  /\ checks' = 0
  /\ stable' = NoTarget
  /\ secret' = FALSE
  /\ late' = FALSE /\ stale' = FALSE

\* poll returns, with or without an error, to the loop of Run.
EndPoll ==
  /\ pc' = "idle"
  /\ newly' = {}
  /\ todo' = {}
  /\ LeaveAttempt

\* One step of the goroutine at the driver call named by from.
At(from) == pc = from /\ ticked' = FALSE

\* confirmAndType returns an error: the process is not handled and lastType
\* keeps its value, so that a later poll tries again.
AttemptFails == EndPoll /\ UNCHANGED <<world, fields, history>>

\* A check of confirmAndType that passes and moves on to the next call.
Pass(to) ==
  /\ pc' = to
  /\ UNCHANGED <<world, fields, locals, history>>

\* One that has compared the dialog with the one of the stability checks.
PassSeen(to) ==
  /\ pc' = to /\ stale' = FALSE
  /\ UNCHANGED <<world, fields, newly, todo, cur, checks, stable, secret, late,
                 history>>

\* ListOsaScripts returns the processes whose path, start time and arguments can
\* be read; it passes over the others without an error.
Lists == SUBSET alive

-----------------------------------------------------------------------------
(* Run: the baseline and the loop *)

\* The osascript processes listed at startup are handled from the start.
Baseline ==
  /\ At("baseline")
  /\ \/ /\ observed' \in Lists
        /\ handled' = observed'
        /\ pc' = "baselineUI"
     \/ /\ pc' = "stopped"
        /\ UNCHANGED <<observed, handled>>
  /\ UNCHANGED <<world, rule, age, known, sinceType, locals, history>>

BaselineUI ==
  /\ At("baselineUI")
  /\ \/ /\ known' = Remember(Visible)
        /\ lastTarget' = Visible
        /\ pc' = "idle"
     \/ /\ pc' = "stopped"
        /\ UNCHANGED <<known, lastTarget>>
  /\ UNCHANGED <<world, observed, handled, rule, age, sinceType, locals, served,
                 overlooked>>

\* The ticker fires and the session is unlocked.
PollStarts ==
  /\ At("idle")
  /\ pc' = "list"
  /\ UNCHANGED <<world, fields, locals, history>>

\* The ticker fires and the session is locked: poll returns at once.
PollLocked ==
  /\ At("idle")
  /\ UNCHANGED <<world, fields, locals, history, pc>>

\* The select of Run picks ctx.Done.  When the ticker is due as well it may
\* pick the ticker first, which is PollStarts.
Stop ==
  /\ At("idle")
  /\ cancelled
  /\ pc' = "stopped"
  /\ UNCHANGED <<world, fields, locals, history>>

-----------------------------------------------------------------------------
(* poll *)

\* Mutant: the entry of a process that is still listed is made anew.
ListForgettingHandled ==
  /\ At("list")
  /\ \E seen \in Lists :
       /\ observed' = seen
       /\ newly' = seen \ observed
       /\ handled' = {}
       /\ rule' = [p \in Procs |-> IF p \in seen THEN rule[p] ELSE Unmatched]
       /\ age' = [p \in Procs |-> IF p \in seen THEN age[p] ELSE 0]
       /\ overlooked' = (observed \cap alive) \ seen
       /\ served' = served \ overlooked'
  /\ pc' = "correlate"
  /\ UNCHANGED <<world, known, sinceType, todo, cur, checks, stable, secret,
                 late, stale, lastTarget>>

\* The entries of what is not listed go, those of running processes that the list
\* has passed over too; when such a process is listed again, it is a new one.
ListProcesses ==
  /\ At("list")
  /\ \E seen \in Lists :
       /\ observed' = seen
       /\ newly' = seen \ observed
       /\ handled' = handled \cap seen
       /\ rule' = [p \in Procs |-> IF p \in seen THEN rule[p] ELSE Unmatched]
       /\ age' = [p \in Procs |-> IF p \in seen THEN age[p] ELSE 0]
       /\ overlooked' = (observed \cap alive) \ seen
       /\ served' = served \ overlooked'
  /\ pc' = "correlate"
  /\ UNCHANGED <<world, known, sinceType, todo, cur, checks, stable, secret,
                 late, stale, lastTarget>>

ListFails ==
  /\ At("list")
  /\ EndPoll
  /\ UNCHANGED <<world, fields, history>>

\* A new process whose poll reads a target already remembered is handled, as
\* it is when the snapshot cannot be read.
Correlate ==
  /\ At("correlate")
  /\ Settle(IF Visible \in known THEN newly ELSE {})
  /\ known' = Remember(Visible)
  /\ lastTarget' = Visible
  /\ pc' = "scan"
  /\ newly' = {}
  /\ todo' = observed \ handled'
  /\ UNCHANGED <<world, observed, sinceType, cur, checks, stable, secret, late,
                 stale, served, overlooked>>

CorrelateFails ==
  /\ At("correlate")
  /\ Settle(newly)
  /\ EndPoll
  /\ UNCHANGED <<world, observed, known, sinceType, history>>

ScanDone ==
  /\ At("scan")
  /\ todo = {} /\ cur = NoProc
  /\ EndPoll
  /\ UNCHANGED <<world, fields, history>>

\* The first look at a process memorises its rule; without a rule, or with an
\* error that also ends the poll, the process is handled.
Fingerprint(p) ==
  /\ At("scan")
  /\ p \in todo /\ cur = NoProc /\ rule[p] = Unmatched
  /\ \/ /\ \E r \in Rules : rule' = [rule EXCEPT ![p] = r]
        /\ cur' = p
        /\ UNCHANGED <<handled, age, todo, newly, pc, checks, stable, secret, late,
                       stale>>
     \/ /\ ~Universal
        /\ Settle({p})
        /\ todo' = todo \ {p}
        /\ UNCHANGED <<newly, pc, cur, checks, stable, secret, late, stale>>
     \/ /\ Settle({p})
        /\ EndPoll
  /\ UNCHANGED <<world, observed, known, sinceType, history>>

\* p is the next process of the loop and has its rule.
AtGate(p) ==
  /\ At("scan")
  /\ p \in todo /\ cur \in {NoProc, p} /\ rule[p] # Unmatched

YoungForever(p) == TRUE  \* mutant: no age limit
Young(p) == age[p] <= MaxAge
Alone == RequireSingle => Cardinality(observed) = 1
Cooled == sinceType >= Cooldown

GateTooOld(p) ==
  /\ AtGate(p)
  /\ ~Young(p)
  /\ Settle({p})
  /\ todo' = todo \ {p}
  /\ cur' = NoProc
  /\ UNCHANGED <<world, observed, known, sinceType, pc, newly, checks, stable,
                 secret, late, stale, history>>

GateCloses(p) ==
  /\ AtGate(p)
  /\ Young(p)
  /\ ~Alone \/ ~Cooled
  /\ EndPoll
  /\ UNCHANGED <<world, fields, history>>

BeginAttempt(p) ==
  /\ AtGate(p)
  /\ Young(p) /\ Alone /\ Cooled
  /\ cur' = p
  /\ todo' = todo \ {p}
  /\ late' = cancelled
  /\ pc' = "stable"
  /\ UNCHANGED <<world, fields, newly, checks, stable, secret, stale, history>>

-----------------------------------------------------------------------------
(* confirmAndType *)

\* Mutant: a success does not start the cooldown.
FinishWithoutCooldown ==
  /\ Settle({cur})
  /\ pc' = "scan"
  /\ LeaveAttempt
  /\ UNCHANGED <<observed, known, sinceType, newly, todo>>

\* The attempt succeeds: handled = true, lastType = now, and the loop of poll
\* goes on with the next process.
Finish ==
  /\ Settle({cur})
  /\ sinceType' = 0
  /\ pc' = "scan"
  /\ LeaveAttempt
  /\ UNCHANGED <<observed, known, newly, todo>>

\* The snapshot passes a stability check: an empty eligible dialog, with the
\* context of the rule and, after the first check, the same target.
StablePasses ==
  /\ Visible # NoTarget
  /\ ui.field = "empty"
  /\ rule[cur] \in {AnyContext, Visible.context}
  /\ checks > 0 => Visible = stable

StableRead ==
  /\ At("stable")
  /\ StablePasses
  /\ checks + 1 < StableChecks
  /\ checks' = checks + 1
  /\ stable' = Visible /\ stale' = FALSE
  /\ pc' = "wait"
  /\ UNCHANGED <<world, fields, newly, todo, cur, secret, late, history>>

\* The last check: a dry run stops here and counts as a success.
StableReached ==
  /\ At("stable")
  /\ StablePasses
  /\ checks + 1 = StableChecks
  /\ IF DryRun
     THEN Finish /\ served' = served \cup {cur}
     ELSE /\ checks' = checks + 1
          /\ stable' = Visible /\ stale' = FALSE
          /\ pc' = "osa1"
          /\ UNCHANGED <<fields, newly, todo, cur, secret, late, served>>
  /\ UNCHANGED <<world, lastTarget, overlooked>>

\* The snapshot is rejected or cannot be read.
StableFails == At("stable") /\ AttemptFails

\* Mutant: the wait is a plain sleep.
StableSleep == At("wait") /\ Pass("stable")

\* The wait between two checks ends early when the context is cancelled.
StableWait ==
  /\ At("wait")
  /\ IF cancelled THEN AttemptFails ELSE Pass("stable")

\* confirmOsaScriptStillEligible, which runs three times.  It also fails when
\* the list fails or the parent of the process changed.
OsaScriptEligible ==
  \E seen \in Lists : cur \in seen /\ (RequireSingle => Cardinality(seen) = 1)
ConfirmOsaScript(from, to) ==
  /\ At(from)
  /\ \/ OsaScriptEligible /\ Pass(to)
     \/ AttemptFails

\* EmergencyStopHeld: Escape is up, or it is held or cannot be read.
CheckEscape(from, to) == At(from) /\ (Pass(to) \/ AttemptFails)

\* KeychainLoad and mlock succeed and the length is legal.
LoadSecret ==
  /\ At("load")
  /\ secret' = TRUE
  /\ pc' = "recheck"
  /\ UNCHANGED <<world, fields, newly, todo, cur, checks, stable, late, stale,
                 history>>

LoadFails == At("load") /\ AttemptFails

\* The snapshot before the injection: same target, still empty.
Recheck ==
  /\ At("recheck")
  /\ \/ Visible = stable /\ ui.field = "empty" /\ PassSeen("osa2")
     \/ AttemptFails

\* og_inject_text_to_pid looks again, but only for an empty dialog of the
\* process: it does not know the context.
DialogOf(agent) == Visible # NoTarget /\ ui.target.agent = agent

TypeText ==
  /\ At("type")
  /\ DialogOf(stable.agent) /\ ui.field = "empty"
  /\ ui' = [ui EXCEPT !.field = "typed"]
  /\ IF AutoSubmit
     THEN pc' = "settle" /\ UNCHANGED <<fields, locals, served>>
     ELSE Finish /\ served' = served \cup {cur}
  /\ UNCHANGED <<alive, spawned, cancelled, lastTarget, overlooked>>

TypeFails == At("type") /\ AttemptFails

\* Mutant: only the length is compared.
RecheckLengthOnly ==
  /\ At("settle")
  /\ \/ Visible # NoTarget /\ ui.field \in FullLength /\ PassSeen("escape2")
     \/ AttemptFails

\* After 50 ms the same target must hold as many characters as were typed.
RecheckTyped ==
  /\ At("settle")
  /\ \/ Visible = stable /\ ui.field \in FullLength /\ PassSeen("escape2")
     \/ AttemptFails

\* og_inject_return_to_pid looks for a dialog of the process with that length:
\* another of its dialogs, or other text of that length, is submitted as well.
SubmitReturn ==
  /\ At("return")
  /\ DialogOf(stable.agent) /\ ui.field \in FullLength
  /\ Finish
  /\ served' = served \cup {cur}
  /\ UNCHANGED <<world, lastTarget, overlooked>>

SubmitFails == At("return") /\ AttemptFails

-----------------------------------------------------------------------------
(* The environment *)

Launch(p) ==
  /\ p \notin spawned
  /\ spawned' = spawned \cup {p}
  /\ alive' = alive \cup {p}
  /\ UNCHANGED <<ui, cancelled, ticked, fields, pc, locals, history>>

Exit(p) ==
  /\ p \in alive
  /\ alive' = alive \ {p}
  /\ UNCHANGED <<spawned, ui, cancelled, ticked, fields, pc, locals, history>>

\* The attempt does not see that the dialog or the field changes.
Unnoticed ==
  /\ stale' = (stable # NoTarget)
  /\ UNCHANGED <<alive, spawned, cancelled, ticked, fields, pc, newly, todo, cur,
                 checks, stable, secret, late, history>>

\* A dialog opens, closes or gives way to another.  A new one is empty, and one
\* that comes back holds what was left in it.
DialogChanges(t, f) ==
  /\ f # "typed" /\ (t = NoTarget => f = "empty")
  /\ ui' = [target |-> t, field |-> f, front |-> TRUE]
  /\ Unnoticed

\* The user edits the field, which then holds something else or nothing.
UserEdits(f) ==
  /\ ui.target # NoTarget /\ ui.front
  /\ f # "typed"
  /\ ui' = [ui EXCEPT !.field = f]
  /\ Unnoticed

\* The user switches to another application, or back.
SwitchApp ==
  /\ ui.target # NoTarget
  /\ ui' = [ui EXCEPT !.front = ~@]
  /\ UNCHANGED <<alive, spawned, cancelled, ticked, fields, pc, locals, history>>

\* The app closes the control descriptor and runUniversalWatcher cancels.
Cancel ==
  /\ ~cancelled
  /\ cancelled' = TRUE
  /\ UNCHANGED <<alive, spawned, ui, ticked, fields, pc, locals, history>>

\* The unit of the clock is longer than any driver call or wait of the
\* goroutine, so that at most one unit passes between two of its steps.
Tick ==
  /\ ~ticked
  /\ ticked' = TRUE
  /\ age' = [p \in Procs |-> IF p \in observed \ handled /\ age[p] <= MaxAge
                             THEN age[p] + 1 ELSE age[p]]
  /\ sinceType' = IF sinceType < Cooldown THEN sinceType + 1 ELSE sinceType
  /\ UNCHANGED <<world, observed, handled, rule, known, pc, locals, history>>

-----------------------------------------------------------------------------
Init ==
  /\ spawned \in SUBSET Procs
  /\ alive = spawned
  /\ ui \in [target : Targets \cup {NoTarget}, field : {"empty"}, front : {TRUE}]
  /\ cancelled = FALSE
  /\ ticked = FALSE
  /\ observed = {} /\ handled = {} /\ known = {}
  /\ rule = [p \in Procs |-> Unmatched]
  /\ age = [p \in Procs |-> 0]
  /\ sinceType = Cooldown  \* the zero time is long ago
  /\ pc = "baseline"
  /\ newly = {} /\ todo = {} /\ cur = NoProc
  /\ checks = 0 /\ stable = NoTarget
  /\ secret = FALSE
  /\ lastTarget = NoTarget /\ late = FALSE /\ stale = FALSE
  /\ served = {} /\ overlooked = {}

Poll ==
  \/ PollStarts \/ PollLocked \/ Stop
  \/ ListProcesses \/ ListFails \/ Correlate \/ CorrelateFails \/ ScanDone
  \/ \E p \in Procs :
       Fingerprint(p) \/ GateTooOld(p) \/ GateCloses(p) \/ BeginAttempt(p)

ConfirmAndType ==
  \/ StableRead \/ StableReached \/ StableFails \/ StableWait
  \/ ConfirmOsaScript("osa1", "escape1") \/ CheckEscape("escape1", "load")
  \/ LoadSecret \/ LoadFails
  \/ Recheck \/ ConfirmOsaScript("osa2", "type") \/ TypeText \/ TypeFails
  \/ RecheckTyped \/ CheckEscape("escape2", "osa3")
  \/ ConfirmOsaScript("osa3", "return") \/ SubmitReturn \/ SubmitFails

Goroutine == Baseline \/ BaselineUI \/ Poll \/ ConfirmAndType

Environment ==
  \/ \E p \in Procs : Launch(p) \/ Exit(p)
  \/ \E t \in Targets \cup {NoTarget}, f \in Fields : DialogChanges(t, f)
  \/ \E f \in Fields : UserEdits(f)
  \/ SwitchApp \/ Cancel

Next == Goroutine \/ Environment \/ Tick

Spec == Init /\ [][Next]_vars

\* The goroutine and the clock run.  The select of Run picks at random, so a
\* cancelled context is chosen in the end; the session is unlocked and the two
\* reads succeed again and again.
Fairness ==
  /\ WF_vars(Goroutine) /\ WF_vars(Tick)
  /\ SF_vars(Stop) /\ SF_vars(PollStarts)
  /\ SF_vars(ListProcesses) /\ SF_vars(Correlate)

FairSpec == Spec /\ Fairness

-----------------------------------------------------------------------------
(* Properties *)

TypeOK ==
  /\ spawned \subseteq Procs /\ alive \subseteq spawned
  /\ served \subseteq spawned /\ overlooked \subseteq spawned
  /\ ui \in Dialogs
  /\ cancelled \in BOOLEAN /\ ticked \in BOOLEAN
  /\ secret \in BOOLEAN /\ late \in BOOLEAN /\ stale \in BOOLEAN
  /\ observed \subseteq Procs /\ handled \subseteq observed
  /\ rule \in [Procs -> Contexts \cup {AnyContext, Unmatched}]
  /\ age \in [Procs -> 0 .. MaxAge + 1]
  /\ known \subseteq Targets
  /\ sinceType \in 0 .. Cooldown
  /\ pc \in PCs
  /\ newly \subseteq observed /\ todo \subseteq observed
  /\ cur \in Procs \cup {NoProc}
  /\ checks \in 0 .. StableChecks
  /\ stable \in Targets \cup {NoTarget}
  /\ lastTarget \in Targets \cup {NoTarget}

\* A process that was rejected, ignored at startup or served stays so for as
\* long as it runs, whatever the reads of later polls return: no poll rebuilds
\* the entry of a generation it still lists (watcher.go:166-173).  Only a list
\* that passes over the running process (bridge_darwin.go:486-489) forgets it.
SettledStaysSettled ==
  [][handled \cap alive' \subseteq handled' \cup overlooked']_vars

\* A dialog that the last correlation already read bars every process that is
\* seen for the first time beside it, however many other targets were read in
\* between and also when the full set was just emptied (watcher.go:181-186,
\* 234-243).
VisibleTargetBarsNewcomers ==
  [][ /\ pc = "correlate" /\ pc' = "scan"
      /\ lastTarget # NoTarget /\ Visible = lastTarget
      => newly \subseteq handled' ]_vars

\* Unless the dialog or its field changes after the last comparison, the one on
\* the screen is that of the stability checks: empty until the text goes in, and
\* with as many characters as were typed once that was compared.  The two
\* injections look only at the process and the length, so that text and Return
\* reach another dialog of the process, or other text of that length, when these
\* came after the comparison, and only then (watcher.go:264-298, 344-376,
\* bridge_darwin.c:1544-1558, 1583-1598).
AttemptKnowsItsDialog ==
  stable # NoTarget /\ ~stale =>
    /\ ui.target = stable
    /\ ui.field \in IF pc = "settle" THEN {"typed"}
                    ELSE IF pc \in {"escape2", "osa3", "return"} THEN FullLength
                    ELSE {"empty"}

\* The password is in memory only within an attempt on a process that is
\* listed and not handled, for the dialog of its rule, with the cooldown over:
\* no error path of confirmAndType leaves it behind (watcher.go:326-336).
SecretOnlyForOpenProcess ==
  secret =>
    /\ cur \in observed \ handled
    /\ stable # NoTarget
    /\ rule[cur] \in {AnyContext, stable.context}
    /\ sinceType = Cooldown
    /\ pc \in {"recheck", "osa2", "type", "settle", "escape2", "osa3", "return"}

\* The select of Run may start another poll after the context is cancelled.
\* The wait between two stability checks stops such an attempt before it can
\* read the password (watcher.go:133-142, 299-305).
LateAttemptReadsNoSecret == late => ~secret

\* A dry run never reads the password (watcher.go:309-312).
DryRunReadsNoSecret == DryRun => ~secret

\* observedAuthTargets never outgrows its capacity (watcher.go:239-242).
KnownTargetsBounded == Cardinality(known) <= MaxTargets

\* A process that is listed is settled in the end: it is served or rejected, it
\* exits, or the watcher stops.  An attempt that keeps failing is cut off by the
\* age limit, which retries do not reset (watcher.go:206-209).  Only lists that
\* pass over a running process again and again can prevent it: that one is new,
\* and young, whenever it is back, and may close the gate to the others.
EveryProcessSettles ==
  <>[](overlooked = {}) =>
    \A p \in Procs :
      p \in observed ~> (p \in handled \/ p \notin observed \/ pc = "stopped")

-----------------------------------------------------------------------------
(* The contract, under a refinement mapping: a process is served when the  *)
(* attempt of its entry was completed; else it is closed when its entry is *)
(* handled, or when it is gone and has no entry any more.                  *)

Phase(p) ==
  IF p \in served THEN "served"
  ELSE IF p \in handled \/ (p \in spawned \ alive /\ p \notin observed) THEN "closed"
  ELSE IF p \in observed THEN "open" ELSE "unseen"

Contract == INSTANCE AutotypeContract
              WITH phase <- [p \in Procs |-> Phase(p)], cool <- sinceType,
                   missed <- overlooked

\* The watcher implements the contract: one delivery per process at most and
\* never for a process that was settled, unless a list has passed over it while
\* it was running; and deliveries a cooldown apart, whatever the lists return
\* (watcher.go:158-173, 206-228).
ImplementsContract == Contract!Spec
=============================================================================
