----------------------- MODULE AutotypeWatcherProofs -----------------------
(* Theorems about AutotypeWatcher, for every value of its constants. *)
EXTENDS AutotypeWatcher, FiniteSetTheorems, TLAPS

-----------------------------------------------------------------------------
(* The inductive invariant *)

\* Where the attempt on cur is: in the stability loop, past it, and with the
\* password in memory.
InLoop == {"stable", "wait"}
WithSecret == {"recheck", "osa2", "type", "settle", "escape2", "osa3", "return"}
PastLoop == {"osa1", "escape1", "load"} \cup WithSecret

\* The target the last correlation read is remembered.
LastTargetKnown == lastTarget # NoTarget => lastTarget \in known

\* The processes still to be looked at are open, and so is the current one.
ScanInv ==
  /\ todo \subseteq observed \ handled
  /\ cur # NoProc => cur \in observed \ handled
  /\ pc \notin {"scan"} \cup InLoop \cup PastLoop => todo = {} /\ cur = NoProc
  /\ pc \in InLoop \cup PastLoop => cur # NoProc /\ cur \notin todo
  /\ pc # "correlate" => newly = {}
  /\ pc \notin InLoop \cup PastLoop => checks = 0
  /\ observed \subseteq spawned

\* An attempt runs with the cooldown over, on a process that has a rule.
AttemptInv ==
  /\ pc \in InLoop \cup PastLoop => sinceType = Cooldown
  /\ pc \in PastLoop \/ (pc \in InLoop /\ checks > 0) =>
       stable # NoTarget /\ rule[cur] \in {AnyContext, stable.context}
  /\ pc \in PastLoop => ~DryRun
  /\ secret => pc \in WithSecret

\* An attempt that began after the cancellation is before its first wait.
LateInv ==
  /\ late => cancelled /\ pc \in InLoop
  /\ late /\ pc = "stable" => checks = 0

\* What the attempt has compared is still so, unless it was changed since.
TypedInv == AttemptKnowsItsDialog

\* The remembered targets fit their capacity.
KnownInv == IsFiniteSet(known) /\ Cardinality(known) <= MaxTargets

\* A served process has a handled entry for as long as it may be listed.
ServedInv ==
  /\ served \cap (alive \cup observed) \subseteq handled
  /\ pc = "baseline" => observed = {}

\* The parts of the invariant beside the types.
RestInv ==
  ServedInv /\ LastTargetKnown /\ ScanInv /\ AttemptInv /\ LateInv /\ TypedInv /\ KnownInv

IInv == TypeOK /\ RestInv

-----------------------------------------------------------------------------
(* Type correctness *)

\* The initial states have the types.
LEMMA TypeInit == Init => TypeOK
<1> SUFFICES ASSUME Init PROVE TypeOK
  OBVIOUS
<1>1. ui \in Dialogs
  BY DEF Init, Dialogs, Fields
<1>2. rule \in [Procs -> Contexts \cup {AnyContext, Unmatched}]
  BY DEF Init
<1>3. age \in [Procs -> 0 .. MaxAge + 1]
  BY ConstantsAssumption DEF Init
<1>4. sinceType \in 0 .. Cooldown /\ checks \in 0 .. StableChecks
  BY ConstantsAssumption DEF Init
<1>5. QED
  BY <1>1, <1>2, <1>3, <1>4 DEF Init, TypeOK, PCs

\* The dialog on the screen is a target, or there is none.
LEMMA VisibleType == TypeOK => Visible \in Targets \cup {NoTarget}
BY DEF TypeOK, Visible, Dialogs

\* The set of seen dialogs is one of targets, also when it is emptied first.
LEMMA RememberType ==
  ASSUME TypeOK, NEW t \in Targets \cup {NoTarget} PROVE Remember(t) \subseteq Targets
BY DEF TypeOK, Remember

\* Settling listed processes keeps the entries well formed.
LEMMA SettleType ==
  ASSUME TypeOK, NEW S \in SUBSET observed, Settle(S)
  PROVE  /\ handled' \subseteq observed
         /\ rule' \in [Procs -> Contexts \cup {AnyContext, Unmatched}]
         /\ age' \in [Procs -> 0 .. MaxAge + 1]
<1>1. handled' \subseteq observed
  BY DEF TypeOK, Settle
<1>2. rule' \in [Procs -> Contexts \cup {AnyContext, Unmatched}]
  BY DEF TypeOK, Settle
<1>3. age' \in [Procs -> 0 .. MaxAge + 1]
  BY ConstantsAssumption DEF TypeOK, Settle
<1>4. QED BY <1>1, <1>2, <1>3

\* The locals outside an attempt.
LEMMA EndPollType ==
  ASSUME EndPoll
  PROVE  /\ pc' \in PCs /\ newly' = {} /\ todo' = {}
         /\ cur' \in Procs \cup {NoProc} /\ checks' \in 0 .. StableChecks
         /\ stable' \in Targets \cup {NoTarget}
         /\ secret' \in BOOLEAN /\ late' \in BOOLEAN /\ stale' \in BOOLEAN
<1>1. 0 \in 0 .. StableChecks
  BY ConstantsAssumption
<1>2. QED
  BY <1>1 DEF EndPoll, LeaveAttempt, PCs

\* An attempt that fails keeps the types.
LEMMA AttemptFailsType ==
  ASSUME TypeOK, AttemptFails, ticked' = FALSE PROVE TypeOK'
BY EndPollType DEF TypeOK, AttemptFails, world, fields, history

\* An attempt that goes on keeps the types.
LEMMA PassType ==
  ASSUME TypeOK, NEW to \in PCs, Pass(to), ticked' = FALSE PROVE TypeOK'
BY DEF TypeOK, Pass, world, fields, history, locals

\* So does one that has compared the dialog.
LEMMA PassSeenType ==
  ASSUME TypeOK, NEW to \in PCs, PassSeen(to), ticked' = FALSE PROVE TypeOK'
BY DEF TypeOK, PassSeen, world, fields, history

\* A delivery keeps the types.
LEMMA FinishType ==
  ASSUME TypeOK, cur \in observed \cap spawned, Finish, ticked' = FALSE,
         served' = served \cup {cur},
         alive' = alive, spawned' = spawned, cancelled' = cancelled,
         lastTarget' = lastTarget, overlooked' = overlooked, ui' \in Dialogs
  PROVE  TypeOK'
<1>1. /\ handled' \subseteq observed
      /\ rule' \in [Procs -> Contexts \cup {AnyContext, Unmatched}]
      /\ age' \in [Procs -> 0 .. MaxAge + 1]
  BY SettleType DEF Finish
<1>2. 0 \in 0 .. StableChecks /\ 0 \in 0 .. Cooldown
  BY ConstantsAssumption
<1>3. QED
  BY <1>1, <1>2 DEF TypeOK, Finish, LeaveAttempt, PCs

\* Every step keeps the types.
LEMMA TypeNext == TypeOK /\ ScanInv /\ [Next]_vars => TypeOK'
<1> SUFFICES ASSUME TypeOK, ScanInv, [Next]_vars PROVE TypeOK'
  OBVIOUS
<1>1. pc \in InLoop \cup PastLoop => cur \in observed \cap spawned
  BY DEF ScanInv
<1>2. CASE Next
  <2>1. CASE Baseline
    BY <2>1 DEF Baseline, Lists, history, TypeOK, ScanInv, InLoop, PastLoop,
            WithSecret, At, PCs, world, locals
  <2>2. CASE BaselineUI
    BY <2>2, VisibleType, RememberType DEF BaselineUI, TypeOK, At, PCs, world, locals
  <2>3. CASE PollStarts
    BY <2>3 DEF PollStarts, TypeOK, At, PCs, world, fields, history, locals
  <2>4. CASE PollLocked
    BY <2>4 DEF PollLocked, TypeOK, At, PCs, world, fields, history, locals
  <2>5. CASE Stop
    BY <2>5 DEF Stop, TypeOK, At, PCs, world, fields, history, locals
  <2>6. CASE ListProcesses
    <3>1. rule' \in [Procs -> Contexts \cup {AnyContext, Unmatched}]
      BY <2>6 DEF TypeOK, ListProcesses
    <3>2. age' \in [Procs -> 0 .. MaxAge + 1]
      BY <2>6, ConstantsAssumption DEF TypeOK, ListProcesses
    <3>3. todo' \subseteq observed'
      BY <2>6 DEF ListProcesses, ScanInv, At, InLoop, PastLoop, WithSecret
    <3>4. QED
      BY <2>6, <3>1, <3>2, <3>3
         DEF TypeOK, ListProcesses, Lists, ScanInv, At, PCs, world
  <2>7. CASE ListFails
    BY <2>7, EndPollType DEF ListFails, TypeOK, At, world, fields, history
  <2>8. CASE Correlate
    <3>1. /\ handled' \subseteq observed
          /\ rule' \in [Procs -> Contexts \cup {AnyContext, Unmatched}]
          /\ age' \in [Procs -> 0 .. MaxAge + 1]
      <4>1. (IF Visible \in known THEN newly ELSE {}) \in SUBSET observed
        BY DEF TypeOK
      <4>2. QED BY <2>8, <4>1, SettleType DEF Correlate
    <3>2. known' \subseteq Targets /\ lastTarget' \in Targets \cup {NoTarget}
      BY <2>8, VisibleType, RememberType DEF Correlate
    <3>3. QED BY <2>8, <3>1, <3>2 DEF TypeOK, Correlate, At, PCs, world
  <2>9. CASE CorrelateFails
    BY <2>9, SettleType, EndPollType DEF CorrelateFails, TypeOK, At, world, history
  <2>10. CASE ScanDone
    BY <2>10, EndPollType DEF ScanDone, TypeOK, At, world, fields, history
  <2>11. ASSUME NEW p \in Procs, Fingerprint(p) PROVE TypeOK'
    <3>1. CASE \E r \in Rules : rule' = [rule EXCEPT ![p] = r]
                              /\ cur' = p
                              /\ UNCHANGED <<handled, age, todo, newly, pc, checks,
                                             stable, secret, late, stale>>
      <4>1. rule' \in [Procs -> Contexts \cup {AnyContext, Unmatched}]
        BY <2>11, <3>1 DEF TypeOK, Rules
      <4>2. QED BY <2>11, <3>1, <4>1 DEF TypeOK, Fingerprint, At, world, history
    <3>2. CASE /\ Settle({p}) /\ todo' = todo \ {p}
               /\ UNCHANGED <<newly, pc, cur, checks, stable, secret, late, stale>>
      BY <2>11, <3>2, SettleType DEF TypeOK, Fingerprint, At, world, history
    <3>3. CASE Settle({p}) /\ EndPoll
      BY <2>11, <3>3, SettleType, EndPollType DEF TypeOK, Fingerprint, At, world, history
    <3>4. QED BY <2>11, <3>1, <3>2, <3>3 DEF Fingerprint
  <2>12. ASSUME NEW p \in Procs, GateTooOld(p) PROVE TypeOK'
    <3>1. p \in observed
      BY <2>12 DEF GateTooOld, AtGate, TypeOK
    <3>2. QED
      BY <2>12, <3>1, SettleType DEF TypeOK, GateTooOld, AtGate, At, world, history
  <2>13. ASSUME NEW p \in Procs, GateCloses(p) PROVE TypeOK'
    BY <2>13, EndPollType DEF GateCloses, TypeOK, At, AtGate, world, fields, history
  <2>14. ASSUME NEW p \in Procs, BeginAttempt(p) PROVE TypeOK'
    BY <2>14 DEF BeginAttempt, TypeOK, At, AtGate, PCs, world, fields, history
  <2>15. CASE StableRead
    <3>1. checks' \in 0 .. StableChecks
      BY <2>15, ConstantsAssumption DEF TypeOK, StableRead
    <3>2. QED
      BY <2>15, <3>1, VisibleType DEF TypeOK, StableRead, At, PCs, world, fields, history
  <2>16. CASE StableReached
    <3>1. CASE DryRun
      BY <2>16, <3>1, <1>1, FinishType
         DEF InLoop, PastLoop, WithSecret, TypeOK, StableReached, At, world
    <3>2. CASE ~DryRun
      <4>1. checks' \in 0 .. StableChecks
        BY <2>16, <3>2, ConstantsAssumption DEF TypeOK, StableReached
      <4>2. QED
        BY <2>16, <3>2, <4>1, VisibleType
           DEF TypeOK, StableReached, At, PCs, world, fields, history
    <3>3. QED BY <3>1, <3>2
  <2>17. CASE StableFails
    BY <2>17, AttemptFailsType DEF StableFails, At
  <2>18. CASE StableWait
    BY <2>18, AttemptFailsType, PassType DEF StableWait, At, PCs
  <2>19. CASE ConfirmOsaScript("osa1", "escape1")
    BY <2>19, AttemptFailsType, PassType DEF ConfirmOsaScript, At, PCs
  <2>20. CASE CheckEscape("escape1", "load")
    BY <2>20, AttemptFailsType, PassType DEF CheckEscape, At, PCs
  <2>21. CASE LoadSecret
    BY <2>21 DEF LoadSecret, TypeOK, At, PCs, world, fields, history
  <2>22. CASE LoadFails
    BY <2>22, AttemptFailsType DEF LoadFails, At
  <2>23. CASE Recheck
    BY <2>23, AttemptFailsType, PassSeenType DEF Recheck, At, PCs
  <2>24. CASE ConfirmOsaScript("osa2", "type")
    BY <2>24, AttemptFailsType, PassType DEF ConfirmOsaScript, At, PCs
  <2>25. CASE TypeText
    <3>1. ui' \in Dialogs
      BY <2>25 DEF TypeOK, TypeText, Dialogs, Fields
    <3>2. CASE AutoSubmit
      BY <2>25, <3>1, <3>2 DEF TypeOK, TypeText, At, PCs, fields, locals
    <3>3. CASE ~AutoSubmit
      BY <2>25, <3>1, <3>3, <1>1, FinishType
         DEF InLoop, PastLoop, WithSecret, TypeOK, TypeText, At
    <3>4. QED BY <3>2, <3>3
  <2>26. CASE TypeFails
    BY <2>26, AttemptFailsType DEF TypeFails, At
  <2>27. CASE RecheckTyped
    BY <2>27, AttemptFailsType, PassSeenType DEF RecheckTyped, At, PCs
  <2>28. CASE CheckEscape("escape2", "osa3")
    BY <2>28, AttemptFailsType, PassType DEF CheckEscape, At, PCs
  <2>29. CASE ConfirmOsaScript("osa3", "return")
    BY <2>29, AttemptFailsType, PassType DEF ConfirmOsaScript, At, PCs
  <2>30. CASE SubmitReturn
    BY <2>30, FinishType, <1>1
       DEF InLoop, PastLoop, WithSecret, SubmitReturn, TypeOK, At, world
  <2>31. CASE SubmitFails
    BY <2>31, AttemptFailsType DEF SubmitFails, At
  <2>32. ASSUME NEW p \in Procs, Launch(p) PROVE TypeOK'
    BY <2>32 DEF Launch, TypeOK, world, fields, history, locals
  <2>33. ASSUME NEW p \in Procs, Exit(p) PROVE TypeOK'
    BY <2>33 DEF Exit, TypeOK, world, fields, history, locals
  <2>34. ASSUME NEW t \in Targets \cup {NoTarget}, NEW f \in Fields,
                DialogChanges(t, f)
         PROVE  TypeOK'
    BY <2>34 DEF DialogChanges, Unnoticed, TypeOK, Dialogs, fields, history
  <2>35. ASSUME NEW f \in Fields, UserEdits(f) PROVE TypeOK'
    BY <2>35 DEF UserEdits, Unnoticed, TypeOK, Dialogs, fields, history
  <2>36. CASE SwitchApp
    BY <2>36 DEF SwitchApp, TypeOK, Dialogs, Fields, fields, locals, history
  <2>37. CASE Cancel
    BY <2>37 DEF Cancel, TypeOK, world, fields, history, locals
  <2>38. CASE Tick
    <3>1. age' \in [Procs -> 0 .. MaxAge + 1]
      BY <2>38, ConstantsAssumption DEF TypeOK, Tick
    <3>2. sinceType' \in 0 .. Cooldown
      BY <2>38, ConstantsAssumption DEF TypeOK, Tick
    <3>3. QED BY <2>38, <3>1, <3>2 DEF TypeOK, Tick, world, history, locals
  <2>q. QED
    BY <1>2, <2>1, <2>2, <2>3, <2>4, <2>5, <2>6, <2>7, <2>8, <2>9, <2>10,
       <2>11, <2>12, <2>13, <2>14, <2>15, <2>16, <2>17, <2>18, <2>19,
       <2>20, <2>21, <2>22, <2>23, <2>24, <2>25, <2>26, <2>27, <2>28,
       <2>29, <2>30, <2>31, <2>32, <2>33, <2>34, <2>35, <2>36, <2>37,
       <2>38
       DEF Next, Goroutine, Environment, Poll, ConfirmAndType
<1>3. CASE UNCHANGED vars
  BY <1>3 DEF TypeOK, vars, world, fields, history, locals
<1>4. QED BY <1>2, <1>3

-----------------------------------------------------------------------------
(* The other parts of the invariant *)

\* An insertion into a set that is emptied when full stays within the capacity.
LEMMA RememberBounded ==
  ASSUME KnownInv, NEW t
  PROVE  /\ IsFiniteSet(Remember(t)) /\ Cardinality(Remember(t)) <= MaxTargets
         /\ t # NoTarget => t \in Remember(t)
<1> DEFINE base == IF Cardinality(known) >= MaxTargets THEN {} ELSE known
<1>1. Cardinality(known) \in Nat
  BY FS_CardinalityType DEF KnownInv
<1>2. IsFiniteSet(base) /\ Cardinality(base) \in Nat /\ Cardinality(base) < MaxTargets
  <2>1. CASE Cardinality(known) >= MaxTargets
    BY <2>1, FS_EmptySet, ConstantsAssumption
  <2>2. CASE ~(Cardinality(known) >= MaxTargets)
    BY <2>2, <1>1, ConstantsAssumption DEF KnownInv
  <2>3. QED BY <2>1, <2>2
<1>3. IsFiniteSet(base \cup {t}) /\ Cardinality(base \cup {t}) <= Cardinality(base) + 1
  <2> HIDE DEF base
  <2>1. QED BY <1>2, FS_AddElement
<1>4. CASE t = NoTarget
  BY <1>4 DEF KnownInv, Remember
<1>5. CASE t # NoTarget
  <2>1. Remember(t) = base \cup {t}
    BY <1>5 DEF Remember
  <2>2. Cardinality(base \cup {t}) \in Nat
    BY <1>3, FS_CardinalityType
  <2> HIDE DEF base
  <2>3. QED BY <2>1, <2>2, <1>2, <1>3, ConstantsAssumption
<1>6. QED BY <1>4, <1>5

\* Every step keeps what the labels know.
LEMMA RestNext == TypeOK /\ RestInv /\ [Next]_vars => RestInv'
<1> SUFFICES ASSUME TypeOK, RestInv, [Next]_vars PROVE RestInv'
  OBVIOUS
<1> USE ConstantsAssumption, NoTargetAssumption
    DEF TypeOK, RestInv, ServedInv, LastTargetKnown, ScanInv, AttemptInv, LateInv, TypedInv,
        KnownInv, AttemptKnowsItsDialog, FullLength, Dialogs,
        At, Pass, PassSeen, Settle, Finish, EndPoll, LeaveAttempt,
        AttemptFails, InLoop, PastLoop, WithSecret, world, fields, history, locals, vars
<1>1. CASE Next
  <2>1. CASE Baseline
    BY <2>1 DEF Baseline, Lists
  <2>2. CASE BaselineUI
    BY <2>2, RememberBounded DEF BaselineUI
  <2>3. CASE PollStarts
    BY <2>3 DEF PollStarts
  <2>4. CASE PollLocked
    BY <2>4 DEF PollLocked
  <2>5. CASE Stop
    BY <2>5 DEF Stop
  <2>6. CASE ListProcesses
    BY <2>6 DEF ListProcesses, Lists
  <2>7. CASE ListFails
    BY <2>7 DEF ListFails
  <2>8. CASE Correlate
    BY <2>8, RememberBounded DEF Correlate
  <2>9. CASE CorrelateFails
    BY <2>9 DEF CorrelateFails
  <2>10. CASE ScanDone
    BY <2>10 DEF ScanDone
  <2>11. ASSUME NEW p \in Procs, Fingerprint(p) PROVE RestInv'
    BY <2>11 DEF Fingerprint
  <2>12. ASSUME NEW p \in Procs, GateTooOld(p) PROVE RestInv'
    BY <2>12 DEF GateTooOld, AtGate
  <2>13. ASSUME NEW p \in Procs, GateCloses(p) PROVE RestInv'
    BY <2>13 DEF GateCloses, AtGate
  <2>14. ASSUME NEW p \in Procs, BeginAttempt(p) PROVE RestInv'
    BY <2>14 DEF BeginAttempt, AtGate, Cooled
  <2>15. CASE StableRead
    BY <2>15 DEF StableRead, StablePasses, Visible
  <2>16. CASE StableReached
    BY <2>16 DEF StableReached, StablePasses, Visible
  <2>17. CASE StableFails
    BY <2>17 DEF StableFails
  <2>18. CASE StableWait
    BY <2>18 DEF StableWait
  <2>19. CASE ConfirmOsaScript("osa1", "escape1")
    BY <2>19 DEF ConfirmOsaScript, OsaScriptEligible
  <2>20. CASE CheckEscape("escape1", "load")
    BY <2>20 DEF CheckEscape
  <2>21. CASE LoadSecret
    BY <2>21 DEF LoadSecret
  <2>22. CASE LoadFails
    BY <2>22 DEF LoadFails
  <2>23. CASE Recheck
    BY <2>23 DEF Recheck, Visible
  <2>24. CASE ConfirmOsaScript("osa2", "type")
    BY <2>24 DEF ConfirmOsaScript, OsaScriptEligible
  <2>25. CASE TypeText
    BY <2>25 DEF TypeText
  <2>26. CASE TypeFails
    BY <2>26 DEF TypeFails
  <2>27. CASE RecheckTyped
    BY <2>27 DEF RecheckTyped, Visible
  <2>28. CASE CheckEscape("escape2", "osa3")
    BY <2>28 DEF CheckEscape
  <2>29. CASE ConfirmOsaScript("osa3", "return")
    BY <2>29 DEF ConfirmOsaScript, OsaScriptEligible
  <2>30. CASE SubmitReturn
    BY <2>30 DEF SubmitReturn
  <2>31. CASE SubmitFails
    BY <2>31 DEF SubmitFails
  <2>32. ASSUME NEW p \in Procs, Launch(p) PROVE RestInv'
    BY <2>32 DEF Launch
  <2>33. ASSUME NEW p \in Procs, Exit(p) PROVE RestInv'
    BY <2>33 DEF Exit
  <2>34. ASSUME NEW t \in Targets \cup {NoTarget}, NEW f \in Fields,
                DialogChanges(t, f)
         PROVE  RestInv'
    BY <2>34 DEF DialogChanges, Unnoticed
  <2>35. ASSUME NEW f \in Fields, UserEdits(f) PROVE RestInv'
    BY <2>35 DEF UserEdits, Unnoticed
  <2>36. CASE SwitchApp
    BY <2>36 DEF SwitchApp
  <2>37. CASE Cancel
    BY <2>37 DEF Cancel
  <2>38. CASE Tick
    BY <2>38 DEF Tick
  <2>q. QED
    BY <1>1, <2>1, <2>2, <2>3, <2>4, <2>5, <2>6, <2>7, <2>8, <2>9, <2>10,
       <2>11, <2>12, <2>13, <2>14, <2>15, <2>16, <2>17, <2>18, <2>19,
       <2>20, <2>21, <2>22, <2>23, <2>24, <2>25, <2>26, <2>27, <2>28,
       <2>29, <2>30, <2>31, <2>32, <2>33, <2>34, <2>35, <2>36, <2>37,
       <2>38
       DEF Next, Goroutine, Environment, Poll, ConfirmAndType
<1>2. CASE UNCHANGED vars
  BY <1>2
<1>3. QED BY <1>1, <1>2

-----------------------------------------------------------------------------
(* The watcher implements its contract *)

\* A step of the contract, or a stutter.
ContractStep == [Contract!Next]_<<[p \in Procs |-> Phase(p)], sinceType, overlooked>>

\* A survey: it opens unseen processes, closes others and misses some.
LEMMA SurveyStep ==
  ASSUME NEW missing \in SUBSET Procs, sinceType' = sinceType,
         overlooked' = missing \/ (missing = {} /\ overlooked' = overlooked),
         \A p \in missing : Phase(p)' = "unseen",
         \A p \in Procs \ missing :
           \/ Phase(p)' = Phase(p)
           \/ Phase(p) = "unseen" /\ Phase(p)' = "open"
           \/ Phase(p) # "served" /\ Phase(p)' = "closed"
  PROVE  ContractStep
<1> DEFINE phase == [p \in Procs |-> Phase(p)]
           opening == {p \in Procs : Phase(p) = "unseen" /\ Phase(p)' = "open"}
           closing == {p \in Procs : Phase(p) # "served" /\ Phase(p)' = "closed"}
<1>1. \A p \in Procs : Phase(p)' = IF p \in opening THEN "open"
                                   ELSE IF p \in closing THEN "closed"
                                   ELSE IF p \in missing THEN "unseen"
                                   ELSE phase[p]
  OBVIOUS
<1>2. phase' = [p \in Procs |-> IF p \in opening THEN "open"
                                ELSE IF p \in closing THEN "closed"
                                ELSE IF p \in missing THEN "unseen"
                                ELSE phase[p]]
  BY <1>1
<1>3. /\ opening \cap closing = {} /\ missing \cap (opening \cup closing) = {}
      /\ \A p \in opening : phase[p] = "unseen"
      /\ \A p \in closing : phase[p] # "served"
  OBVIOUS
<1>4. Contract!Survey(opening, closing, missing)
  BY <1>2, <1>3 DEF Contract!Survey
<1>5. opening \in SUBSET Procs /\ closing \in SUBSET Procs
  OBVIOUS
<1> HIDE DEF opening, closing
<1>6. QED
  BY <1>4, <1>5 DEF ContractStep, Contract!Next

\* A step that misses no process and serves none.
LEMMA SettlingStep ==
  ASSUME sinceType' = sinceType, served' = served, overlooked' = overlooked,
         \A p \in Procs : \/ Phase(p)' = Phase(p)
                          \/ Phase(p) = "unseen" /\ Phase(p)' = "open"
                          \/ Phase(p)' = "closed"
  PROVE  ContractStep
<1>1. \A p \in Procs : Phase(p)' = "served" <=> Phase(p) = "served"
  BY DEF Phase
<1>2. {} \in SUBSET Procs
  OBVIOUS
<1> QED
  BY <1>1, <1>2, SurveyStep

\* A list opens what it finds for the first time, closes what has ended and misses
\* what it passes over.
LEMMA ListStep == ASSUME IInv, ListProcesses PROVE ContractStep
<1> USE DEF IInv, TypeOK, RestInv, ServedInv, ScanInv
<1>1. PICK seen \in SUBSET alive :
        /\ observed' = seen /\ handled' = handled \cap seen
        /\ overlooked' = (observed \cap alive) \ seen
        /\ served' = served \ overlooked'
  BY DEF ListProcesses, Lists
<1>2. UNCHANGED <<alive, spawned, sinceType>> /\ overlooked' \in SUBSET Procs
  BY <1>1 DEF ListProcesses, world
<1>3. \A p \in overlooked' : Phase(p)' = "unseen"
  BY <1>1, <1>2 DEF Phase
<1>4. ASSUME NEW p \in Procs \ overlooked'
      PROVE  \/ Phase(p)' = Phase(p)
             \/ Phase(p) = "unseen" /\ Phase(p)' = "open"
             \/ Phase(p) # "served" /\ Phase(p)' = "closed"
  <2>1. CASE p \in served
    BY <1>1, <2>1 DEF Phase
  <2>2. CASE p \notin served /\ p \in seen
    BY <1>1, <1>2, <2>2 DEF Phase
  <2>3. CASE p \notin served /\ p \notin seen
    BY <1>1, <1>2, <2>3 DEF Phase
  <2> QED
    BY <2>1, <2>2, <2>3
<1> HIDE DEF IInv
<1> QED
  BY <1>2, <1>3, <1>4, SurveyStep

\* A step that leaves the processes and their entries alone.
LEMMA QuietStep ==
  ASSUME UNCHANGED <<alive, spawned, observed, handled, sinceType, served,
                     overlooked>>
  PROVE  ContractStep
BY SettlingStep DEF Phase

\* A successful attempt is a delivery.
LEMMA FinishStep ==
  ASSUME IInv, pc \in InLoop \cup PastLoop, Finish, served' = served \cup {cur},
         alive' = alive, spawned' = spawned, overlooked' = overlooked
  PROVE  ContractStep
<1>1. cur \in Procs /\ cur \in observed \ handled /\ sinceType = Cooldown
  BY DEF IInv, RestInv, TypeOK, ScanInv, AttemptInv
<1>2. PICK c \in Procs : c = cur
  BY <1>1
<1>3. Phase(c) = "open" /\ Phase(c)' = "served"
  BY <1>1, <1>2 DEF Phase, Finish, Settle, IInv, RestInv, ServedInv
<1>4. \A p \in Procs \ {c} : Phase(p)' = Phase(p)
  BY <1>2 DEF Phase, Finish, Settle
<1>5. [p \in Procs |-> Phase(p)]' = [[p \in Procs |-> Phase(p)] EXCEPT ![c] = "served"]
  BY <1>3, <1>4
<1>6. Contract!Deliver(c)
  BY <1>1, <1>3, <1>5 DEF Contract!Deliver, Finish
<1>7. QED
  BY <1>6 DEF ContractStep, Contract!Next

\* A tick is one of the contract, or leaves it alone.
LEMMA TickStep ==
  ASSUME IInv, Tick PROVE ContractStep
<1>1. \A p \in Procs : Phase(p)' = Phase(p)
  BY DEF Phase, Tick, world, history
<1>2. CASE sinceType < Cooldown
  <2>1. Contract!Tick
    BY <1>1, <1>2 DEF Contract!Tick, Tick, history
  <2>2. QED
    BY <2>1 DEF ContractStep, Contract!Next
<1>3. CASE ~(sinceType < Cooldown)
  BY <1>1, <1>3, SettlingStep DEF Tick, history
<1>4. QED BY <1>2, <1>3

\* Every step is one of the contract, or leaves it alone.
LEMMA ContractNext == IInv /\ [Next]_vars => ContractStep
<1> SUFFICES ASSUME IInv, [Next]_vars PROVE ContractStep
  OBVIOUS
<1>1. CASE Next
  <2>1. CASE Baseline
    <3>1. handled = {} /\ observed = {} /\ UNCHANGED <<alive, spawned, served>>
      BY <2>1 DEF Baseline, At, ServedInv, IInv, RestInv, TypeOK, world, history
    <3>2. handled' = observed' /\ observed' \subseteq alive
      BY <2>1, <3>1 DEF Baseline, Lists
    <3>3. \A p \in Procs : Phase(p)' = Phase(p) \/ Phase(p)' = "closed"
      BY <3>1, <3>2 DEF Phase
    <3> QED
      BY <2>1, <3>3, SettlingStep DEF Baseline, history
  <2>2. CASE BaselineUI
    BY <2>2, QuietStep DEF BaselineUI, world, fields, history
  <2>3. CASE PollStarts
    BY <2>3, QuietStep DEF PollStarts, world, fields, history
  <2>4. CASE PollLocked
    BY <2>4, QuietStep DEF PollLocked, world, fields, history
  <2>5. CASE Stop
    BY <2>5, QuietStep DEF Stop, world, fields, history
  <2>6. CASE ListProcesses
    BY <2>6, ListStep
  <2>7. CASE ListFails
    BY <2>7, QuietStep DEF ListFails, world, fields, history
  <2>8. CASE Correlate
    BY <2>8, SettlingStep DEF Correlate, Phase, Settle, world, history
  <2>9. CASE CorrelateFails
    BY <2>9, SettlingStep DEF CorrelateFails, Phase, Settle, world, history
  <2>10. CASE ScanDone
    BY <2>10, QuietStep DEF ScanDone, world, fields, history
  <2>11. ASSUME NEW p \in Procs, Fingerprint(p) PROVE ContractStep
    BY <2>11, SettlingStep DEF Fingerprint, Phase, Settle, world, history
  <2>12. ASSUME NEW p \in Procs, GateTooOld(p) PROVE ContractStep
    BY <2>12, SettlingStep DEF GateTooOld, Phase, Settle, world, history
  <2>13. ASSUME NEW p \in Procs, GateCloses(p) PROVE ContractStep
    BY <2>13, QuietStep DEF GateCloses, world, fields, history
  <2>14. ASSUME NEW p \in Procs, BeginAttempt(p) PROVE ContractStep
    BY <2>14, QuietStep DEF BeginAttempt, world, fields, history
  <2>15. CASE StableRead
    BY <2>15, QuietStep DEF StableRead, world, fields, history
  <2>16. CASE StableReached
    <3>1. CASE DryRun
      BY <2>16, <3>1, FinishStep DEF StableReached, At, world, InLoop
    <3>2. CASE ~DryRun
      BY <2>16, <3>2, QuietStep DEF StableReached, world, fields, history
    <3>3. QED BY <3>1, <3>2
  <2>17. CASE StableFails
    BY <2>17, QuietStep DEF StableFails, AttemptFails, world, fields, history
  <2>18. CASE StableWait
    BY <2>18, QuietStep DEF StableWait, AttemptFails, Pass, PassSeen, world, fields, history
  <2>19. CASE ConfirmOsaScript("osa1", "escape1")
    BY <2>19, QuietStep DEF ConfirmOsaScript, AttemptFails, Pass, PassSeen, world, fields, history
  <2>20. CASE CheckEscape("escape1", "load")
    BY <2>20, QuietStep DEF CheckEscape, AttemptFails, Pass, PassSeen, world, fields, history
  <2>21. CASE LoadSecret
    BY <2>21, QuietStep DEF LoadSecret, world, fields, history
  <2>22. CASE LoadFails
    BY <2>22, QuietStep DEF LoadFails, AttemptFails, world, fields, history
  <2>23. CASE Recheck
    BY <2>23, QuietStep DEF Recheck, AttemptFails, Pass, PassSeen, world, fields, history
  <2>24. CASE ConfirmOsaScript("osa2", "type")
    BY <2>24, QuietStep DEF ConfirmOsaScript, AttemptFails, Pass, PassSeen, world, fields, history
  <2>25. CASE TypeText
    <3>1. CASE ~AutoSubmit
      BY <2>25, <3>1, FinishStep DEF TypeText, At, PastLoop, WithSecret
    <3>2. CASE AutoSubmit
      BY <2>25, <3>2, QuietStep DEF TypeText, fields
    <3>3. QED BY <3>1, <3>2
  <2>26. CASE TypeFails
    BY <2>26, QuietStep DEF TypeFails, AttemptFails, world, fields, history
  <2>27. CASE RecheckTyped
    BY <2>27, QuietStep DEF RecheckTyped, AttemptFails, Pass, PassSeen, world, fields, history
  <2>28. CASE CheckEscape("escape2", "osa3")
    BY <2>28, QuietStep DEF CheckEscape, AttemptFails, Pass, PassSeen, world, fields, history
  <2>29. CASE ConfirmOsaScript("osa3", "return")
    BY <2>29, QuietStep DEF ConfirmOsaScript, AttemptFails, Pass, PassSeen, world, fields, history
  <2>30. CASE SubmitReturn
    BY <2>30, FinishStep DEF SubmitReturn, At, world, PastLoop, WithSecret
  <2>31. CASE SubmitFails
    BY <2>31, QuietStep DEF SubmitFails, AttemptFails, world, fields, history
  <2>32. ASSUME NEW p \in Procs, Launch(p) PROVE ContractStep
    BY <2>32, SettlingStep DEF Launch, Phase, IInv, RestInv, TypeOK, ScanInv, fields, history
  <2>33. ASSUME NEW p \in Procs, Exit(p) PROVE ContractStep
    BY <2>33, SettlingStep DEF Exit, Phase, IInv, RestInv, TypeOK, ScanInv, fields, history
  <2>34. ASSUME NEW t \in Targets \cup {NoTarget}, NEW f \in Fields,
                DialogChanges(t, f)
         PROVE  ContractStep
    BY <2>34, QuietStep DEF DialogChanges, Unnoticed, world, fields, history
  <2>35. ASSUME NEW f \in Fields, UserEdits(f) PROVE ContractStep
    BY <2>35, QuietStep DEF UserEdits, Unnoticed, world, fields, history
  <2>36. CASE SwitchApp
    BY <2>36, QuietStep DEF SwitchApp, world, fields, history
  <2>37. CASE Cancel
    BY <2>37, QuietStep DEF Cancel, world, fields, history
  <2>38. CASE Tick
    BY <2>38, TickStep DEF Tick
  <2>q. QED
    BY <1>1, <2>1, <2>2, <2>3, <2>4, <2>5, <2>6, <2>7, <2>8, <2>9, <2>10,
       <2>11, <2>12, <2>13, <2>14, <2>15, <2>16, <2>17, <2>18, <2>19,
       <2>20, <2>21, <2>22, <2>23, <2>24, <2>25, <2>26, <2>27, <2>28,
       <2>29, <2>30, <2>31, <2>32, <2>33, <2>34, <2>35, <2>36, <2>37,
       <2>38
       DEF Next, Goroutine, Environment, Poll, ConfirmAndType
<1>2. CASE UNCHANGED vars
  BY <1>2, QuietStep DEF vars, world, fields, history
<1>3. QED BY <1>1, <1>2

\* The initial states are initial for the contract.
LEMMA ContractInit == Init => Contract!Init
BY DEF Init, Contract!Init, Phase

-----------------------------------------------------------------------------
(* The action properties, step by step *)

\* What the two action properties say of a step.
HistoryStep ==
  [ /\ handled \cap alive' \subseteq handled' \cup overlooked'
    /\ /\ pc = "correlate" /\ pc' = "scan"
       /\ lastTarget # NoTarget /\ Visible = lastTarget
       => newly \subseteq handled' ]_vars

\* Every step keeps a settled process settled and bars newcomers.
LEMMA HistoryNext == IInv /\ [Next]_vars => HistoryStep
<1> SUFFICES ASSUME IInv, [Next]_vars PROVE HistoryStep
  OBVIOUS
<1> USE DEF HistoryStep, IInv, TypeOK, RestInv, LastTargetKnown, ServedInv, At, Pass, PassSeen, Settle, Finish, EndPoll, LeaveAttempt,
        AttemptFails, InLoop, PastLoop, WithSecret, world, fields, history, locals, vars
<1>1. CASE Next
  <2>1. CASE Baseline
    BY <2>1 DEF Baseline
  <2>2. CASE BaselineUI
    BY <2>2 DEF BaselineUI
  <2>3. CASE PollStarts
    BY <2>3 DEF PollStarts
  <2>4. CASE PollLocked
    BY <2>4 DEF PollLocked
  <2>5. CASE Stop
    BY <2>5 DEF Stop
  <2>6. CASE ListProcesses
    BY <2>6 DEF ListProcesses
  <2>7. CASE ListFails
    BY <2>7 DEF ListFails
  <2>8. CASE Correlate
    BY <2>8 DEF Correlate
  <2>9. CASE CorrelateFails
    BY <2>9 DEF CorrelateFails
  <2>10. CASE ScanDone
    BY <2>10 DEF ScanDone
  <2>11. ASSUME NEW p \in Procs, Fingerprint(p) PROVE HistoryStep
    BY <2>11 DEF Fingerprint
  <2>12. ASSUME NEW p \in Procs, GateTooOld(p) PROVE HistoryStep
    BY <2>12 DEF GateTooOld, AtGate
  <2>13. ASSUME NEW p \in Procs, GateCloses(p) PROVE HistoryStep
    BY <2>13 DEF GateCloses, AtGate
  <2>14. ASSUME NEW p \in Procs, BeginAttempt(p) PROVE HistoryStep
    BY <2>14 DEF BeginAttempt, AtGate
  <2>15. CASE StableRead
    BY <2>15 DEF StableRead, StablePasses
  <2>16. CASE StableReached
    BY <2>16 DEF StableReached, StablePasses
  <2>17. CASE StableFails
    BY <2>17 DEF StableFails
  <2>18. CASE StableWait
    BY <2>18 DEF StableWait
  <2>19. CASE ConfirmOsaScript("osa1", "escape1")
    BY <2>19 DEF ConfirmOsaScript, OsaScriptEligible
  <2>20. CASE CheckEscape("escape1", "load")
    BY <2>20 DEF CheckEscape
  <2>21. CASE LoadSecret
    BY <2>21 DEF LoadSecret
  <2>22. CASE LoadFails
    BY <2>22 DEF LoadFails
  <2>23. CASE Recheck
    BY <2>23 DEF Recheck
  <2>24. CASE ConfirmOsaScript("osa2", "type")
    BY <2>24 DEF ConfirmOsaScript, OsaScriptEligible
  <2>25. CASE TypeText
    BY <2>25 DEF TypeText
  <2>26. CASE TypeFails
    BY <2>26 DEF TypeFails
  <2>27. CASE RecheckTyped
    BY <2>27 DEF RecheckTyped
  <2>28. CASE CheckEscape("escape2", "osa3")
    BY <2>28 DEF CheckEscape
  <2>29. CASE ConfirmOsaScript("osa3", "return")
    BY <2>29 DEF ConfirmOsaScript, OsaScriptEligible
  <2>30. CASE SubmitReturn
    BY <2>30 DEF SubmitReturn
  <2>31. CASE SubmitFails
    BY <2>31 DEF SubmitFails
  <2>32. ASSUME NEW p \in Procs, Launch(p) PROVE HistoryStep
    BY <2>32 DEF Launch
  <2>33. ASSUME NEW p \in Procs, Exit(p) PROVE HistoryStep
    BY <2>33 DEF Exit
  <2>34. ASSUME NEW t \in Targets \cup {NoTarget}, NEW f \in Fields,
                DialogChanges(t, f)
         PROVE  HistoryStep
    BY <2>34 DEF DialogChanges, Unnoticed
  <2>35. ASSUME NEW f \in Fields, UserEdits(f) PROVE HistoryStep
    BY <2>35 DEF UserEdits, Unnoticed
  <2>36. CASE SwitchApp
    BY <2>36 DEF SwitchApp
  <2>37. CASE Cancel
    BY <2>37 DEF Cancel
  <2>38. CASE Tick
    BY <2>38 DEF Tick
  <2>q. QED
    BY <1>1, <2>1, <2>2, <2>3, <2>4, <2>5, <2>6, <2>7, <2>8, <2>9, <2>10,
       <2>11, <2>12, <2>13, <2>14, <2>15, <2>16, <2>17, <2>18, <2>19,
       <2>20, <2>21, <2>22, <2>23, <2>24, <2>25, <2>26, <2>27, <2>28,
       <2>29, <2>30, <2>31, <2>32, <2>33, <2>34, <2>35, <2>36, <2>37,
       <2>38
       DEF Next, Goroutine, Environment, Poll, ConfirmAndType
<1>2. CASE UNCHANGED vars
  BY <1>2
<1>3. QED BY <1>1, <1>2

-----------------------------------------------------------------------------
(* The theorems *)

\* The strengthened invariant holds initially.
LEMMA IInvInit == Init => IInv
<1>1. Init => KnownInv
  BY FS_EmptySet, ConstantsAssumption DEF Init, KnownInv
<1>2. Init => ServedInv /\ LastTargetKnown /\ ScanInv /\ AttemptInv /\ LateInv /\ TypedInv
  BY DEF Init, ServedInv, LastTargetKnown, ScanInv, AttemptInv, LateInv, TypedInv,
         AttemptKnowsItsDialog, InLoop, PastLoop, WithSecret
<1>3. QED BY <1>1, <1>2, TypeInit DEF IInv, RestInv

\* The strengthened invariant is kept by every step.
LEMMA IInvNext == IInv /\ [Next]_vars => IInv'
BY TypeNext, RestNext DEF IInv, RestInv

\* The strengthened invariant holds in every reachable state.
THEOREM Inductive == Spec => []IInv
BY IInvInit, IInvNext, PTL DEF Spec

\* Every variable keeps its type in every reachable state.
THEOREM TypeCorrect == Spec => []TypeOK
<1>1. IInv => TypeOK
  BY DEF IInv
<1>2. QED BY <1>1, Inductive, PTL

\* The password is in memory only within an attempt on a listed, unsettled
\* process, for the dialog of its rule and with the cooldown over.
THEOREM SecretConfined == Spec => []SecretOnlyForOpenProcess
<1>1. IInv => SecretOnlyForOpenProcess
  BY DEF IInv, RestInv, TypeOK, ScanInv, AttemptInv, SecretOnlyForOpenProcess,
         InLoop, PastLoop, WithSecret
<1>2. QED BY <1>1, Inductive, PTL

\* Until the dialog or its field changes after the last comparison, an attempt
\* knows the dialog on the screen and what is in it: only such a change lets the
\* text or Return reach another dialog of the process, or another text.
THEOREM DialogKnown == Spec => []AttemptKnowsItsDialog
<1>1. IInv => AttemptKnowsItsDialog
  BY DEF IInv, RestInv, TypedInv
<1>2. QED BY <1>1, Inductive, PTL

\* An attempt that began after the cancellation never reads the password.
THEOREM LateAttemptsHarmless == Spec => []LateAttemptReadsNoSecret
<1>1. IInv => LateAttemptReadsNoSecret
  BY DEF IInv, RestInv, LateInv, AttemptInv, LateAttemptReadsNoSecret, InLoop, WithSecret
<1>2. QED BY <1>1, Inductive, PTL

\* A dry run never reads the password.
THEOREM DryRunHarmless == Spec => []DryRunReadsNoSecret
<1>1. IInv => DryRunReadsNoSecret
  BY DEF IInv, RestInv, AttemptInv, DryRunReadsNoSecret, PastLoop
<1>2. QED BY <1>1, Inductive, PTL

\* A settled process stays settled for as long as it runs, unless a list passes
\* over it: no poll rebuilds the entry of a process that is listed.
THEOREM SettledForGood == Spec => SettledStaysSettled
<1>1. IInv /\ [Next]_vars => [handled \cap alive' \subseteq handled' \cup overlooked']_vars
  BY HistoryNext DEF HistoryStep
<1>2. QED BY <1>1, Inductive, PTL DEF Spec, SettledStaysSettled

\* A dialog that was read by the last correlation bars the newcomers.
THEOREM NewcomersBarred == Spec => VisibleTargetBarsNewcomers
<1> DEFINE Bars == /\ pc = "correlate" /\ pc' = "scan"
                   /\ lastTarget # NoTarget /\ Visible = lastTarget
                   => newly \subseteq handled'
<1>1. IInv /\ [Next]_vars => [Bars]_vars
  BY HistoryNext DEF HistoryStep
<1>2. QED BY <1>1, Inductive, PTL DEF Spec, VisibleTargetBarsNewcomers

\* The watcher implements its contract: at most one delivery per process and none
\* to a settled one, unless a list passes over it while it runs; and deliveries a
\* cooldown apart, whatever the lists return.
THEOREM WatcherImplementsContract == Spec => ImplementsContract
<1>1. IInv /\ [Next]_vars => [Contract!Next]_<<[p \in Procs |-> Phase(p)], sinceType, overlooked>>
  BY ContractNext DEF ContractStep
<1>2. QED
  BY <1>1, ContractInit, Inductive, PTL DEF Spec, ImplementsContract, Contract!Spec

\* The set of remembered targets never outgrows its capacity.
THEOREM KnownTargetsStayBounded == Spec => []KnownTargetsBounded
<1>1. IInv => KnownTargetsBounded
  BY DEF IInv, RestInv, KnownInv, KnownTargetsBounded
<1>2. QED BY <1>1, Inductive, PTL
-----------------------------------------------------------------------------
(* Why every process is settled *)

\* Which part of a poll the goroutine is in, counted from its end,
Part(label) ==
  CASE label \in {"idle", "stopped"} -> 0
    [] label = "correlate" -> 2 [] label = "list" -> 3
    [] label = "baselineUI" -> 4 [] label = "baseline" -> 5
    [] OTHER -> 1

\* and how many driver calls it has left with the process p, at most, of whose
\* stability checks n have passed.
Left(label, p, n) ==
  CASE label = "scan" -> IF p = NoProc THEN 1 ELSE 0
    [] label = "return" -> 4 [] label = "osa3" -> 5 [] label = "escape2" -> 6
    [] label = "settle" -> 7 [] label = "type" -> 8 [] label = "osa2" -> 9
    [] label = "recheck" -> 10 [] label = "load" -> 11
    [] label = "escape1" -> 12 [] label = "osa1" -> 13
    [] label = "stable" -> 16 + 2 * (StableChecks - n)
    [] label = "wait" -> 17 + 2 * (StableChecks - n)
    [] OTHER -> 0

\* The poll is closer to its end: in a later part, with fewer processes to look
\* at, or with fewer calls left for this one.
Closer ==
  \/ Part(pc') < Part(pc)
  \/ /\ Part(pc') = Part(pc)
     /\ \/ todo' \subseteq todo /\ todo' # todo
        \/ todo' = todo /\ Left(pc', cur', checks') < Left(pc, cur, checks)

\* An attempt that fails ends the poll.
LEMMA FailedIsCloser ==
  ASSUME AttemptFails, pc \in InLoop \cup PastLoop PROVE Closer
BY DEF AttemptFails, EndPoll, Closer, Part, InLoop, PastLoop, WithSecret

\* The checks of confirmAndType that only read, and what follows them.
Follows(from, to) ==
  <<from, to>> \in
    {<<"wait", "stable">>, <<"osa1", "escape1">>, <<"escape1", "load">>,
     <<"recheck", "osa2">>, <<"osa2", "type">>, <<"settle", "escape2">>,
     <<"escape2", "osa3">>, <<"osa3", "return">>}

\* One that passes leaves fewer calls, and one that does not ends the poll.
LEMMA CheckIsCloser ==
  ASSUME TypeOK, NEW from, NEW to, Follows(from, to), pc = from,
         Pass(to) \/ PassSeen(to) \/ AttemptFails
  PROVE  Closer
<1>1. CASE AttemptFails
  BY <1>1, FailedIsCloser DEF Follows, InLoop, PastLoop, WithSecret
<1>2. CASE Pass(to) \/ PassSeen(to)
  <2>1. todo' = todo /\ cur' = cur /\ checks' = checks /\ pc' = to
    BY <1>2 DEF Pass, PassSeen, locals
  <2>2. StableChecks - checks \in Int
    BY ConstantsAssumption DEF TypeOK
  <2>3. Part(pc') = Part(pc)
    BY <2>1 DEF Follows, Part
  <2>4. Left(pc', cur', checks') < Left(pc, cur, checks)
    BY <2>1, <2>2 DEF Follows, Left
  <2> QED
    BY <2>1, <2>3, <2>4 DEF Closer
<1> QED
  BY <1>1, <1>2

\* A delivery leaves the process behind.
LEMMA FinishIsCloser ==
  ASSUME TypeOK, Finish, pc \in {"stable", "type", "return"}
  PROVE  Closer
<1>1. todo' = todo /\ cur' = NoProc /\ pc' = "scan"
  BY DEF Finish, LeaveAttempt
<1>2. 16 + 2 * (StableChecks - checks) > 1
  BY ConstantsAssumption DEF TypeOK
<1>3. Part(pc') = Part(pc) /\ Left(pc', cur', checks') < Left(pc, cur, checks)
  BY <1>1, <1>2 DEF Part, Left
<1> QED
  BY <1>1, <1>3 DEF Closer

\* The steps of poll bring it closer to its end,
LEMMA PollIsCloser ==
  ASSUME TypeOK, Baseline \/ BaselineUI \/ Poll, pc # "idle" PROVE Closer
<1>1. CASE Baseline \/ BaselineUI \/ ListProcesses \/ Correlate
  BY <1>1 DEF Baseline, BaselineUI, ListProcesses, Correlate, At, Closer, Part
<1>2. CASE ListFails \/ CorrelateFails \/ ScanDone
  BY <1>2 DEF ListFails, CorrelateFails, ScanDone, At, EndPoll, Closer, Part
<1>3. ASSUME NEW p \in Procs, Fingerprint(p) PROVE Closer
  <2>1. CASE EndPoll
    BY <1>3, <2>1 DEF Fingerprint, At, EndPoll, Closer, Part
  <2>2. CASE todo' = todo \ {p} /\ pc' = pc
    BY <1>3, <2>2 DEF Fingerprint, At, Closer, Part
  <2>3. CASE cur' = p /\ todo' = todo /\ pc' = pc
    <3>1. p # NoProc
      BY ConstantsAssumption
    <3>2. Left(pc', cur', checks') < Left(pc, cur, checks)
      BY <1>3, <2>3, <3>1 DEF Fingerprint, At, Left
    <3> QED
      BY <2>3, <3>2 DEF Closer
  <2> QED
    BY <1>3, <2>1, <2>2, <2>3 DEF Fingerprint
<1>4. ASSUME NEW p \in Procs, GateTooOld(p) \/ GateCloses(p) \/ BeginAttempt(p)
      PROVE  Closer
  BY <1>4 DEF GateTooOld, GateCloses, BeginAttempt, AtGate, At, EndPoll, Closer,
              Part
<1>5. CASE PollStarts \/ PollLocked \/ Stop
  BY <1>5 DEF PollStarts, PollLocked, Stop, At
<1> QED
  BY <1>1, <1>2, <1>3, <1>4, <1>5 DEF Poll

\* and those of confirmAndType too.
LEMMA AttemptIsCloser == ASSUME TypeOK, ConfirmAndType PROVE Closer
<1> USE DEF At
<1>1. CASE StableRead
  <2>1. /\ todo' = todo /\ pc = "stable" /\ pc' = "wait"
        /\ checks' = checks + 1
    BY <1>1 DEF StableRead
  <2>2. Part(pc') = Part(pc)
    BY <2>1 DEF Part
  <2>3. checks \in Int /\ StableChecks \in Int
    BY ConstantsAssumption DEF TypeOK
  <2>4. Left(pc', cur', checks') < Left(pc, cur, checks)
    BY <2>1, <2>3 DEF Left
  <2> QED
    BY <2>1, <2>2, <2>4 DEF Closer
<1>2. CASE StableReached
  <2>1. CASE DryRun
    BY <1>2, <2>1, FinishIsCloser DEF StableReached
  <2>2. CASE ~DryRun
    <3>1. todo' = todo /\ pc = "stable" /\ pc' = "osa1"
      BY <1>2, <2>2 DEF StableReached
    <3>2. Part(pc') = Part(pc)
      BY <3>1 DEF Part
    <3>3. 16 + 2 * (StableChecks - checks) > 13
      BY ConstantsAssumption DEF TypeOK
    <3>4. Left(pc', cur', checks') < Left(pc, cur, checks)
      BY <3>1, <3>3 DEF Left
    <3> QED
      BY <3>1, <3>2, <3>4 DEF Closer
  <2> QED
    BY <2>1, <2>2
<1>3. CASE StableFails \/ LoadFails \/ TypeFails \/ SubmitFails
  BY <1>3, FailedIsCloser
     DEF StableFails, LoadFails, TypeFails, SubmitFails, InLoop, PastLoop,
         WithSecret
<1>4. CASE StableWait
  BY <1>4, CheckIsCloser DEF StableWait, Follows
<1>5. ASSUME NEW from, NEW to, Follows(from, to),
             ConfirmOsaScript(from, to) \/ CheckEscape(from, to)
      PROVE  Closer
  BY <1>5, CheckIsCloser DEF ConfirmOsaScript, CheckEscape
<1>6. CASE LoadSecret
  <2>1. todo' = todo /\ pc = "load" /\ pc' = "recheck"
    BY <1>6 DEF LoadSecret
  <2> QED
    BY <2>1 DEF Closer, Part, Left
<1>7. CASE \/ ConfirmOsaScript("osa1", "escape1") \/ CheckEscape("escape1", "load")
           \/ ConfirmOsaScript("osa2", "type") \/ CheckEscape("escape2", "osa3")
           \/ ConfirmOsaScript("osa3", "return")
  <2>1. /\ Follows("osa1", "escape1") /\ Follows("escape1", "load")
        /\ Follows("osa2", "type") /\ Follows("escape2", "osa3")
        /\ Follows("osa3", "return")
    BY DEF Follows
  <2> QED
    BY <1>5, <1>7, <2>1
<1>8. CASE Recheck
  <2>1. Follows("recheck", "osa2")
    BY DEF Follows
  <2> QED
    BY <1>8, <2>1, CheckIsCloser DEF Recheck
<1>9. CASE RecheckTyped
  <2>1. Follows("settle", "escape2")
    BY DEF Follows
  <2> QED
    BY <1>9, <2>1, CheckIsCloser DEF RecheckTyped
<1>10. CASE TypeText
  <2>1. CASE AutoSubmit
    <3>1. todo' = todo /\ pc = "type" /\ pc' = "settle"
      BY <1>10, <2>1 DEF TypeText, locals
    <3> QED
      BY <3>1 DEF Closer, Part, Left
  <2>2. CASE ~AutoSubmit
    BY <1>10, <2>2, FinishIsCloser DEF TypeText
  <2> QED
    BY <2>1, <2>2
<1>11. CASE SubmitReturn
  BY <1>11, FinishIsCloser DEF SubmitReturn
<1> QED
  BY <1>1, <1>2, <1>3, <1>4, <1>6, <1>7, <1>8, <1>9, <1>10, <1>11
     DEF ConfirmAndType

\* Every step of a poll brings it closer to its end, and nothing else touches it.
PollsComeToAnEnd ==
  [][/\ Goroutine /\ pc # "idle" => Closer
     /\ Environment \/ Tick => UNCHANGED <<pc, todo, cur, checks>>]_vars

\* A poll ends, whatever the driver calls return and however many processes there
\* are: no process keeps the watcher from the next one, from a cancelled context
\* or from the ticker (watcher.go:133-232).
THEOREM PollsAreFinite == Spec => PollsComeToAnEnd
<1> DEFINE Ending == /\ Goroutine /\ pc # "idle" => Closer
                     /\ Environment \/ Tick => UNCHANGED <<pc, todo, cur, checks>>
<1>1. ASSUME IInv, [Next]_vars PROVE Ending
  <2>1. Goroutine /\ pc # "idle" => Closer
    BY <1>1, PollIsCloser, AttemptIsCloser DEF IInv, Goroutine
  <2>2. Environment \/ Tick => UNCHANGED <<pc, todo, cur, checks>>
    BY DEF Environment, Launch, Exit, DialogChanges, UserEdits, Unnoticed,
           SwitchApp, Cancel, Tick, locals
  <2> QED
    BY <2>1, <2>2
<1>2. IInv /\ [Next]_vars => [Ending]_vars
  BY <1>1
<1> QED
  BY <1>2, Inductive, PTL DEF Spec, PollsComeToAnEnd

\* The time since firstSeen of an open process only grows while it stays listed and
\* open, and no attempt begins once it is over the limit.
AgeCutsRetriesOff ==
  [][\A p \in Procs :
       /\ p \in observed \ handled /\ p \in observed' \ handled'
            => age'[p] >= age[p]
       /\ pc = "scan" /\ pc' = "stable" /\ cur' = p => age[p] <= MaxAge]_vars

\* Retries do not make a process young again: with the theorem before and the
\* clock, this is what EveryProcessSettles asks of the code, and the rest is
\* fairness (watcher.go:166-173, 206-209).
THEOREM RetriesRunOut == Spec => AgeCutsRetriesOff
<1> DEFINE Aged(p) ==
             /\ p \in observed \ handled /\ p \in observed' \ handled'
                  => age'[p] >= age[p]
             /\ pc = "scan" /\ pc' = "stable" /\ cur' = p => age[p] <= MaxAge
           AllAged == \A p \in Procs : Aged(p)
<1>1. ASSUME IInv, [Next]_vars, NEW p \in Procs PROVE Aged(p)
  <2>1. age \in [Procs -> 0 .. MaxAge + 1] /\ age[p] \in Int /\ MaxAge \in Int
    BY <1>1, ConstantsAssumption DEF IInv, TypeOK
  <2>2. CASE Tick
    <3>1. age'[p] = age[p] \/ age'[p] = age[p] + 1
      BY <2>2 DEF Tick
    <3>2. pc' = pc
      BY <2>2 DEF Tick
    <3> QED
      BY <2>1, <3>1, <3>2
  <2>3. ASSUME age' = age, pc' # "stable" PROVE Aged(p)
    BY <2>1, <2>3
  <2>4. CASE Environment \/ UNCHANGED vars
    <3>1. age' = age /\ pc' = pc
      BY <2>4 DEF Environment, Launch, Exit, DialogChanges, UserEdits, Unnoticed,
                  SwitchApp, Cancel, fields, vars
    <3> QED
      BY <2>1, <3>1
  <2>5. ASSUME NEW S, Settle(S), pc' # "stable" PROVE Aged(p)
    BY <2>1, <2>5 DEF Settle
  <2>6. CASE Baseline \/ BaselineUI \/ PollStarts \/ PollLocked \/ Stop
    BY <2>3, <2>6
       DEF Baseline, BaselineUI, PollStarts, PollLocked, Stop, At, fields
  <2>7. CASE ListProcesses
    BY <2>1, <2>7 DEF ListProcesses, At
  <2>8. CASE ListFails \/ CorrelateFails \/ ScanDone \/ Correlate
    BY <2>3, <2>5, <2>8
       DEF ListFails, CorrelateFails, ScanDone, Correlate, EndPoll, fields
  <2>9. ASSUME NEW q \in Procs, Fingerprint(q) \/ GateTooOld(q) \/ GateCloses(q)
        PROVE  Aged(p)
    BY <2>3, <2>5, <2>9
       DEF Fingerprint, GateTooOld, GateCloses, AtGate, At, EndPoll, fields
  <2>10. ASSUME NEW q \in Procs, BeginAttempt(q) PROVE Aged(p)
    BY <2>1, <2>10 DEF BeginAttempt, AtGate, At, Young, fields
  <2>11. CASE ConfirmAndType
    <3>1. pc # "scan"
      BY <2>11 DEF ConfirmAndType, StableRead, StableReached, StableFails,
         StableWait, ConfirmOsaScript, CheckEscape, LoadSecret, LoadFails, Recheck,
         TypeText, TypeFails, RecheckTyped, SubmitReturn, SubmitFails, At
    <3>2. age' = age \/ Settle({cur})
      BY <2>11 DEF ConfirmAndType, StableRead, StableReached, StableFails,
         StableWait, ConfirmOsaScript, CheckEscape, LoadSecret, LoadFails, Recheck,
         TypeText, TypeFails, RecheckTyped, SubmitReturn, SubmitFails,
         AttemptFails, Pass, PassSeen, Finish, fields
    <3> QED
      BY <2>1, <3>1, <3>2 DEF Settle
  <2> QED
    BY <1>1, <2>2, <2>4, <2>6, <2>7, <2>8, <2>9, <2>10, <2>11
       DEF Next, Goroutine, Poll
<1>2. IInv /\ [Next]_vars => [AllAged]_vars
  BY <1>1
<1> QED
  BY <1>2, Inductive, PTL DEF Spec, AgeCutsRetriesOff
=============================================================================
