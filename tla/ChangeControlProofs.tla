------------------------- MODULE ChangeControlProofs -------------------------
(* Proofs about ChangeControl, for every set of change sets, principals and *)
(* kinds, with and without lab mode and a state file, and for all bounds.   *)
EXTENDS ChangeControlRefinement, TLAPS

(* What a mutation reads and writes is one of the modelled targets. *)
LEMMA TargetType == \A k : TargetOf(k) \in Targets
BY DEF TargetOf, Targets

(* A client result is always recorded as one of the three end states. *)
LEMMA RecordType == \A k, r : Record(k, r) \in {"committed", "indeterminate", "failed"}
BY DEF Record, DeployRecord, ObjectRecord, FirewallRecord, NatRecord,
       LicenseRecord, SyncRecord

(* Recovery maps operation states to operation states. *)
LEMMA RecoveredType == \A s \in OpStates : Recovered(s) \in OpStates
BY DEF Recovered, OpStates, Blocking

(* A version number is a natural number. *)
LEMMA VersionType == TypeOK => \A c \in ChangeSet : Version(c) \in Nat
BY TargetType DEF TypeOK, Version

-----------------------------------------------------------------------------
(* Every reply and every poll is one of the results the client reports. *)
LEMMA ResultsType ==
  \A c : /\ LocalFailures \subseteq Results
         /\ Answers(c) \subseteq Results
         /\ PollResults(c) \subseteq Results
BY DEF LocalFailures, Answers, AnswersTo, PollResults, PollAnswers, Results

LEMMA SettleType ==
  ASSUME TypeOK, NEW c \in ChangeSet, NEW r \in Results, Settle(c, r),
         UNCHANGED <<sdcVars, setVars>>
  PROVE  TypeOK'
BY RecordType DEF TypeOK, Settle, sdcVars, setVars, OpStates, Blocking, HandlerPcs

LEMMA LandType ==
  ASSUME TypeOK, NEW c \in ChangeSet, NEW how \in {"landed", "partial"}, Land(c, how)
  PROVE  /\ wire' \in [ChangeSet -> WireStates]
         /\ base' \in [ChangeSet -> Nat \cup {None}]
         /\ hist' \in [Targets -> Seq(ChangeSet \cup {None})]
<1>1. Version(c) \in Nat
  BY VersionType
<1>2. TargetOf(kind[c]) \in Targets
  BY TargetType
<1>3. wire' \in [ChangeSet -> WireStates] /\ base' \in [ChangeSet -> Nat \cup {None}]
  BY <1>1 DEF TypeOK, Land, WireStates
<1>4. hist' \in [Targets -> Seq(ChangeSet \cup {None})]
  BY <1>2 DEF TypeOK, Land
<1> QED BY <1>3, <1>4

(* TypeOK is preserved by every step. *)
LEMMA TypeStep == TypeOK /\ [Next]_vars => TypeOK'
<1> SUFFICES ASSUME TypeOK, [Next]_vars PROVE TypeOK'
  OBVIOUS
<1>1. ASSUME NEW c \in ChangeSet, NEW p \in Principal, NEW k \in Kinds, Prepare(c, p, k)
      PROVE  TypeOK'
  <2>1. Len(hist[TargetOf(k)]) \in Nat
    BY TargetType DEF TypeOK
  <2>2. before' \in [ChangeSet -> Nat \cup {None}]
    BY <1>1, <2>1 DEF TypeOK, Prepare
  <2> QED BY <1>1, <2>2
        DEF TypeOK, Prepare, sdcVars, ghostVars, Phases, HandlerPcs
<1>2. ASSUME NEW c \in ChangeSet, NEW p \in Principal, Approve(c, p) PROVE TypeOK'
  BY <1>2 DEF TypeOK, Approve, sdcVars, handlerVars, ghostVars, Phases
<1>3. ASSUME NEW c \in ChangeSet, Expire(c) PROVE TypeOK'
  BY <1>3 DEF TypeOK, Expire, sdcVars, handlerVars, ghostVars, Phases
<1>4. ASSUME NEW c \in ChangeSet, ApplyChangeSet(c) PROVE TypeOK'
  BY <1>4 DEF TypeOK, ApplyChangeSet, sdcVars, ghostVars, Phases, OpStates, Blocking, HandlerPcs
<1>5. ASSUME NEW c \in ChangeSet, HandlerStep(c) PROVE TypeOK'
  <2> USE DEF sdcVars, setVars, handlerVars, ghostVars, OpStates, Blocking, HandlerPcs
  <2>1. CASE Waive(c)
    BY <2>1 DEF TypeOK, Waive, Phases
  <2>2. CASE DiffOperation(c) \/ CoordinatorRefuses(c)
    BY <2>2 DEF TypeOK, DiffOperation, CoordinatorRefuses
  <2>3. CASE BeginValidate(c) \/ Validated(c) \/ ValidationFails(c)
    BY <2>3 DEF TypeOK, BeginValidate, Validated, ValidationFails
  <2>4. CASE BeginCommit(c)
    BY <2>4 DEF TypeOK, BeginCommit, Rechecks
  <2>5. CASE RecheckPasses(c) \/ RecheckFails(c)
    BY <2>5 DEF TypeOK, RecheckPasses, RecheckFails
  <2>6. CASE SendFails(c)
    <3>1. PICK r \in Results : Settle(c, r)
      BY <2>6, ResultsType DEF SendFails
    <3> QED BY <3>1, SettleType DEF Settle
  <2>7. CASE Dispatch(c)
    BY <2>7 DEF TypeOK, Dispatch, WireStates
  <2>8. CASE Answer(c)
    <3>1. PICK r \in Results : Settle(c, r)
      BY <2>8, ResultsType DEF Answer
    <3> QED BY <3>1, SettleType DEF Settle
  <2>9. CASE JobAccepted(c)
    BY <2>9 DEF TypeOK, JobAccepted
  <2>10. CASE Poll(c)
    <3>1. PICK r \in Results : Settle(c, r)
      BY <2>10, ResultsType DEF Poll
    <3> QED BY <3>1, SettleType DEF Settle
  <2>11. CASE Release(c)
    BY <2>11 DEF TypeOK, Release, Causes
  <2> QED BY <1>5, <2>1, <2>2, <2>3, <2>4, <2>5, <2>6, <2>7, <2>8, <2>9, <2>10, <2>11
        DEF HandlerStep
<1>6. ASSUME NEW c \in ChangeSet, Discard(c) PROVE TypeOK'
  BY <1>6 DEF TypeOK, Discard, sdcVars, setVars, OpStates, Causes
<1>7. ASSUME NEW c \in ChangeSet, SdcAnswers(c) PROVE TypeOK'
  <2>1. CASE Land(c, "landed")
    BY <1>7, <2>1, LandType DEF TypeOK, SdcAnswers, setVars, handlerVars, ghostVars
  <2>2. CASE UNCHANGED <<hist, base>> /\ ~Land(c, "landed")
    BY <1>7, <2>2 DEF TypeOK, SdcAnswers, setVars, handlerVars, ghostVars, WireStates
  <2> QED BY <1>7, <2>1, <2>2 DEF SdcAnswers
<1>8. ASSUME NEW c \in ChangeSet, SdcJobEnds(c) PROVE TypeOK'
  <2>1. CASE \E how \in {"landed", "partial"} : Land(c, how)
    BY <1>8, <2>1, LandType DEF TypeOK, SdcJobEnds, setVars, handlerVars, ghostVars
  <2>2. CASE wire' = [wire EXCEPT ![c] = "aborted"] /\ UNCHANGED <<hist, base>>
    BY <1>8, <2>2 DEF TypeOK, SdcJobEnds, setVars, handlerVars, ghostVars, WireStates
  <2> QED BY <1>8, <2>1, <2>2 DEF SdcJobEnds
<1>9. ASSUME NEW k \in Kinds, OutOfBandWrite(TargetOf(k)) PROVE TypeOK'
  BY <1>9, TargetType DEF TypeOK, OutOfBandWrite, setVars, handlerVars, ghostVars
<1>10. ASSUME Restart PROVE TypeOK'
  <2>1. op' \in [ChangeSet -> OpStates]
    <3>1. CASE Durable
      BY <1>10, <3>1, RecoveredType DEF TypeOK, Restart
    <3>2. CASE ~Durable
      BY <1>10, <3>2 DEF Restart, OpStates
    <3> QED BY <3>1, <3>2
  <2>2. clearedBy' \in [ChangeSet -> Causes \cup {None}]
    BY <1>10 DEF TypeOK, Restart, Causes
  <2>3. phase' \in [ChangeSet -> Phases]
    BY <1>10 DEF TypeOK, Restart, Phases
  <2> QED BY <1>10, <2>1, <2>2, <2>3 DEF TypeOK, Restart, sdcVars, HandlerPcs
<1>11. CASE UNCHANGED vars
  BY <1>11 DEF TypeOK, vars, sdcVars, setVars, handlerVars, ghostVars
<1> QED BY <1>1, <1>2, <1>3, <1>4, <1>5, <1>6, <1>7, <1>8, <1>9, <1>10, <1>11
        DEF Next

(* TypeOK holds at the start. *)
LEMMA TypeInit == Init => TypeOK
BY DEF Init, TypeOK, WireStates, Phases, OpStates, HandlerPcs

(* The type invariant of the write path. *)
THEOREM TypeCorrect == Spec => []TypeOK
BY TypeInit, TypeStep, PTL DEF Spec

-----------------------------------------------------------------------------
(* A committed record is made only of an answer or a poll that said so, and *)
(* a failed one only of a result that KnownGaps names, unless SDC refused.  *)
LEMMA AnswerRecord ==
  ASSUME NEW c \in ChangeSet, StepInv(c), kind[c] \in AllKinds, NEW r \in Answers(c)
  PROVE  /\ Record(kind[c], r) = "committed" => wire[c] = "landed"
         /\ Record(kind[c], r) = "failed" /\ MayTakeHold(c) => r \in KnownGaps(kind[c])
BY DEF StepInv, AllKinds, Answers, AnswersTo, Taken, JobKinds, Creating, KnownGaps, MayTakeHold,
       Record, DeployRecord, ObjectRecord, FirewallRecord, NatRecord, LicenseRecord,
       SyncRecord

LEMMA PollRecord ==
  ASSUME NEW c \in ChangeSet, kind[c] \in JobKinds, NEW r \in PollResults(c)
  PROVE  /\ Record(kind[c], r) = "committed" => wire[c] = "landed"
         /\ Record(kind[c], r) = "failed" /\ MayTakeHold(c) => r \in KnownGaps(kind[c])
BY DEF PollResults, PollAnswers, JobKinds, Creating, KnownGaps, MayTakeHold,
       Record, DeployRecord, LicenseRecord, SyncRecord

-----------------------------------------------------------------------------
(* IndInv is inductive.  Each lemma below shows that one kind of step keeps *)
(* the local parts of the invariant for an arbitrary change set d.          *)

LEMMA PlanningStep ==
  ASSUME TypeOK, IndInv, NEW c \in ChangeSet,
         \/ \E p \in Principal, k \in Kinds : Prepare(c, p, k)
         \/ \E p \in Principal : Approve(c, p)
         \/ Waive(c) \/ Expire(c),
         NEW d \in ChangeSet
  PROVE  LocalInv(d)' /\ op'[d] = op[d]
<1> USE DEF LocalInv, PlanInv, StepInv, RecordInv, ApprovedByOther, WaivedInLab, Sent,
            Unsettled, MayTakeHold, GivenUp, Blocking, Uncommitted, Sending,
            sdcVars, setVars, handlerVars, ghostVars
<1>0. LocalInv(c) /\ LocalInv(d)
  BY DEF IndInv
<1>1. ASSUME NEW p \in Principal, NEW k \in Kinds, Prepare(c, p, k)
      PROVE  LocalInv(d)' /\ op'[d] = op[d]
  BY <1>0, <1>1 DEF TypeOK, Prepare
<1>2. ASSUME NEW p \in Principal, Approve(c, p)
      PROVE  LocalInv(d)' /\ op'[d] = op[d]
  BY <1>0, <1>2, NoneAssumption DEF TypeOK, Approve
<1>3. CASE Waive(c)
  BY <1>0, <1>3 DEF TypeOK, Waive
<1>4. CASE Expire(c)
  BY <1>0, <1>4 DEF TypeOK, Expire
<1> QED BY <1>1, <1>2, <1>3, <1>4

LEMMA ApplyStep ==
  ASSUME TypeOK, IndInv, NEW c \in ChangeSet, ApplyChangeSet(c), NEW d \in ChangeSet
  PROVE  LocalInv(d)' /\ (op'[d] = op[d] \/ d = c)
<1>0. LocalInv(c) /\ LocalInv(d)
  BY DEF IndInv
<1> USE DEF ApplyChangeSet, Sent, sdcVars, ghostVars
<1>1. PlanInv(d)'
  BY <1>0 DEF TypeOK, LocalInv, PlanInv, ApprovedByOther, WaivedInLab
<1>2. StepInv(d)'
  BY <1>0 DEF TypeOK, LocalInv, PlanInv, StepInv, Uncommitted, Sending
<1>3. RecordInv(d)'
  BY <1>0, NoneAssumption
  DEF Causes, TypeOK, LocalInv, PlanInv, RecordInv, Unsettled, MayTakeHold, GivenUp, Blocking
<1> QED BY <1>1, <1>2, <1>3 DEF TypeOK, LocalInv

LEMMA CheckStep ==
  ASSUME TypeOK, IndInv, NEW c \in ChangeSet,
         \/ DiffOperation(c) \/ CoordinatorRefuses(c) \/ BeginValidate(c)
         \/ Validated(c) \/ ValidationFails(c) \/ BeginCommit(c)
         \/ RecheckPasses(c) \/ RecheckFails(c) \/ Release(c) \/ Discard(c),
         NEW d \in ChangeSet
  PROVE  LocalInv(d)' /\ (op'[d] \in Blocking => op[d] \in Blocking)
<1> USE DEF LocalInv, PlanInv, StepInv, RecordInv, ApprovedByOther, WaivedInLab, Sent,
            Unsettled, MayTakeHold, GivenUp, Blocking, Uncommitted, Sending,
            sdcVars, setVars, handlerVars, ghostVars
<1>0. LocalInv(c) /\ LocalInv(d)
  BY DEF IndInv
<1>1. CASE DiffOperation(c)
  BY <1>0, <1>1 DEF TypeOK, DiffOperation
<1>2. CASE CoordinatorRefuses(c)
  BY <1>0, <1>2 DEF TypeOK, CoordinatorRefuses
<1>3. CASE BeginValidate(c)
  BY <1>0, <1>3 DEF TypeOK, BeginValidate
<1>4. CASE Validated(c)
  BY <1>0, <1>4 DEF TypeOK, Validated
<1>5. CASE ValidationFails(c)
  BY <1>0, <1>5 DEF TypeOK, ValidationFails
<1>6. CASE BeginCommit(c)
  <2>1. CASE Rechecks(kind[c])
    BY <1>0, <1>6, <2>1 DEF TypeOK, BeginCommit
  <2>2. CASE ~Rechecks(kind[c])
    BY <1>0, <1>6, <2>2 DEF TypeOK, BeginCommit
  <2> QED BY <2>1, <2>2
<1>7. CASE RecheckPasses(c)
  BY <1>0, <1>7 DEF TypeOK, RecheckPasses
<1>8. CASE RecheckFails(c)
  BY <1>0, <1>8 DEF TypeOK, RecheckFails
<1>9. CASE Release(c)
  BY <1>0, <1>9 DEF TypeOK, Release, Discardable
<1>10. CASE Discard(c)
  BY <1>0, <1>10 DEF TypeOK, Discard, Discardable
<1> QED BY <1>1, <1>2, <1>3, <1>4, <1>5, <1>6, <1>7, <1>8, <1>9, <1>10

(* What commit's outcome does to the local invariant, whatever the result.  *)
LEMMA SettleStep ==
  ASSUME TypeOK, IndInv, NEW c \in ChangeSet, NEW r \in Results, Settle(c, r),
         op[c] = "committing",
         Record(kind[c], r) = "committed" => wire[c] = "landed",
         Record(kind[c], r) = "failed" /\ MayTakeHold(c) => r \in KnownGaps(kind[c]),
         NEW d \in ChangeSet
  PROVE  LocalInv(d)' /\ (op'[d] \in Blocking => op[d] \in Blocking)
<1>0. LocalInv(c) /\ LocalInv(d)
  BY DEF IndInv
<1>1. Record(kind[c], r) \in {"committed", "indeterminate", "failed"}
  BY RecordType
<1>2. phase[c] = "applied" /\ clearedBy[c] = None
  BY <1>0 DEF LocalInv, PlanInv, RecordInv
<1> QED BY <1>0, <1>1, <1>2
  DEF TypeOK, Settle, LocalInv, PlanInv, StepInv, RecordInv, ApprovedByOther,
      WaivedInLab, Sent, Unsettled, MayTakeHold, GivenUp, Blocking, Uncommitted, Sending,
      sdcVars, setVars

LEMMA SendStep ==
  ASSUME TypeOK, IndInv, NEW c \in ChangeSet,
         SendFails(c) \/ Dispatch(c) \/ Answer(c) \/ JobAccepted(c) \/ Poll(c),
         NEW d \in ChangeSet
  PROVE  LocalInv(d)' /\ (op'[d] \in Blocking => op[d] \in Blocking)
<1>0. LocalInv(c) /\ LocalInv(d)
  BY DEF IndInv
<1>1. CASE SendFails(c)
  <2>1. PICK r \in LocalFailures : Settle(c, r)
    BY <1>1 DEF SendFails
  <2>2. op[c] = "committing" /\ wire[c] = "unsent"
    BY <1>0, <1>1 DEF SendFails, LocalInv, StepInv, Sending, Sent
  <2>3. Record(kind[c], r) # "committed" /\ ~MayTakeHold(c)
    BY <2>2 DEF LocalFailures, MayTakeHold, Record, DeployRecord, ObjectRecord,
                FirewallRecord, NatRecord, LicenseRecord, SyncRecord
  <2> QED BY <2>1, <2>2, <2>3, ResultsType, SettleStep
<1>2. CASE Dispatch(c)
  BY <1>0, <1>2
  DEF TypeOK, Dispatch, LocalInv, PlanInv, StepInv, RecordInv, ApprovedByOther,
      WaivedInLab, Sent, Unsettled, MayTakeHold, GivenUp, Blocking, Uncommitted, Sending,
      setVars
<1>3. CASE Answer(c)
  <2>1. PICK r \in Answers(c) : Settle(c, r)
    BY <1>3 DEF Answer
  <2>2. op[c] = "committing" /\ kind[c] \in AllKinds
    BY <1>0, <1>3, KindsAssumption DEF Answer, LocalInv, PlanInv, StepInv, Sending
  <2> QED BY <1>0, <2>1, <2>2, ResultsType, AnswerRecord, SettleStep DEF LocalInv
<1>4. CASE JobAccepted(c)
  BY <1>0, <1>4
  DEF TypeOK, JobAccepted, LocalInv, PlanInv, StepInv, RecordInv, ApprovedByOther,
      WaivedInLab, Sent, Unsettled, MayTakeHold, GivenUp, Blocking, Uncommitted, Sending,
      sdcVars, setVars, ghostVars
<1>5. CASE Poll(c)
  <2>1. PICK r \in PollResults(c) : Settle(c, r)
    BY <1>5 DEF Poll
  <2>2. op[c] = "committing" /\ kind[c] \in JobKinds
    BY <1>0, <1>5 DEF Poll, LocalInv, StepInv, Sending
  <2> QED BY <1>0, <2>1, <2>2, ResultsType, PollRecord, SettleStep
<1> QED BY <1>1, <1>2, <1>3, <1>4, <1>5

LEMMA SdcStep ==
  ASSUME TypeOK, IndInv, NEW c \in ChangeSet, SdcAnswers(c) \/ SdcJobEnds(c),
         NEW d \in ChangeSet
  PROVE  LocalInv(d)' /\ op'[d] = op[d]
<1>0. LocalInv(c) /\ LocalInv(d)
  BY DEF IndInv
<1>1. wire[c] \in {"inflight", "running"} /\ UNCHANGED <<setVars, handlerVars, ghostVars>>
  BY DEF SdcAnswers, SdcJobEnds
<1>2. PICK w \in WireStates \ {"unsent", "inflight"} :
        /\ wire' = [wire EXCEPT ![c] = w]
        /\ w \in {"running", "partial", "aborted"} => kind[c] \in JobKinds
        /\ w = "running" => wire[c] = "inflight"
  BY <1>0 DEF SdcAnswers, SdcJobEnds, Land, WireStates, LocalInv, StepInv
<1> QED BY <1>0, <1>1, <1>2
  DEF TypeOK, LocalInv, PlanInv, StepInv, RecordInv, ApprovedByOther, WireStates,
      WaivedInLab, Sent, Unsettled, MayTakeHold, GivenUp, Blocking, Uncommitted, Sending,
      setVars, handlerVars, ghostVars

LEMMA RestartStep ==
  ASSUME TypeOK, IndInv, Restart, NEW d \in ChangeSet
  PROVE  LocalInv(d)' /\ (op'[d] \in Blocking => op[d] \in Blocking)
<1> USE DEF LocalInv, PlanInv, StepInv, RecordInv, ApprovedByOther, WaivedInLab, Sent,
            Unsettled, MayTakeHold, GivenUp, Blocking, Uncommitted, Sending, sdcVars
<1>0. LocalInv(d)
  BY DEF IndInv
<1>1. CASE Durable
  BY <1>0, <1>1 DEF TypeOK, Restart, Recovered
<1>2. CASE ~Durable
  BY <1>0, <1>2 DEF TypeOK, Restart
<1> QED BY <1>1, <1>2

(* At the start nothing has happened, so nothing can disagree. *)
LEMMA IndInit == Init => IndInv
BY NoneAssumption DEF Causes, Init, IndInv, LocalInv, PlanInv, StepInv, RecordInv, OneBlocking, ApprovedByOther,
       WaivedInLab, Sent, Unsettled, MayTakeHold, GivenUp, Blocking, Uncommitted, Sending

(* No step makes a second operation block the tenant: only apply creates    *)
(* one, and it asks for a free tenant first.                                *)
LEMMA IndStep == TypeOK /\ IndInv /\ [Next]_vars => IndInv'
<1> SUFFICES ASSUME TypeOK, IndInv, [Next]_vars PROVE IndInv'
  OBVIOUS
<1> DEFINE Keeps == \A d \in ChangeSet : LocalInv(d)' /\ (op'[d] \in Blocking => op[d] \in Blocking)
<1>1. ASSUME Keeps PROVE IndInv'
  BY <1>1 DEF IndInv, OneBlocking
<1>2. ASSUME NEW c \in ChangeSet,
             \/ \E p \in Principal, k \in Kinds : Prepare(c, p, k)
             \/ \E p \in Principal : Approve(c, p)
             \/ Waive(c) \/ Expire(c)
      PROVE  IndInv'
  BY <1>1, <1>2, PlanningStep
<1>3. ASSUME NEW c \in ChangeSet, ApplyChangeSet(c) PROVE IndInv'
  <2>1. \A d \in ChangeSet : LocalInv(d)' /\ (op'[d] = op[d] \/ d = c)
    BY <1>3, ApplyStep
  <2>2. \A d \in ChangeSet : op[d] \notin Blocking
    BY <1>3 DEF ApplyChangeSet, TenantFree
  <2> QED BY <2>1, <2>2 DEF IndInv, OneBlocking
<1>4. ASSUME NEW c \in ChangeSet, HandlerStep(c), ~Waive(c) PROVE IndInv'
  BY <1>1, <1>4, CheckStep, SendStep DEF HandlerStep
<1>5. ASSUME NEW c \in ChangeSet, Discard(c) PROVE IndInv'
  BY <1>1, <1>5, CheckStep
<1>6. ASSUME NEW c \in ChangeSet, SdcAnswers(c) \/ SdcJobEnds(c) PROVE IndInv'
  BY <1>1, <1>6, SdcStep
<1>7. ASSUME NEW t, OutOfBandWrite(t) PROVE IndInv'
  BY <1>7 DEF OutOfBandWrite, IndInv, OneBlocking, LocalInv, PlanInv, StepInv, RecordInv,
              ApprovedByOther, WaivedInLab, Sent, Unsettled, MayTakeHold, GivenUp,
              setVars, handlerVars, ghostVars
<1>8. ASSUME Restart PROVE IndInv'
  BY <1>1, <1>8, RestartStep
<1>9. CASE UNCHANGED vars
  BY <1>9 DEF vars, IndInv, OneBlocking, LocalInv, PlanInv, StepInv, RecordInv,
              ApprovedByOther, WaivedInLab, Sent, Unsettled, MayTakeHold, GivenUp,
              sdcVars, setVars, handlerVars, ghostVars
<1> QED BY <1>2, <1>3, <1>4, <1>5, <1>6, <1>7, <1>8, <1>9 DEF Next

(* The handler, the record and the request of every change set agree.       *)
THEOREM Agreement == Spec => []IndInv
BY TypeInit, TypeStep, IndInit, IndStep, PTL DEF Spec

-----------------------------------------------------------------------------
(* The safety properties, each a consequence of the invariant.              *)

(* Nothing is sent to SDC that a second human did not approve, or lab mode  *)
(* did not waive, and the record says which.                                *)
THEOREM TwoPersonHolds == Spec => []TwoPersonRule
<1>1. IndInv => TwoPersonRule
  BY DEF IndInv, LocalInv, PlanInv, TwoPersonRule
<1> QED BY <1>1, Agreement, PTL

(* A request SDC may still act on keeps the tenant blocked until it is      *)
(* given up knowingly.                                                      *)
THEOREM UnsettledBlocksHolds == Spec => []UnsettledWriteBlocks
<1>1. IndInv => UnsettledWriteBlocks
  BY DEF IndInv, LocalInv, RecordInv, UnsettledWriteBlocks
<1> QED BY <1>1, Agreement, PTL

(* SDC never has two requests of the tenant to act on at once.              *)
THEOREM ExclusiveWriterHolds == Spec => []ExclusiveWriter
<1>1. IndInv => ExclusiveWriter
  BY DEF IndInv, LocalInv, RecordInv, OneBlocking, ExclusiveWriter
<1> QED BY <1>1, Agreement, PTL

(* What a handler or recovery discards was never sent.                      *)
THEOREM ReleaseIsTruthfulHolds == Spec => []ReleaseIsTruthful
<1>1. IndInv => ReleaseIsTruthful
  BY DEF IndInv, LocalInv, RecordInv, ReleaseIsTruthful
<1> QED BY <1>1, Agreement, PTL

(* One approval is worth at most one request.                               *)
THEOREM AtMostOneRequestHolds == Spec => []AtMostOneRequest
<1>1. IndInv => AtMostOneRequest
  BY DEF IndInv, LocalInv, StepInv, AtMostOneRequest
<1> QED BY <1>1, Agreement, PTL

(* A committed record is the truth about SDC.                               *)
THEOREM CommittedMeansLandedHolds == Spec => []CommittedMeansLanded
<1>1. IndInv => CommittedMeansLanded
  BY DEF IndInv, LocalInv, RecordInv, CommittedMeansLanded
<1> QED BY <1>1, Agreement, PTL

(* The gaps the tables leave are exactly the ones KnownGaps lists.          *)
THEOREM NoOtherGapHolds == Spec => []NoOtherGap
<1>1. IndInv => NoOtherGap
  BY DEF IndInv, LocalInv, RecordInv, NoOtherGap
<1> QED BY <1>1, Agreement, PTL

(* The states no discard clears are never left behind without a handler.    *)
THEOREM TransientIsOwnedHolds == Spec => []TransientIsOwned
<1>1. IndInv => TransientIsOwned
  BY DEF IndInv, LocalInv, StepInv, Sending, TransientIsOwned
<1> QED BY <1>1, Agreement, PTL

(* With a state file, an unknown outcome stays recorded as unknown.         *)
THEOREM IndeterminateSticksHolds == Spec => IndeterminateSticks
<1> DEFINE Sticks == \A c \in ChangeSet : op[c] = "indeterminate" /\ Durable =>
                                         op'[c] = "indeterminate"
<1>1. TypeOK /\ IndInv /\ [Next]_vars => [Sticks]_vars
  <2> SUFFICES ASSUME TypeOK, IndInv, [Next]_vars,
                      NEW d \in ChangeSet, op[d] = "indeterminate", Durable
               PROVE  op'[d] = "indeterminate"
    OBVIOUS
  <2>1. phase[d] = "applied" /\ pc[d] \notin Sending \cup {"validating"}
    BY DEF IndInv, LocalInv, PlanInv, StepInv
  <2>2. ASSUME NEW c \in ChangeSet, ApplyChangeSet(c) PROVE op'[d] = "indeterminate"
    BY <2>1, <2>2 DEF ApplyChangeSet, TypeOK
  <2>3. ASSUME NEW c \in ChangeSet, HandlerStep(c) PROVE op'[d] = "indeterminate"
    BY <2>1, <2>3 DEF HandlerStep, Waive, DiffOperation, CoordinatorRefuses, BeginValidate,
      Validated, ValidationFails, BeginCommit, RecheckPasses, RecheckFails, SendFails,
      Dispatch, Answer, JobAccepted, Poll, Release, Settle, Sending, Discardable, TypeOK
  <2>4. ASSUME NEW c \in ChangeSet, Discard(c) PROVE op'[d] = "indeterminate"
    BY <2>4 DEF Discard, Discardable, TypeOK
  <2>5. CASE Restart
    BY <2>5 DEF Restart, Recovered
  <2>6. CASE UNCHANGED op
    BY <2>6
  <2> QED BY <2>2, <2>3, <2>4, <2>5, <2>6
        DEF Next, Prepare, Approve, Expire, SdcAnswers, SdcJobEnds, OutOfBandWrite,
            handlerVars, vars
<1> QED BY <1>1, TypeCorrect, Agreement, PTL DEF Spec, IndeterminateSticks

-----------------------------------------------------------------------------
(* How far an operation has come, and how far its handler. *)
Age == [none |-> 0, staged |-> 1, validating |-> 2, validated |-> 3, committing |-> 4,
        failed |-> 5, committed |-> 5, indeterminate |-> 5, discarded |-> 6]

Turn == [idle |-> 0, waiving |-> 1, diffing |-> 1, validate |-> 2, validating |-> 3,
         commit |-> 4, checking |-> 5, sending |-> 6, awaiting |-> 7, polling |-> 8,
         releasing |-> 9]

(* The record of an operation never goes back, and what it says of a       *)
(* finished write is final: whatever handlers, operators and restarts do,  *)
(* but for the restart of a server without a state file.                   *)
THEOREM RecordsMoveOn ==
  Spec => [][\A d \in ChangeSet : op'[d] # op[d] =>
               \/ ~Durable /\ phase'[d] = "forgotten" /\ op'[d] = "none"
               \/ /\ op[d] \notin {"committed", "indeterminate", "discarded"}
                  /\ Age[op[d]] < Age[op'[d]]]_vars
<1> DEFINE Moves(d) == \/ ~Durable /\ phase'[d] = "forgotten" /\ op'[d] = "none"
                       \/ /\ op[d] \notin {"committed", "indeterminate", "discarded"}
                          /\ Age[op[d]] < Age[op'[d]]
<1>1. ASSUME TypeOK, IndInv, Next, NEW d \in ChangeSet, op'[d] # op[d]
      PROVE  Moves(d)
  <2>1. /\ op[d] = "validating" <=> pc[d] = "validating"
        /\ op[d] = "committing" <=> pc[d] \in Sending
        /\ phase[d] # "applied" => op[d] = "none"
        /\ op[d] \in OpStates
    BY <1>1 DEF IndInv, LocalInv, PlanInv, StepInv, TypeOK
  <2>2. ASSUME NEW c \in ChangeSet, ApplyChangeSet(c) PROVE Moves(d)
    BY <1>1, <2>1, <2>2 DEF ApplyChangeSet, TypeOK, Age
  <2>3. ASSUME NEW c \in ChangeSet, SendFails(c) \/ Answer(c) \/ Poll(c) PROVE Moves(d)
    <3>1. PICK r : Settle(c, r)
      BY <2>3 DEF SendFails, Answer, Poll
    <3>2. c = d /\ op'[d] = Record(kind[c], r)
      BY <1>1, <3>1 DEF Settle, TypeOK
    <3>3. op[d] = "committing"
      BY <2>1, <2>3, <3>2 DEF SendFails, Answer, Poll, Sending
    <3>4. op'[d] \in {"committed", "indeterminate", "failed"}
      BY <3>2, RecordType
    <3> QED BY <3>3, <3>4 DEF Age
  <2>4. ASSUME NEW c \in ChangeSet, BeginValidate(c) \/ Validated(c) \/ ValidationFails(c)
        PROVE Moves(d)
    BY <1>1, <2>1, <2>4 DEF BeginValidate, Validated, ValidationFails, TypeOK, Age
  <2>5. ASSUME NEW c \in ChangeSet, BeginCommit(c) \/ RecheckFails(c) PROVE Moves(d)
    BY <1>1, <2>1, <2>5 DEF BeginCommit, RecheckFails, TypeOK, Sending, Age
  <2>6. ASSUME NEW c \in ChangeSet, Release(c) \/ Discard(c) PROVE Moves(d)
    BY <1>1, <2>6 DEF Release, Discard, Discardable, TypeOK, Age
  <2>7. CASE Restart
    <3>1. CASE Durable
      BY <1>1, <2>1, <2>7, <3>1 DEF Restart, Recovered, Age
    <3>2. CASE ~Durable
      BY <1>1, <2>1, <2>7, <3>2 DEF Restart
    <3> QED BY <3>1, <3>2
  <2>8. ASSUME NEW c \in ChangeSet,
               Waive(c) \/ DiffOperation(c) \/ CoordinatorRefuses(c) \/ RecheckPasses(c)
                 \/ Dispatch(c) \/ JobAccepted(c)
        PROVE FALSE
    BY <1>1, <2>8 DEF Waive, DiffOperation, CoordinatorRefuses, RecheckPasses, Dispatch, JobAccepted
  <2> QED
    BY <1>1, <2>2, <2>3, <2>4, <2>5, <2>6, <2>7, <2>8
    DEF Next, HandlerStep, Prepare, Approve, Expire, SdcAnswers, SdcJobEnds, OutOfBandWrite,
        handlerVars
<1>2. TypeOK /\ IndInv /\ [Next]_vars =>
        [\A d \in ChangeSet : op'[d] # op[d] => Moves(d)]_vars
  BY <1>1
<1> QED BY <1>2, TypeCorrect, Agreement, PTL DEF Spec

(* Why a handler ends, short of fairness: it goes through its awaits once, *)
(* without a loop, and is done after nine at most.                         *)
THEOREM HandlersMoveOn ==
  Spec => [][\A d \in ChangeSet : pc'[d] # pc[d] =>
               pc'[d] = "idle" \/ Turn[pc[d]] < Turn[pc'[d]]]_vars
<1> DEFINE Moves(d) == pc'[d] = "idle" \/ Turn[pc[d]] < Turn[pc'[d]]
<1>1. ASSUME TypeOK, IndInv, Next, NEW d \in ChangeSet, pc'[d] # pc[d]
      PROVE  Moves(d)
  <2>1. phase[d] = "none" => pc[d] = "idle"
    BY <1>1 DEF IndInv, LocalInv, PlanInv
  <2>2. ASSUME NEW c \in ChangeSet, NEW p \in Principal, NEW k \in Kinds, Prepare(c, p, k)
        PROVE  Moves(d)
    BY <1>1, <2>1, <2>2 DEF Prepare, TypeOK, Turn
  <2>3. ASSUME NEW c \in ChangeSet, ApplyChangeSet(c) PROVE Moves(d)
    BY <1>1, <2>3 DEF ApplyChangeSet, TypeOK, Turn
  <2>4. ASSUME NEW c \in ChangeSet, SendFails(c) \/ Answer(c) \/ Poll(c) PROVE Moves(d)
    <3>1. PICK r : Settle(c, r)
      BY <2>4 DEF SendFails, Answer, Poll
    <3>2. c = d /\ pc'[d] \in {"releasing", "idle"}
      BY <1>1, <3>1 DEF Settle, TypeOK
    <3>3. pc[d] \in {"sending", "awaiting", "polling"}
      BY <2>4, <3>2 DEF SendFails, Answer, Poll
    <3> QED BY <3>2, <3>3 DEF Turn
  <2>5. ASSUME NEW c \in ChangeSet, Waive(c) \/ DiffOperation(c) \/ CoordinatorRefuses(c)
        PROVE  Moves(d)
    BY <1>1, <2>5 DEF Waive, DiffOperation, CoordinatorRefuses, TypeOK, Turn
  <2>6. ASSUME NEW c \in ChangeSet, BeginValidate(c) \/ Validated(c) \/ ValidationFails(c)
        PROVE  Moves(d)
    BY <1>1, <2>6 DEF BeginValidate, Validated, ValidationFails, TypeOK, Turn
  <2>7. ASSUME NEW c \in ChangeSet, BeginCommit(c) \/ RecheckPasses(c) \/ RecheckFails(c)
        PROVE  Moves(d)
    BY <1>1, <2>7 DEF BeginCommit, RecheckPasses, RecheckFails, TypeOK, Turn
  <2>8. ASSUME NEW c \in ChangeSet, Dispatch(c) \/ JobAccepted(c) \/ Release(c)
        PROVE  Moves(d)
    BY <1>1, <2>8 DEF Dispatch, JobAccepted, Release, TypeOK, Turn
  <2>9. CASE Restart
    BY <1>1, <2>9 DEF Restart
  <2> QED
    BY <1>1, <2>2, <2>3, <2>4, <2>5, <2>6, <2>7, <2>8, <2>9
    DEF Next, HandlerStep, Approve, Expire, Discard, SdcAnswers, SdcJobEnds, OutOfBandWrite,
        handlerVars
<1>2. TypeOK /\ IndInv /\ [Next]_vars =>
        [\A d \in ChangeSet : pc'[d] # pc[d] => Moves(d)]_vars
  BY <1>1
<1> QED BY <1>2, TypeCorrect, Agreement, PTL DEF Spec

-----------------------------------------------------------------------------
(* No update is lost.  A write past its recheck is exposed until SDC has    *)
(* decided it; what lands on its target meanwhile was sent by a change set  *)
(* that does not block the tenant, because this one does, or is given up.   *)

Exposed(c) == pc[c] = "sending" \/ Unsettled(c)

(* No version of the target after the one c was prepared from, up to the    *)
(* given one, is by another change set, unless one of the two is given up.  *)
Respected(c, v) ==
  LET w == hist[TargetOf(kind[c])][v]
  IN  w # None => GivenUp(w) \/ GivenUp(c)

Fresh(c, upto) == \A v \in (before[c] + 1)..upto : Respected(c, v)

OrderInv(c) ==
  /\ Rechecks(kind[c]) /\ before[c] # None /\ Exposed(c) => Fresh(c, Version(c))
  /\ wire[c] \in {"landed", "partial"} =>
       /\ base[c] \in 0..Version(c)
       /\ Rechecks(kind[c]) /\ before[c] # None => Fresh(c, base[c])

(* What was given up stays given up: nothing clears an operation twice.     *)
LEMMA GivenUpSticks ==
  ASSUME TypeOK, IndInv, [Next]_vars, NEW w \in ChangeSet, GivenUp(w)
  PROVE  GivenUp(w)'
<1>0. op[w] \in {"discarded", "none"} /\ phase[w] \in {"applied", "forgotten"}
      /\ clearedBy[w] \in {"operator", "amnesia"}
  BY NoneAssumption DEF IndInv, LocalInv, RecordInv, GivenUp, Causes
<1>1. clearedBy'[w] = clearedBy[w]
  <2>1. ASSUME NEW c \in ChangeSet, HandlerStep(c) PROVE clearedBy'[w] = clearedBy[w]
    BY <1>0, <2>1 DEF HandlerStep, Waive, DiffOperation, CoordinatorRefuses, BeginValidate,
      Validated, ValidationFails, BeginCommit, RecheckPasses, RecheckFails, SendFails,
      Dispatch, Answer, JobAccepted, Poll, Release, Settle, Discardable, TypeOK, ghostVars
  <2>2. ASSUME NEW c \in ChangeSet, Discard(c) PROVE clearedBy'[w] = clearedBy[w]
    BY <1>0, <2>2 DEF Discard, Discardable, TypeOK
  <2>3. CASE Restart
    BY <1>0, <2>3 DEF Restart, Recovered, Blocking
  <2>4. CASE UNCHANGED clearedBy
    BY <2>4
  <2> QED BY <2>1, <2>2, <2>3, <2>4
        DEF Next, Prepare, Approve, Expire, ApplyChangeSet, SdcAnswers, SdcJobEnds,
            OutOfBandWrite, ghostVars, vars
<1> QED BY <1>1 DEF GivenUp

(* The plan of a change set is written once. *)
LEMMA PlanSticks ==
  ASSUME TypeOK, [Next]_vars, NEW c \in ChangeSet, phase[c] # "none"
  PROVE  kind'[c] = kind[c] /\ before'[c] = before[c]
<1>1. ASSUME NEW d \in ChangeSet, NEW p \in Principal, NEW k \in Kinds, Prepare(d, p, k)
      PROVE  kind'[c] = kind[c] /\ before'[c] = before[c]
  BY <1>1 DEF Prepare, TypeOK
<1>2. CASE UNCHANGED <<kind, before>>
  BY <1>2
<1> QED BY <1>1, <1>2
      DEF Next, Approve, Expire, ApplyChangeSet, Discard, SdcAnswers, SdcJobEnds,
          OutOfBandWrite, Restart, setVars, vars, HandlerStep, Waive, DiffOperation,
          CoordinatorRefuses, BeginValidate, Validated, ValidationFails, BeginCommit,
          RecheckPasses, RecheckFails, SendFails, Dispatch, Answer, JobAccepted, Poll,
          Release, Settle

(* A step leaves SDC's records of a target alone, or adds one version: by   *)
(* someone else, or by a change set whose request SDC had not decided yet.  *)
Lands(w) == wire[w] \in {"inflight", "running"} /\ \E how \in {"landed", "partial"} : Land(w, how)

LEMMA SdcMoves ==
  ASSUME TypeOK, [Next]_vars
  PROVE  \/ /\ UNCHANGED <<hist, base>>
            /\ \A c \in ChangeSet : wire'[c] \in {"landed", "partial"} => wire'[c] = wire[c]
         \/ /\ \E t \in Targets : hist' = [hist EXCEPT ![t] = Append(@, None)]
            /\ UNCHANGED <<wire, base, setVars, handlerVars, ghostVars>>
         \/ \E w \in ChangeSet : Lands(w) /\ UNCHANGED <<setVars, handlerVars, ghostVars>>
<1>1. ASSUME NEW c \in ChangeSet, SdcAnswers(c)
      PROVE  \/ /\ UNCHANGED <<hist, base>>
                /\ \A d \in ChangeSet : wire'[d] \in {"landed", "partial"} => wire'[d] = wire[d]
             \/ Lands(c) /\ UNCHANGED <<setVars, handlerVars, ghostVars>>
  BY <1>1 DEF SdcAnswers, Lands, TypeOK
<1>2. ASSUME NEW c \in ChangeSet, SdcJobEnds(c)
      PROVE  \/ /\ UNCHANGED <<hist, base>>
                /\ \A d \in ChangeSet : wire'[d] \in {"landed", "partial"} => wire'[d] = wire[d]
             \/ Lands(c) /\ UNCHANGED <<setVars, handlerVars, ghostVars>>
  BY <1>2 DEF SdcJobEnds, Lands, TypeOK
<1>3. ASSUME NEW k, OutOfBandWrite(TargetOf(k))
      PROVE  /\ \E t \in Targets : hist' = [hist EXCEPT ![t] = Append(@, None)]
             /\ UNCHANGED <<wire, base, setVars, handlerVars, ghostVars>>
  BY <1>3, TargetType DEF OutOfBandWrite
<1>4. ASSUME NEW c \in ChangeSet, HandlerStep(c)
      PROVE  /\ UNCHANGED <<hist, base>>
             /\ \A d \in ChangeSet : wire'[d] \in {"landed", "partial"} => wire'[d] = wire[d]
  BY <1>4 DEF HandlerStep, Waive, DiffOperation, CoordinatorRefuses, BeginValidate, Validated,
      ValidationFails, BeginCommit, RecheckPasses, RecheckFails, SendFails, Dispatch, Answer,
      JobAccepted, Poll, Release, Settle, sdcVars, TypeOK
<1>5. CASE UNCHANGED sdcVars
  BY <1>5 DEF sdcVars
<1> QED BY <1>1, <1>2, <1>3, <1>4, <1>5
      DEF Next, Prepare, Approve, Expire, ApplyChangeSet, Discard, Restart, vars

(* What SDC has decided stays decided. *)
LEMMA LandedSticks ==
  ASSUME TypeOK, IndInv, [Next]_vars, NEW c \in ChangeSet, wire[c] \in {"landed", "partial"}
  PROVE  wire'[c] = wire[c] /\ base'[c] = base[c]
<1>1. ASSUME NEW d \in ChangeSet, SdcAnswers(d) \/ SdcJobEnds(d)
      PROVE  wire'[c] = wire[c] /\ base'[c] = base[c]
  BY <1>1 DEF SdcAnswers, SdcJobEnds, Land, TypeOK
<1>2. ASSUME NEW d \in ChangeSet, Dispatch(d)
      PROVE  wire'[c] = wire[c] /\ base'[c] = base[c]
  BY <1>2 DEF Dispatch, TypeOK, IndInv, LocalInv, StepInv, Sent
<1>3. CASE UNCHANGED <<wire, base>>
  BY <1>3
<1> QED BY <1>1, <1>2, <1>3
      DEF Next, Prepare, Approve, Expire, ApplyChangeSet, Discard, OutOfBandWrite, Restart,
          HandlerStep, Waive, DiffOperation, CoordinatorRefuses, BeginValidate, Validated,
          ValidationFails, BeginCommit, RecheckPasses, RecheckFails, SendFails, Answer,
          JobAccepted, Poll, Release, Settle, sdcVars, vars

(* Only a recheck that passes exposes a change set. *)
LEMMA Exposes ==
  ASSUME TypeOK, [Next]_vars, NEW c \in ChangeSet, ~Exposed(c), Exposed(c)'
  PROVE  RecheckPasses(c) \/ (BeginCommit(c) /\ ~Rechecks(kind[c]))
<1> USE DEF Exposed, Unsettled
<1>1. ASSUME NEW d \in ChangeSet, HandlerStep(d)
      PROVE  RecheckPasses(c) \/ (BeginCommit(c) /\ ~Rechecks(kind[c]))
  <2>1. CASE d # c
    BY <1>1, <2>1 DEF HandlerStep, Waive, DiffOperation, CoordinatorRefuses, BeginValidate, Validated,
      ValidationFails, BeginCommit, RecheckPasses, RecheckFails, SendFails, Dispatch, Answer,
      JobAccepted, Poll, Release, Settle, sdcVars, TypeOK
  <2>2. CASE d = c
    BY <1>1, <2>2 DEF HandlerStep, Waive, DiffOperation, CoordinatorRefuses, BeginValidate, Validated,
      ValidationFails, BeginCommit, RecheckPasses, RecheckFails, SendFails, Dispatch, Answer,
      JobAccepted, Poll, Release, Settle, sdcVars, TypeOK
  <2> QED BY <2>1, <2>2
<1>2. ASSUME NEW d \in ChangeSet, SdcAnswers(d) \/ SdcJobEnds(d) PROVE FALSE
  BY <1>2 DEF SdcAnswers, SdcJobEnds, Land, TypeOK, handlerVars
<1>3. ASSUME NEW d \in ChangeSet, NEW p \in Principal, NEW k \in Kinds, Prepare(d, p, k)
      PROVE  FALSE
  BY <1>3 DEF Prepare, TypeOK, sdcVars
<1>4. ASSUME NEW d \in ChangeSet, ApplyChangeSet(d) PROVE FALSE
  BY <1>4 DEF ApplyChangeSet, TypeOK, sdcVars
<1>5. ASSUME Restart PROVE FALSE
  BY <1>5 DEF Restart, sdcVars
<1>6. CASE UNCHANGED <<wire, pc>>
  BY <1>6
<1> QED BY <1>1, <1>2, <1>3, <1>4, <1>5, <1>6
      DEF Next, Approve, Expire, Discard, OutOfBandWrite, vars, sdcVars, handlerVars

(* A change set that lands while c is exposed does not block the tenant, so *)
(* it is given up, or c is.                                                 *)
LEMMA LandsWhileExposed ==
  ASSUME IndInv, NEW c \in ChangeSet, Exposed(c), NEW w \in ChangeSet, w # c, Unsettled(w)
  PROVE  GivenUp(w) \/ GivenUp(c)
<1>1. op[c] \in Blocking \/ GivenUp(c)
  BY DEF IndInv, LocalInv, StepInv, RecordInv, Exposed, Sending, Blocking
<1>2. op[w] \in Blocking \/ GivenUp(w)
  BY DEF IndInv, LocalInv, RecordInv
<1> QED BY <1>1, <1>2 DEF IndInv, OneBlocking

(* A step adds at most one version to a target, by someone else or by a     *)
(* change set that SDC had not decided yet, and alters none.                *)
LEMMA HistGrows ==
  ASSUME TypeOK, [Next]_vars, NEW t \in Targets
  PROVE  \/ hist'[t] = hist[t]
         \/ \E x \in ChangeSet \cup {None} :
              hist'[t] = Append(hist[t], x) /\ (x # None => Lands(x))
<1>1. CASE UNCHANGED hist
  BY <1>1
<1>2. ASSUME NEW u \in Targets, hist' = [hist EXCEPT ![u] = Append(@, None)]
      PROVE  hist'[t] = hist[t] \/ hist'[t] = Append(hist[t], None)
  BY <1>2 DEF TypeOK
<1>3. ASSUME NEW w \in ChangeSet, Lands(w)
      PROVE  hist'[t] = hist[t] \/ hist'[t] = Append(hist[t], w)
  BY <1>3 DEF TypeOK, Lands, Land
<1> QED BY <1>1, <1>2, <1>3, SdcMoves

LEMMA OrderStep ==
  ASSUME TypeOK, TypeOK', IndInv, IndInv', [Next]_vars, NEW c \in ChangeSet, OrderInv(c)
  PROVE  OrderInv(c)'
<1>1. CASE ~Exposed(c) /\ wire[c] \notin {"landed", "partial"}
  <2>1. wire'[c] \notin {"landed", "partial"}
    BY <1>1, SdcMoves DEF Exposed, Unsettled, Lands, Land, TypeOK
  <2>2. ASSUME Exposed(c)', Rechecks(kind[c])', before'[c] # None PROVE Fresh(c, Version(c))'
    <3>1. RecheckPasses(c) \/ (BeginCommit(c) /\ ~Rechecks(kind[c]))
      BY <1>1, <2>2, Exposes
    <3>2. UNCHANGED <<hist, kind, before>>
      BY <3>1 DEF RecheckPasses, BeginCommit, sdcVars, setVars
    <3>3. Unchanged(c)
      BY <2>2, <3>1, <3>2 DEF RecheckPasses
    <3>4. before'[c] = Version(c)' /\ Version(c)' \in Nat
      BY <2>2, <3>2, <3>3, VersionType DEF Unchanged, Version
    <3> QED BY <3>4 DEF Fresh
  <2> QED BY <2>1, <2>2 DEF OrderInv
<1>2. CASE Exposed(c) \/ wire[c] \in {"landed", "partial"}
  <2> DEFINE T == TargetOf(kind[c])
  <2>0. phase[c] # "none"
    BY <1>2 DEF IndInv, LocalInv, PlanInv, Exposed, Unsettled, Sent
  <2>1. kind'[c] = kind[c] /\ before'[c] = before[c]
    BY <2>0, PlanSticks
  <2>2. T \in Targets /\ hist[T] \in Seq(ChangeSet \cup {None}) /\ Version(c) = Len(hist[T])
        /\ Version(c)' = Len(hist'[T]) /\ Version(c) \in Nat /\ TargetOf(kind[c])' = T
    BY <2>1, TargetType, VersionType DEF TypeOK, Version
  <2>3. \/ hist'[T] = hist[T]
        \/ \E x \in ChangeSet \cup {None} :
             hist'[T] = Append(hist[T], x) /\ (x # None => Lands(x))
    BY <2>2, HistGrows
  <2>4. /\ \A v \in 1..Version(c) : hist'[T][v] = hist[T][v]
        /\ Version(c)' \in Nat /\ Version(c)' >= Version(c)
    BY <2>2, <2>3
  <2>5. ASSUME NEW v \in 1..Version(c), Respected(c, v) PROVE Respected(c, v)'
    <3> SUFFICES ASSUME hist'[T][v] # None PROVE Respected(c, v)'
      BY <2>2 DEF Respected
    <3>1. PICK w \in ChangeSet : w = hist[T][v] /\ w = hist'[T][v]
      BY <2>2, <2>4
    <3>2. GivenUp(w) \/ GivenUp(c)
      BY <2>5, <3>1 DEF Respected
    <3>3. GivenUp(w)' \/ GivenUp(c)'
      BY <3>2, GivenUpSticks
    <3> QED BY <2>2, <3>1, <3>3 DEF Respected, GivenUp
  <2>6. CASE wire[c] \in {"landed", "partial"}
    <3>1. wire'[c] = wire[c] /\ base'[c] = base[c]
      BY <2>6, LandedSticks
    <3>2. ~Exposed(c)'
      BY <2>6, <3>1 DEF Exposed, Unsettled, IndInv, LocalInv, StepInv, Sent
    <3>3. base'[c] \in 0..Version(c)'
      BY <2>2, <2>4, <2>6, <3>1 DEF OrderInv
    <3>4. ASSUME Rechecks(kind[c])', before'[c] # None PROVE Fresh(c, base[c])'
      <4>1. base[c] \in 0..Version(c) /\ Fresh(c, base[c]) /\ before[c] # None
        BY <2>1, <2>6, <3>4 DEF OrderInv
      <4>2. ASSUME NEW v \in (before[c] + 1)..base[c] PROVE Respected(c, v)'
        <5>1. before[c] \in Nat
          BY <4>1 DEF TypeOK
        <5>2. v \in 1..Version(c) /\ Respected(c, v)
          BY <2>2, <4>1, <4>2, <5>1 DEF Fresh
        <5> QED BY <2>5, <5>2
      <4> QED BY <2>1, <3>1, <4>2 DEF Fresh
    <3> QED BY <3>2, <3>3, <3>4 DEF OrderInv
  <2>7. CASE Exposed(c) /\ wire[c] \notin {"landed", "partial"}
    <3>1. Rechecks(kind[c]) /\ before[c] # None => Fresh(c, Version(c))
      BY <2>7 DEF OrderInv
    <3>2. ASSUME Exposed(c)', Rechecks(kind[c])', before'[c] # None PROVE Fresh(c, Version(c))'
      <4> SUFFICES ASSUME NEW v \in (before[c] + 1)..Len(hist'[T]), hist'[T][v] # None
                   PROVE  Respected(c, v)'
        BY <2>1, <2>2 DEF Fresh, Respected
      <4>1. before[c] \in Nat
        BY <2>1, <3>2 DEF TypeOK
      <4>2. CASE v \in 1..Version(c)
        <5>1. Respected(c, v)
          BY <2>1, <3>1, <3>2, <4>1, <4>2 DEF Fresh
        <5> QED BY <2>5, <4>2, <5>1
      <4>3. CASE v \notin 1..Version(c)
        <5>1. PICK w \in ChangeSet : w = hist'[T][v] /\ Lands(w)
          BY <2>2, <2>3, <4>1, <4>3
        <5>2. Unsettled(w) /\ ~Unsettled(w)' /\ wire'[w] # "unsent"
          BY <5>1 DEF Lands, Land, Unsettled, TypeOK
        <5>3. w # c
          BY <3>2, <5>2 DEF Exposed, IndInv, LocalInv, StepInv, Sent
        <5>4. GivenUp(w) \/ GivenUp(c)
          BY <2>7, <5>2, <5>3, LandsWhileExposed
        <5>5. GivenUp(w)' \/ GivenUp(c)'
          BY <5>4, GivenUpSticks
        <5> QED BY <2>2, <5>1, <5>5 DEF Respected, GivenUp
      <4> QED BY <4>2, <4>3
    <3>3. ASSUME wire'[c] \in {"landed", "partial"}
          PROVE  /\ base'[c] \in 0..Version(c)'
                 /\ Rechecks(kind[c])' /\ before'[c] # None => Fresh(c, base[c])'
      <4>1. Lands(c) /\ base'[c] = Version(c)
        <5>1. PICK w \in ChangeSet : Lands(w)
          BY <2>7, <3>3, SdcMoves
        <5>2. w = c
          BY <2>7, <3>3, <5>1 DEF Lands, Land, TypeOK
        <5> QED BY <5>1, <5>2 DEF Lands, Land, TypeOK
      <4>2. base'[c] \in 0..Version(c)'
        BY <2>2, <2>4, <4>1
      <4>3. ASSUME Rechecks(kind[c])', before'[c] # None,
                   NEW v \in (before[c] + 1)..Version(c)
            PROVE  Respected(c, v)'
        <5>1. before[c] \in Nat
          BY <2>1, <4>3 DEF TypeOK
        <5>2. v \in 1..Version(c) /\ Respected(c, v)
          BY <2>1, <2>2, <3>1, <4>3, <5>1 DEF Fresh
        <5> QED BY <2>5, <5>2
      <4> QED BY <2>1, <4>1, <4>2, <4>3 DEF Fresh
    <3> QED BY <3>2, <3>3 DEF OrderInv
  <2> QED BY <1>2, <2>6, <2>7
<1> QED BY <1>1, <1>2

(* A drift-checked write that lands overwrites no version another change    *)
(* set wrote after its prepare, unless one of the two had been given up.    *)
THEOREM NoLostUpdateHolds == Spec => []NoLostUpdate
<1> DEFINE Order == \A c \in ChangeSet : OrderInv(c)
<1>1. Init => Order
  BY DEF Init, OrderInv, Exposed, Unsettled
<1>2. TypeOK /\ TypeOK' /\ IndInv /\ IndInv' /\ Order /\ [Next]_vars => Order'
  BY OrderStep
<1>3. Order => NoLostUpdate
  BY DEF OrderInv, Fresh, Respected, NoLostUpdate
<1> QED BY <1>1, <1>2, <1>3, TypeCorrect, Agreement, PTL DEF Spec

-----------------------------------------------------------------------------
(* Every step of ChangeControl is one step of ApprovedWrite or none.        *)

(* The initial states map to the initial state of the promise.              *)
LEMMA PromiseInit == Init => Promise!Init
BY NoneAssumption
DEF Init, Promise!Init, stageBar, heldBar, writtenBar, openBar, abandonedBar, AbstractStage,
    Blocking, Sent, Unsettled, GivenUp, Causes

(* A step that leaves what the promise sees alone is a stutter of it.       *)
LEMMA Stutter ==
  ASSUME \A c \in ChangeSet : /\ phase'[c] = phase[c]
                              /\ (op'[c] \in Blocking) <=> (op[c] \in Blocking)
                              /\ Sent(c)' <=> Sent(c)
                              /\ Unsettled(c)' <=> Unsettled(c)
                              /\ GivenUp(c)' <=> GivenUp(c)
  PROVE  UNCHANGED Promise!vars
<1>1. stageBar' = stageBar
  BY DEF stageBar
<1>2. heldBar' = heldBar /\ writtenBar' = writtenBar /\ openBar' = openBar /\ abandonedBar' = abandonedBar
  BY DEF heldBar, writtenBar, openBar, abandonedBar
<1> QED BY <1>1, <1>2 DEF Promise!vars

LEMMA MoveStage ==
  ASSUME TypeOK, NEW c \in ChangeSet, NEW ph \in Phases, phase' = [phase EXCEPT ![c] = ph]
  PROVE  stageBar' = [stageBar EXCEPT ![c] = AbstractStage(ph)]
BY DEF TypeOK, stageBar

(* Planning, approval and expiry move one change set along its stages.      *)
LEMMA PlanningPromise ==
  ASSUME TypeOK, NEW c \in ChangeSet,
         \/ \E p \in Principal, k \in Kinds : Prepare(c, p, k)
         \/ \E p \in Principal : Approve(c, p)
         \/ Waive(c) \/ Expire(c)
  PROVE  Promise!Plan(c) \/ Promise!Authorize(c) \/ Promise!Withdraw(c) \/ UNCHANGED Promise!vars
<1>1. UNCHANGED <<op, wire, clearedBy>>
  BY DEF Prepare, Approve, Waive, Expire, sdcVars, handlerVars, ghostVars
<1>2. UNCHANGED <<heldBar, writtenBar, openBar, abandonedBar>>
  BY <1>1 DEF heldBar, writtenBar, openBar, abandonedBar, Sent, Unsettled, GivenUp
<1>3. CASE phase[c] = "none" /\ phase' = [phase EXCEPT ![c] = "planned"]
  BY <1>2, <1>3, MoveStage DEF Phases, Promise!Plan, Promise!Move, stageBar, AbstractStage
<1>4. CASE phase[c] = "planned" /\ phase' = [phase EXCEPT ![c] = "approved"]
  BY <1>2, <1>4, MoveStage DEF Phases, Promise!Authorize, Promise!Move, stageBar, AbstractStage
<1>5. CASE phase[c] \in {"planned", "approved"} /\ phase' = [phase EXCEPT ![c] = "expired"]
  BY <1>2, <1>5, MoveStage DEF Phases, Promise!Withdraw, Promise!Move, stageBar, AbstractStage
<1>6. CASE phase' = phase
  BY <1>2, <1>6 DEF Promise!vars, stageBar
<1> QED BY <1>3, <1>4, <1>5, <1>6 DEF Prepare, Approve, Waive, Expire

(* apply takes the tenant, which nobody held.                               *)
LEMMA ApplyPromise ==
  ASSUME TypeOK, IndInv, NEW c \in ChangeSet, ApplyChangeSet(c)
  PROVE  Promise!Acquire(c)
<1>1. Promise!Move(c, {"authorized"}, "spent")
  BY MoveStage DEF ApplyChangeSet, Phases, Promise!Move, stageBar, AbstractStage
<1>2. heldBar = {} /\ heldBar' = {c}
  BY DEF ApplyChangeSet, TenantFree, TypeOK, heldBar, Blocking
<1>3. UNCHANGED <<writtenBar, openBar, abandonedBar>>
  BY DEF ApplyChangeSet, sdcVars, ghostVars, writtenBar, openBar, abandonedBar, Sent,
         Unsettled, GivenUp
<1> QED BY <1>1, <1>2, <1>3 DEF Promise!Acquire

(* Letting go of a settled or unsent operation without an operator.         *)
LEMMA LetGoPromise ==
  ASSUME NEW c \in ChangeSet, phase' = phase, wire' = wire, op[c] \in Blocking, ~Unsettled(c),
         op'[c] \notin Blocking,
         \A d \in ChangeSet \ {c} : (op'[d] \in Blocking) <=> (op[d] \in Blocking),
         \A d \in ChangeSet : GivenUp(d)' <=> GivenUp(d)
  PROVE  Promise!LetGo(c)
<1>1. UNCHANGED <<stageBar, writtenBar, openBar, abandonedBar>>
  BY DEF stageBar, writtenBar, openBar, abandonedBar, Sent, Unsettled
<1>2. c \in heldBar \ openBar /\ heldBar' = heldBar \ {c}
  BY DEF heldBar, openBar
<1> QED BY <1>1, <1>2 DEF Promise!LetGo

(* The checks before the request are invisible to the promise.              *)
LEMMA CheckPromise ==
  ASSUME TypeOK, IndInv, NEW c \in ChangeSet,
         \/ DiffOperation(c) \/ CoordinatorRefuses(c) \/ BeginValidate(c)
         \/ Validated(c) \/ ValidationFails(c) \/ BeginCommit(c)
         \/ RecheckPasses(c) \/ RecheckFails(c) \/ JobAccepted(c)
  PROVE  UNCHANGED Promise!vars
<1>1. UNCHANGED <<phase, wire, clearedBy>>
  BY DEF DiffOperation, CoordinatorRefuses, BeginValidate, Validated, ValidationFails,
         BeginCommit, RecheckPasses, RecheckFails, JobAccepted, sdcVars, setVars, ghostVars
<1>2. \A d \in ChangeSet : (op'[d] \in Blocking) <=> (op[d] \in Blocking)
  BY DEF IndInv, LocalInv, StepInv, Sending, Blocking, TypeOK, DiffOperation,
         CoordinatorRefuses, BeginValidate, Validated, ValidationFails, BeginCommit,
         RecheckPasses, RecheckFails, JobAccepted
<1> QED BY <1>1, <1>2, Stutter DEF Sent, Unsettled, GivenUp

(* The outcome of a commit lets go of the tenant only when it is known.     *)
LEMMA SettlePromise ==
  ASSUME TypeOK, IndInv, NEW c \in ChangeSet, SendFails(c) \/ Answer(c) \/ Poll(c)
  PROVE  Promise!LetGo(c) \/ UNCHANGED Promise!vars
<1>1. PICK r : Settle(c, r)
  BY DEF SendFails, Answer, Poll
<1>2. op[c] = "committing"
  BY DEF SendFails, Answer, Poll, IndInv, LocalInv, StepInv, Sending
<1>3. UNCHANGED <<phase, wire, clearedBy>> /\ op' = [op EXCEPT ![c] = Record(kind[c], r)]
  BY <1>1 DEF Settle, sdcVars, setVars
<1>4. CASE Record(kind[c], r) = "committed"
  <2>1. op'[c] = "committed"
    BY <1>3, <1>4 DEF TypeOK
  <2>2. wire[c] = "landed"
    <3>1. LocalInv(c)'
      BY SendStep
    <3> QED BY <2>1, <3>1, <1>3 DEF LocalInv, RecordInv
  <2> QED BY <1>2, <1>3, <2>1, <2>2, LetGoPromise
        DEF TypeOK, Blocking, Unsettled, GivenUp
<1>5. CASE Record(kind[c], r) \in {"failed", "indeterminate"}
  <2>1. \A d \in ChangeSet : (op'[d] \in Blocking) <=> (op[d] \in Blocking)
    BY <1>2, <1>3, <1>5 DEF TypeOK, Blocking
  <2> QED BY <1>3, <2>1, Stutter DEF Sent, Unsettled, GivenUp
<1> QED BY <1>4, <1>5, RecordType

(* The request goes out once, while its change set holds the tenant.        *)
LEMMA DispatchPromise ==
  ASSUME TypeOK, IndInv, NEW c \in ChangeSet, Dispatch(c)
  PROVE  Promise!Write(c)
<1>1. op[c] = "committing" /\ phase[c] = "applied" /\ ~Sent(c)
  BY DEF Dispatch, IndInv, LocalInv, PlanInv, StepInv, Sending
<1>2. UNCHANGED <<stageBar, heldBar, abandonedBar>>
  BY DEF Dispatch, setVars, stageBar, heldBar, abandonedBar, GivenUp
<1>3. c \in heldBar \ writtenBar /\ stageBar[c] = "spent"
  BY <1>1 DEF heldBar, writtenBar, stageBar, AbstractStage, Blocking
<1>4. writtenBar' = writtenBar \cup {c} /\ openBar' = openBar \cup {c}
  BY DEF Dispatch, TypeOK, writtenBar, openBar, Sent, Unsettled
<1> QED BY <1>2, <1>3, <1>4 DEF Promise!Write

LEMMA ReleasePromise ==
  ASSUME TypeOK, IndInv, NEW c \in ChangeSet, Release(c)
  PROVE  Promise!LetGo(c) \/ UNCHANGED Promise!vars
<1>1. phase' = phase /\ wire' = wire /\ ~Sent(c)
  BY DEF Release, sdcVars, setVars, IndInv, LocalInv, StepInv
<1>2. CASE op' = op /\ clearedBy' = clearedBy
  BY <1>1, <1>2, Stutter DEF Sent, Unsettled, GivenUp
<1>3. CASE /\ op[c] \in Discardable
           /\ op' = [op EXCEPT ![c] = "discarded"]
           /\ clearedBy' = [clearedBy EXCEPT ![c] = "release"]
  <2>1. clearedBy[c] = None
    BY <1>3 DEF IndInv, LocalInv, RecordInv, Discardable
  <2>2. \A d \in ChangeSet : GivenUp(d)' <=> GivenUp(d)
    BY <1>3, <2>1, NoneAssumption DEF TypeOK, GivenUp, Causes
  <2> QED BY <1>1, <1>3, <2>2, LetGoPromise
        DEF TypeOK, Blocking, Discardable, Sent, Unsettled
<1> QED BY <1>2, <1>3 DEF Release

LEMMA DiscardPromise ==
  ASSUME TypeOK, IndInv, NEW c \in ChangeSet, Discard(c)
  PROVE  Promise!Abandon(c)
<1>1. UNCHANGED <<stageBar, writtenBar, openBar>>
  BY DEF Discard, sdcVars, setVars, stageBar, writtenBar, openBar, Sent, Unsettled
<1>2. c \in heldBar /\ heldBar' = heldBar \ {c}
  BY DEF Discard, Discardable, TypeOK, heldBar, Blocking
<1>3. abandonedBar' = abandonedBar \cup {c}
  BY DEF Discard, TypeOK, abandonedBar, GivenUp
<1> QED BY <1>1, <1>2, <1>3 DEF Promise!Abandon

(* SDC finishes with a request, or only takes it in.                        *)
LEMMA SdcPromise ==
  ASSUME TypeOK, NEW c \in ChangeSet, SdcAnswers(c) \/ SdcJobEnds(c)
  PROVE  Promise!Close(c) \/ UNCHANGED Promise!vars
<1>1. UNCHANGED <<phase, op, clearedBy>> /\ Unsettled(c)
  BY DEF SdcAnswers, SdcJobEnds, setVars, handlerVars, ghostVars, Unsettled
<1>2. PICK w \in WireStates \ {"unsent", "inflight"} : wire' = [wire EXCEPT ![c] = w]
  BY DEF SdcAnswers, SdcJobEnds, Land, WireStates
<1>3. UNCHANGED <<stageBar, heldBar, abandonedBar>>
  BY <1>1 DEF stageBar, heldBar, abandonedBar, GivenUp
<1>4. writtenBar' = writtenBar
  BY <1>1, <1>2 DEF TypeOK, writtenBar, Sent, Unsettled
<1>5. CASE w = "running"
  <2>1. openBar' = openBar
    BY <1>1, <1>2, <1>5 DEF TypeOK, openBar, Unsettled
  <2> QED BY <1>3, <1>4, <2>1 DEF Promise!vars
<1>6. CASE w # "running"
  <2>1. c \in openBar /\ openBar' = openBar \ {c}
    BY <1>1, <1>2, <1>6 DEF TypeOK, openBar, Unsettled
  <2> QED BY <1>3, <1>4, <2>1 DEF Promise!Close
<1> QED BY <1>5, <1>6

(* A restart with a state file lets go of at most the one operation that    *)
(* had not begun to commit; one without forgets every change set.           *)
LEMMA RestartPromise ==
  ASSUME TypeOK, IndInv, Restart
  PROVE  (\E c \in ChangeSet : Promise!LetGo(c)) \/ Promise!Forget \/ UNCHANGED Promise!vars
<1>1. wire' = wire
  BY DEF Restart, sdcVars
<1>2. CASE ~Durable
  <2>1. stageBar' = [c \in ChangeSet |-> IF stageBar[c] = "unplanned" THEN "unplanned" ELSE "void"]
    BY <1>2 DEF Restart, TypeOK, Phases, stageBar, AbstractStage
  <2>2. heldBar' = {}
    BY <1>2 DEF Restart, heldBar, Blocking
  <2>3. abandonedBar' = abandonedBar \cup heldBar
    <3>1. ASSUME NEW c \in ChangeSet PROVE GivenUp(c)' <=> GivenUp(c) \/ op[c] \in Blocking
      BY <1>2 DEF Restart, IndInv, LocalInv, RecordInv, GivenUp, Blocking
    <3> QED BY <3>1 DEF abandonedBar, heldBar
  <2>4. writtenBar' = writtenBar /\ openBar' = openBar
    BY <1>1 DEF writtenBar, openBar, Sent, Unsettled
  <2> QED BY <2>1, <2>2, <2>3, <2>4 DEF Promise!Forget
<1>3. CASE Durable
  <2> DEFINE Early == {"staged", "validating", "validated"}
  <2>1. phase' = phase /\ op' = [c \in ChangeSet |-> Recovered(op[c])]
    BY <1>3 DEF Restart
  <2>2. ASSUME NEW d \in ChangeSet PROVE GivenUp(d)' <=> GivenUp(d)
    BY <1>3, NoneAssumption DEF Restart, Recovered, IndInv, LocalInv, RecordInv,
      GivenUp, Causes
  <2>3. CASE \E c \in ChangeSet : op[c] \in Early
    <3>1. PICK c \in ChangeSet : op[c] \in Early
      BY <2>3
    <3>2. ~Unsettled(c)
      BY <3>1 DEF IndInv, LocalInv, PlanInv, StepInv, Uncommitted, Sent, Unsettled
    <3>3. \A d \in ChangeSet \ {c} : op[d] \notin Blocking
      BY <3>1 DEF IndInv, OneBlocking, Blocking
    <3>4. \A d \in ChangeSet \ {c} : op'[d] \notin Blocking
      BY <2>1, <3>3 DEF Recovered, Blocking
    <3>5. op[c] \in Blocking /\ op'[c] \notin Blocking
      BY <2>1, <3>1 DEF Recovered, Blocking
    <3>6. Promise!LetGo(c)
      BY <1>1, <2>1, <2>2, <3>2, <3>3, <3>4, <3>5, LetGoPromise
    <3> QED BY <3>6
  <2>4. CASE \A c \in ChangeSet : op[c] \notin Early
    <3>1. \A d \in ChangeSet : (op'[d] \in Blocking) <=> (op[d] \in Blocking)
      BY <2>1, <2>4 DEF Recovered, Blocking
    <3> QED BY <1>1, <2>1, <2>2, <3>1, Stutter DEF Sent, Unsettled
  <2> QED BY <2>3, <2>4
<1> QED BY <1>2, <1>3, ModesAssumption

(* Step simulation. *)
LEMMA PromiseStep == TypeOK /\ IndInv /\ [Next]_vars => [Promise!Next]_(Promise!vars)
<1> SUFFICES ASSUME TypeOK, IndInv, [Next]_vars PROVE Promise!Next \/ UNCHANGED Promise!vars
  OBVIOUS
<1>1. ASSUME NEW c \in ChangeSet,
             \/ \E p \in Principal, k \in Kinds : Prepare(c, p, k)
             \/ \E p \in Principal : Approve(c, p)
             \/ Waive(c) \/ Expire(c)
      PROVE  Promise!Next \/ UNCHANGED Promise!vars
  BY <1>1, PlanningPromise DEF Promise!Next
<1>2. ASSUME NEW c \in ChangeSet, ApplyChangeSet(c)
      PROVE  Promise!Next \/ UNCHANGED Promise!vars
  BY <1>2, ApplyPromise DEF Promise!Next
<1>3. ASSUME NEW c \in ChangeSet, HandlerStep(c), ~Waive(c)
      PROVE  Promise!Next \/ UNCHANGED Promise!vars
  BY <1>3, CheckPromise, SettlePromise, DispatchPromise, ReleasePromise
  DEF HandlerStep, Promise!Next
<1>4. ASSUME NEW c \in ChangeSet, Discard(c)
      PROVE  Promise!Next \/ UNCHANGED Promise!vars
  BY <1>4, DiscardPromise DEF Promise!Next
<1>5. ASSUME NEW c \in ChangeSet, SdcAnswers(c) \/ SdcJobEnds(c)
      PROVE  Promise!Next \/ UNCHANGED Promise!vars
  BY <1>5, SdcPromise DEF Promise!Next
<1>6. ASSUME NEW t, OutOfBandWrite(t) PROVE UNCHANGED Promise!vars
  BY <1>6, Stutter DEF OutOfBandWrite, setVars, handlerVars, ghostVars, Sent, Unsettled, GivenUp
<1>7. ASSUME Restart PROVE Promise!Next \/ UNCHANGED Promise!vars
  BY <1>7, RestartPromise DEF Promise!Next
<1>8. CASE UNCHANGED vars
  BY <1>8, Stutter DEF vars, sdcVars, setVars, handlerVars, ghostVars, Sent, Unsettled, GivenUp
<1> QED BY <1>1, <1>2, <1>3, <1>4, <1>5, <1>6, <1>7, <1>8 DEF Next

(* The write path implements the promise.                                   *)
THEOREM KeepsPromiseHolds == Spec => KeepsPromise
BY PromiseInit, PromiseStep, TypeCorrect, Agreement, PTL DEF Spec, KeepsPromise, Promise!Spec

-----------------------------------------------------------------------------
(* What the promise is worth *)

(* At most one change set holds the tenant, one that was authorized and    *)
(* spent; only such a change set has ever written; and a request SDC may   *)
(* act on belongs to the one that holds the tenant or to one given up.     *)
PromisedToOne ==
  /\ stageBar \in [ChangeSet -> {"unplanned", "planned", "authorized", "spent", "void"}]
  /\ \A c, d \in heldBar : c = d
  /\ heldBar \subseteq {c \in ChangeSet : stageBar[c] = "spent"}
  /\ writtenBar \subseteq {c \in ChangeSet : stageBar[c] \in {"spent", "void"}}
  /\ openBar \subseteq writtenBar \cap (heldBar \cup abandonedBar)

LEMMA OneMove ==
  ASSUME PromisedToOne, NEW c \in ChangeSet, NEW from, NEW to,
         to \in {"planned", "authorized", "spent", "void"},
         from \subseteq {"unplanned", "planned", "authorized"},
         Promise!Move(c, from, to)
  PROVE  /\ stageBar' \in [ChangeSet -> {"unplanned", "planned", "authorized", "spent", "void"}]
         /\ heldBar \subseteq {d \in ChangeSet : stageBar'[d] = "spent"}
         /\ writtenBar \subseteq {d \in ChangeSet : stageBar'[d] \in {"spent", "void"}}
         /\ stageBar'[c] = to
BY DEF PromisedToOne, Promise!Move

LEMMA PromisedInit == Promise!Init => PromisedToOne
BY DEF Promise!Init, PromisedToOne

LEMMA PromisedStep ==
  PromisedToOne /\ [Promise!Next]_(Promise!vars) => PromisedToOne'
<1>. SUFFICES ASSUME PromisedToOne, [Promise!Next]_(Promise!vars) PROVE PromisedToOne'
  OBVIOUS
<1>1. ASSUME NEW c \in ChangeSet, Promise!Plan(c) \/ Promise!Authorize(c) \/ Promise!Withdraw(c)
      PROVE  PromisedToOne'
  <2>1. UNCHANGED <<heldBar, writtenBar, openBar, abandonedBar>>
    BY <1>1 DEF Promise!Plan, Promise!Authorize, Promise!Withdraw
  <2>2. PICK from \in SUBSET {"unplanned", "planned", "authorized"},
             to \in {"planned", "authorized", "void"} : Promise!Move(c, from, to)
    BY <1>1 DEF Promise!Plan, Promise!Authorize, Promise!Withdraw
  <2>3. /\ stageBar' \in [ChangeSet -> {"unplanned", "planned", "authorized", "spent", "void"}]
        /\ heldBar \subseteq {d \in ChangeSet : stageBar'[d] = "spent"}
        /\ writtenBar \subseteq {d \in ChangeSet : stageBar'[d] \in {"spent", "void"}}
    BY <2>2, OneMove
  <2>. HIDE DEF stageBar, heldBar, writtenBar, openBar, abandonedBar
  <2>4. QED
    BY <2>1, <2>3 DEF PromisedToOne
<1>2. ASSUME NEW c \in ChangeSet, Promise!Acquire(c)
      PROVE  PromisedToOne'
  BY <1>2, OneMove DEF PromisedToOne, Promise!Acquire
<1>3. ASSUME NEW c \in ChangeSet, Promise!Write(c) \/ Promise!Close(c)
      PROVE  PromisedToOne'
  BY <1>3 DEF PromisedToOne, Promise!Write, Promise!Close
<1>4. ASSUME NEW c \in ChangeSet, Promise!LetGo(c) \/ Promise!Abandon(c)
      PROVE  PromisedToOne'
  BY <1>4 DEF PromisedToOne, Promise!LetGo, Promise!Abandon
<1>5. CASE Promise!Forget
  BY <1>5 DEF PromisedToOne, Promise!Forget
<1>6. CASE UNCHANGED Promise!vars
  BY <1>6 DEF PromisedToOne, Promise!vars
<1>7. QED
  BY <1>1, <1>2, <1>3, <1>4, <1>5, <1>6 DEF Promise!Next

(* Whoever keeps the promise gives the tenant to one change set at a time, *)
(* and lets nobody write who was not authorized for it.                    *)
THEOREM PromiseIsToOne == KeepsPromise => []PromisedToOne
BY PromisedInit, PromisedStep, PTL DEF KeepsPromise, Promise!Spec

(* So the write path has it: apply takes a tenant that nobody holds, and a *)
(* tenant is not let go of over a request SDC may still act on, but by a   *)
(* discard or the restart of a server without a state file (change.rs).    *)
THEOREM WritesAreExclusive == Spec => []PromisedToOne
BY KeepsPromiseHolds, PromiseIsToOne, PTL
=============================================================================
