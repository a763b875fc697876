---------------------------- MODULE ChangeControl ----------------------------
(***************************************************************************)
(* The write path of the server: prepare, approve (or waive), apply and    *)
(* discard a change set, for the six kinds of mutation the server offers.  *)
(*                                                                         *)
(* One change set c carries one prepared change.  apply runs a handler     *)
(* that walks the shared coordinator through stage, diff, validate and     *)
(* commit; pc[c] is where that handler stands, op[c] is the coordinator's  *)
(* record of the operation, and wire[c] is what has become of the request  *)
(* at SDC, which the handler only learns through a reply, a poll or an     *)
(* error.  Everything at SDC, the coordinator's tables and every other     *)
(* principal move between any two steps of a handler.                      *)
(*                                                                         *)
(* The coordinator (crate mecmcp-changeset) is external: its operations    *)
(* are modelled from how src/ calls them and documents them.               *)
(***************************************************************************)
EXTENDS Naturals, Sequences, FiniteSets, Outcomes

CONSTANTS
  ChangeSet,     \* identifiers of change sets, one operation each
  Principal,     \* token names that may prepare, approve, apply, discard
  Human,         \* the principals whose actor type is Human
  Kinds,         \* the kinds of mutation a run exercises
  LabMode,       \* --lab-mode: the second principal is waived
  Durable,       \* a change-set state file is configured
  MaxVersion,    \* bound: out-of-band writers stop at this version
  MaxRestarts,   \* bound: restarts of the server process
  None           \* no principal, no version, no cause

AllKinds == {"policy_deploy", "object_write", "firewall_write", "nat_write",
             "license_write", "device_sync"}

(* Why an operation was cleared: by its own handler, by an operator, by a   *)
(* restart that read the state file, by a restart without one.              *)
Causes == {"release", "operator", "recovery", "amnesia"}

ASSUME HumanAssumption    == Human \subseteq Principal
ASSUME KindsAssumption    == Kinds \subseteq AllKinds
ASSUME ModesAssumption    == LabMode \in BOOLEAN /\ Durable \in BOOLEAN
ASSUME BoundsAssumption   == MaxVersion \in Nat /\ MaxRestarts \in Nat
ASSUME NoneAssumption     == None \notin Principal \cup ChangeSet \cup Nat \cup Causes

VARIABLES
  hist,       \* SDC: per target, who wrote each version (None: out of band)
  wire,       \* SDC: what became of the request of c
  base,       \* SDC: the version the write of c landed on
  phase,      \* change set: planned, approved, consumed by apply, expired
  kind,       \* change set: kind of its prepared change
  owner,      \* change set: the principal that prepared it
  before,     \* change set: the version read at prepare, None for a create
  approver,   \* change set: the approving principal
  waived,     \* change set: approval_waiver is "lab-mode"
  op,         \* operation: the coordinator's state
  pc,         \* handler: where it stands
  refused,    \* handler: the transaction's refused_before_write flag
  result,     \* history: what the client reported to the transaction
  clearedBy,  \* history: who cleared the operation without an outcome
  requests,   \* history: mutating requests put on the wire for c
  restarts    \* history: restarts so far

sdcVars     == <<hist, wire, base>>
setVars     == <<phase, kind, owner, before, approver, waived>>
handlerVars == <<op, pc, refused>>
ghostVars   == <<result, clearedBy, requests, restarts>>
vars        == <<sdcVars, setVars, handlerVars, ghostVars>>

-----------------------------------------------------------------------------
(* What a kind of mutation reads, writes and checks *)

Targets == {"firewall_policy", "object", "nat_policy", "device", "inventory"}

(* The thing whose state is read at prepare.  A deploy previews, and later *)
(* pushes, the firewall policy it names.                                   *)
TargetOf(k) ==
  CASE k \in {"policy_deploy", "firewall_write"} -> "firewall_policy"
    [] k = "object_write"  -> "object"
    [] k = "nat_write"     -> "nat_policy"
    [] k = "license_write" -> "device"
    [] OTHER               -> "inventory"

Creating == {"object_write", "firewall_write", "nat_write"}
JobKinds == {"policy_deploy", "license_write", "device_sync"}

Rechecks(k) == k # "policy_deploy"   \* has a target_unchanged and a flag
Version(c)  == Len(hist[TargetOf(kind[c])])

(* target_unchanged: a create has no prior state and is vacuously unchanged *)
Unchanged(c) == before[c] = None \/ before[c] = Version(c)

-----------------------------------------------------------------------------
(* How a client result becomes the recorded state of the operation.        *)
(*                                                                         *)
(* Here and below, a definition marked "slip" is a form of the one after   *)
(* it with a mistake that is easy to make; nothing uses it, and the mutant *)
(* list of PROJECT.json says which property notices the mistake.           *)

DeployRecord(r) ==
  CASE r = "succeeded"                 -> "committed"
    [] r \in {"deadline", "cancelled"} -> "indeterminate"
    [] OTHER                           -> "failed"

(* slip: a timeout is an error like any other *)
ObjectRecordTimeoutFails(r) ==
  CASE r = "ok"                       -> "committed"
    [] r \in {"cancelled", "unknown"} -> "indeterminate"
    [] OTHER                          -> "failed"

ObjectRecord(r) ==
  CASE r = "ok"                                  -> "committed"
    [] r \in {"cancelled", "timeout", "unknown"} -> "indeterminate"
    [] OTHER                                     -> "failed"

(* slip: a request that went unanswered went through *)
FirewallRecordOptimistic(r) ==
  CASE r \in {"ok", "cancelled"}     -> "committed"
    [] r \in {"timeout", "unknown"}  -> "indeterminate"
    [] OTHER                         -> "failed"

FirewallRecord(r) ==
  CASE r = "ok"                                  -> "committed"
    [] r \in {"cancelled", "timeout", "unknown"} -> "indeterminate"
    [] OTHER                                     -> "failed"

(* slip: an accepted write with an unreadable body is an error *)
NatRecordUnreadableFails(r) ==
  CASE r = "ok"                       -> "committed"
    [] r \in {"cancelled", "timeout"} -> "indeterminate"
    [] OTHER                          -> "failed"

NatRecord(r) ==
  CASE r = "ok"                                  -> "committed"
    [] r \in {"cancelled", "timeout", "unknown"} -> "indeterminate"
    [] OTHER                                     -> "failed"

(* slip: a job that has not failed by the deadline has succeeded *)
LicenseRecordOptimistic(r) ==
  IF r \in {"succeeded", "deadline"} THEN "committed" ELSE "failed"

LicenseRecord(r) == IF r = "succeeded" THEN "committed" ELSE "failed"

(* slip: the overall status is trusted, the failures per device are not read *)
SyncRecordIgnoresFailures(r) ==
  CASE r \in {"succeeded", "unsuccessful"} -> "committed"
    [] r \in {"unknown", "cancelled", "no_job_id", "deadline", "poll_error"}
                       -> "indeterminate"
    [] OTHER           -> "failed"

(* from_submit keeps "unknown" and "cancelled" after the submission; every *)
(* error while polling, and a 2xx without an id, is after it by place.     *)
SyncRecord(r) ==
  CASE r = "succeeded" -> "committed"
    [] r \in {"unknown", "cancelled", "no_job_id", "deadline", "poll_error"}
                       -> "indeterminate"
    [] OTHER           -> "failed"

Record(k, r) ==
  CASE k = "policy_deploy"  -> DeployRecord(r)
    [] k = "object_write"   -> ObjectRecord(r)
    [] k = "firewall_write" -> FirewallRecord(r)
    [] k = "nat_write"      -> NatRecord(r)
    [] k = "license_write"  -> LicenseRecord(r)
    [] OTHER                -> SyncRecord(r)

-----------------------------------------------------------------------------
(* The coordinator's classes of operation states *)

Blocking    == {"staged", "validating", "validated", "committing", "failed",
                "indeterminate"}
Discardable == {"staged", "validated", "failed"}

(* slip: only an operation that is under way blocks the next *)
TenantFreeOfRunning ==
  \A c \in ChangeSet : op[c] \notin {"staged", "validating", "validated", "committing"}

TenantFree == \A c \in ChangeSet : op[c] \notin Blocking

Init ==
  /\ hist = [t \in Targets |-> <<>>]
  /\ wire = [c \in ChangeSet |-> "unsent"]
  /\ base = [c \in ChangeSet |-> None]
  /\ phase = [c \in ChangeSet |-> "none"]
  /\ kind = [c \in ChangeSet |-> None]
  /\ owner = [c \in ChangeSet |-> None]
  /\ before = [c \in ChangeSet |-> None]
  /\ approver = [c \in ChangeSet |-> None]
  /\ waived = [c \in ChangeSet |-> FALSE]
  /\ op = [c \in ChangeSet |-> "none"]
  /\ pc = [c \in ChangeSet |-> "idle"]
  /\ refused = [c \in ChangeSet |-> FALSE]
  /\ result = [c \in ChangeSet |-> None]
  /\ clearedBy = [c \in ChangeSet |-> None]
  /\ requests = [c \in ChangeSet |-> 0]
  /\ restarts = 0

-----------------------------------------------------------------------------
(* Planning and approval *)

(* prepare reads the target (or resolves the preview) and records the plan. *)
(* In lab mode the same handler then goes on to waive the approval.         *)
Prepare(c, p, k) ==
  /\ phase[c] = "none"
  /\ phase' = [phase EXCEPT ![c] = "planned"]
  /\ kind' = [kind EXCEPT ![c] = k]
  /\ owner' = [owner EXCEPT ![c] = p]
  /\ \/ before' = [before EXCEPT ![c] = Len(hist[TargetOf(k)])]
     \/ k \in Creating /\ UNCHANGED before
  /\ pc' = [pc EXCEPT ![c] = IF LabMode THEN "waiving" ELSE "idle"]
  /\ UNCHANGED <<sdcVars, approver, waived, op, refused, ghostVars>>

(* slip: the waiver names someone as the approver *)
WaiveNamesApprover(c) ==
  /\ pc[c] = "waiving"
  /\ phase[c] = "planned"
  /\ pc' = [pc EXCEPT ![c] = "idle"]
  /\ phase' = [phase EXCEPT ![c] = "approved"]
  /\ waived' = [waived EXCEPT ![c] = TRUE]
  /\ approver' = [approver EXCEPT ![c] = owner[c]]
  /\ UNCHANGED <<sdcVars, kind, owner, before, op, refused, ghostVars>>

Waive(c) ==
  /\ pc[c] = "waiving"
  /\ pc' = [pc EXCEPT ![c] = "idle"]
  /\ \/ /\ phase[c] = "planned"
        /\ phase' = [phase EXCEPT ![c] = "approved"]
        /\ waived' = [waived EXCEPT ![c] = TRUE]
     \/ UNCHANGED <<phase, waived>>         \* the coordinator refused
  /\ UNCHANGED <<sdcVars, kind, owner, before, approver, op, refused, ghostVars>>

(* slip: the owner may approve *)
ApproveByOwner(c, p) ==
  /\ phase[c] = "planned"
  /\ p \in Human
  /\ phase' = [phase EXCEPT ![c] = "approved"]
  /\ approver' = [approver EXCEPT ![c] = p]
  /\ UNCHANGED <<sdcVars, kind, owner, before, waived, handlerVars, ghostVars>>

Approve(c, p) ==
  /\ phase[c] = "planned"
  /\ p \in Human
  /\ p # owner[c]
  /\ phase' = [phase EXCEPT ![c] = "approved"]
  /\ approver' = [approver EXCEPT ![c] = p]
  /\ UNCHANGED <<sdcVars, kind, owner, before, waived, handlerVars, ghostVars>>

Expire(c) ==
  /\ phase[c] \in {"planned", "approved"}
  /\ phase' = [phase EXCEPT ![c] = "expired"]
  /\ UNCHANGED <<sdcVars, kind, owner, before, approver, waived, handlerVars,
                 ghostVars>>

-----------------------------------------------------------------------------
(* The apply handler *)

(* slip: the approval is not consumed *)
ApplyKeepsApproval(c) ==
  /\ pc[c] = "idle"
  /\ phase[c] = "approved"
  /\ TenantFree
  /\ op' = [op EXCEPT ![c] = "staged"]
  /\ pc' = [pc EXCEPT ![c] = "diffing"]
  /\ UNCHANGED <<sdcVars, setVars, refused, ghostVars>>

(* apply_change_set: consumes the approval and stages the one operation of *)
(* the tenant.  A refused call changes nothing.                            *)
ApplyChangeSet(c) ==
  /\ pc[c] = "idle"
  /\ phase[c] = "approved"
  /\ TenantFree
  /\ phase' = [phase EXCEPT ![c] = "applied"]
  /\ op' = [op EXCEPT ![c] = "staged"]
  /\ pc' = [pc EXCEPT ![c] = "diffing"]
  /\ UNCHANGED <<sdcVars, kind, owner, before, approver, waived, refused,
                 ghostVars>>

DiffOperation(c) ==
  /\ pc[c] = "diffing"
  /\ op[c] = "staged"
  /\ pc' = [pc EXCEPT ![c] = "validate"]
  /\ UNCHANGED <<sdcVars, setVars, op, refused, ghostVars>>

(* slip: the handler is dropped while the coordinator runs a validation *)
CoordinatorDropped(c) ==
  /\ pc[c] \in {"diffing", "validate", "validating", "commit"}
  /\ pc' = [pc EXCEPT ![c] = "idle"]
  /\ UNCHANGED <<sdcVars, setVars, op, refused, ghostVars>>

(* The coordinator refuses the handler's next call: the operation moved    *)
(* under it, the caller went away, the record could not be written.  Only  *)
(* a failed validation is followed by a release, and never for a deploy.   *)
CoordinatorRefuses(c) ==
  /\ pc[c] \in {"diffing", "validate", "commit"}
  /\ pc' = [pc EXCEPT ![c] =
              IF @ = "validate" /\ Rechecks(kind[c]) THEN "releasing" ELSE "idle"]
  /\ UNCHANGED <<sdcVars, setVars, op, refused, ghostVars>>

BeginValidate(c) ==
  /\ pc[c] = "validate"
  /\ op[c] = "staged"
  /\ op' = [op EXCEPT ![c] = "validating"]
  /\ pc' = [pc EXCEPT ![c] = "validating"]
  /\ UNCHANGED <<sdcVars, setVars, refused, ghostVars>>

Validated(c) ==
  /\ pc[c] = "validating"
  /\ Rechecks(kind[c]) => Unchanged(c)
  /\ op' = [op EXCEPT ![c] = "validated"]
  /\ pc' = [pc EXCEPT ![c] = "commit"]
  /\ UNCHANGED <<sdcVars, setVars, refused, ghostVars>>

(* Drift, or the read behind the check failed. *)
ValidationFails(c) ==
  /\ pc[c] = "validating"
  /\ op' = [op EXCEPT ![c] = "failed"]
  /\ pc' = [pc EXCEPT ![c] = IF Rechecks(kind[c]) THEN "releasing" ELSE "idle"]
  /\ UNCHANGED <<sdcVars, setVars, refused, ghostVars>>

BeginCommit(c) ==
  /\ pc[c] = "commit"
  /\ op[c] = "validated"
  /\ op' = [op EXCEPT ![c] = "committing"]
  /\ refused' = [refused EXCEPT ![c] = Rechecks(kind[c])]
  /\ pc' = [pc EXCEPT ![c] = IF Rechecks(kind[c]) THEN "checking" ELSE "sending"]
  /\ UNCHANGED <<sdcVars, setVars, ghostVars>>

(* slip: the flag is not taken back when the request goes out *)
RecheckKeepsFlag(c) ==
  /\ pc[c] = "checking"
  /\ Unchanged(c)
  /\ pc' = [pc EXCEPT ![c] = "sending"]
  /\ UNCHANGED <<sdcVars, setVars, op, refused, ghostVars>>

RecheckPasses(c) ==
  /\ pc[c] = "checking"
  /\ Unchanged(c)
  /\ refused' = [refused EXCEPT ![c] = FALSE]
  /\ pc' = [pc EXCEPT ![c] = "sending"]
  /\ UNCHANGED <<sdcVars, setVars, op, ghostVars>>

RecheckFails(c) ==
  /\ pc[c] = "checking"
  /\ op' = [op EXCEPT ![c] = "failed"]
  /\ pc' = [pc EXCEPT ![c] = IF refused[c] THEN "releasing" ELSE "idle"]
  /\ UNCHANGED <<sdcVars, setVars, refused, ghostVars>>

(* commit returns: the coordinator records the outcome, and the handler    *)
(* releases a failed operation whose flag says nothing was sent.           *)
Settle(c, r) ==
  /\ result' = [result EXCEPT ![c] = r]
  /\ op' = [op EXCEPT ![c] = Record(kind[c], r)]
  /\ pc' = [pc EXCEPT ![c] =
              IF Record(kind[c], r) = "failed" /\ refused[c]
              THEN "releasing" ELSE "idle"]
  /\ UNCHANGED <<sdcVars, setVars, refused, clearedBy, requests, restarts>>

(* The client fails before the request leaves. *)
SendFails(c) ==
  /\ pc[c] = "sending"
  /\ \E r \in LocalFailures : Settle(c, r)

Dispatch(c) ==
  /\ pc[c] = "sending"
  /\ wire' = [wire EXCEPT ![c] = "inflight"]
  /\ requests' = [requests EXCEPT ![c] = @ + 1]
  /\ pc' = [pc EXCEPT ![c] = "awaiting"]
  /\ UNCHANGED <<hist, base, setVars, op, refused, result, clearedBy, restarts>>

(* SDC answered the mutating request of c with a success status. *)
Accepted(c) == wire[c] \in Taken

Answers(c) == AnswersTo(wire[c], kind[c] \in JobKinds)

Answer(c) ==
  /\ pc[c] = "awaiting"
  /\ \E r \in Answers(c) : Settle(c, r)

JobAccepted(c) ==
  /\ pc[c] = "awaiting"
  /\ Accepted(c)
  /\ kind[c] \in JobKinds
  /\ pc' = [pc EXCEPT ![c] = "polling"]
  /\ UNCHANGED <<sdcVars, setVars, op, refused, ghostVars>>

(* slip: a poll without a deadline, for a caller that does not go away *)
PollResultsUnbounded(c) ==
  (IF wire[c] = "landed" THEN {"succeeded"} ELSE {})
    \cup (IF wire[c] \in {"partial", "aborted"} THEN {"unsuccessful"} ELSE {})

PollResults(c) == PollAnswers(wire[c])

Poll(c) ==
  /\ pc[c] = "polling"
  /\ \E r \in PollResults(c) : Settle(c, r)

(* discard_operation on behalf of the handler; it may be refused. *)
Release(c) ==
  /\ pc[c] = "releasing"
  /\ pc' = [pc EXCEPT ![c] = "idle"]
  /\ \/ /\ op[c] \in Discardable
        /\ op' = [op EXCEPT ![c] = "discarded"]
        /\ clearedBy' = [clearedBy EXCEPT ![c] = "release"]
     \/ UNCHANGED <<op, clearedBy>>
  /\ UNCHANGED <<sdcVars, setVars, refused, result, requests, restarts>>

HandlerStep(c) ==
  \/ Waive(c)
  \/ DiffOperation(c)
  \/ CoordinatorRefuses(c)
  \/ BeginValidate(c)
  \/ Validated(c)
  \/ ValidationFails(c)
  \/ BeginCommit(c)
  \/ RecheckPasses(c)
  \/ RecheckFails(c)
  \/ SendFails(c)
  \/ Dispatch(c)
  \/ Answer(c)
  \/ JobAccepted(c)
  \/ Poll(c)
  \/ Release(c)

-----------------------------------------------------------------------------
(* The operator, SDC and the process *)

(* slip: an operator may clear an unknown outcome *)
DiscardUnknown(c) ==
  /\ op[c] \in Discardable \cup {"indeterminate"}
  /\ op' = [op EXCEPT ![c] = "discarded"]
  /\ clearedBy' = [clearedBy EXCEPT ![c] = "operator"]
  /\ UNCHANGED <<sdcVars, setVars, pc, refused, result, requests, restarts>>

(* discard_sdc_operation, called by the owner of c. *)
Discard(c) ==
  /\ op[c] \in Discardable
  /\ op' = [op EXCEPT ![c] = "discarded"]
  /\ clearedBy' = [clearedBy EXCEPT ![c] = "operator"]
  /\ UNCHANGED <<sdcVars, setVars, pc, refused, result, requests, restarts>>

(* The write of c takes effect at SDC, in full ("landed") or on some of    *)
(* its devices ("partial").  A deploy pushes the live policy, whatever its *)
(* version is by then, and does not change it.                             *)
Land(c, how) ==
  /\ wire' = [wire EXCEPT ![c] = how]
  /\ base' = [base EXCEPT ![c] = Version(c)]
  /\ hist' = IF kind[c] = "policy_deploy" \/ before[c] = None THEN hist
             ELSE [hist EXCEPT ![TargetOf(kind[c])] = Append(@, c)]

SdcAnswers(c) ==
  /\ wire[c] = "inflight"
  /\ \/ /\ \E w \in {"rejected", "lost"} : wire' = [wire EXCEPT ![c] = w]
        /\ UNCHANGED <<hist, base>>
     \/ /\ kind[c] \in JobKinds
        /\ wire' = [wire EXCEPT ![c] = "running"]
        /\ UNCHANGED <<hist, base>>
     \/ kind[c] \notin JobKinds /\ Land(c, "landed")
  /\ UNCHANGED <<setVars, handlerVars, ghostVars>>

SdcJobEnds(c) ==
  /\ wire[c] = "running"
  /\ \/ \E how \in {"landed", "partial"} : Land(c, how)
     \/ wire' = [wire EXCEPT ![c] = "aborted"] /\ UNCHANGED <<hist, base>>
  /\ UNCHANGED <<setVars, handlerVars, ghostVars>>

(* Someone works directly against SDC. *)
OutOfBandWrite(t) ==
  /\ Len(hist[t]) < MaxVersion
  /\ hist' = [hist EXCEPT ![t] = Append(@, None)]
  /\ UNCHANGED <<wire, base, setVars, handlerVars, ghostVars>>

(* slip: whatever was under way is dropped *)
RecoveredDropsAll(s) ==
  IF s \in {"staged", "validating", "validated", "committing"} THEN "discarded" ELSE s

(* The process dies and comes back.  With a state file, StagedRecovery::   *)
(* Discard drops what had not begun to commit and what was committing has  *)
(* an unknown outcome; without one nothing is remembered.                  *)
Recovered(s) ==
  CASE s \in {"staged", "validating", "validated"} -> "discarded"
    [] s = "committing"                            -> "indeterminate"
    [] OTHER                                       -> s

Restart ==
  /\ restarts < MaxRestarts
  /\ restarts' = restarts + 1
  /\ pc' = [c \in ChangeSet |-> "idle"]
  /\ refused' = [c \in ChangeSet |-> FALSE]
  /\ \/ /\ Durable
        /\ op' = [c \in ChangeSet |-> Recovered(op[c])]
        /\ clearedBy' = [c \in ChangeSet |->
                           IF op[c] # Recovered(op[c]) /\ Recovered(op[c]) = "discarded"
                           THEN "recovery" ELSE clearedBy[c]]
        /\ UNCHANGED phase
     \/ /\ ~Durable
        /\ op' = [c \in ChangeSet |-> "none"]
        /\ clearedBy' = [c \in ChangeSet |->
                           IF op[c] \in Blocking THEN "amnesia" ELSE clearedBy[c]]
        /\ phase' = [c \in ChangeSet |->
                       IF phase[c] = "none" THEN "none" ELSE "forgotten"]
  /\ UNCHANGED <<sdcVars, kind, owner, before, approver, waived, result, requests>>

Next ==
  \/ \E c \in ChangeSet, p \in Principal, k \in Kinds : Prepare(c, p, k)
  \/ \E c \in ChangeSet, p \in Principal : Approve(c, p)
  \/ \E c \in ChangeSet : Expire(c)
  \/ \E c \in ChangeSet : ApplyChangeSet(c)
  \/ \E c \in ChangeSet : HandlerStep(c)
  \/ \E c \in ChangeSet : Discard(c)
  \/ \E c \in ChangeSet : SdcAnswers(c)
  \/ \E c \in ChangeSet : SdcJobEnds(c)
  \/ \E k \in Kinds : OutOfBandWrite(TargetOf(k))
  \/ Restart

Spec == Init /\ [][Next]_vars

(* A handler that runs always gets a step: every wait of it is bounded by  *)
(* the request timeout, the poll deadline or the caller's cancellation.    *)
(* Nothing is assumed of SDC, of the principals or of the operator.        *)
Fairness == \A c \in ChangeSet : WF_vars(HandlerStep(c))

FairSpec == Spec /\ Fairness
-----------------------------------------------------------------------------
(* Properties *)

Results == LocalFailures \cup {"api", "unknown", "no_job_id", "ok", "deadline",
                               "poll_error", "succeeded", "unsuccessful"}
WireStates == {"unsent", "inflight", "rejected", "lost", "running", "landed",
               "partial", "aborted"}
Phases     == {"none", "planned", "approved", "applied", "expired", "forgotten"}
OpStates   == Blocking \cup {"none", "committed", "discarded"}
HandlerPcs == {"idle", "waiving", "diffing", "validate", "validating", "commit",
               "checking", "sending", "awaiting", "polling", "releasing"}

(* Every variable keeps to the values the program gives it. *)
TypeOK ==
  /\ hist \in [Targets -> Seq(ChangeSet \cup {None})]
  /\ wire \in [ChangeSet -> WireStates]
  /\ base \in [ChangeSet -> Nat \cup {None}]
  /\ phase \in [ChangeSet -> Phases]
  /\ kind \in [ChangeSet -> Kinds \cup {None}]
  /\ owner \in [ChangeSet -> Principal \cup {None}]
  /\ before \in [ChangeSet -> Nat \cup {None}]
  /\ approver \in [ChangeSet -> Principal \cup {None}]
  /\ waived \in [ChangeSet -> BOOLEAN]
  /\ op \in [ChangeSet -> OpStates]
  /\ pc \in [ChangeSet -> HandlerPcs]
  /\ refused \in [ChangeSet -> BOOLEAN]
  /\ result \in [ChangeSet -> Results \cup {None}]
  /\ clearedBy \in [ChangeSet -> Causes \cup {None}]
  /\ requests \in [ChangeSet -> Nat]
  /\ restarts \in Nat

Sent(c)      == wire[c] # "unsent"
Unsettled(c) == wire[c] \in {"inflight", "running"}
MayTakeHold(c) == wire[c] \in {"inflight", "running", "landed", "partial"}

(* An approval by a second human principal, or the recorded waiver. *)
ApprovedByOther(c) ==
  approver[c] \in Human /\ approver[c] # owner[c] /\ ~waived[c]
WaivedInLab(c) == LabMode /\ waived[c] /\ approver[c] = None

(* A request reaches SDC only for a change set that a human other than its *)
(* owner approved, or that lab mode waived, and the record says which of   *)
(* the two it was: never both, and no approver next to a waiver.           *)
TwoPersonRule == \A c \in ChangeSet : Sent(c) => ApprovedByOther(c) \/ WaivedInLab(c)

(* The record of c was given up by an operator, or lost with the memory of *)
(* a process that keeps no state file.                                     *)
GivenUp(c) == clearedBy[c] = "operator" \/ (~Durable /\ clearedBy[c] = "amnesia")

(* While SDC may still act on a request of this server, its operation      *)
(* keeps the tenant blocked, whatever the handler was told or however it   *)
(* died: only an operator's discard, or amnesia, lets go of it.            *)
UnsettledWriteBlocks ==
  \A c \in ChangeSet : Unsettled(c) => op[c] \in Blocking \/ GivenUp(c)

(* SDC never has two requests of this server to act on at the same time,   *)
(* unless one of them was given up.                                        *)
ExclusiveWriter ==
  \A c, d \in ChangeSet :
    Unsettled(c) /\ Unsettled(d) /\ c # d => GivenUp(c) \/ GivenUp(d)

(* An operation that the handler released by itself, or that recovery      *)
(* dropped, never had a request on the wire: "the planned write was        *)
(* discarded" is true when it is said.                                     *)
ReleaseIsTruthful ==
  \A c \in ChangeSet : clearedBy[c] \in {"release", "recovery"} => ~Sent(c)

(* One approval is worth one request: no retry, second apply, release or   *)
(* restart puts the mutation of a change set on the wire again.            *)
AtMostOneRequest == \A c \in ChangeSet : requests[c] <= 1

(* A committed record is the truth about SDC. *)
CommittedMeansLanded ==
  \A c \in ChangeSet : op[c] = "committed" => wire[c] = "landed"

(* A drift-checked write that lands overwrites no version written by       *)
(* another change set of this server after its own prepare, unless one of  *)
(* the two had been given up.                                              *)
NoLostUpdate ==
  \A c \in ChangeSet :
    wire[c] \in {"landed", "partial"} /\ Rechecks(kind[c]) /\ before[c] # None =>
      \A v \in (before[c] + 1)..base[c] :
        LET w == hist[TargetOf(kind[c])][v]
        IN  w # None => GivenUp(w) \/ GivenUp(c)

(* The results after which a write that is discarded as failed may all the *)
(* same have taken hold at SDC, per kind.                                  *)
KnownGaps(k) ==
  CASE k \in Creating       -> {"transport"}
    [] k = "device_sync"    -> {"transport", "timeout", "unsuccessful"}
    [] k = "policy_deploy"  -> {"transport", "timeout", "unknown", "no_job_id",
                                "poll_error", "unsuccessful"}
    [] OTHER                -> {"transport", "timeout", "cancelled", "unknown",
                                "no_job_id", "deadline", "poll_error",
                                "unsuccessful"}

(* Those are all the gaps: with any other result the outcome was recorded  *)
(* as committed, as indeterminate, or nothing had happened at SDC.         *)
NoOtherGap ==
  \A c \in ChangeSet :
    op[c] = "discarded" /\ MayTakeHold(c) => result[c] \in KnownGaps(kind[c])

(* The two states that no discard can clear are only ever held by a        *)
(* handler that is running: none is left behind, not even by a restart.    *)
TransientIsOwned ==
  \A c \in ChangeSet : op[c] \in {"validating", "committing"} => pc[c] # "idle"

(* An outcome recorded as unknown stays so: nothing in the server turns it *)
(* into a success or a discard behind the operator's back.                 *)
IndeterminateSticks ==
  [][\A c \in ChangeSet : op[c] = "indeterminate" /\ Durable =>
                            op'[c] = "indeterminate"]_vars

(* Every operation leaves the states no discard can clear, however long    *)
(* SDC takes and whether or not it answers.                                *)
TransientSettles ==
  \A c \in ChangeSet :
    op[c] \in {"validating", "committing"} ~>
      op[c] \notin {"validating", "committing"}
-----------------------------------------------------------------------------
(* The inductive invariant behind the safety properties *)

Uncommitted == {"none", "staged", "validating", "validated"}
Sending     == {"checking", "sending", "awaiting", "polling"}

(* Approvals are recorded once, before anything is applied. *)
PlanInv(c) ==
  /\ phase[c] # "none" => kind[c] \in Kinds
  /\ phase[c] \in {"none", "planned"} => approver[c] = None /\ ~waived[c]
  /\ phase[c] \in {"approved", "applied"} \/ Sent(c) => ApprovedByOther(c) \/ WaivedInLab(c)
  /\ phase[c] # "applied" => op[c] = "none" /\ pc[c] \in {"idle", "waiving"}
  /\ phase[c] \notin {"applied", "forgotten"} => ~Sent(c)
  /\ pc[c] = "waiving" => LabMode /\ phase[c] \notin {"applied", "forgotten", "none"}

(* The handler and the record agree on the two states no discard clears,   *)
(* and only a handler past its checks has a request out.                   *)
StepInv(c) ==
  /\ op[c] = "validating" <=> pc[c] = "validating"
  /\ op[c] = "committing" <=> pc[c] \in Sending
  /\ pc[c] \notin {"idle", "awaiting", "polling"} => ~Sent(c)
  /\ op[c] \in Uncommitted /\ phase[c] # "forgotten" => ~Sent(c)
  /\ refused[c] => ~Sent(c)
  /\ pc[c] = "sending" => ~refused[c]
  /\ requests[c] = IF Sent(c) THEN 1 ELSE 0
  /\ wire[c] \in {"running", "partial", "aborted"} => kind[c] \in JobKinds
  /\ pc[c] = "polling" => kind[c] \in JobKinds

(* What the record says of the request. *)
RecordInv(c) ==
  /\ op[c] = "committed" => wire[c] = "landed"
  /\ Unsettled(c) => op[c] \in Blocking \/ GivenUp(c)
  /\ clearedBy[c] \in {"release", "recovery"} => ~Sent(c) /\ op[c] \in {"discarded", "none"}
  /\ clearedBy[c] # None => op[c] \in {"discarded", "none"}
  /\ clearedBy[c] = "amnesia" => ~Durable
  /\ op[c] \in {"failed", "discarded"} /\ MayTakeHold(c) => result[c] \in KnownGaps(kind[c])
  /\ phase[c] \notin {"applied", "forgotten"} => clearedBy[c] = None

OneBlocking ==
  \A c, d \in ChangeSet : op[c] \in Blocking /\ op[d] \in Blocking => c = d

(* The handler, the record and the request of every change set agree step  *)
(* by step, and at most one operation of the tenant blocks it.             *)
LocalInv(c) == PlanInv(c) /\ StepInv(c) /\ RecordInv(c)

IndInv ==
  /\ \A c \in ChangeSet : LocalInv(c)
  /\ OneBlocking

-----------------------------------------------------------------------------
(* What comments and documents of the repository say, and the code does    *)
(* not do: each of these is violated, by the run README.md names.          *)

(* "every state that gets here is pre-commit and nothing was written": a   *)
(* comment infers it from the states a discard is accepted in, one of      *)
(* which is a failure recorded after the request was sent.                 *)
NothingWasWritten ==
  \A c \in ChangeSet :
    op[c] = "discarded" /\ kind[c] \in {"object_write", "license_write"} =>
      wire[c] \notin {"landed", "partial"}

(* "drift is still detected against the state observed at prepare": no     *)
(* plan is validated at apply once its target has moved.                   *)
DriftIsDetected ==
  [][\A c \in ChangeSet :
       op[c] = "validating" /\ op'[c] = "validated" => Unchanged(c)]_vars
=============================================================================
