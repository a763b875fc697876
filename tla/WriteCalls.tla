----------------------------- MODULE WriteCalls -----------------------------
(***************************************************************************)
(* The write path on the client it really has: a handler that commits      *)
(* makes a call of the HTTP client of its tenant, and what that call       *)
(* returns is what the transaction records.                                *)
(*                                                                         *)
(* ChangeControl assumes that a client can return, in one step, anything   *)
(* the contract of Outcomes allows.  Here the result is the one Requests   *)
(* works out, through permits shared with readers, polls, retries and      *)
(* timeouts.  wire is common to both: it is what SDC made of the request.  *)
(* The names the two modules share are the client's; of the write path,    *)
(* kind is "change", pc is "at", and result is "told".                     *)
(***************************************************************************)
EXTENDS Requests

CONSTANTS
  ChangeSet,     \* a change set is the call that its handler makes ...
  Principal, Human, Kinds, LabMode, Durable, MaxVersion, MaxRestarts

VARIABLES
  hist, base, phase, change, owner, before, approver, waived, op, at, refused,
  told, clearedBy, requests, restarts

wireBar == [c \in ChangeSet |-> wire[c]]

Write == INSTANCE ChangeControlProofs
           WITH kind <- change, pc <- at, result <- told, wire <- wireBar

ASSUME ChangeSetAssumption == ChangeSet \subseteq Call   \* ... the others read
ASSUME HumanAssumption     == Human \subseteq Principal
ASSUME KindsAssumption     == Kinds \subseteq Write!AllKinds
ASSUME ModesAssumption     == LabMode \in BOOLEAN /\ Durable \in BOOLEAN
ASSUME BoundsAssumption    == MaxVersion \in Nat /\ MaxRestarts \in Nat
ASSUME NobodyAssumption    == None \notin Principal \cup ChangeSet \cup Nat \cup Write!Causes

writeVars == <<hist, base, phase, change, owner, before, approver, waived, op, at,
               refused, told, clearedBy, requests, restarts>>
allVars   == <<vars, writeVars>>

InitAll == Init /\ Write!Init

-----------------------------------------------------------------------------
(* What the write path does by itself *)

(* The request of a handler that commits is a job for some kinds.  *)
CallKind(c) == IF change[c] \in Write!JobKinds THEN "job" ELSE "write"

Plan(c) ==
  /\ UNCHANGED vars
  /\ \/ \E p \in Principal, k \in Kinds : Write!Prepare(c, p, k)
     \/ \E p \in Principal : Write!Approve(c, p)
     \/ Write!Expire(c)
     \/ Write!ApplyChangeSet(c)
     \/ Write!Discard(c)

(* The steps of the handler between its calls.  The reads among them are   *)
(* over within a bound of their own (Requests!EveryCallReturns).           *)
Handle(c) ==
  /\ UNCHANGED vars
  /\ \/ Write!Waive(c)
     \/ Write!DiffOperation(c)
     \/ Write!CoordinatorRefuses(c)
     \/ Write!BeginValidate(c)
     \/ Write!Validated(c)
     \/ Write!ValidationFails(c)
     \/ Write!BeginCommit(c)
     \/ Write!RecheckPasses(c)
     \/ Write!RecheckFails(c)
     \/ Write!Release(c)

OutOfBand == UNCHANGED vars /\ \E k \in Kinds : Write!OutOfBandWrite(Write!TargetOf(k))

-----------------------------------------------------------------------------
(* The call of a handler, and what the handler makes of it *)

(* slip: the handler waits for the submission and not for the job *)
ConcludedBySubmission(c) ==
  IF c \in ChangeSet /\ pc'[c] = "done" /\ ~polling[c]
  THEN Write!Settle(c, result'[c])
  ELSE UNCHANGED writeVars

(* commit returns once its call has, with what the call returned. *)
Concluded(c) ==
  IF c \in ChangeSet /\ pc'[c] = "done"
  THEN Write!Settle(c, result'[c])
  ELSE UNCHANGED writeVars

BeginWrite(c) ==
  /\ at[c] = "sending"
  /\ Begin(c, CallKind(c))
  /\ Concluded(c)

BeginRead(c) == Begin(c, "read") /\ UNCHANGED writeVars

SendRequest(c) ==
  /\ Send(c)
  /\ IF c \in ChangeSet /\ Mutating(c)
     THEN /\ at' = [at EXCEPT ![c] = "awaiting"]
          /\ requests' = [requests EXCEPT ![c] = @ + 1]
          /\ UNCHANGED <<hist, base, phase, change, owner, before, approver, waived,
                         op, refused, told, clearedBy, restarts>>
     ELSE UNCHANGED writeVars

(* deploy_prepared, install_license, submit_device_job: on to the polling. *)
JobSubmitted(c) ==
  /\ Submitted(c)
  /\ at' = [at EXCEPT ![c] = "polling"]
  /\ UNCHANGED <<hist, base, phase, change, owner, before, approver, waived, op,
                 refused, told, clearedBy, requests, restarts>>

(* The four timers of a call. *)
TimesOut(c)       == RequestTimesOut(c) /\ Concluded(c)
RetryNow(c)       == Retry(c) /\ UNCHANGED writeVars
PollNow(c)        == WakeUp(c) /\ UNCHANGED writeVars
DeadlinePasses(c) == JobDeadline(c) /\ Concluded(c)

(* The steps of a call that no timer takes. *)
Proceed(c) ==
  \/ (TakePermit(c) \/ ReadStatus(c) \/ BackOff(c)) /\ UNCHANGED writeVars
  \/ (ConnectionBreaks(c) \/ ReadBody(c) \/ ReadJobStatus(c) \/ Cancelled(c))
       /\ Concluded(c)

-----------------------------------------------------------------------------
(* SDC and the process *)

SdcActs(c) ==
  \/ SdcTakes(c) /\ Write!SdcAnswers(c)
  \/ SdcFinishes(c) /\ Write!SdcJobEnds(c)

(* The calls of a process die with it, and its pool is a new one.  Nobody  *)
(* is told anything; the call counts as cancelled.                         *)
DropCalls ==
  /\ pc' = [c \in Call |-> IF pc[c] \in Awaiting THEN "done" ELSE pc[c]]
  /\ result' = [c \in Call |-> IF pc[c] \in Awaiting THEN "cancelled" ELSE result[c]]
  /\ free' = Permits
  /\ UNCHANGED <<kind, polling, attempt, sdc, history>>

Crash == DropCalls /\ Write!Restart

NextAll ==
  \/ \E c \in ChangeSet : Plan(c) \/ Handle(c) \/ BeginWrite(c) \/ JobSubmitted(c) \/ SdcActs(c)
  \/ \E c \in Call \ ChangeSet : BeginRead(c)
  \/ \E c \in Call :
       \/ SendRequest(c) \/ Proceed(c)
       \/ TimesOut(c) \/ RetryNow(c) \/ PollNow(c) \/ DeadlinePasses(c)
       \/ SdcServes(c) /\ UNCHANGED writeVars
  \/ OutOfBand
  \/ Crash

SpecAll == InitAll /\ [][NextAll]_allVars

(* The timers go off, and a handler that is not waiting for its call gets  *)
(* its next step.  That it ever hears of its call is not assumed.          *)
FairnessAll ==
  /\ \A c \in ChangeSet : WF_allVars(Handle(c)) /\ WF_allVars(BeginWrite(c))
  /\ \A c \in Call : /\ WF_allVars(TimesOut(c)) /\ WF_allVars(RetryNow(c))
                    /\ WF_allVars(PollNow(c)) /\ WF_allVars(DeadlinePasses(c))

FairSpecAll == SpecAll /\ FairnessAll

-----------------------------------------------------------------------------
(* Properties *)

Calling == {"sending", "awaiting", "polling"}   \* a handler at its call

(* The call of a handler and the handler's own position keep in step: a    *)
(* handler waits for a call that is open, on the side of the request where *)
(* the call is, and no call is open that no handler waits for.             *)
InStep(c) ==
  /\ sends[c] = requests[c]
  /\ pc[c] # "idle" => /\ kind[c] = CallKind(c)
                       /\ phase[c] \in {"applied", "forgotten"}
                       /\ at[c] \in Calling \cup {"idle", "releasing"}
  /\ at[c] = "sending" => pc[c] \in {"idle", "queued", "connecting"} /\ ~polling[c]
  /\ at[c] = "awaiting" => pc[c] \in {"sent", "reading"} /\ ~polling[c]
  /\ at[c] = "polling" => pc[c] \in Awaiting /\ polling[c]
  /\ pc[c] \in Awaiting => at[c] \in Calling

Lockstep == \A c \in ChangeSet : InStep(c)

(* With the client it has, the write path does nothing that ChangeControl  *)
(* does not allow: all that is shown of ChangeControl holds of the two.    *)
ImplementsWrite == Write!Spec

(* No operation is left in a state no discard can clear, for want of an    *)
(* answer, a permit or the end of a job: ChangeControl assumes that its    *)
(* handlers hear of their calls, and the four timers of the client see     *)
(* to it.                                                                  *)
EveryCommitSettles == Write!TransientSettles
=============================================================================
