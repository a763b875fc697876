-------------------------- MODULE WriteCallsProofs --------------------------
(***************************************************************************)
(* Proofs about WriteCalls, for any number of calls, change sets, permits  *)
(* and retries.  The invariant is the client's, the write path's and the   *)
(* lockstep of the two.  A step of the client keeps its own invariant      *)
(* (RequestsProofs), so what a call returns is honest, and an honest       *)
(* result is one ChangeControl allows where its handler stands.            *)
(***************************************************************************)
EXTENDS WriteCalls, RequestsProofs

(* What is reachable of the two together. *)
InvAll == IndInv /\ Lockstep /\ Write!TypeOK /\ Write!IndInv

(* The write path does not see a step that leaves its variables and the    *)
(* wire alone.                                                             *)
LEMMA Unseen == UNCHANGED <<wire, writeVars>> => UNCHANGED Write!vars
BY DEF writeVars, wireBar, Write!vars, Write!sdcVars, Write!setVars, Write!handlerVars,
       Write!ghostVars

-----------------------------------------------------------------------------
(* The client *)

(* The death of the process ends every call and refills the pool. *)
LEMMA DropStep ==
  ASSUME IndInv, DropCalls
  PROVE  IndInv'
<1> USE DEF IndInv
<1>1. \A c \in Call : pc'[c] \in {"idle", "done"} /\ (pc[c] = "idle" <=> pc'[c] = "idle")
  BY DEF DropCalls, TypeOK, Awaiting, OnAttempt
<1>2. PermitsAccounted'
  <2>1. {c \in Call : pc'[c] \in Permitted} = {}
    BY <1>1 DEF Permitted
  <2> QED  BY <2>1, FS_EmptySet, PermitsAssumption DEF PermitsAccounted, DropCalls
<1>3. TypeOK'
  <2>1. "cancelled" \in Results
    BY ResultsOf
  <2>2. pc' \in [Call -> Awaiting \cup {"idle", "done"}] /\ result' \in [Call -> Results \cup {None}]
    BY <2>1 DEF DropCalls, TypeOK
  <2>3. free' \in 0..Permits
    BY PermitsAssumption DEF DropCalls
  <2> QED  BY <2>2, <2>3 DEF DropCalls, TypeOK, sdc, history
<1>4. ASSUME NEW d \in Call PROVE Agrees(d)'
  <2>1. UNCHANGED <<kind, polling, attempt, reply, wire, sends>> /\ Agrees(d)
    BY DEF DropCalls, sdc, history
  <2>2. CASE pc[d] \notin Awaiting
    <3>1. Same(d)
      BY <2>1, <2>2 DEF DropCalls, Same
    <3> QED  BY <2>1, <3>1, Frame
  <2>3. CASE pc[d] \in Awaiting
    <3>1. pc'[d] = "done" /\ result'[d] = "cancelled" /\ "cancelled" # None
      BY <2>3, ResultsOf, NoneAssumption DEF DropCalls
    <3>2. Honest(d, "cancelled") /\ kind[d] # None
      BY <2>1, <2>3, AlwaysHonest DEF Agrees, Placed, Awaiting, OnAttempt
    <3> QED
      BY <2>1, <3>1, <3>2 DEF Agrees, Placed, OnTheWire, AnswerIsTrue, Honest, Mutating, Get
  <2> QED  BY <2>2, <2>3
<1> QED  BY <1>2, <1>3, <1>4

(* A joint step is a step of the client, or the death of its process. *)
LEMMA ClientSteps == [NextAll]_allVars => [Next]_vars \/ DropCalls
<1> SUFFICES ASSUME [NextAll]_allVars PROVE [Next]_vars \/ DropCalls
  OBVIOUS
<1>1. ASSUME NEW c \in ChangeSet,
             Plan(c) \/ Handle(c) \/ BeginWrite(c) \/ JobSubmitted(c) \/ SdcActs(c)
      PROVE  [Next]_vars
  <2>1. c \in Call /\ CallKind(c) \in {"read", "write", "job"}
    BY ChangeSetAssumption DEF CallKind
  <2> QED  BY <1>1, <2>1 DEF Plan, Handle, BeginWrite, JobSubmitted, SdcActs, Next
<1>2. ASSUME NEW c \in Call \ ChangeSet, BeginRead(c) PROVE Next
  BY <1>2 DEF BeginRead, Next
<1>3. ASSUME NEW c \in Call,
             \/ SendRequest(c) \/ Proceed(c)
             \/ TimesOut(c) \/ RetryNow(c) \/ PollNow(c) \/ DeadlinePasses(c)
             \/ SdcServes(c) /\ UNCHANGED writeVars
      PROVE  Next
  BY <1>3 DEF SendRequest, Proceed, TimesOut, RetryNow, PollNow, DeadlinePasses, Next
<1>4. CASE OutOfBand
  BY <1>4 DEF OutOfBand
<1>5. CASE Crash
  BY <1>5 DEF Crash
<1>6. CASE UNCHANGED allVars
  BY <1>6 DEF allVars
<1> QED  BY <1>1, <1>2, <1>3, <1>4, <1>5, <1>6 DEF NextAll

LEMMA ClientKept == IndInv /\ [NextAll]_allVars => IndInv'
BY ClientSteps, NextHolds, DropStep

-----------------------------------------------------------------------------
(* What a call returns is what ChangeControl lets its handler hear. *)

LEMMA ConcludedStep ==
  ASSUME InvAll, IndInv', NEW c \in Call, pc[c] \in Awaiting, Concluded(c),
         UNCHANGED <<kind, polling, wire>>
  PROVE  (c \in ChangeSet /\ Write!HandlerStep(c)) \/ UNCHANGED Write!vars
<1>1. CASE ~(c \in ChangeSet /\ pc'[c] = "done")
  BY <1>1, Unseen DEF Concluded
<1>2. CASE c \in ChangeSet /\ pc'[c] = "done"
  <2>1. Write!Settle(c, result'[c])
    BY <1>2 DEF Concluded
  <2>2. at[c] \in Calling /\ InStep(c) /\ kind[c] = CallKind(c) /\ wireBar[c] = wire[c]
    BY <1>2 DEF InvAll, Lockstep, InStep, Awaiting, OnAttempt, wireBar
  <2>3. Honest(c, result'[c])
    <3>1. Agrees(c)' /\ pc'[c] = "done"
      BY <1>2 DEF IndInv
    <3>2. Honest(c, result[c])'
      BY <3>1 DEF Agrees, Placed
    <3> QED  BY <3>2 DEF Honest
  <2>4. Agrees(c)
    BY DEF InvAll, IndInv
  <2>5. CASE at[c] = "sending"
    <3>1. wire[c] = "unsent"
      BY <2>2, <2>4, <2>5 DEF InStep, Agrees, OnTheWire, Mutating, CallKind, Awaiting, OnAttempt
    <3>2. result'[c] \in LocalFailures
      BY <2>2, <2>3, <3>1 DEF Honest, CallKind
    <3> QED
      BY <1>2, <2>1, <2>5, <3>2
      DEF Write!SendFails, Write!HandlerStep, Write!LocalFailures, LocalFailures
  <2>6. CASE at[c] = "awaiting"
    <3>1. wire[c] # "unsent" /\ ~polling[c]
      BY <2>2, <2>4, <2>6 DEF InStep, Agrees, OnTheWire, Mutating, CallKind
    <3>2. result'[c] \in AnswersTo(wire[c], change[c] \in Write!JobKinds)
      BY <2>2, <2>3, <3>1 DEF Honest, CallKind
    <3>3. result'[c] \in Write!Answers(c)
      BY <2>2, <3>2 DEF Write!Answers, Write!AnswersTo, AnswersTo, Write!Taken, Taken
    <3> QED
      BY <1>2, <2>1, <2>6, <3>3 DEF Write!Answer, Write!HandlerStep
  <2>7. CASE at[c] = "polling"
    <3>1. polling[c] /\ wire[c] # "unsent"
      BY <2>2, <2>4, <2>7 DEF InStep, Agrees, Placed, Taken
    <3>2. result'[c] \in PollAnswers(wire[c])
      BY <2>2, <2>3, <3>1 DEF Honest, CallKind
    <3>3. result'[c] \in Write!PollResults(c)
      BY <2>2, <3>2 DEF Write!PollResults, Write!PollAnswers, PollAnswers
    <3> QED
      BY <1>2, <2>1, <2>7, <3>3 DEF Write!Poll, Write!HandlerStep
  <2> QED  BY <2>2, <2>5, <2>6, <2>7 DEF Calling
<1> QED  BY <1>1, <1>2

(* A call that is refused before it begins fails in the handler's hands. *)
LEMMA BeginWriteStep ==
  ASSUME InvAll, NEW c \in ChangeSet, BeginWrite(c)
  PROVE  Write!HandlerStep(c) \/ UNCHANGED Write!vars
<1>1. c \in Call /\ wire' = wire
  BY ChangeSetAssumption DEF BeginWrite, Begin, sdc
<1>2. CASE pc'[c] = "done"
  <2>1. result'[c] = "invalid"
    BY <1>1, <1>2 DEF BeginWrite, Begin, InvAll, IndInv, TypeOK
  <2>2. Write!Settle(c, "invalid")
    BY <1>2, <2>1 DEF BeginWrite, Concluded
  <2> QED
    BY <2>2 DEF BeginWrite, Write!SendFails, Write!HandlerStep, Write!LocalFailures
<1>3. CASE pc'[c] # "done"
  BY <1>1, <1>3, Unseen DEF BeginWrite, Concluded
<1> QED  BY <1>2, <1>3

(* A mutating request leaves where the handler is about to send it. *)
LEMMA SendRequestStep ==
  ASSUME InvAll, NEW c \in Call, SendRequest(c)
  PROVE  (c \in ChangeSet /\ Write!HandlerStep(c)) \/ UNCHANGED Write!vars
<1>1. CASE c \in ChangeSet /\ Mutating(c)
  <2>1. at[c] = "sending"
    BY <1>1 DEF SendRequest, Send, InvAll, Lockstep, InStep, Calling, Mutating, CallKind,
                Awaiting, OnAttempt
  <2>2. wireBar' = [wireBar EXCEPT ![c] = "inflight"]
    BY <1>1, ChangeSetAssumption DEF SendRequest, Send, wireBar, InvAll, IndInv, TypeOK
  <2> QED
    BY <1>1, <2>1, <2>2 DEF SendRequest, Write!Dispatch, Write!HandlerStep, Write!setVars
<1>2. CASE ~(c \in ChangeSet /\ Mutating(c))
  <2>1. CASE Mutating(c)
    <3>1. c \notin ChangeSet /\ wire' = [wire EXCEPT ![c] = "inflight"]
      BY <1>2, <2>1 DEF SendRequest, Send
    <3>2. \A d \in ChangeSet : wire'[d] = wire[d]
      BY <3>1, ChangeSetAssumption DEF InvAll, IndInv, TypeOK
    <3>3. wireBar' = wireBar
      BY <3>2 DEF wireBar
    <3> QED
      BY <1>2, <3>3 DEF SendRequest, writeVars, Write!vars, Write!sdcVars, Write!setVars,
                        Write!handlerVars, Write!ghostVars
  <2>2. CASE ~Mutating(c)
    BY <1>2, <2>2, Unseen DEF SendRequest, Send
  <2> QED  BY <2>1, <2>2
<1> QED  BY <1>1, <1>2

(* Only a job that SDC accepted is polled. *)
LEMMA JobSubmittedStep ==
  ASSUME InvAll, NEW c \in ChangeSet, JobSubmitted(c)
  PROVE  Write!HandlerStep(c)
<1>1. c \in Call /\ InStep(c) /\ Agrees(c) /\ wire' = wire /\ wireBar' = wireBar
  BY ChangeSetAssumption DEF InvAll, IndInv, Lockstep, JobSubmitted, Submitted, sdc, wireBar
<1>2. at[c] = "awaiting" /\ change[c] \in Write!JobKinds
  BY <1>1 DEF JobSubmitted, Submitted, InStep, Calling, CallKind, Awaiting, OnAttempt
<1>3. wire[c] \in Taken
  <2>1. pc[c] = "reading" /\ Mutating(c) /\ reply[c] = "ok"
    BY DEF JobSubmitted, Submitted, Mutating
  <2> QED  BY <1>1, <2>1 DEF Agrees, AnswerIsTrue
<1>4. wireBar[c] = wire[c]
  BY DEF wireBar
<1>5. Write!Accepted(c)
  BY <1>3, <1>4 DEF Write!Accepted, Write!Taken, Taken
<1>6. Write!JobAccepted(c)
  BY <1>1, <1>2, <1>5 DEF JobSubmitted, Write!JobAccepted, Write!sdcVars, Write!setVars,
                                Write!ghostVars
<1> QED  BY <1>6 DEF Write!HandlerStep

(* What is left of the steps of a call: they end it or leave it open. *)
LEMMA CallStep ==
  ASSUME InvAll, IndInv', NEW c \in Call,
         \/ Proceed(c) \/ TimesOut(c) \/ RetryNow(c) \/ PollNow(c) \/ DeadlinePasses(c)
         \/ SdcServes(c) /\ UNCHANGED writeVars
  PROVE  (c \in ChangeSet /\ Write!HandlerStep(c)) \/ UNCHANGED Write!vars
<1>1. CASE \/ (TakePermit(c) \/ ReadStatus(c) \/ BackOff(c)) /\ UNCHANGED writeVars
           \/ RetryNow(c) \/ PollNow(c)
           \/ SdcServes(c) /\ UNCHANGED writeVars
  BY <1>1, Unseen DEF TakePermit, ReadStatus, BackOff, RetryNow, Retry, PollNow, WakeUp,
                      SdcServes, sdc
<1>2. CASE \/ (ConnectionBreaks(c) \/ ReadBody(c) \/ ReadJobStatus(c) \/ Cancelled(c))
                /\ Concluded(c)
           \/ TimesOut(c) \/ DeadlinePasses(c)
  <2>1. pc[c] \in Awaiting /\ Concluded(c)
    BY <1>2 DEF ConnectionBreaks, ReadBody, ReadJobStatus, Cancelled, TimesOut, RequestTimesOut,
                DeadlinePasses, JobDeadline, Permitted, Awaiting, OnAttempt
  <2>2. UNCHANGED <<kind, polling, wire>>
    BY <1>2 DEF ConnectionBreaks, ReadBody, ReadJobStatus, Cancelled, TimesOut, RequestTimesOut,
                DeadlinePasses, JobDeadline, Fail, Return, sdc
  <2> QED  BY <2>1, <2>2, ConcludedStep
<1> QED  BY <1>1, <1>2 DEF Proceed

-----------------------------------------------------------------------------
(* Every joint step is one step of ChangeControl or none. *)
LEMMA WriteStep ==
  ASSUME InvAll, [NextAll]_allVars
  PROVE  [Write!Next]_(Write!vars)
<1>1. IndInv'
  BY ClientKept DEF InvAll
<1>2. ASSUME NEW c \in ChangeSet, Plan(c) PROVE Write!Next
  BY <1>2 DEF Plan, Write!Next
<1>3. ASSUME NEW c \in ChangeSet, Handle(c) PROVE Write!Next
  BY <1>3 DEF Handle, Write!HandlerStep, Write!Next
<1>4. ASSUME NEW c \in ChangeSet, SdcActs(c) PROVE Write!Next
  BY <1>4 DEF SdcActs, Write!Next
<1>5. ASSUME NEW c \in ChangeSet, BeginWrite(c) PROVE [Write!Next]_(Write!vars)
  BY <1>5, BeginWriteStep DEF Write!Next
<1>6. ASSUME NEW c \in ChangeSet, JobSubmitted(c) PROVE Write!Next
  BY <1>6, JobSubmittedStep DEF Write!Next
<1>7. ASSUME NEW c \in Call \ ChangeSet, BeginRead(c) PROVE UNCHANGED Write!vars
  BY <1>7, Unseen DEF BeginRead, Begin, sdc
<1>8. ASSUME NEW c \in Call,
             \/ SendRequest(c) \/ Proceed(c)
             \/ TimesOut(c) \/ RetryNow(c) \/ PollNow(c) \/ DeadlinePasses(c)
             \/ SdcServes(c) /\ UNCHANGED writeVars
      PROVE  [Write!Next]_(Write!vars)
  BY <1>1, <1>8, SendRequestStep, CallStep DEF Write!Next
<1>9. CASE OutOfBand
  BY <1>9 DEF OutOfBand, Write!Next
<1>10. CASE Crash
  BY <1>10 DEF Crash, Write!Next
<1>11. CASE UNCHANGED allVars
  BY <1>11, Unseen DEF allVars, vars, sdc
<1> QED
  BY <1>2, <1>3, <1>4, <1>5, <1>6, <1>7, <1>8, <1>9, <1>10, <1>11 DEF NextAll

-----------------------------------------------------------------------------
(* The lockstep is kept. *)

Untouched(d) ==
  /\ sends'[d] = sends[d] /\ requests'[d] = requests[d] /\ kind'[d] = kind[d]
  /\ pc'[d] = pc[d] /\ polling'[d] = polling[d]
  /\ change'[d] = change[d] /\ phase'[d] = phase[d] /\ at'[d] = at[d]

LEMMA StepFrame ==
  ASSUME NEW d \in ChangeSet, InStep(d), Untouched(d)
  PROVE  InStep(d)'
BY DEF InStep, Untouched, CallKind

(* A write path at work without its call has not made it, or is done with  *)
(* it: nothing the lockstep says is about where else the handler stands.   *)
LEMMA QuietStep ==
  ASSUME InvAll, NEW c \in ChangeSet, NEW d \in ChangeSet, UNCHANGED vars,
         Plan(c) \/ Handle(c)
  PROVE  InStep(d)'
<1>1. /\ phase \in [ChangeSet -> Write!Phases] /\ at \in [ChangeSet -> Write!HandlerPcs]
      /\ change \in [ChangeSet -> Kinds \cup {None}]
  BY DEF InvAll, Write!TypeOK
<1>2. InStep(d) /\ UNCHANGED <<sends, kind, pc, polling>>
  BY DEF InvAll, Lockstep, vars, history
<1>3. Agrees(d)
  BY ChangeSetAssumption DEF InvAll, IndInv
<1>4. CASE \/ \E p \in Principal, k \in Kinds : Write!Prepare(c, p, k)
           \/ \E p \in Principal : Write!Approve(c, p)
           \/ Write!Expire(c) \/ Write!ApplyChangeSet(c)
  <2>1. requests' = requests
    BY <1>4 DEF Write!Prepare, Write!Approve, Write!Expire, Write!ApplyChangeSet, Write!ghostVars
  <2>2. CASE d # c
    BY <1>1, <1>2, <1>4, <2>1, <2>2, StepFrame
    DEF Untouched, Write!Prepare, Write!Approve, Write!Expire, Write!ApplyChangeSet,
        Write!handlerVars
  <2>3. CASE d = c
    <3>1. phase[c] \in {"none", "planned", "approved"} /\ pc[c] = "idle"
      BY <1>2, <1>4, <2>3 DEF InStep, Write!Prepare, Write!Approve, Write!Expire,
                              Write!ApplyChangeSet
    <3>2. at[c] \notin Calling
      BY <3>1 DEF InvAll, Write!IndInv, Write!LocalInv, Write!PlanInv, Calling
    <3>3. at'[c] \notin Calling
      BY <1>1, <1>4, <3>2 DEF Write!Prepare, Write!Approve, Write!Expire, Write!ApplyChangeSet,
                              Write!handlerVars, Calling
    <3> QED
      BY <1>2, <2>1, <2>3, <3>1, <3>3 DEF InStep, Calling, Awaiting, OnAttempt
  <2> QED  BY <2>2, <2>3
<1>5. CASE Write!Discard(c)
  BY <1>2, <1>5, StepFrame DEF Untouched, Write!Discard, Write!setVars
<1>6. CASE Handle(c)
  <2>1. UNCHANGED <<requests, change>>
    BY <1>6 DEF Handle, Write!Waive, Write!DiffOperation, Write!CoordinatorRefuses,
       Write!BeginValidate, Write!Validated, Write!ValidationFails, Write!BeginCommit,
       Write!RecheckPasses, Write!RecheckFails, Write!Release, Write!setVars, Write!ghostVars
  <2>2. CASE d # c
    BY <1>1, <1>2, <1>6, <2>1, <2>2, StepFrame
    DEF Untouched, Handle, Write!Waive, Write!DiffOperation, Write!CoordinatorRefuses,
       Write!BeginValidate, Write!Validated, Write!ValidationFails, Write!BeginCommit,
       Write!RecheckPasses, Write!RecheckFails, Write!Release, Write!setVars
  <2>3. CASE d = c
    <3>1. CASE Write!Release(c)
      <4>1. at[c] = "releasing" /\ at'[c] = "idle" /\ phase' = phase
        BY <1>1, <3>1 DEF Write!Release, Write!setVars
      <4> QED
        BY <1>2, <2>1, <2>3, <4>1 DEF InStep, Calling, CallKind
    <3>2. CASE ~Write!Release(c)
      <4>1. at[c] \notin Calling \cup {"idle", "releasing"}
        BY <1>6, <3>2 DEF Calling, Handle, Write!Waive, Write!DiffOperation,
           Write!CoordinatorRefuses, Write!BeginValidate, Write!Validated,
           Write!ValidationFails, Write!BeginCommit, Write!RecheckPasses, Write!RecheckFails
      <4>2. pc[c] = "idle" /\ ~polling[c]
        BY <1>2, <1>3, <2>3, <4>1, NoneAssumption DEF InStep, Agrees, Placed
      <4>3. at'[c] \notin {"awaiting", "polling"}
        BY <1>1, <1>6, <3>2 DEF Handle, Write!Waive, Write!DiffOperation,
           Write!CoordinatorRefuses, Write!BeginValidate, Write!Validated,
           Write!ValidationFails, Write!BeginCommit, Write!RecheckPasses, Write!RecheckFails
      <4> QED
        BY <1>2, <2>1, <2>3, <4>2, <4>3 DEF InStep, Awaiting, OnAttempt
    <3> QED  BY <3>1, <3>2
  <2> QED  BY <2>2, <2>3
<1> QED  BY <1>4, <1>5, <1>6 DEF Plan

(* A handler that heard of its call is past it. *)
LEMMA EndedStep ==
  ASSUME InvAll, NEW c \in Call, NEW d \in ChangeSet, Concluded(c),
         pc' = [pc EXCEPT ![c] = "done"], UNCHANGED <<polling, sends>>,
         \/ pc[c] \in Awaiting /\ kind' = kind
         \/ c \in ChangeSet /\ BeginWrite(c)
  PROVE  InStep(d)'
<1>1. /\ at \in [ChangeSet -> Write!HandlerPcs] /\ pc \in [Call -> Awaiting \cup {"idle", "done"}]
      /\ kind \in [Call -> {"read", "write", "job", None}]
  BY DEF InvAll, IndInv, TypeOK, Write!TypeOK
<1>2. InStep(d) /\ d \in Call
  BY ChangeSetAssumption DEF InvAll, Lockstep
<1>3. CASE c # d
  <2>1. pc'[d] = pc[d] /\ kind'[d] = kind[d]
    BY <1>1, <1>2, <1>3 DEF BeginWrite, Begin
  <2>2. UNCHANGED <<requests, change, phase>> /\ at'[d] = at[d]
    BY <1>1, <1>3 DEF Concluded, writeVars, Write!Settle, Write!setVars
  <2> QED  BY <1>2, <2>1, <2>2, StepFrame DEF Untouched
<1>4. CASE c = d
  <2>1. pc'[c] = "done"
    BY <1>1
  <2>2. Write!Settle(c, result'[c])
    BY <1>4, <2>1 DEF Concluded
  <2>3. at'[c] \in {"idle", "releasing"} /\ UNCHANGED <<requests, change, phase>>
    BY <1>1, <1>4, <2>2 DEF Write!Settle, Write!setVars
  <2>4. kind'[c] = CallKind(c) /\ phase[c] \in {"applied", "forgotten"}
    <3>1. CASE pc[c] \in Awaiting /\ kind' = kind
      BY <1>2, <1>4, <3>1 DEF InStep, Awaiting, OnAttempt
    <3>2. CASE BeginWrite(c)
      <4>1. kind'[c] = CallKind(c) /\ at[c] = "sending"
        BY <1>1, <3>2 DEF BeginWrite, Begin
      <4>2. phase[c] = "applied"
        BY <1>4, <4>1 DEF InvAll, Write!IndInv, Write!LocalInv, Write!PlanInv
      <4> QED  BY <4>1, <4>2
    <3> QED  BY <3>1, <3>2
  <2> QED
    BY <1>2, <1>4, <2>1, <2>3, <2>4 DEF InStep, CallKind, Calling, Awaiting, OnAttempt
<1> QED  BY <1>3, <1>4

(* A step of a call that neither begins nor ends it, of which the handler  *)
(* takes no notice.                                                        *)
LEMMA OpenStep ==
  ASSUME InvAll, NEW c \in Call, NEW d \in ChangeSet,
         UNCHANGED <<writeVars, kind, polling, sends>>,
         NEW p \in Awaiting, pc' = [pc EXCEPT ![c] = p], pc[c] \in Awaiting,
         \/ polling[c]
         \/ Mutating(c) /\ (p \in {"queued", "connecting"} <=> pc[c] \in {"queued", "connecting"})
                        /\ (p \in {"sent", "reading"} <=> pc[c] \in {"sent", "reading"})
         \/ kind[c] = "read"
  PROVE  InStep(d)'
<1>1. pc \in [Call -> Awaiting \cup {"idle", "done"}] /\ InStep(d) /\ d \in Call
  BY ChangeSetAssumption DEF InvAll, IndInv, TypeOK, Lockstep
<1>2. UNCHANGED <<requests, change, phase, at>>
  BY DEF writeVars
<1>3. CASE c # d
  BY <1>1, <1>2, <1>3, StepFrame DEF Untouched
<1>4. CASE c = d
  <2>1. pc'[c] = p /\ pc[c] # "idle" /\ pc[c] # "done" /\ p # "idle" /\ p # "done"
    BY <1>1, <1>4 DEF Awaiting, OnAttempt
  <2>2. kind[c] = CallKind(c) /\ kind[c] # "read"
    BY <1>1, <1>4, <2>1 DEF InStep, CallKind
  <2> QED
    BY <1>1, <1>2, <1>4, <2>1, <2>2 DEF InStep, CallKind, Calling, Mutating
<1> QED  BY <1>3, <1>4

(* The handler takes notice when its call begins, sends and submits. *)
LEMMA NoticedStep ==
  ASSUME InvAll, NEW c \in Call, NEW d \in ChangeSet,
         \/ c \in ChangeSet /\ (BeginWrite(c) \/ JobSubmitted(c))
         \/ c \notin ChangeSet /\ BeginRead(c)
         \/ SendRequest(c)
  PROVE  InStep(d)'
<1>1. /\ pc \in [Call -> Awaiting \cup {"idle", "done"}] /\ sends \in [Call -> Nat]
      /\ kind \in [Call -> {"read", "write", "job", None}] /\ polling \in [Call -> BOOLEAN]
      /\ at \in [ChangeSet -> Write!HandlerPcs] /\ requests \in [ChangeSet -> Nat]
  BY DEF InvAll, IndInv, TypeOK, Write!TypeOK
<1>2. InStep(d) /\ d \in Call /\ Agrees(d) /\ Agrees(c)
  BY ChangeSetAssumption DEF InvAll, IndInv, Lockstep
<1>3. CASE c \in ChangeSet /\ BeginWrite(c)
  <2>1. CASE pc' = [pc EXCEPT ![c] = "done"]
    BY <1>3, <2>1, EndedStep DEF BeginWrite, Begin, history
  <2>2. CASE pc' = [pc EXCEPT ![c] = "queued"]
    <3>1. UNCHANGED <<requests, change, phase, at, polling, sends>>
      BY <1>1, <1>3, <2>2 DEF BeginWrite, Begin, Concluded, writeVars, history
    <3>2. CASE c # d
      BY <1>1, <1>2, <1>3, <2>2, <3>1, <3>2, StepFrame DEF Untouched, BeginWrite, Begin
    <3>3. CASE c = d
      <4>1. at[c] = "sending" /\ kind'[c] = CallKind(c) /\ pc'[c] = "queued" /\ ~polling[c]
        BY <1>1, <1>2, <1>3, <2>2, <3>3 DEF BeginWrite, Begin, InStep
      <4>2. phase[c] = "applied"
        BY <3>3, <4>1 DEF InvAll, Write!IndInv, Write!LocalInv, Write!PlanInv
      <4> QED
        BY <1>2, <3>1, <3>3, <4>1, <4>2 DEF InStep, CallKind, Calling
    <3> QED  BY <3>2, <3>3
  <2> QED  BY <1>3, <2>1, <2>2 DEF BeginWrite, Begin
<1>4. CASE c \in ChangeSet /\ JobSubmitted(c)
  <2>1. UNCHANGED <<requests, change, phase, kind, sends>>
    BY <1>4 DEF JobSubmitted, Submitted, history
  <2>2. CASE c # d
    BY <1>1, <1>2, <1>4, <2>1, <2>2, StepFrame DEF Untouched, JobSubmitted, Submitted
  <2>3. CASE c = d
    <3>1. pc[c] = "reading" /\ pc'[c] = "queued" /\ polling'[c] /\ at'[c] = "polling"
      BY <1>1, <1>4 DEF JobSubmitted, Submitted
    <3> QED
      BY <1>2, <2>1, <2>3, <3>1 DEF InStep, CallKind, Calling, Awaiting, OnAttempt
  <2> QED  BY <2>2, <2>3
<1>5. CASE c \notin ChangeSet /\ BeginRead(c)
  BY <1>1, <1>2, <1>5, StepFrame DEF Untouched, BeginRead, Begin, writeVars, history
<1>6. CASE SendRequest(c)
  <2>1. pc[c] = "connecting" /\ pc' = [pc EXCEPT ![c] = "sent"] /\ UNCHANGED <<kind, polling>>
    BY <1>6 DEF SendRequest, Send
  <2>2. CASE c \in ChangeSet /\ Mutating(c)
    <3>1. /\ at' = [at EXCEPT ![c] = "awaiting"] /\ sends' = [sends EXCEPT ![c] = @ + 1]
          /\ requests' = [requests EXCEPT ![c] = @ + 1] /\ UNCHANGED <<change, phase>>
      BY <1>6, <2>2 DEF SendRequest, Send
    <3>2. CASE c # d
      BY <1>1, <1>2, <2>1, <3>1, <3>2, StepFrame DEF Untouched
    <3>3. CASE c = d
      BY <1>1, <1>2, <2>1, <2>2, <3>1, <3>3 DEF InStep, Mutating, CallKind, Calling
    <3> QED  BY <3>2, <3>3
  <2>3. CASE c \in ChangeSet /\ ~Mutating(c)
    <3>1. polling[c] \/ kind[c] = "read"
      BY <2>3 DEF Mutating
    <3> QED
      BY <1>6, <2>1, <2>3, <3>1, OpenStep DEF SendRequest, Send, Awaiting, OnAttempt
  <2>4. CASE c \notin ChangeSet
    <3>1. /\ pc'[d] = pc[d] /\ sends'[d] = sends[d]
          /\ UNCHANGED <<requests, change, phase, at>>
      BY <1>1, <1>2, <1>6, <2>1, <2>4 DEF SendRequest, Send, writeVars
    <3> QED  BY <1>2, <2>1, <3>1, StepFrame DEF Untouched
  <2> QED  BY <2>2, <2>3, <2>4
<1> QED  BY <1>3, <1>4, <1>5, <1>6

LEMMA CallLock ==
  ASSUME InvAll, NEW c \in Call, NEW d \in ChangeSet,
         \/ Proceed(c) \/ TimesOut(c) \/ RetryNow(c) \/ PollNow(c) \/ DeadlinePasses(c)
         \/ SdcServes(c) /\ UNCHANGED writeVars
  PROVE  InStep(d)'
<1>1. Agrees(c) /\ InStep(d) /\ kind[c] \in {"read", "write", "job", None}
  BY DEF InvAll, IndInv, TypeOK, Lockstep
<1>2. CASE TakePermit(c) /\ UNCHANGED writeVars
  BY <1>2, OpenStep DEF TakePermit, history, Awaiting, OnAttempt, Mutating
<1>3. CASE ReadStatus(c) /\ UNCHANGED writeVars
  BY <1>3, OpenStep DEF ReadStatus, history, Awaiting, OnAttempt, Mutating
<1>4. CASE BackOff(c) /\ UNCHANGED writeVars
  BY <1>4, OpenStep DEF BackOff, Retryable, Get, history, Awaiting, OnAttempt, Mutating
<1>5. CASE RetryNow(c)
  <2>1. polling[c] \/ kind[c] = "read"
    BY <1>1, <1>5 DEF RetryNow, Retry, Agrees, Placed, Get, Mutating
  <2> QED
    BY <1>5, <2>1, OpenStep DEF RetryNow, Retry, history, Awaiting, OnAttempt
<1>6. CASE PollNow(c)
  <2>1. polling[c] \/ kind[c] = "read"
    BY <1>1, <1>6 DEF PollNow, WakeUp, Agrees, Placed, Get, Mutating
  <2> QED
    BY <1>6, <2>1, OpenStep DEF PollNow, WakeUp, history, Awaiting, OnAttempt
<1>7. CASE SdcServes(c) /\ UNCHANGED writeVars
  BY <1>1, <1>7, StepFrame DEF Untouched, SdcServes, writeVars, history
<1>8. CASE \/ (ConnectionBreaks(c) \/ ReadBody(c) \/ Cancelled(c)) /\ Concluded(c)
           \/ TimesOut(c) \/ DeadlinePasses(c)
  <2>1. pc[c] \in Awaiting /\ Concluded(c)
    BY <1>8 DEF ConnectionBreaks, ReadBody, Cancelled, TimesOut, RequestTimesOut,
                DeadlinePasses, JobDeadline, Permitted, Awaiting, OnAttempt
  <2>2. UNCHANGED <<kind, polling, sends>> /\ pc' = [pc EXCEPT ![c] = "done"]
    BY <1>8 DEF ConnectionBreaks, ReadBody, Cancelled, TimesOut, RequestTimesOut,
                DeadlinePasses, JobDeadline, Fail, Return, history
  <2> QED  BY <2>1, <2>2, EndedStep
<1>9. CASE ReadJobStatus(c) /\ Concluded(c)
  <2>1. /\ pc[c] = "reading" /\ pc[c] \in Awaiting /\ polling[c]
        /\ UNCHANGED <<kind, polling, sends>>
    BY <1>9 DEF ReadJobStatus, Return, history, Awaiting, OnAttempt
  <2>2. CASE pc' = [pc EXCEPT ![c] = "done"]
    BY <1>9, <2>1, <2>2, EndedStep
  <2>3. CASE pc' = [pc EXCEPT ![c] = "sleeping"]
    <3>1. pc'[c] # "done"
      BY <2>3 DEF InvAll, IndInv, TypeOK
    <3> QED
      BY <1>9, <2>1, <2>3, <3>1, OpenStep DEF Concluded, Awaiting
  <2> QED  BY <1>9, <2>2, <2>3 DEF ReadJobStatus, Return
<1> QED
  BY <1>2, <1>3, <1>4, <1>5, <1>6, <1>7, <1>8, <1>9 DEF Proceed

LEMMA LockstepStep ==
  ASSUME InvAll, [NextAll]_allVars
  PROVE  Lockstep'
<1> SUFFICES ASSUME NEW d \in ChangeSet PROVE InStep(d)'
  BY DEF Lockstep
<1>1. InStep(d) /\ d \in Call
  BY ChangeSetAssumption DEF InvAll, Lockstep
<1>2. ASSUME NEW c \in ChangeSet, Plan(c) \/ Handle(c) PROVE InStep(d)'
  BY <1>2, QuietStep DEF Plan, Handle
<1>3. ASSUME NEW c \in ChangeSet, BeginWrite(c) \/ JobSubmitted(c) PROVE InStep(d)'
  BY <1>3, NoticedStep, ChangeSetAssumption
<1>4. ASSUME NEW c \in Call \ ChangeSet, BeginRead(c) PROVE InStep(d)'
  BY <1>4, NoticedStep
<1>5. ASSUME NEW c \in Call, SendRequest(c) PROVE InStep(d)'
  BY <1>5, NoticedStep
<1>6. ASSUME NEW c \in Call,
             \/ Proceed(c) \/ TimesOut(c) \/ RetryNow(c) \/ PollNow(c) \/ DeadlinePasses(c)
             \/ SdcServes(c) /\ UNCHANGED writeVars
      PROVE  InStep(d)'
  BY <1>6, CallLock
<1>7. ASSUME NEW c \in ChangeSet, SdcActs(c) PROVE InStep(d)'
  BY <1>1, <1>7, StepFrame DEF Untouched, SdcActs, SdcTakes, SdcFinishes, Write!SdcAnswers,
     Write!SdcJobEnds, Write!setVars, Write!handlerVars, Write!ghostVars, history
<1>8. CASE OutOfBand
  BY <1>1, <1>8, StepFrame DEF Untouched, OutOfBand, Write!OutOfBandWrite, Write!setVars,
     Write!handlerVars, Write!ghostVars, vars, history
<1>9. CASE Crash
  <2>1. /\ UNCHANGED <<sends, requests, kind, polling, change>> /\ at'[d] = "idle"
        /\ phase'[d] = phase[d] \/ phase'[d] = "forgotten"
    BY <1>9 DEF Crash, DropCalls, Write!Restart, history
  <2>2. pc'[d] \notin Awaiting /\ (pc'[d] # "idle" => pc[d] # "idle")
    BY <1>1, <1>9 DEF Crash, DropCalls, Awaiting, OnAttempt
  <2> QED  BY <1>1, <2>1, <2>2 DEF InStep, CallKind, Calling
<1>10. CASE UNCHANGED allVars
  BY <1>1, <1>10, StepFrame DEF Untouched, allVars, vars, writeVars, history
<1> QED
  BY <1>2, <1>3, <1>4, <1>5, <1>6, <1>7, <1>8, <1>9, <1>10 DEF NextAll

-----------------------------------------------------------------------------
LEMMA InitAllHolds == InitAll => InvAll
<1> SUFFICES ASSUME InitAll PROVE InvAll
  OBVIOUS
<1>1. IndInv
  BY InitHolds DEF InitAll
<1>2. Lockstep
  BY ChangeSetAssumption
  DEF InitAll, Init, Write!Init, Lockstep, InStep, Calling, Awaiting, OnAttempt
<1>3. Write!TypeOK /\ Write!IndInv
  BY Write!TypeInit, Write!IndInit, HumanAssumption, KindsAssumption, ModesAssumption,
     BoundsAssumption, NobodyAssumption DEF InitAll
<1> QED  BY <1>1, <1>2, <1>3 DEF InvAll

LEMMA NextAllHolds == InvAll /\ [NextAll]_allVars => InvAll'
<1> SUFFICES ASSUME InvAll, [NextAll]_allVars PROVE InvAll'
  OBVIOUS
<1>1. IndInv'
  BY ClientKept DEF InvAll
<1>2. Lockstep'
  BY LockstepStep
<1>3. [Write!Next]_(Write!vars)
  BY WriteStep
<1>4. Write!TypeOK' /\ Write!IndInv'
  BY <1>3, Write!TypeStep, Write!IndStep, HumanAssumption, KindsAssumption, ModesAssumption,
     BoundsAssumption, NobodyAssumption DEF InvAll
<1> QED  BY <1>1, <1>2, <1>4 DEF InvAll

(* The client, the write path and the position of the one in the other     *)
(* agree in every state, also after a restart that ended calls midway.     *)
THEOREM AllAgree == SpecAll => []InvAll
BY InitAllHolds, NextAllHolds, PTL DEF SpecAll

(* One await of a handler, one call: the handler is where its call is.     *)
THEOREM LockstepHolds == SpecAll => []Lockstep
<1>1. InvAll => Lockstep
  BY DEF InvAll
<1> QED  BY <1>1, AllAgree, PTL

(* Restarts included, the client keeps its contract, sends a mutation once *)
(* and loses no permit.                                                    *)
THEOREM ClientHoldsOverRestarts ==
  SpecAll => [](IndInv /\ ContractKept /\ SentOnce /\ PermitsAccounted)
<1>1. InvAll => IndInv /\ ContractKept /\ SentOnce /\ PermitsAccounted
  BY DEF InvAll, IndInv, Agrees, OnTheWire, ContractKept, SentOnce
<1> QED  BY <1>1, AllAgree, PTL

(* The write path with the client it has does what ChangeControl allows.   *)
THEOREM ImplementsWriteHolds == SpecAll => ImplementsWrite
<1>1. InitAll => Write!Init
  BY DEF InitAll
<1>2. InvAll /\ [NextAll]_allVars => [Write!Next]_(Write!vars)
  BY WriteStep
<1> QED  BY <1>1, <1>2, AllAgree, PTL DEF SpecAll, ImplementsWrite, Write!Spec

(* While the call of a change set is open, its operation is committing and *)
(* is the one that holds the tenant.                                       *)
OpenCallHoldsTenant ==
  \A c \in ChangeSet : pc[c] \in Awaiting =>
    /\ op[c] = "committing"
    /\ \A d \in ChangeSet : op[d] \in Write!Blocking => d = c

(* Two change sets never have mutating calls open at the same time: what   *)
(* lockstep and the tenant lock come to together, for any number of them.  *)
THEOREM OpenCallHolds == SpecAll => []OpenCallHoldsTenant
<1>1. ASSUME InvAll, NEW c \in ChangeSet, pc[c] \in Awaiting
      PROVE  op[c] = "committing" /\ \A d \in ChangeSet : op[d] \in Write!Blocking => d = c
  <2>1. at[c] \in Calling
    BY <1>1 DEF InvAll, Lockstep, InStep
  <2>2. op[c] = "committing"
    BY <1>1, <2>1 DEF InvAll, Write!IndInv, Write!LocalInv, Write!StepInv, Write!Sending, Calling
  <2>3. op[c] \in Write!Blocking
    BY <2>2 DEF Write!Blocking
  <2> QED
    BY <1>1, <2>2, <2>3 DEF InvAll, Write!IndInv, Write!OneBlocking
<1>2. InvAll => OpenCallHoldsTenant
  BY <1>1 DEF OpenCallHoldsTenant
<1> QED  BY <1>2, AllAgree, PTL

(* So what is proved of ChangeControl, which takes the contract of the     *)
(* client on trust, holds of the write path together with the client.      *)
THEOREM WritePathIsSafe ==
  SpecAll => []( /\ Write!TwoPersonRule /\ Write!AtMostOneRequest
                 /\ Write!UnsettledWriteBlocks /\ Write!ExclusiveWriter
                 /\ Write!ReleaseIsTruthful /\ Write!CommittedMeansLanded
                 /\ Write!NoOtherGap /\ Write!NoLostUpdate /\ Write!TransientIsOwned)
BY ImplementsWriteHolds, Write!TwoPersonHolds, Write!AtMostOneRequestHolds,
   Write!UnsettledBlocksHolds, Write!ExclusiveWriterHolds, Write!ReleaseIsTruthfulHolds,
   Write!CommittedMeansLandedHolds, Write!NoOtherGapHolds, Write!NoLostUpdateHolds,
   Write!TransientIsOwnedHolds, HumanAssumption, KindsAssumption, ModesAssumption,
   BoundsAssumption, NobodyAssumption, PTL DEF ImplementsWrite

(* It sticks to what it recorded as unknown, and keeps the promise that    *)
(* ApprovedWrite states without a handler, a client or an error in sight.  *)
THEOREM WritePathKeepsItsWord == SpecAll => Write!IndeterminateSticks /\ Write!KeepsPromise
BY ImplementsWriteHolds, Write!IndeterminateSticksHolds, Write!KeepsPromiseHolds,
   HumanAssumption, KindsAssumption, ModesAssumption, BoundsAssumption, NobodyAssumption, PTL
DEF ImplementsWrite
=============================================================================
