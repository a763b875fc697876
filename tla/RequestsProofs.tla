--------------------------- MODULE RequestsProofs ---------------------------
(***************************************************************************)
(* Proofs about Requests, for any number of calls, permits and retries.    *)
(* IndInv is inductive: Frame says that a step leaves the other calls      *)
(* alone, PoolStep that a permit is never lost or made, ReturnStep covers  *)
(* every way a call ends, and each remaining action has a lemma.           *)
(***************************************************************************)
EXTENDS Requests, FiniteSetTheorems, TLAPS

Stages == Awaiting \cup {"idle", "done"}

Same(d) ==
  /\ kind'[d] = kind[d] /\ pc'[d] = pc[d] /\ polling'[d] = polling[d]
  /\ attempt'[d] = attempt[d] /\ reply'[d] = reply[d] /\ wire'[d] = wire[d]
  /\ sends'[d] = sends[d] /\ result'[d] = result[d]

(* A call of which nothing changed agrees as it did before. *)
LEMMA Frame ==
  ASSUME NEW d \in Call, Agrees(d), Same(d)
  PROVE  Agrees(d)'
BY DEF Agrees, Same, Placed, OnTheWire, AnswerIsTrue, Honest, Get, Mutating

(* A call that moves takes a permit, returns it or keeps what it has. *)
LEMMA PoolStep ==
  ASSUME TypeOK, PermitsAccounted, NEW c \in Call, NEW p \in Stages,
         pc' = [pc EXCEPT ![c] = p],
         \/ p \in Permitted /\ pc[c] \notin Permitted /\ free > 0 /\ free' = free - 1
         \/ p \notin Permitted /\ pc[c] \in Permitted /\ free' = free + 1
         \/ (p \in Permitted <=> pc[c] \in Permitted) /\ free' = free
  PROVE  PermitsAccounted' /\ free' \in 0..Permits
<1> DEFINE H == {d \in Call : pc[d] \in Permitted}
           K == {d \in Call : pc'[d] \in Permitted}
<1>1. IsFiniteSet(H) /\ IsFiniteSet(K)
  BY CallAssumption, FS_Subset
<1>2. Cardinality(H) \in Nat /\ Cardinality(K) \in Nat
  BY <1>1, FS_CardinalityType
<1>3. \A d \in Call : pc'[d] = IF d = c THEN p ELSE pc[d]
  BY DEF TypeOK
<1>4. free + Cardinality(H) = Permits /\ free \in Nat /\ Permits \in Nat
  BY PermitsAssumption DEF PermitsAccounted, TypeOK
<1>5. CASE p \in Permitted /\ pc[c] \notin Permitted /\ free > 0 /\ free' = free - 1
  <2>1. K = H \cup {c} /\ c \notin H
    BY <1>3, <1>5
  <2>2. Cardinality(K) = Cardinality(H) + 1
    BY <2>1, <1>1, FS_AddElement
  <2> HIDE DEF H, K
  <2>3. free' + Cardinality(K) = Permits /\ free' \in 0..Permits
    BY <2>2, <1>2, <1>4, <1>5
  <2> QED  BY <2>3 DEF PermitsAccounted, K
<1>6. CASE p \notin Permitted /\ pc[c] \in Permitted /\ free' = free + 1
  <2>1. K = H \ {c} /\ c \in H
    BY <1>3, <1>6
  <2>2. Cardinality(K) = Cardinality(H) - 1
    BY <2>1, <1>1, FS_RemoveElement
  <2> HIDE DEF H, K
  <2>3. free' + Cardinality(K) = Permits /\ free' \in 0..Permits
    BY <2>2, <1>2, <1>4, <1>6
  <2> QED  BY <2>3 DEF PermitsAccounted, K
<1>7. CASE (p \in Permitted <=> pc[c] \in Permitted) /\ free' = free
  <2>1. K = H
    BY <1>3, <1>7
  <2> HIDE DEF H, K
  <2>2. free' + Cardinality(K) = Permits /\ free' \in 0..Permits
    BY <2>1, <1>2, <1>4, <1>7
  <2> QED  BY <2>2 DEF PermitsAccounted, K
<1> QED  BY <1>5, <1>6, <1>7

(* However a call ends, it may end so if its result is honest. *)
LEMMA ReturnStep ==
  ASSUME IndInv, NEW c \in Call, pc[c] \in Awaiting,
         NEW r \in Results, Return(c, r), Honest(c, r)
  PROVE  IndInv'
<1> USE DEF IndInv
<1>1. PermitsAccounted' /\ free' \in 0..Permits
  <2>1. pc' = [pc EXCEPT ![c] = "done"] /\ "done" \in Stages /\ "done" \notin Permitted
    BY DEF Return, Stages, Permitted
  <2>2. free' = IF pc[c] \in Permitted THEN free + 1 ELSE free
    BY DEF Return, PutBack
  <2> QED  BY <2>1, <2>2, PoolStep
<1>2. TypeOK'
  BY <1>1 DEF Return, TypeOK, sdc, history
<1>3. ASSUME NEW d \in Call PROVE Agrees(d)'
  <2>1. CASE d # c
    BY <2>1, Frame DEF Same, Return, TypeOK, sdc, history
  <2>2. CASE d = c
    <3>1. kind'[c] = kind[c] /\ pc'[c] = "done" /\ polling'[c] = polling[c]
          /\ wire'[c] = wire[c] /\ sends'[c] = sends[c] /\ result'[c] = r
      BY DEF Return, TypeOK, sdc, history
    <3>2. kind[c] # None /\ r # None
      BY NoneAssumption DEF Agrees, Placed, Awaiting, OnAttempt
    <3> QED
      BY <2>2, <3>1, <3>2 DEF Agrees, Placed, OnTheWire, AnswerIsTrue, Honest, Mutating, Get
  <2> QED  BY <2>1, <2>2
<1> QED  BY <1>1, <1>2, <1>3

(* A permit is taken by a call that had none. *)
LEMMA TakePermitStep ==
  ASSUME IndInv, NEW c \in Call, TakePermit(c)
  PROVE  IndInv'
<1> USE DEF IndInv
<1>1. PermitsAccounted' /\ free' \in 0..Permits
  <2>1. "connecting" \in Stages
    BY DEF Stages, Awaiting, OnAttempt
  <2> QED  BY <2>1, PoolStep DEF TakePermit, PutBack, Permitted, TypeOK
<1>2. TypeOK'
  BY <1>1 DEF TakePermit, TypeOK, sdc, history, Awaiting, OnAttempt
<1>3. ASSUME NEW d \in Call, d # c PROVE Agrees(d)'
  BY <1>3, Frame DEF Same, TakePermit, TypeOK, sdc, history
<1>4. Agrees(c)'
  BY NoneAssumption DEF TakePermit, Agrees, Placed, OnTheWire, AnswerIsTrue, Honest, Mutating, Get,
     TypeOK, sdc, history
<1> QED  BY <1>1, <1>2, <1>3, <1>4

(* A mutation is sent from where it was not sent before. *)
LEMMA SendStep ==
  ASSUME IndInv, NEW c \in Call, Send(c)
  PROVE  IndInv'
<1> USE DEF IndInv
<1>1. PermitsAccounted' /\ free' \in 0..Permits
  <2>1. "sent" \in Stages
    BY DEF Stages, Awaiting, OnAttempt
  <2> QED  BY <2>1, PoolStep DEF Send, PutBack, Permitted, TypeOK
<1>2. TypeOK'
  BY <1>1 DEF Send, TypeOK, sdc, history, Awaiting, OnAttempt
<1>3. ASSUME NEW d \in Call, d # c PROVE Agrees(d)'
  BY <1>3, Frame DEF Same, Send, TypeOK, sdc, history
<1>4. Agrees(c)'
  BY NoneAssumption DEF Send, Agrees, Placed, OnTheWire, AnswerIsTrue, Honest, Mutating, Get,
     TypeOK, sdc, history
<1> QED  BY <1>1, <1>2, <1>3, <1>4

(* What is read is what SDC answered. *)
LEMMA ReadStatusStep ==
  ASSUME IndInv, NEW c \in Call, ReadStatus(c)
  PROVE  IndInv'
<1> USE DEF IndInv
<1>1. PermitsAccounted' /\ free' \in 0..Permits
  <2>1. "reading" \in Stages
    BY DEF Stages, Awaiting, OnAttempt
  <2> QED  BY <2>1, PoolStep DEF ReadStatus, PutBack, Permitted, TypeOK
<1>2. TypeOK'
  BY <1>1 DEF ReadStatus, TypeOK, sdc, history, Awaiting, OnAttempt
<1>3. ASSUME NEW d \in Call, d # c PROVE Agrees(d)'
  BY <1>3, Frame DEF Same, ReadStatus, TypeOK, sdc, history
<1>4. Agrees(c)'
  BY NoneAssumption DEF ReadStatus, Agrees, Placed, OnTheWire, AnswerIsTrue, Honest, Mutating, Get,
     TypeOK, sdc, history
<1> QED  BY <1>1, <1>2, <1>3, <1>4

(* Only a GET goes back, with a retry left, and without its permit. *)
LEMMA BackOffStep ==
  ASSUME IndInv, NEW c \in Call, BackOff(c)
  PROVE  IndInv'
<1> USE DEF IndInv
<1>1. PermitsAccounted' /\ free' \in 0..Permits
  <2>1. "backoff" \in Stages
    BY DEF Stages, Awaiting, OnAttempt
  <2> QED  BY <2>1, PoolStep DEF BackOff, PutBack, Permitted, TypeOK
<1>2. TypeOK'
  BY <1>1 DEF BackOff, TypeOK, sdc, history, Awaiting, OnAttempt
<1>3. ASSUME NEW d \in Call, d # c PROVE Agrees(d)'
  BY <1>3, Frame DEF Same, BackOff, TypeOK, sdc, history
<1>4. Agrees(c)'
  BY NoneAssumption DEF BackOff, Agrees, Placed, OnTheWire, AnswerIsTrue, Honest, Mutating, Get,
     TypeOK, sdc, history, Retryable
<1> QED  BY <1>1, <1>2, <1>3, <1>4

(* A retry is a GET. *)
LEMMA RetryStep ==
  ASSUME IndInv, NEW c \in Call, Retry(c)
  PROVE  IndInv'
<1> USE DEF IndInv
<1>1. PermitsAccounted' /\ free' \in 0..Permits
  <2>1. "queued" \in Stages
    BY DEF Stages, Awaiting, OnAttempt
  <2> QED  BY <2>1, PoolStep DEF Retry, PutBack, Permitted, TypeOK
<1>2. TypeOK'
  BY <1>1, RetryAssumption DEF Retry, TypeOK, sdc, history, Awaiting, OnAttempt, Agrees, Placed
<1>3. ASSUME NEW d \in Call, d # c PROVE Agrees(d)'
  BY <1>3, Frame DEF Same, Retry, TypeOK, sdc, history
<1>4. Agrees(c)'
  BY NoneAssumption DEF Retry, Agrees, Placed, OnTheWire, AnswerIsTrue, Honest, Mutating, Get,
     TypeOK, sdc, history
<1> QED  BY <1>1, <1>2, <1>3, <1>4

(* SDC took the request of a job before the job is polled. *)
LEMMA SubmittedStep ==
  ASSUME IndInv, NEW c \in Call, Submitted(c)
  PROVE  IndInv'
<1> USE DEF IndInv
<1>1. PermitsAccounted' /\ free' \in 0..Permits
  <2>1. "queued" \in Stages
    BY DEF Stages, Awaiting, OnAttempt
  <2> QED  BY <2>1, PoolStep DEF Submitted, PutBack, Permitted, TypeOK
<1>2. TypeOK'
  BY <1>1 DEF Submitted, TypeOK, sdc, history, Awaiting, OnAttempt
<1>3. ASSUME NEW d \in Call, d # c PROVE Agrees(d)'
  BY <1>3, Frame DEF Same, Submitted, TypeOK, sdc, history
<1>4. Agrees(c)'
  BY NoneAssumption DEF Submitted, Agrees, Placed, OnTheWire, AnswerIsTrue, Honest, Mutating, Get,
     TypeOK, sdc, history, Taken
<1> QED  BY <1>1, <1>2, <1>3, <1>4

(* A poll starts again as a GET. *)
LEMMA WakeUpStep ==
  ASSUME IndInv, NEW c \in Call, WakeUp(c)
  PROVE  IndInv'
<1> USE DEF IndInv
<1>1. PermitsAccounted' /\ free' \in 0..Permits
  <2>1. "queued" \in Stages
    BY DEF Stages, Awaiting, OnAttempt
  <2> QED  BY <2>1, PoolStep DEF WakeUp, PutBack, Permitted, TypeOK
<1>2. TypeOK'
  BY <1>1, RetryAssumption DEF WakeUp, TypeOK, sdc, history, Awaiting, OnAttempt
<1>3. ASSUME NEW d \in Call, d # c PROVE Agrees(d)'
  BY <1>3, Frame DEF Same, WakeUp, TypeOK, sdc, history
<1>4. Agrees(c)'
  BY NoneAssumption DEF WakeUp, Agrees, Placed, OnTheWire, AnswerIsTrue, Honest, Mutating, Get,
     TypeOK, sdc, history
<1> QED  BY <1>1, <1>2, <1>3, <1>4

(* A call begins in the queue, or ends at once with nothing sent. *)
LEMMA BeginStep ==
  ASSUME IndInv, NEW c \in Call, NEW k \in {"read", "write", "job"}, Begin(c, k)
  PROVE  IndInv'
<1> USE DEF IndInv
<1>1. PermitsAccounted' /\ free' \in 0..Permits
  <2>1. {"queued", "done"} \subseteq Stages
    BY DEF Stages, Awaiting, OnAttempt
  <2> QED  BY <2>1, PoolStep DEF Begin, Permitted, TypeOK
<1>2. TypeOK'
  BY <1>1 DEF Begin, TypeOK, sdc, history, Awaiting, OnAttempt, Results, LocalFailures
<1>3. ASSUME NEW d \in Call, d # c PROVE Agrees(d)'
  BY <1>3, Frame DEF Same, Begin, TypeOK, sdc, history
<1>4. Agrees(c)'
  <2>1. None # "invalid"
    BY NoneAssumption DEF Results, LocalFailures
  <2> QED
    BY <2>1, NoneAssumption DEF Begin, Agrees, Placed, OnTheWire, AnswerIsTrue, Honest,
       Mutating, Get, TypeOK, sdc, history, LocalFailures
<1> QED  BY <1>1, <1>2, <1>3, <1>4

(* What SDC makes of a request bears out what the call already returned. *)
LEMMA SdcTakesStep ==
  ASSUME IndInv, NEW c \in Call, SdcTakes(c)
  PROVE  IndInv'
<1> USE DEF IndInv
<1>1. TypeOK' /\ PermitsAccounted'
  BY DEF SdcTakes, TypeOK, PermitsAccounted, history, Taken
<1>2. ASSUME NEW d \in Call, d # c PROVE Agrees(d)'
  BY <1>2, Frame DEF Same, SdcTakes, TypeOK, history
<1>3. Agrees(c)'
  BY NoneAssumption DEF SdcTakes, Agrees, Placed, OnTheWire, AnswerIsTrue, Honest, Mutating, Get,
     TypeOK, history, Taken, AnswersTo, PollAnswers
<1> QED  BY <1>1, <1>2, <1>3

(* The end of a job bears out what was said of it while it ran. *)
LEMMA SdcFinishesStep ==
  ASSUME IndInv, NEW c \in Call, SdcFinishes(c)
  PROVE  IndInv'
<1> USE DEF IndInv
<1>1. TypeOK' /\ PermitsAccounted'
  BY DEF SdcFinishes, TypeOK, PermitsAccounted, history, Taken
<1>2. ASSUME NEW d \in Call, d # c PROVE Agrees(d)'
  BY <1>2, Frame DEF Same, SdcFinishes, TypeOK, history
<1>3. Agrees(c)'
  BY NoneAssumption DEF SdcFinishes, Agrees, Placed, OnTheWire, AnswerIsTrue, Honest, Mutating, Get,
     TypeOK, history, Taken, AnswersTo, PollAnswers
<1> QED  BY <1>1, <1>2, <1>3

(* The state of a job is served as it is. *)
LEMMA SdcServesStep ==
  ASSUME IndInv, NEW c \in Call, SdcServes(c)
  PROVE  IndInv'
<1> USE DEF IndInv
<1>1. TypeOK' /\ PermitsAccounted'
  BY DEF SdcServes, TypeOK, PermitsAccounted, history, Taken, Agrees, Placed
<1>2. ASSUME NEW d \in Call, d # c PROVE Agrees(d)'
  BY <1>2, Frame DEF Same, SdcServes, TypeOK, history
<1>3. Agrees(c)'
  BY NoneAssumption DEF SdcServes, Agrees, Placed, OnTheWire, AnswerIsTrue, Honest, Mutating, Get,
     TypeOK, history, Taken
<1> QED  BY <1>1, <1>2, <1>3

(* The results a call can end with whatever SDC did. *)
LEMMA AlwaysHonest ==
  ASSUME IndInv, NEW c \in Call, pc[c] \in Awaiting
  PROVE  /\ Honest(c, "cancelled")
         /\ ~polling[c] => Honest(c, "timeout") /\ Honest(c, "transport")
         /\ polling[c] => Honest(c, "poll_error") /\ Honest(c, "deadline")
BY DEF IndInv, Agrees, Placed, Honest, LocalFailures, AnswersTo, PollAnswers, Taken

LEMMA ResultsOf ==
  {"cancelled", "timeout", "transport", "poll_error", "deadline", "unknown", "api", "no_job_id",
   "ok", "unreadable", "succeeded", "unsuccessful"} \subseteq Results
BY DEF Results, LocalFailures, AnswersTo, PollAnswers, Taken

LEMMA OutsideStep ==
  ASSUME IndInv, NEW c \in Call, RequestTimesOut(c) \/ Cancelled(c) \/ JobDeadline(c)
  PROVE  IndInv'
<1>1. pc[c] \in Awaiting
  BY DEF RequestTimesOut, Cancelled, JobDeadline, Awaiting
<1>2. CASE RequestTimesOut(c)
  BY <1>1, <1>2, ReturnStep, AlwaysHonest, ResultsOf DEF RequestTimesOut, Fail
<1>3. CASE Cancelled(c)
  BY <1>1, <1>3, ReturnStep, AlwaysHonest, ResultsOf DEF Cancelled
<1>4. CASE JobDeadline(c)
  BY <1>1, <1>4, ReturnStep, AlwaysHonest, ResultsOf DEF JobDeadline
<1> QED  BY <1>2, <1>3, <1>4

LEMMA ConnectionBreaksStep ==
  ASSUME IndInv, NEW c \in Call, ConnectionBreaks(c)
  PROVE  IndInv'
<1>1. pc[c] \in Awaiting
  BY DEF ConnectionBreaks, Permitted, Awaiting, OnAttempt
<1>2. CASE pc[c] = "reading" /\ Mutating(c) /\ reply[c] = "ok"
  <2>1. Return(c, "unknown")
    BY <1>2 DEF ConnectionBreaks, Fail, Mutating
  <2>2. Honest(c, "unknown")
    BY <1>2 DEF IndInv, Agrees, OnTheWire, AnswerIsTrue, Honest, AnswersTo, Mutating, Taken
  <2> QED  BY <1>1, <2>1, <2>2, ReturnStep, ResultsOf
<1>3. CASE ~(pc[c] = "reading" /\ Mutating(c) /\ reply[c] = "ok")
  BY <1>1, <1>3, ReturnStep, AlwaysHonest, ResultsOf DEF ConnectionBreaks, Fail
<1> QED  BY <1>2, <1>3

(* The status line decides what a mutation returns. *)
LEMMA ReadBodyStep ==
  ASSUME IndInv, NEW c \in Call, ReadBody(c)
  PROVE  IndInv'
<1>1. pc[c] \in Awaiting /\ pc[c] = "reading" /\ ~polling[c]
  BY DEF ReadBody, Awaiting, OnAttempt
<1>2. PICK r \in {"api", "ok", "unreadable", "unknown", "no_job_id"} :
        /\ Return(c, r)
        /\ kind[c] # "read" => \/ r = "api" /\ reply[c] # "ok"
                               \/ r = "unknown" /\ reply[c] = "ok"
                               \/ r = "ok" /\ reply[c] = "ok" /\ kind[c] = "write"
                               \/ r = "no_job_id" /\ reply[c] = "ok" /\ kind[c] = "job"
  BY DEF ReadBody
<1>3. Honest(c, r)
  BY <1>1, <1>2 DEF IndInv, Agrees, OnTheWire, AnswerIsTrue, Honest, AnswersTo, Mutating, Taken
<1> QED  BY <1>1, <1>2, <1>3, ReturnStep, ResultsOf

(* A poll ends as the job did, or with an error that says nothing of it. *)
LEMMA ReadJobStatusStep ==
  ASSUME IndInv, NEW c \in Call, ReadJobStatus(c)
  PROVE  IndInv'
<1> USE DEF IndInv
<1>1. pc[c] \in Awaiting /\ pc[c] = "reading" /\ polling[c]
  BY DEF ReadJobStatus, Awaiting, OnAttempt
<1>2. CASE reply[c] = "landed" /\ Return(c, "succeeded")
  <2>1. Honest(c, "succeeded")
    BY <1>1, <1>2 DEF Agrees, Placed, AnswerIsTrue, Honest, PollAnswers
  <2> QED  BY <1>1, <1>2, <2>1, ReturnStep, ResultsOf
<1>3. CASE reply[c] \in {"partial", "aborted"} /\ Return(c, "unsuccessful")
  <2>1. Honest(c, "unsuccessful")
    BY <1>1, <1>3 DEF Agrees, Placed, AnswerIsTrue, Honest, PollAnswers
  <2> QED  BY <1>1, <1>3, <2>1, ReturnStep, ResultsOf
<1>4. CASE Return(c, "poll_error")
  BY <1>1, <1>4, AlwaysHonest, ReturnStep, ResultsOf
<1>5. CASE /\ pc' = [pc EXCEPT ![c] = "sleeping"]
           /\ PutBack(c)
           /\ UNCHANGED <<kind, polling, attempt, sdc, history, result>>
  <2>1. PermitsAccounted' /\ free' \in 0..Permits
    <3>1. "sleeping" \in Stages
      BY DEF Stages, Awaiting
    <3> QED  BY <1>5, <3>1, PoolStep DEF PutBack, Permitted
  <2>2. TypeOK'
    BY <1>5, <2>1 DEF TypeOK, sdc, history, Awaiting
  <2>3. ASSUME NEW d \in Call, d # c PROVE Agrees(d)'
    BY <1>5, <2>3, Frame DEF Same, TypeOK, sdc, history
  <2>4. Agrees(c)'
    BY <1>1, <1>5, NoneAssumption DEF Agrees, Placed, OnTheWire, AnswerIsTrue, Honest,
       Mutating, Get, TypeOK, sdc, history
  <2> QED  BY <2>1, <2>2, <2>3, <2>4
<1> QED  BY <1>2, <1>3, <1>4, <1>5 DEF ReadJobStatus

-----------------------------------------------------------------------------
LEMMA InitHolds == Init => IndInv
<1> SUFFICES ASSUME Init PROVE IndInv
  OBVIOUS
<1>1. TypeOK
  BY PermitsAssumption, RetryAssumption DEF Init, TypeOK
<1>2. PermitsAccounted
  <2>1. {c \in Call : pc[c] \in Permitted} = {}
    BY DEF Init, Permitted
  <2> QED  BY <2>1, FS_EmptySet, PermitsAssumption DEF PermitsAccounted, Init
<1>3. \A c \in Call : Agrees(c)
  BY DEF Init, Agrees, Placed, OnTheWire, AnswerIsTrue, Honest, Mutating, Get
<1> QED  BY <1>1, <1>2, <1>3 DEF IndInv

LEMMA NextHolds == IndInv /\ [Next]_vars => IndInv'
<1> SUFFICES ASSUME IndInv, [Next]_vars PROVE IndInv'
  OBVIOUS
<1>1. CASE Next
  <2>1. PICK c \in Call :
          \/ \E k \in {"read", "write", "job"} : Begin(c, k)
          \/ TakePermit(c) \/ Send(c) \/ ReadStatus(c) \/ ConnectionBreaks(c)
          \/ BackOff(c) \/ Retry(c) \/ ReadBody(c) \/ Submitted(c)
          \/ ReadJobStatus(c) \/ WakeUp(c)
          \/ RequestTimesOut(c) \/ Cancelled(c) \/ JobDeadline(c)
          \/ SdcTakes(c) \/ SdcFinishes(c) \/ SdcServes(c)
    BY <1>1, Zenon DEF Next
  <2> QED
    BY <2>1, Zenon, BeginStep, TakePermitStep, SendStep, ReadStatusStep, ConnectionBreaksStep,
       BackOffStep, RetryStep, ReadBodyStep, SubmittedStep, ReadJobStatusStep, WakeUpStep,
       OutsideStep, SdcTakesStep, SdcFinishesStep, SdcServesStep
<1>2. CASE UNCHANGED vars
  <2>1. TypeOK' /\ PermitsAccounted'
    BY <1>2 DEF vars, IndInv, TypeOK, PermitsAccounted
  <2>2. ASSUME NEW c \in Call PROVE Agrees(c)'
    BY <1>2, Frame DEF vars, Same, IndInv
  <2> QED  BY <2>1, <2>2 DEF IndInv
<1> QED  BY <1>1, <1>2

(* Every reachable state agrees: where each call stands, what it was       *)
(* answered, what left for SDC and which permits are out.                  *)
THEOREM Consistent == Spec => []IndInv
BY InitHolds, NextHolds, PTL DEF Spec

(* Every variable keeps to its values. *)
THEOREM TypeHolds == Spec => []TypeOK
<1>1. IndInv => TypeOK
  BY DEF IndInv
<1> QED  BY <1>1, Consistent, PTL

(* send_parts: one mutating request per call, for any number of retries.   *)
THEOREM SentOnceHolds == Spec => []SentOnce
<1>1. IndInv => SentOnce
  BY DEF IndInv, Agrees, OnTheWire, SentOnce
<1> QED  BY <1>1, Consistent, PTL

(* The results ChangeControl assumes of the client are the ones it gives.  *)
THEOREM ContractHolds == Spec => []ContractKept
<1>1. IndInv => ContractKept
  BY DEF IndInv, Agrees, ContractKept
<1> QED  BY <1>1, Consistent, PTL

(* The semaphore of the client neither leaks permits nor exceeds           *)
(* max_concurrency.                                                        *)
THEOREM PermitsHold == Spec => []PermitsAccounted
<1>1. IndInv => PermitsAccounted
  BY DEF IndInv
<1> QED  BY <1>1, Consistent, PTL

-----------------------------------------------------------------------------
(* How many steps its request leaves a call: four to the answer, and one   *)
(* more for each delay before another try.                                 *)
Place == [queued |-> 4, connecting |-> 3, sent |-> 2, reading |-> 1, backoff |-> 0]

StepsLeft(c) == 5 * (MaxRetries - attempt[c]) + Place[pc[c]]

Requesting(c) == pc[c] \in OnAttempt \cup {"backoff"}

(* send_parts, the loop under every read, submission and probe: a request  *)
(* ends in a result, in a job to poll or in a poll interval, or has fewer  *)
(* steps left than before, at most 5 * (MaxRetries + 1) of them in all.    *)
THEOREM RequestsAreBounded ==
  Spec => [][\A c \in Call : Requesting(c) /\ pc'[c] # pc[c] =>
               \/ pc'[c] \in {"done", "sleeping"}
               \/ polling'[c] /\ ~polling[c]
               \/ Requesting(c)' /\ 0 <= StepsLeft(c)' /\ StepsLeft(c)' < StepsLeft(c)]_vars
<1>. DEFINE Moves(c) == \/ pc'[c] \in {"done", "sleeping"}
                        \/ polling'[c] /\ ~polling[c]
                        \/ Requesting(c)' /\ 0 <= StepsLeft(c)' /\ StepsLeft(c)' < StepsLeft(c)
<1>1. ASSUME IndInv, Next, NEW c \in Call, Requesting(c), pc'[c] # pc[c]
      PROVE  Moves(c)
  <2>1. PICK d \in Call :
          \/ \E k \in {"read", "write", "job"} : Begin(d, k)
          \/ TakePermit(d) \/ Send(d) \/ ReadStatus(d) \/ ConnectionBreaks(d)
          \/ BackOff(d) \/ Retry(d) \/ ReadBody(d) \/ Submitted(d)
          \/ ReadJobStatus(d) \/ WakeUp(d)
          \/ RequestTimesOut(d) \/ Cancelled(d) \/ JobDeadline(d)
          \/ SdcTakes(d) \/ SdcFinishes(d) \/ SdcServes(d)
    BY <1>1, Zenon DEF Next
  <2>2. /\ pc \in [Call -> Awaiting \cup {"idle", "done"}]
        /\ attempt \in [Call -> 0..MaxRetries] /\ polling \in [Call -> BOOLEAN]
    BY <1>1 DEF IndInv, TypeOK
  <2>3. pc[c] \notin {"idle", "sleeping"}
    BY <1>1 DEF Requesting, OnAttempt
  <2>4. attempt[c] \in 0..MaxRetries /\ MaxRetries \in Nat
    BY <2>2, RetryAssumption
  <2>5. CASE TakePermit(d)
    <3>1. d = c /\ pc[c] = "queued" /\ pc'[c] = "connecting" /\ attempt' = attempt
      BY <1>1, <2>2, <2>5 DEF TakePermit
    <3>2. QED
      BY <2>4, <3>1 DEF Requesting, OnAttempt, StepsLeft, Place
  <2>6. CASE Send(d)
    <3>1. d = c /\ pc[c] = "connecting" /\ pc'[c] = "sent" /\ attempt' = attempt
      BY <1>1, <2>2, <2>6 DEF Send
    <3>2. QED
      BY <2>4, <3>1 DEF Requesting, OnAttempt, StepsLeft, Place
  <2>7. CASE ReadStatus(d)
    <3>1. d = c /\ pc[c] = "sent" /\ pc'[c] = "reading" /\ attempt' = attempt
      BY <1>1, <2>2, <2>7 DEF ReadStatus
    <3>2. QED
      BY <2>4, <3>1 DEF Requesting, OnAttempt, StepsLeft, Place
  <2>8. CASE BackOff(d)
    <3>1. d = c /\ pc[c] = "reading" /\ pc'[c] = "backoff" /\ attempt' = attempt
      BY <1>1, <2>2, <2>8 DEF BackOff
    <3>2. QED
      BY <2>4, <3>1 DEF Requesting, OnAttempt, StepsLeft, Place
  <2>9. CASE Retry(d)
    <3>1. d = c /\ pc[c] = "backoff" /\ pc'[c] = "queued" /\ attempt'[c] = attempt[c] + 1
      BY <1>1, <2>2, <2>9 DEF Retry
    <3>2. attempt[c] < MaxRetries
      BY <1>1, <3>1 DEF IndInv, Agrees, Placed
    <3>3. QED
      BY <2>4, <3>1, <3>2 DEF Requesting, OnAttempt, StepsLeft, Place
  <2>10. CASE Submitted(d)
    BY <1>1, <2>2, <2>10 DEF Submitted
  <2>11. CASE ReadJobStatus(d)
    BY <1>1, <2>2, <2>11 DEF ReadJobStatus, Return
  <2>12. CASE ConnectionBreaks(d) \/ ReadBody(d) \/ RequestTimesOut(d) \/ Cancelled(d) \/ JobDeadline(d)
    BY <1>1, <2>2, <2>12 DEF ConnectionBreaks, ReadBody, RequestTimesOut, Cancelled, JobDeadline,
                             Fail, Return
  <2>13. CASE (\E k \in {"read", "write", "job"} : Begin(d, k)) \/ WakeUp(d)
    BY <1>1, <2>2, <2>3, <2>13 DEF Begin, WakeUp
  <2>14. CASE SdcTakes(d) \/ SdcFinishes(d) \/ SdcServes(d)
    BY <1>1, <2>14 DEF SdcTakes, SdcFinishes, SdcServes
  <2>15. QED
    BY <2>1, <2>5, <2>6, <2>7, <2>8, <2>9, <2>10, <2>11, <2>12, <2>13, <2>14
<1>2. IndInv /\ [Next]_vars =>
        [\A c \in Call : Requesting(c) /\ pc'[c] # pc[c] => Moves(c)]_vars
  BY <1>1
<1>3. QED
  BY <1>2, Consistent, PTL DEF Spec
=============================================================================
