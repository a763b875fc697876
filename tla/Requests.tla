------------------------------ MODULE Requests ------------------------------
(***************************************************************************)
(* The HTTP client of one SDC tenant: reads with their retries, mutations  *)
(* that are sent once, and jobs that are submitted and then polled, all    *)
(* sharing one pool of permits.                                            *)
(*                                                                         *)
(* Each call is a task.  Its awaits (a permit, the connection, the status  *)
(* line, the body, a retry delay, a poll interval) are the points where    *)
(* the caller's cancellation or the process's shutdown ends it, and the    *)
(* request timeout covers the awaits of one attempt, the permit included.  *)
(* SDC (external) takes a request, refuses it or loses it, and finishes    *)
(* jobs, whether or not the task that asked is still there.                *)
(***************************************************************************)
EXTENDS Naturals, FiniteSets, Outcomes

CONSTANTS
  Call,         \* calls of the client
  Permits,      \* max_concurrency
  MaxRetries,   \* MAX_RETRY_ATTEMPTS
  None          \* no result

(* What a call can return. *)
Results == LocalFailures \cup AnswersTo("landed", TRUE) \cup AnswersTo("landed", FALSE)
             \cup PollAnswers("landed") \cup {"api", "unsuccessful", "unreadable"}

ASSUME CallAssumption    == IsFiniteSet(Call)
ASSUME PermitsAssumption == Permits \in Nat \ {0}
ASSUME RetryAssumption   == MaxRetries \in Nat
ASSUME NoneAssumption    == None \notin {"read", "write", "job"} \cup Results

VARIABLES
  kind,      \* "read" (GET), "write" (send_write), "job" (send_write, then poll_job)
  pc,        \* the await the call stands at
  polling,   \* the job is submitted: the call is now polling it
  attempt,   \* retries of the current request so far
  free,      \* permits left in the pool
  reply,     \* what SDC answered the current request, "none" until it did
  wire,      \* SDC: what became of the mutating request
  sends,     \* history: mutating requests put on the wire
  result     \* what the call returned

vars == <<kind, pc, polling, attempt, free, reply, wire, sends, result>>

sdc     == <<reply, wire>>
history == <<sends>>

OnAttempt == {"queued", "connecting", "sent", "reading"}   \* under request_timeout
Permitted == {"connecting", "sent", "reading"}             \* holding a permit
Awaiting  == OnAttempt \cup {"backoff", "sleeping"}

Mutating(c) == kind[c] # "read" /\ ~polling[c]
Get(c)      == ~Mutating(c)

Init ==
  /\ kind = [c \in Call |-> None]
  /\ pc = [c \in Call |-> "idle"]
  /\ polling = [c \in Call |-> FALSE]
  /\ attempt = [c \in Call |-> 0]
  /\ free = Permits
  /\ reply = [c \in Call |-> "none"]
  /\ wire = [c \in Call |-> "unsent"]
  /\ sends = [c \in Call |-> 0]
  /\ result = [c \in Call |-> None]

-----------------------------------------------------------------------------
(* Leaving an attempt gives its permit back. *)
PutBack(c) == free' = IF pc[c] \in Permitted THEN free + 1 ELSE free

Return(c, r) ==
  /\ pc' = [pc EXCEPT ![c] = "done"]
  /\ result' = [result EXCEPT ![c] = r]
  /\ PutBack(c)
  /\ UNCHANGED <<kind, polling, attempt, sdc, history>>

(* A failed status read ends the polling, whatever the failure was. *)
Fail(c, r) == Return(c, IF polling[c] THEN "poll_error" ELSE r)

Begin(c, k) ==
  /\ pc[c] = "idle"
  /\ kind' = [kind EXCEPT ![c] = k]
  /\ \/ /\ pc' = [pc EXCEPT ![c] = "queued"]
        /\ UNCHANGED result
     \/ /\ pc' = [pc EXCEPT ![c] = "done"]        \* validate_atom, the URL
        /\ result' = [result EXCEPT ![c] = "invalid"]
  /\ UNCHANGED <<polling, attempt, free, sdc, history>>

TakePermit(c) ==
  /\ pc[c] = "queued"
  /\ free > 0
  /\ free' = free - 1
  /\ pc' = [pc EXCEPT ![c] = "connecting"]
  /\ UNCHANGED <<kind, polling, attempt, sdc, history, result>>

Send(c) ==
  /\ pc[c] = "connecting"
  /\ pc' = [pc EXCEPT ![c] = "sent"]
  /\ reply' = [reply EXCEPT ![c] = "none"]
  /\ IF Mutating(c)
     THEN /\ wire' = [wire EXCEPT ![c] = "inflight"]
          /\ sends' = [sends EXCEPT ![c] = @ + 1]
     ELSE UNCHANGED <<wire, sends>>
  /\ UNCHANGED <<kind, polling, attempt, free, result>>

(* The status line is read before anything of the body. *)
ReadStatus(c) ==
  /\ pc[c] = "sent"
  /\ reply[c] # "none"
  /\ pc' = [pc EXCEPT ![c] = "reading"]
  /\ UNCHANGED <<kind, polling, attempt, free, sdc, history, result>>

(* send_parts: a GET that SDC was too busy for is tried again after a      *)
(* delay, for which it holds no permit.                                    *)
(* slip: a busy SDC is asked again whatever was asked of it *)
RetryableAny(c) == attempt[c] < MaxRetries /\ reply[c] = "busy"

Retryable(c) == Get(c) /\ attempt[c] < MaxRetries /\ reply[c] = "busy"

(* slip: the permit is kept through the delay *)
BackOffHolding(c) ==
  /\ pc[c] = "reading"
  /\ Retryable(c)
  /\ pc' = [pc EXCEPT ![c] = "backoff"]
  /\ UNCHANGED <<kind, polling, attempt, free, sdc, history, result>>

BackOff(c) ==
  /\ pc[c] = "reading"
  /\ Retryable(c)
  /\ pc' = [pc EXCEPT ![c] = "backoff"]
  /\ PutBack(c)
  /\ UNCHANGED <<kind, polling, attempt, sdc, history, result>>

Retry(c) ==
  /\ pc[c] = "backoff"
  /\ attempt' = [attempt EXCEPT ![c] = @ + 1]
  /\ pc' = [pc EXCEPT ![c] = "queued"]
  /\ UNCHANGED <<kind, polling, free, sdc, history, result>>

(* The connection fails or breaks, or the body exceeds its limit.  Once    *)
(* the status of a mutation said success, the loss of the body leaves its  *)
(* outcome unknown; a body that will be retried anyway is not missed.      *)
ConnectionBreaks(c) ==
  /\ pc[c] \in Permitted
  /\ ~(pc[c] = "reading" /\ Retryable(c))
  /\ Fail(c, IF pc[c] = "reading" /\ Mutating(c) /\ reply[c] = "ok"
             THEN "unknown" ELSE "transport")

(* The body is read and parsed: of a status other than success it is the   *)
(* error, of a read the answer, of a write the answer or nothing legible.  *)
ReadBody(c) ==
  /\ pc[c] = "reading"
  /\ ~Retryable(c)
  /\ ~polling[c]
  /\ \/ reply[c] # "ok" /\ Return(c, "api")
     \/ reply[c] = "ok" /\ kind[c] = "read" /\ \E r \in {"ok", "unreadable"} : Return(c, r)
     \/ reply[c] = "ok" /\ kind[c] = "write" /\ \E r \in {"ok", "unknown"} : Return(c, r)
     \/ reply[c] = "ok" /\ kind[c] = "job" /\ \E r \in {"no_job_id", "unknown"} : Return(c, r)

(* slip: a job is polled whatever the status of its submission *)
SubmittedUnchecked(c) ==
  /\ pc[c] = "reading"
  /\ kind[c] = "job" /\ ~polling[c]
  /\ polling' = [polling EXCEPT ![c] = TRUE]
  /\ pc' = [pc EXCEPT ![c] = "queued"]
  /\ PutBack(c)
  /\ UNCHANGED <<kind, attempt, sdc, history, result>>

(* The submission named its job: from here on the call polls it. *)
Submitted(c) ==
  /\ pc[c] = "reading"
  /\ kind[c] = "job" /\ ~polling[c]
  /\ reply[c] = "ok"
  /\ polling' = [polling EXCEPT ![c] = TRUE]
  /\ pc' = [pc EXCEPT ![c] = "queued"]
  /\ PutBack(c)
  /\ UNCHANGED <<kind, attempt, sdc, history, result>>

(* slip: what is not running has succeeded *)
ReadJobStatusOptimistic(c) ==
  /\ pc[c] = "reading"
  /\ ~Retryable(c)
  /\ polling[c]
  /\ \/ reply[c] \in {"landed", "partial", "aborted"} /\ Return(c, "succeeded")
     \/ reply[c] \in {"busy", "error"} /\ Return(c, "poll_error")
     \/ /\ reply[c] = "running"
        /\ pc' = [pc EXCEPT ![c] = "sleeping"]
        /\ PutBack(c)
        /\ UNCHANGED <<kind, polling, attempt, sdc, history, result>>

(* A job status ends the polling only if it is one this build knows to be  *)
(* terminal; every other is waited out.                                    *)
ReadJobStatus(c) ==
  /\ pc[c] = "reading"
  /\ ~Retryable(c)
  /\ polling[c]
  /\ \/ reply[c] = "landed" /\ Return(c, "succeeded")
     \/ reply[c] \in {"partial", "aborted"} /\ Return(c, "unsuccessful")
     \/ Return(c, "poll_error")                \* an error status, or no JSON
     \/ /\ reply[c] = "running"
        /\ pc' = [pc EXCEPT ![c] = "sleeping"]
        /\ PutBack(c)
        /\ UNCHANGED <<kind, polling, attempt, sdc, history, result>>

WakeUp(c) ==
  /\ pc[c] = "sleeping"
  /\ attempt' = [attempt EXCEPT ![c] = 0]
  /\ pc' = [pc EXCEPT ![c] = "queued"]
  /\ UNCHANGED <<kind, polling, free, sdc, history, result>>

-----------------------------------------------------------------------------
(* What ends a call from outside its own steps *)

(* slip: the timeout covers the connection and not the answer *)
RequestTimesOutConnecting(c) ==
  pc[c] \in {"queued", "connecting"} /\ Fail(c, "timeout")

(* request_timeout runs over one attempt, its wait for a permit and the    *)
(* reading of its body included.                                           *)
RequestTimesOut(c) == pc[c] \in OnAttempt /\ Fail(c, "timeout")

(* The caller goes away, or the process shuts down: every await is raced   *)
(* against both.                                                           *)
Cancelled(c) == pc[c] \in Awaiting /\ Return(c, "cancelled")

(* The deadline runs over the probes, their retries and the intervals. *)
JobDeadline(c) == polling[c] /\ pc[c] \in Awaiting /\ Return(c, "deadline")

-----------------------------------------------------------------------------
(* SDC *)

(* It takes, refuses or loses a mutation, and its answer may be lost too. *)
SdcTakes(c) ==
  /\ wire[c] = "inflight"
  /\ \/ /\ wire' = [wire EXCEPT ![c] = "rejected"]
        /\ \E s \in {"busy", "error"} : reply' = [reply EXCEPT ![c] = s]
     \/ /\ wire' = [wire EXCEPT ![c] = IF kind[c] = "job" THEN "running" ELSE "landed"]
        /\ \E s \in {"ok", "none"} : reply' = [reply EXCEPT ![c] = s]
     \/ wire' = [wire EXCEPT ![c] = "lost"] /\ UNCHANGED reply
  /\ UNCHANGED <<kind, pc, polling, attempt, free, history, result>>

SdcFinishes(c) ==
  /\ wire[c] = "running"
  /\ \E w \in {"landed", "partial", "aborted"} : wire' = [wire EXCEPT ![c] = w]
  /\ UNCHANGED <<kind, pc, polling, attempt, free, reply, history, result>>

(* It answers a read; of a job it reports the state it is in now, perhaps  *)
(* in a word this build does not know, which counts as running.            *)
SdcServes(c) ==
  /\ pc[c] = "sent" /\ Get(c)
  /\ reply[c] = "none"
  /\ \E s \in {"busy", "error"} \cup (IF polling[c] THEN {"running", wire[c]} ELSE {"ok"}) :
       reply' = [reply EXCEPT ![c] = s]
  /\ UNCHANGED <<kind, pc, polling, attempt, free, wire, history, result>>

Next ==
  \E c \in Call :
    \/ \E k \in {"read", "write", "job"} : Begin(c, k)
    \/ TakePermit(c)
    \/ Send(c)
    \/ ReadStatus(c)
    \/ ConnectionBreaks(c)
    \/ BackOff(c)
    \/ Retry(c)
    \/ ReadBody(c)
    \/ Submitted(c)
    \/ ReadJobStatus(c)
    \/ WakeUp(c)
    \/ RequestTimesOut(c)
    \/ Cancelled(c)
    \/ JobDeadline(c)
    \/ SdcTakes(c)
    \/ SdcFinishes(c)
    \/ SdcServes(c)

Spec == Init /\ [][Next]_vars

(* The four timers go off: request timeout, retry delay, poll interval and *)
(* poll deadline.  Nothing is assumed of SDC, of the connection, of the    *)
(* caller, or of who gets the next permit.                                 *)
Fairness ==
  \A c \in Call : /\ WF_vars(RequestTimesOut(c))
                 /\ WF_vars(Retry(c))
                 /\ WF_vars(WakeUp(c))
                 /\ WF_vars(JobDeadline(c))

FairSpec == Spec /\ Fairness

-----------------------------------------------------------------------------
(* Properties *)

(* Every variable keeps to the values the program gives it. *)
TypeOK ==
  /\ kind \in [Call -> {"read", "write", "job", None}]
  /\ pc \in [Call -> Awaiting \cup {"idle", "done"}]
  /\ polling \in [Call -> BOOLEAN]
  /\ attempt \in [Call -> 0..MaxRetries]
  /\ free \in 0..Permits
  /\ reply \in [Call -> {"none", "ok", "busy", "error"} \cup Taken]
  /\ wire \in [Call -> {"unsent", "inflight", "rejected", "lost"} \cup Taken]
  /\ sends \in [Call -> Nat]
  /\ result \in [Call -> Results \cup {None}]

(* What a mutating call returns is true of SDC, as the transactions rely   *)
(* on: "ok" and "unknown" only when SDC took the request, "api" only when  *)
(* it refused, a job's end only when it ended so, and a refusal to send    *)
(* only when nothing was sent.                                             *)
Honest(c, r) ==
  kind[c] \in {"write", "job"} =>
    r \in IF wire[c] = "unsent" THEN LocalFailures
          ELSE IF polling[c] THEN PollAnswers(wire[c])
          ELSE AnswersTo(wire[c], kind[c] = "job")

ContractKept == \A c \in Call : result[c] # None => Honest(c, result[c])

(* A write is never sent again "into an unknown state": neither a busy SDC *)
(* nor a lost answer, a poll or its retries put a mutation out twice.      *)
SentOnce == \A c \in Call : sends[c] <= 1

(* Every permit is in the pool or with a call that talks to SDC: a call    *)
(* that waits out a retry delay or a poll interval, or is gone, has none.  *)
PermitsAccounted ==
  free + Cardinality({c \in Call : pc[c] \in Permitted}) = Permits

(* The strengthening the proofs use.  Where a call stands: only a request  *)
(* SDC took is polled, and only a GET waits.                               *)
Placed(c) ==
  /\ (kind[c] = None) <=> (pc[c] = "idle")
  /\ (result[c] = None) <=> (pc[c] # "done")
  /\ kind[c] \in {"read", None} => wire[c] = "unsent"
  /\ polling[c] => kind[c] = "job" /\ wire[c] \in Taken
  /\ pc[c] \in {"backoff", "sleeping"} => Get(c)
  /\ pc[c] = "backoff" => attempt[c] < MaxRetries

(* What is on the wire: a mutation leaves once, when its call sends it. *)
OnTheWire(c) ==
  /\ sends[c] = IF wire[c] = "unsent" THEN 0 ELSE 1
  /\ Mutating(c) /\ pc[c] \in {"queued", "connecting"} => wire[c] = "unsent"
  /\ Mutating(c) /\ pc[c] \in {"sent", "reading"} => wire[c] # "unsent"

(* What an answer tells of SDC while the call still looks at it. *)
AnswerIsTrue(c) ==
  pc[c] \in {"sent", "reading"} =>
    /\ pc[c] = "reading" => reply[c] # "none"
    /\ Mutating(c) =>
         \/ reply[c] = "none"
         \/ reply[c] = "ok" /\ wire[c] \in Taken
         \/ reply[c] \in {"busy", "error"} /\ wire[c] = "rejected"
    /\ polling[c] /\ reply[c] \in {"landed", "partial", "aborted"} => wire[c] = reply[c]

Agrees(c) ==
  /\ Placed(c)
  /\ OnTheWire(c)
  /\ AnswerIsTrue(c)
  /\ result[c] # None => Honest(c, result[c])

(* The inductive invariant: calls, answers, wire and pool agree. *)
IndInv ==
  /\ TypeOK
  /\ PermitsAccounted
  /\ \A c \in Call : Agrees(c)

(* A call returns even if SDC never answers, never finishes a job, is busy *)
(* for ever, or every permit is taken.                                     *)
EveryCallReturns == \A c \in Call : pc[c] \in Awaiting ~> pc[c] = "done"
=============================================================================
