------------------------------ MODULE Outcomes ------------------------------
(***************************************************************************)
(* What a client call for a mutation can return, given what SDC has done   *)
(* with its request: the contract between the client and the transactions. *)
(* ChangeControl relies on it, Requests is checked against it.             *)
(***************************************************************************)

(* The request fails before it leaves: an argument is refused, the call is *)
(* cancelled or times out waiting for a permit, or no connection is made.  *)
LocalFailures == {"invalid", "cancelled", "timeout", "transport"}

(* SDC answered with a success status. *)
Taken == {"running", "landed", "partial", "aborted"}

(* A timeout, a cancellation or a broken connection can come at any moment *)
(* after the request left; the other results tell something of SDC.        *)
AnswersTo(w, job) ==
  {"timeout", "cancelled", "transport"}
    \cup (IF w = "rejected" THEN {"api"} ELSE {})
    \cup (IF w \in Taken THEN {"unknown"} ELSE {})
    \cup (IF w \in Taken /\ job THEN {"no_job_id"} ELSE {})
    \cup (IF w \in Taken /\ ~job THEN {"ok"} ELSE {})

(* What polling a job can return. *)
PollAnswers(w) ==
  {"deadline", "cancelled", "poll_error"}
    \cup (IF w = "landed" THEN {"succeeded"} ELSE {})
    \cup (IF w \in {"partial", "aborted"} THEN {"unsuccessful"} ELSE {})
=============================================================================
