---------------------------- MODULE ApprovedWrite ----------------------------
(***************************************************************************)
(* What the write path promises of a tenant, with no handler, coordinator  *)
(* or error in sight: a change set is planned, authorized once and spent   *)
(* once; it holds the tenant while it writes, writes at most once, and is  *)
(* not let go of while SDC may still act on its request, unless someone    *)
(* abandons it knowingly or the server forgets everything.                 *)
(***************************************************************************)
CONSTANT ChangeSet

VARIABLES
  stage,      \* of each change set: unplanned, planned, authorized, spent, void
  held,       \* the change sets that hold the tenant
  written,    \* the change sets whose request was sent
  open,       \* the requests SDC may still act on
  abandoned   \* the change sets given up without an outcome

vars == <<stage, held, written, open, abandoned>>

Init ==
  /\ stage = [c \in ChangeSet |-> "unplanned"]
  /\ held = {} /\ written = {} /\ open = {} /\ abandoned = {}

Move(c, from, to) ==
  stage[c] \in from /\ stage' = [stage EXCEPT ![c] = to]

Plan(c)      == Move(c, {"unplanned"}, "planned") /\ UNCHANGED <<held, written, open, abandoned>>
Authorize(c) == Move(c, {"planned"}, "authorized") /\ UNCHANGED <<held, written, open, abandoned>>
Withdraw(c)  == Move(c, {"planned", "authorized"}, "void")
                /\ UNCHANGED <<held, written, open, abandoned>>

Acquire(c) ==
  /\ Move(c, {"authorized"}, "spent")
  /\ held = {}
  /\ held' = {c}
  /\ UNCHANGED <<written, open, abandoned>>

Write(c) ==
  /\ c \in held \ written
  /\ stage[c] = "spent"
  /\ written' = written \cup {c}
  /\ open' = open \cup {c}
  /\ UNCHANGED <<stage, held, abandoned>>

Close(c) ==
  /\ c \in open
  /\ open' = open \ {c}
  /\ UNCHANGED <<stage, held, written, abandoned>>

LetGo(c) ==
  /\ c \in held \ open
  /\ held' = held \ {c}
  /\ UNCHANGED <<stage, written, open, abandoned>>

Abandon(c) ==
  /\ c \in held
  /\ held' = held \ {c}
  /\ abandoned' = abandoned \cup {c}
  /\ UNCHANGED <<stage, written, open>>

Forget ==
  /\ stage' = [c \in ChangeSet |->
                 IF stage[c] = "unplanned" THEN "unplanned" ELSE "void"]
  /\ held' = {}
  /\ abandoned' = abandoned \cup held
  /\ UNCHANGED <<written, open>>

Next ==
  \/ \E c \in ChangeSet :
       Plan(c) \/ Authorize(c) \/ Withdraw(c) \/ Acquire(c) \/ Write(c)
         \/ Close(c) \/ LetGo(c) \/ Abandon(c)
  \/ Forget

Spec == Init /\ [][Next]_vars
=============================================================================
