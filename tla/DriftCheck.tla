----------------------------- MODULE DriftCheck -----------------------------
(***************************************************************************)
(* What a drift check sees.  prepare reads the target of a change, and     *)
(* apply reads it again, at validation and just before the write, to       *)
(* refuse a plan whose target has moved.  SDC has no snapshot and no       *)
(* conditional write: a target of several parts is read part by part, only *)
(* some of a part is compared, and others may edit it between any two      *)
(* reads.                                                                  *)
(*                                                                         *)
(* ChangeControl compares one version at one instant (Unchanged); this     *)
(* module says what that comparison stands for.                            *)
(***************************************************************************)
EXTENDS Naturals, FiniteSets

CONSTANTS
  MaxParts,    \* bound: parts a target has (64 devices in the code)
  Value,       \* what a part can hold
  MaxEdits,    \* bound: edits by others
  None         \* not read

ASSUME PartsAssumption == MaxParts \in Nat \ {0, 1}
ASSUME EditsAssumption == MaxEdits \in Nat
ASSUME NoneAssumption  == None \notin [shown : Value, rest : Value]

Part == 1..MaxParts

VARIABLES
  shape,    \* "create", "record", "lists" or "devices"
  size,     \* parts of this target, read in the order 1..size
  now,      \* SDC: what each part holds
  before,   \* the plan: what prepare read of each part
  stage,    \* where prepare and apply stand
  next,     \* the part the current pass reads next
  moved,    \* history: parts edited, in what is compared, since prepare read them
  late,     \* history: parts edited since the recheck read them
  off,      \* history: parts that have differed from the plan ever since the recheck began
  edits     \* history: edits so far

plan    == <<shape, size>>
history == <<moved, late, off, edits>>
vars    == <<plan, now, before, stage, next, history>>

Content == [shown : Value, rest : Value]

(* A create has nothing to read.  An object, a policy or a NAT rule is one *)
(* record.  A license or certificate install reads one list of the device, *)
(* a deletion two.  A sync reads each device it names.                     *)
Sizes(s) ==
  CASE s = "create"  -> {0}
    [] s = "record"  -> {1}
    [] s = "lists"   -> {1, 2}
    [] s = "devices" -> Part

(* slip: the whole of a device is compared *)
ViewWhole(content) == content

(* What the comparison looks at.  Of a record all of it; of a list the     *)
(* answer to one request for its first 100 entries; of a device the pair   *)
(* of sync states.                                                         *)
View(content) ==
  IF shape = "record" THEN content ELSE [content EXCEPT !.rest = "ignored"]

Same(p) == View(now[p]) = View(before[p])

Init ==
  /\ shape \in {"create", "record", "lists", "devices"}
  /\ size \in Sizes(shape)
  /\ now \in [Part -> Content]
  /\ before = [p \in Part |-> None]
  /\ stage = "preparing"
  /\ next = 1
  /\ moved = {} /\ late = {} /\ off = {}
  /\ edits = 0

-----------------------------------------------------------------------------
ReadBefore ==
  /\ stage = "preparing"
  /\ next <= size
  /\ before' = [before EXCEPT ![next] = now[next]]
  /\ next' = next + 1
  /\ UNCHANGED <<plan, now, stage, history>>

Prepared ==
  /\ stage = "preparing"
  /\ next > size
  /\ stage' = "planned"
  /\ UNCHANGED <<plan, now, before, next, history>>

BeginValidate ==
  /\ stage = "planned"
  /\ stage' = "validating"
  /\ next' = 1
  /\ UNCHANGED <<plan, now, before, history>>

(* slip: the validation a moment ago is good enough *)
BeginCommitTrusting ==
  /\ stage = "validated"
  /\ stage' = "sending"
  /\ off' = {p \in 1..size : ~Same(p)}
  /\ UNCHANGED <<plan, now, before, next, moved, late, edits>>

BeginCommit ==
  /\ stage = "validated"
  /\ stage' = "rechecking"
  /\ next' = 1
  /\ off' = {p \in 1..size : ~Same(p)}
  /\ UNCHANGED <<plan, now, before, moved, late, edits>>

Checking == stage \in {"validating", "rechecking"}

ReadAgain ==
  /\ Checking
  /\ next <= size
  /\ Same(next)
  /\ next' = next + 1
  /\ UNCHANGED <<plan, now, before, stage, history>>

(* TargetDrifted.  A deletion compares its two lists once it has read      *)
(* both; a first list that differed when it was read refuses it all the    *)
(* same, whatever the second one holds.                                    *)
Drifted ==
  /\ Checking
  /\ next <= size
  /\ ~Same(next)
  /\ stage' = "refused"
  /\ UNCHANGED <<plan, now, before, next, history>>

(* slip: the loop leaves out the last part *)
UnchangedButLast ==
  /\ Checking
  /\ next >= size
  /\ stage' = IF stage = "validating" THEN "validated" ELSE "sending"
  /\ UNCHANGED <<plan, now, before, next, history>>

Unchanged ==
  /\ Checking
  /\ next > size
  /\ stage' = IF stage = "validating" THEN "validated" ELSE "sending"
  /\ UNCHANGED <<plan, now, before, next, history>>

(* A read fails: nothing is planned, or nothing is written. *)
ReadFails ==
  /\ stage = "preparing" \/ Checking
  /\ next <= size
  /\ stage' = "failed"
  /\ UNCHANGED <<plan, now, before, next, history>>

Send ==
  /\ stage = "sending"
  /\ stage' = "sent"
  /\ UNCHANGED <<plan, now, before, next, history>>

(* Someone else edits the target, perhaps back to what it was.  late and   *)
(* moved only follow what is compared.                                     *)
Edit(p, content) ==
  /\ edits < MaxEdits
  /\ edits' = edits + 1
  /\ p <= size
  /\ content # now[p]
  /\ now' = [now EXCEPT ![p] = content]
  /\ LET seen    == shape = "record" \/ content.shown # now[p].shown
         passed  == stage \in {"sending", "sent"} \/ (stage = "rechecking" /\ p < next)
         planned == stage # "preparing" \/ p < next
     IN  /\ moved' = IF seen /\ planned THEN moved \cup {p} ELSE moved
         /\ late' = IF seen /\ passed THEN late \cup {p} ELSE late
  /\ off' = IF before[p] # None /\ View(content) = View(before[p]) THEN off \ {p} ELSE off
  /\ UNCHANGED <<plan, before, stage, next>>

Next ==
  \/ ReadBefore
  \/ Prepared
  \/ BeginValidate
  \/ BeginCommit
  \/ ReadAgain
  \/ Drifted
  \/ Unchanged
  \/ ReadFails
  \/ Send
  \/ \E p \in Part, content \in Content : Edit(p, content)

Spec == Init /\ [][Next]_vars

-----------------------------------------------------------------------------
(* Properties *)

Stages == {"preparing", "planned", "validating", "validated", "rechecking",
           "sending", "sent", "refused", "failed"}

(* Every variable keeps to the values the program gives it. *)
TypeOK ==
  /\ shape \in {"create", "record", "lists", "devices"}
  /\ size \in Sizes(shape)
  /\ now \in [Part -> Content]
  /\ before \in [Part -> Content \cup {None}]
  /\ stage \in Stages
  /\ next \in 1..(size + 1)
  /\ moved \subseteq 1..size /\ late \subseteq 1..size /\ off \subseteq 1..size
  /\ edits \in 0..MaxEdits

(* The parts the recheck has found as the plan has them. *)
Passed == CASE stage = "rechecking"          -> 1..(next - 1)
            [] stage \in {"sending", "sent"} -> 1..size
            [] OTHER                         -> {}

(* "This narrows the window rather than closing it": a write goes out over *)
(* a target that differs from its plan only where the target was edited    *)
(* after the recheck had read that very part, in whatever order the parts  *)
(* were read and edited, at prepare and since.                             *)
OnlyTheWindowIsOpen == \A p \in Passed : Same(p) \/ p \in late

(* A change that was there when the recheck began and that nobody takes    *)
(* back stops the write, wherever in the target it is.                     *)
LastingDriftStops == stage \in {"sending", "sent"} => off = {}

(* "comparing it would refuse plans over irrelevant drift": a plan is      *)
(* refused as drifted only if what is compared was edited after prepare    *)
(* had read it.                                                            *)
RefusedOnlyIfMoved == stage = "refused" => moved # {}

(* What prepare has read, and nobody edited since, is as it was. *)
ReadByPrepare == IF stage = "preparing" THEN 1..(next - 1) ELSE 1..size

(* The inductive invariant. *)
IndInv ==
  /\ TypeOK
  /\ stage # "failed" => \A p \in ReadByPrepare : before[p] # None /\ (Same(p) \/ p \in moved)
  /\ OnlyTheWindowIsOpen
  /\ RefusedOnlyIfMoved
  /\ \A p \in off : before[p] # None /\ ~Same(p)
  /\ off \cap Passed = {}
  /\ stage \in {"preparing", "planned", "validating", "validated"} => off = {} /\ late = {}
=============================================================================
