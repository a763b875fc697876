----------------------- MODULE ChangeControlRefinement -----------------------
(* ChangeControl implements ApprovedWrite: the tenant is held by the        *)
(* operations that block it, a request is open while SDC has neither        *)
(* refused it nor finished with it, and a change set is abandoned when an   *)
(* operator discards its operation or a server without a state file dies.   *)
EXTENDS ChangeControl

AbstractStage(ph) ==
  CASE ph = "none"     -> "unplanned"
    [] ph = "planned"  -> "planned"
    [] ph = "approved" -> "authorized"
    [] ph = "applied"  -> "spent"
    [] OTHER           -> "void"

stageBar     == [c \in ChangeSet |-> AbstractStage(phase[c])]
heldBar      == {c \in ChangeSet : op[c] \in Blocking}
writtenBar   == {c \in ChangeSet : Sent(c)}
openBar      == {c \in ChangeSet : Unsettled(c)}
abandonedBar == {c \in ChangeSet : GivenUp(c)}

Promise == INSTANCE ApprovedWrite
             WITH stage <- stageBar, held <- heldBar, written <- writtenBar,
                  open <- openBar, abandoned <- abandonedBar

(* Every behaviour of the write path is one the promise allows: each step   *)
(* of a handler, of the operator, of SDC or of the process is one abstract  *)
(* step or none.                                                            *)
KeepsPromise == Promise!Spec
=============================================================================
