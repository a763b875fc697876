------------------------------ MODULE MCPaging ------------------------------
(* Five versions, one of them over the page budget by itself; entries cut  *)
(* to fields weigh one, and the limit is passed by the heaviest archives.  *)
EXTENDS Paging

CONSTANTS v1, v2, v3, v4, v5

MCWeight == (v1 :> 1) @@ (v2 :> 2) @@ (v3 :> 4) @@ (v4 :> 2) @@ (v5 :> 1)
MCNarrow == [v \in Version |-> 1]
=============================================================================
