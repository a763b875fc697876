----------------------------- MODULE ToolCalls -----------------------------
(***************************************************************************)
(* One tool call inside its handler, for every tool of the router: the     *)
(* refusals before any request, the client's requests, the view of the     *)
(* answer the handler hands out, redaction, the audit record and the size  *)
(* limit of the result.                                                    *)
(*                                                                         *)
(* A JSON value is abstracted to its shape and to what kinds of fields it  *)
(* has: beside the collection (outer), on its members (inner), inside a    *)
(* member's listed field (nested).                                         *)
(***************************************************************************)
EXTENDS Tools, Naturals, FiniteSets

CONSTANT MaxFields   \* bound: kinds of fields in a value

ASSUME ToolCallsAssumption == MaxFields \in Nat

(* listed: on the tool's allow-list; unlisted: not; secret: a name on the  *)
(* shared deny-list; config: site_config or cpe_config; cursor: a name the *)
(* deny-list would match but KEY_EXEMPTIONS carves out; keys: an RMA       *)
(* state's missing_licenses.                                               *)
Field == {"listed", "unlisted", "secret", "config", "cursor", "keys"}

(* collection: the expected key holds an array of objects; odd: and their  *)
(* nested lists do not; mixed: not all members are objects; noarray: the   *)
(* key holds something else; bare: an object without the key; scalar: not  *)
(* an object.                                                              *)
Shape == {"collection", "odd", "mixed", "noarray", "bare", "scalar"}

Value(s, o, i, n, of) == [shape |-> s, outer |-> o, inner |-> i, nested |-> n, of |-> of]

(* What SDC answers, or a plan holds: members and what is inside them only *)
(* where there are members, and up to MaxFields kinds of fields in all.    *)
FieldSet == { F \in SUBSET Field : Cardinality(F) <= MaxFields }

Given(of) ==
  { v \in { Value(s, o, i, n, of) : s \in Shape, o, i, n \in FieldSet } :
      /\ Cardinality(v.outer) + Cardinality(v.inner) + Cardinality(v.nested) <= MaxFields
      /\ v.inner \cup v.nested = {} \/ v.shape \in {"collection", "odd", "mixed"} }

Withheld(of) == Value("withheld", {}, {}, {}, of)

VARIABLES
  row,        \* the tool
  step,       \* where the handler stands
  allowed,    \* authorize let it pass
  pageOk,     \* the page is within 1..max_page_size
  bad,        \* the first identifier or field name that is malformed, 0 if none is
  wire,       \* history: requests sent for it
  value,      \* the parts of the result so far
  failed,     \* the result is an error
  effect,     \* history: what a change did
  audit,      \* the audit record
  answer      \* what the caller gets

vars == <<row, step, allowed, pageOk, bad, wire, value, failed, effect, audit, answer>>

input == <<row, allowed, pageOk, bad>>

Reading  == row.act = "read"
Remote   == Reading /\ row.method \notin LocalReads
Combined == row.method = "list_users_and_roles"

(* Identifiers and field names a method checks before it sends. *)
Checked == IF Remote
           THEN MethodOf(row.method).ids
                  + (IF MethodOf(row.method).paging = "fields" THEN 1 ELSE 0)
           ELSE 0

Init ==
  /\ row \in Tools
  /\ allowed \in BOOLEAN
  /\ pageOk \in BOOLEAN
  /\ bad \in 0..Checked
  /\ step = "authorize"
  /\ wire = 0
  /\ value = {}
  /\ failed = FALSE
  /\ effect = "none"
  /\ audit = "open"
  /\ answer = "none"

-----------------------------------------------------------------------------
Goto(s) == step' = s /\ UNCHANGED <<input, wire, value, failed, effect, audit, answer>>

(* An error skips the view and meets the audit record. *)
Err ==
  /\ failed' = TRUE
  /\ step' = "finish"
  /\ UNCHANGED <<input, wire, value, effect, audit, answer>>

Authorize ==
  /\ step = "authorize"
  /\ IF allowed THEN Goto("page")
     ELSE /\ audit' = "denied"
          /\ answer' = "error"
          /\ step' = "done"
          /\ UNCHANGED <<input, wire, value, failed, effect>>

(* ListRequest::new: a size of 0 would mean everything. *)
CheckPage ==
  /\ step = "page"
  /\ IF row.paged /\ ~pageOk THEN Err ELSE Goto("identifiers")

(* slip: only the first identifier of a path is checked *)
FirstOnly(n) == n # 1

Valid(n) == n = 0

CheckIdentifiers ==
  /\ step = "identifiers"
  /\ IF Valid(bad) THEN Goto(IF Remote THEN "request" ELSE "manager") ELSE Err

(* One request, or users and then roles: the first error is the result. *)
Request ==
  /\ step = "request"
  /\ wire' = wire + 1
  /\ \/ /\ failed' = TRUE          \* transport, timeout, status, size, no JSON, cancelled
        /\ step' = "finish"
        /\ UNCHANGED value
     \/ /\ \E v \in Given(IF ~Combined THEN "read" ELSE IF wire = 0 THEN "users" ELSE "roles") :
             value' = value \cup {v}
        /\ step' = IF Combined /\ wire = 0 THEN "request" ELSE "view"
        /\ UNCHANGED failed
  /\ UNCHANGED <<input, effect, audit, answer>>

(* ChangeManager: a status, a stored plan, or a change with its plan.  An  *)
(* error of a change may come after it took effect.                        *)
Manager ==
  /\ step = "manager"
  /\ \/ /\ failed' = TRUE
        /\ step' = "finish"
        /\ effect' \in IF Reading THEN {"none"} ELSE {"none", "unknown"}
        /\ UNCHANGED value
     \/ /\ \E of \in IF row.method = "prepared_change" THEN {"licence", "other"}
                     ELSE IF row.view = "planned" THEN {"licence"} ELSE {"other"} :
             \E v \in Given(of) : value' = {v}
        /\ step' = "view"
        /\ effect' = IF Reading THEN "none" ELSE "taken"
        /\ UNCHANGED failed
  /\ UNCHANGED <<input, wire, audit, answer>>

-----------------------------------------------------------------------------
(* Views *)

Allowed(fields) == fields \cap {"listed"}

(* project_collection, and for users project_role_refs, fail closed. *)
Projectable(v) ==
  \/ v.shape \in {"collection", "bare"}
  \/ v.shape = "odd" /\ v.of # "users"

(* Members keep their listed fields, with all that is inside them but for  *)
(* a user's roles; what stands beside the collection is passed on, and so  *)
(* is an object that has no collection.                                    *)
Project(v) ==
  IF v.shape \in {"bare", "mixed"} THEN v
  ELSE [v EXCEPT !.inner = Allowed(v.inner),
                 !.nested = IF v.of = "users" THEN Allowed(v.nested) ELSE v.nested]

(* project_license: the object is the member. *)
ProjectLicense(v) == [v EXCEPT !.outer = Allowed(v.outer), !.inner = {}]

(* page_list keeps the array and makes an envelope of its own. *)
Sliceable(v) == v.shape \in {"collection", "odd", "mixed"}
Slices(v) == { [v EXCEPT !.outer = o] : o \in {{}, {"cursor"}} }

(* redact_rma_state: the keys are masked, or all that stands in their place. *)
WithoutKeys(v) == IF v.shape = "scalar" THEN v ELSE [v EXCEPT !.outer = @ \ {"keys"}]

(* slip: a plan that cannot be projected fails the call *)
PlanViewStrict == {}

(* projected_or_withheld: a licence plan is projected like the reads, and  *)
(* what cannot be projected is withheld; other plans go out as staged.     *)
PlanView ==
  { [v \in value |-> IF v.of = "other" THEN v
                     ELSE IF Projectable(v) THEN Project(v) ELSE Withheld(v.of)] }

ListView ==
  IF row.method = "get_license"
  THEN { f \in { [v \in value |-> ProjectLicense(v)] } : \A v \in value : v.shape # "scalar" }
  ELSE { f \in { [v \in value |-> Project(v)] } : \A v \in value : Projectable(v) }

SliceView == { f \in [value -> UNION { Slices(v) : v \in value }] :
                 \A v \in value : Sliceable(v) /\ f[v] \in Slices(v) }

(* The views the handler may hand out: none when it fails.  A page also    *)
(* fails over a continuation token that page_list did not issue.           *)
Views ==
  CASE row.view = "whole"   -> { [v \in value |-> v] }
    [] row.view = "listed"  -> ListView
    [] row.view = "planned" -> PlanView
    [] row.view = "rma"     -> { [v \in value |-> WithoutKeys(v)] }
    [] row.view = "slice"   -> SliceView

View ==
  /\ step = "view"
  /\ \/ (Views = {} \/ row.view = "slice") /\ Err
     \/ /\ \E f \in Views : value' = { f[v] : v \in value }
        /\ step' = "redact"
        /\ UNCHANGED <<input, wire, failed, effect, audit, answer>>

(* slip: only the members of the deny-list are masked *)
MaskListed(fields) == fields \ {"secret"}

(* redact_secrets: a secret's value and a rendered configuration are       *)
(* replaced at any depth, an exempt name is left alone.                    *)
Mask(fields) == fields \ {"secret", "config"}

Redact ==
  /\ step = "redact"
  /\ value' = { [v EXCEPT !.outer = Mask(@), !.inner = Mask(@), !.nested = Mask(@)] :
                  v \in value }
  /\ step' = "finish"
  /\ UNCHANGED <<input, wire, failed, effect, audit, answer>>

(* finish: the audit record first, the limit of the result after it. *)
Finish ==
  /\ step = "finish"
  /\ step' = "done"
  /\ audit' = IF failed THEN "failed" ELSE "succeeded"
  /\ \E large \in BOOLEAN : answer' = IF failed THEN "error" ELSE IF large THEN "large" ELSE "value"
  /\ UNCHANGED <<input, wire, value, failed, effect>>

Next ==
  \/ Authorize \/ CheckPage \/ CheckIdentifiers
  \/ Request \/ Manager
  \/ View \/ Redact \/ Finish

Spec == Init /\ [][Next]_vars

-----------------------------------------------------------------------------
(* Properties *)

(* What a caller gets holds no credential at any depth, no rendered        *)
(* configuration and no licence key; members that have an allow-list show  *)
(* nothing else, whether they are read, planned or looked up in a stored   *)
(* plan.  The exceptions are the code's own: what stands beside a          *)
(* collection, and an object that has none, are passed on unprojected.     *)
Confined ==
  answer = "value" => \A v \in value :
    /\ (v.outer \cup v.inner \cup v.nested) \cap {"secret", "config"} = {}
    /\ row.view = "rma" /\ v.shape # "scalar" => "keys" \notin v.outer
    /\ row.view = "listed" \/ v.of = "licence" =>
         /\ v.shape # "bare" => v.inner \subseteq {"listed"}
         /\ v.shape \in {"collection", "odd", "bare", "withheld"}
              \/ row.method = "get_license"
         /\ row.method = "get_license" => v.outer \subseteq {"listed"}
         /\ v.of = "users" /\ v.shape # "bare" => v.nested \subseteq {"listed"}

(* A call that is refused, asks for a page it may not have or names a      *)
(* malformed identifier costs SDC no request; a call sends one, and two    *)
(* for users and roles.                                                    *)
RefusedLocally ==
  /\ wire > 0 => allowed /\ Reading /\ bad = 0 /\ (row.paged => pageOk)
  /\ wire <= IF Combined THEN 2 ELSE 1
  /\ answer = "value" /\ Remote => wire = IF Combined THEN 2 ELSE 1

(* The audit record says what happened, and a change that was taken is     *)
(* never reported as one that failed because its plan cannot be shown:     *)
(* only a result over the size limit hides it.                             *)
OutcomeIsReported ==
  step = "done" =>
    /\ answer = "value" => audit = "succeeded"
    /\ effect = "taken" => audit = "succeeded" /\ answer \in {"value", "large"}
    /\ effect # "none" => allowed
=============================================================================
