-------------------------- MODULE ToolCallsProofs --------------------------
(***************************************************************************)
(* Proofs about ToolCalls, for values with any number of fields.  RowFacts *)
(* is what the proofs use of the table of tools.  IndInv joins, by the     *)
(* step of the handler, what has been checked and sent (Checks), what the  *)
(* parts of the result are (Parts) and what was done and said (Records).   *)
(***************************************************************************)
EXTENDS ToolCalls, TLAPS

(* What the table of tools promises: a method has the one view that is     *)
(* made for it, and only plans are read without a request.                 *)
GoodRow(r) ==
  /\ r.view \in {"whole", "listed", "planned", "rma", "slice"}
  /\ r.method = "list_users_and_roles" => r.view = "listed" /\ r.act = "read"
  /\ r.method = "get_license" => r.view = "listed"
  /\ r.method = "prepared_change" => r.view = "planned"
  /\ r.act # "read" => r.view \in {"whole", "planned"}
  /\ r.method \in LocalReads => r.view \in {"whole", "planned"}
  /\ r.view = "planned" /\ r.act = "read" => r.method = "prepared_change"

LEMMA RowFacts == \A r \in Tools : GoodRow(r)
<1>. USE DEF GoodRow, LocalReads, Row, Single, Paged, Listed, Change
<1>1. \A r \in TenantAndDeviceTools \cup DeviceConfigTools \cup DeviceJobTools : GoodRow(r)
  BY DEF TenantAndDeviceTools, DeviceConfigTools, DeviceJobTools
<1>2. \A r \in PolicyTools \cup FirewallRuleTools \cup NatRuleTools : GoodRow(r)
  BY DEF PolicyTools, FirewallRuleTools, NatRuleTools
<1>3. \A r \in GroupTools \cup CertificateTools \cup LicenseWriteTools : GoodRow(r)
  BY DEF GroupTools, CertificateTools, LicenseWriteTools
<1>4. \A r \in SyncTools \cup SettingsTools \cup CatalogTools : GoodRow(r)
  BY DEF SyncTools, SettingsTools, CatalogTools
<1>5. \A r \in IpsTools \cup TunnelTools \cup SiteTools : GoodRow(r)
  BY DEF IpsTools, TunnelTools, SiteTools
<1>6. \A r \in DeployTools \cup ObjectWriteTools \cup ChangeSetTools : GoodRow(r)
  BY DEF DeployTools, ObjectWriteTools, ChangeSetTools
<1>. HIDE DEF GoodRow
<1>7. QED
  BY <1>1, <1>2, <1>3, <1>4, <1>5, <1>6 DEF Tools

-----------------------------------------------------------------------------
(* Values *)

Sources == {"read", "users", "roles", "licence", "other"}

ValueSet ==
  [shape : Shape \cup {"withheld"}, outer : SUBSET Field, inner : SUBSET Field,
   nested : SUBSET Field, of : Sources]

(* A part of a result before any view was taken of it. *)
Fresh(v) ==
  /\ v \in ValueSet /\ v.shape # "withheld"
  /\ v.of = "licence" => row.view = "planned"
  /\ v.of = "users" => row.method = "list_users_and_roles"

(* A part as a view leaves it: what Confined asks, but for the names the   *)
(* masks see to.                                                           *)
Seen(v) ==
  /\ v \in ValueSet
  /\ row.view = "rma" /\ v.shape # "scalar" => "keys" \notin v.outer
  /\ row.view = "listed" \/ v.of = "licence" =>
       /\ v.shape # "bare" => v.inner \subseteq {"listed"}
       /\ v.shape \in {"collection", "odd", "bare", "withheld"}
            \/ row.method = "get_license"
       /\ row.method = "get_license" => v.outer \subseteq {"listed"}
       /\ v.of = "users" /\ v.shape # "bare" => v.nested \subseteq {"listed"}

(* And without the masked names. *)
Masked(v) ==
  Seen(v) /\ (v.outer \cup v.inner \cup v.nested) \cap {"secret", "config"} = {}

LEMMA GivenFacts ==
  ASSUME NEW of \in Sources, NEW v \in Given(of)
  PROVE  v \in ValueSet /\ v.shape \in Shape /\ v.of = of
BY DEF Given, Value, FieldSet, ValueSet

(* project_collection leaves what an allow-list allows. *)
LEMMA ProjectSeen ==
  ASSUME NEW v, Fresh(v), Projectable(v), row.view # "rma", row.method # "get_license"
  PROVE  Seen(Project(v))
<1>1. v \in ValueSet
  BY DEF Fresh
<1>2. CASE v.shape = "bare"
  BY <1>1, <1>2 DEF Project, Seen
<1>3. CASE v.shape # "bare"
  <2>1. v.shape \in {"collection", "odd"}
    BY <1>3 DEF Projectable
  <2>2. Project(v) = [v EXCEPT !.inner = Allowed(v.inner),
                               !.nested = IF v.of = "users" THEN Allowed(v.nested) ELSE v.nested]
    BY <2>1 DEF Project
  <2>3. /\ Project(v).inner = Allowed(v.inner) /\ Project(v).outer = v.outer
        /\ Project(v).nested = (IF v.of = "users" THEN Allowed(v.nested) ELSE v.nested)
        /\ Project(v).shape = v.shape /\ Project(v).of = v.of
    BY <1>1, <2>2 DEF ValueSet
  <2>4. Project(v) \in ValueSet
    BY <1>1, <2>2 DEF ValueSet, Allowed
  <2>5. QED
    BY <2>1, <2>3, <2>4 DEF Seen, Allowed
<1>4. QED
  BY <1>2, <1>3

(* Each view hands out what Confined allows of a part. *)
LEMMA ViewSeen ==
  ASSUME GoodRow(row), \A v \in value : Fresh(v), NEW f \in Views, NEW v \in value
  PROVE  Seen(f[v])
<1>1. Fresh(v) /\ v \in ValueSet /\ v.shape # "withheld"
  BY DEF Fresh
<1>2. CASE row.view = "whole"
  <2>1. f[v] = v /\ v.of # "licence"
    BY <1>1, <1>2 DEF Views, Fresh
  <2>2. QED
    BY <1>1, <1>2, <2>1 DEF Seen
<1>3. CASE row.view = "listed"
  <2>1. f \in ListView
    BY <1>3 DEF Views
  <2>2. CASE row.method = "get_license"
    <3>1. f[v] = ProjectLicense(v) /\ v.of # "licence"
      BY <1>1, <1>3, <2>1, <2>2 DEF ListView, Fresh
    <3>2. v.of # "users"
      BY <1>1, <2>2 DEF Fresh
    <3>3. QED
      BY <1>1, <1>3, <2>2, <3>1, <3>2 DEF Seen, ProjectLicense, ValueSet, Allowed
  <2>3. CASE row.method # "get_license"
    <3>1. f[v] = Project(v) /\ Projectable(v)
      BY <2>1, <2>3 DEF ListView
    <3>2. QED
      BY <1>1, <1>3, <2>3, <3>1, ProjectSeen
  <2>4. QED
    BY <2>2, <2>3
<1>4. CASE row.view = "planned"
  <2>1. f[v] = IF v.of = "other" THEN v
               ELSE IF Projectable(v) THEN Project(v) ELSE Withheld(v.of)
    BY <1>4 DEF Views, PlanView
  <2>2. row.method # "get_license"
    BY <1>4 DEF GoodRow
  <2>3. CASE v.of = "other"
    BY <1>1, <1>4, <2>1, <2>3 DEF Seen
  <2>4. CASE v.of # "other" /\ Projectable(v)
    BY <1>1, <1>4, <2>1, <2>2, <2>4, ProjectSeen
  <2>5. CASE v.of # "other" /\ ~Projectable(v)
    BY <1>1, <1>4, <2>1, <2>2, <2>5 DEF Seen, Withheld, Value, ValueSet
  <2>6. QED
    BY <2>3, <2>4, <2>5
<1>5. CASE row.view = "rma"
  <2>1. f[v] = WithoutKeys(v) /\ v.of # "licence"
    BY <1>1, <1>5 DEF Views, Fresh
  <2>2. QED
    BY <1>1, <1>5, <2>1 DEF Seen, WithoutKeys, ValueSet
<1>6. CASE row.view = "slice"
  <2>1. f[v] \in Slices(v) /\ v.of # "licence"
    BY <1>1, <1>6 DEF Views, SliceView, Fresh
  <2>2. QED
    BY <1>1, <1>6, <2>1 DEF Seen, Slices, ValueSet, Field
<1>7. QED
  BY <1>2, <1>3, <1>4, <1>5, <1>6 DEF GoodRow

(* redact_secrets takes away, and adds nothing. *)
LEMMA MaskMasks ==
  ASSUME NEW v, Seen(v)
  PROVE  Masked([v EXCEPT !.outer = Mask(@), !.inner = Mask(@), !.nested = Mask(@)])
BY DEF Masked, Seen, ValueSet, Mask

(* The whole answer and a plan can always be handed out. *)
LEMMA PlansAreShown == row.view \in {"whole", "planned"} => Views # {}
BY DEF Views, PlanView

-----------------------------------------------------------------------------
(* The inductive invariant *)

Quota == IF Combined THEN 2 ELSE 1

Cost == IF Remote THEN Quota ELSE 0

Steps == {"authorize", "page", "identifiers", "request", "manager", "view", "redact", "finish",
          "done"}

Cleared == allowed /\ bad = 0 /\ (row.paged => pageOk)

(* What has been checked, and how many requests have been sent. *)
Checks ==
  /\ step \notin {"authorize", "done"} => allowed
  /\ step \notin {"authorize", "page", "finish", "done"} => (row.paged => pageOk)
  /\ step \in {"request", "manager", "view", "redact"} => Cleared
  /\ step \in {"authorize", "page", "identifiers", "manager"} => wire = 0
  /\ step = "request" => Remote /\ (wire = 0 \/ (Combined /\ wire = 1))
  /\ step = "manager" => ~Remote
  /\ step \in {"view", "redact"} => wire = Cost
  /\ step \in {"finish", "done"} =>
       /\ wire \in 0..Quota
       /\ wire > 0 => Cleared /\ Remote
       /\ ~failed /\ allowed => wire = Cost

Parts ==
  /\ step \in {"authorize", "page", "identifiers", "manager"} => value = {}
  /\ step \in {"request", "view"} => \A v \in value : Fresh(v)
  /\ step = "redact" => \A v \in value : Seen(v)
  /\ step \in {"finish", "done"} /\ ~failed => \A v \in value : Masked(v)

Records ==
  /\ step \in Steps /\ failed \in BOOLEAN /\ allowed \in BOOLEAN
  /\ failed => step \in {"finish", "done"}
  /\ step # "done" => answer = "none"
  /\ step = "done" =>
       /\ ~allowed => audit = "denied" /\ answer = "error"
       /\ allowed /\ failed => audit = "failed" /\ answer = "error"
       /\ allowed /\ ~failed => audit = "succeeded" /\ answer \in {"large", "value"}
  /\ step \in {"authorize", "page", "identifiers", "request", "manager"} => effect = "none"
  /\ effect # "none" => allowed
  /\ effect = "taken" => ~failed /\ row.view \in {"whole", "planned"}

IndInv == GoodRow(row) /\ Checks /\ Parts /\ Records

LEMMA InitHolds == Init => IndInv
BY RowFacts DEF Init, IndInv, Checks, Parts, Records, Steps, Cleared

(* A handler does not change its tool, nor what its arguments were. *)
LEMMA InputStays ==
  ASSUME [Next]_vars
  PROVE  /\ input' = input
         /\ Remote' = Remote /\ Combined' = Combined /\ Quota' = Quota /\ Cost' = Cost
         /\ Cleared' = Cleared /\ Reading' = Reading
<1>1. input' = input
  BY DEF Next, Authorize, CheckPage, CheckIdentifiers, Request, Manager, View, Redact, Finish,
         Goto, Err, input, vars
<1>2. QED
  BY <1>1 DEF input, Remote, Combined, Quota, Cost, Cleared, Reading

(* users and roles are read from SDC, by a method of their own. *)
LEMMA CombinedIsRemote == GoodRow(row) /\ Combined => Remote
BY DEF GoodRow, Combined, Remote, Reading, LocalReads

LEMMA RequestStep ==
  ASSUME IndInv, Request, input' = input, Quota' = Quota, Cost' = Cost, Cleared' = Cleared,
         Remote' = Remote, Combined' = Combined
  PROVE  IndInv'
<1>1. GoodRow(row)' /\ step = "request" /\ wire' = wire + 1 /\ wire \in {0, 1}
      /\ (wire = 1 => Combined) /\ Cleared /\ Remote /\ allowed
  BY DEF IndInv, Checks, Request, Cleared, input, GoodRow
<1>2. effect' = effect /\ audit' = audit /\ answer' = answer /\ effect = "none" /\ answer = "none"
      /\ allowed' = allowed /\ failed = FALSE /\ row' = row /\ pageOk' = pageOk
  BY <1>1 DEF IndInv, Records, Request, input
<1>3. CASE failed' = TRUE /\ step' = "finish"
  BY <1>1, <1>2, <1>3 DEF IndInv, Checks, Parts, Records, Steps, Quota, Cleared
<1>4. CASE /\ \E v \in Given(IF ~Combined THEN "read" ELSE IF wire = 0 THEN "users" ELSE "roles") :
                value' = value \cup {v}
           /\ step' = IF Combined /\ wire = 0 THEN "request" ELSE "view"
           /\ failed' = failed
  <2>1. PICK v \in Given(IF ~Combined THEN "read" ELSE IF wire = 0 THEN "users" ELSE "roles") :
          value' = value \cup {v}
    BY <1>4
  <2>2. v \in ValueSet /\ v.shape \in Shape /\ v.of \in {"read", "users", "roles"}
        /\ (v.of = "users" => Combined)
    BY <2>1, GivenFacts DEF Sources
  <2>3. Fresh(v)
    BY <2>2 DEF Fresh, Shape, Combined
  <2>4. (\A w \in value : Fresh(w))'
    <3>1. \A w \in value : Fresh(w)
      BY <1>1 DEF IndInv, Parts
    <3>2. QED
      BY <1>2, <2>1, <2>3, <3>1 DEF Fresh
  <2>5. step' = "request" => Combined /\ wire' = 1
    BY <1>1, <1>4
  <2>6. step' = "view" => wire' = Cost
    BY <1>1, <1>4 DEF Cost, Quota
  <2>7. step' \in {"request", "view"}
    BY <1>4
  <2>8. QED
    BY <1>1, <1>2, <1>4, <2>4, <2>5, <2>6, <2>7 DEF IndInv, Checks, Parts, Records, Steps, Cleared
<1>5. QED
  BY <1>3, <1>4 DEF Request

LEMMA ManagerStep ==
  ASSUME IndInv, Manager, input' = input, Quota' = Quota, Cost' = Cost, Cleared' = Cleared,
         Remote' = Remote, Combined' = Combined
  PROVE  IndInv'
<1>1. GoodRow(row)' /\ step = "manager" /\ wire' = wire /\ wire = 0 /\ Cleared /\ ~Remote /\ allowed
      /\ GoodRow(row)
  BY DEF IndInv, Checks, Manager, Cleared, input, GoodRow
<1>2. audit' = audit /\ answer' = answer /\ answer = "none" /\ allowed' = allowed
      /\ failed = FALSE /\ row' = row /\ pageOk' = pageOk
  BY <1>1 DEF IndInv, Records, Manager, input
<1>3. row.view \in {"whole", "planned"}
  BY <1>1 DEF Remote, Reading, GoodRow
<1>4. CASE failed' = TRUE /\ step' = "finish" /\ effect' \in {"none", "unknown"}
  BY <1>1, <1>2, <1>4 DEF IndInv, Checks, Parts, Records, Steps, Quota, Cleared
<1>5. CASE /\ \E of \in IF row.method = "prepared_change" THEN {"licence", "other"}
                        ELSE IF row.view = "planned" THEN {"licence"} ELSE {"other"} :
                \E v \in Given(of) : value' = {v}
           /\ step' = "view"
           /\ effect' = IF Reading THEN "none" ELSE "taken"
           /\ failed' = failed
  <2>0. PICK of \in {"licence", "other"} :
          (\E v \in Given(of) : value' = {v}) /\ (of = "licence" => row.view = "planned")
    BY <1>1, <1>5 DEF GoodRow
  <2>1. PICK v \in Given(of) : value' = {v}
    BY <2>0
  <2>2. v \in ValueSet /\ v.shape \in Shape /\ v.of = of
    BY <2>1, GivenFacts DEF Sources
  <2>3. Fresh(v)
    BY <2>0, <2>2 DEF Fresh, Shape
  <2>4. (\A w \in value : Fresh(w))'
    BY <1>2, <2>1, <2>3 DEF Fresh
  <2>5. wire' = Cost
    BY <1>1 DEF Cost
  <2>6. QED
    BY <1>1, <1>2, <1>3, <1>5, <2>4, <2>5 DEF IndInv, Checks, Parts, Records, Steps, Cleared
<1>6. QED
  <2>1. (IF Reading THEN {"none"} ELSE {"none", "unknown"}) \subseteq {"none", "unknown"}
    OBVIOUS
  <2>2. QED
    BY <1>4, <1>5, <2>1 DEF Manager

LEMMA ViewStep ==
  ASSUME IndInv, View, input' = input, Quota' = Quota, Cost' = Cost, Cleared' = Cleared,
         Remote' = Remote, Combined' = Combined
  PROVE  IndInv'
<1>1. GoodRow(row) /\ step = "view" /\ wire = Cost /\ Cleared /\ allowed /\ failed = FALSE
      /\ answer = "none" /\ (\A v \in value : Fresh(v))
  BY DEF IndInv, Checks, Parts, Records, View, Cleared
<1>2. wire' = wire /\ effect' = effect /\ audit' = audit /\ answer' = answer /\ row' = row
      /\ allowed' = allowed /\ pageOk' = pageOk /\ GoodRow(row)' /\ GoodRow(row')
  BY <1>1 DEF View, Err, input, GoodRow
<1>3. CASE (Views = {} \/ row.view = "slice") /\ Err
  <2>1. failed' = TRUE /\ step' = "finish" /\ value' = value
    BY <1>3 DEF Err
  <2>2. effect # "taken"
    BY <1>3, PlansAreShown DEF IndInv, Records
  <2>3. wire \in 0..Quota /\ (wire > 0 => Remote)
    BY <1>1 DEF Cost, Quota
  <2>4. QED
    BY <1>1, <1>2, <2>1, <2>2, <2>3 DEF IndInv, Checks, Parts, Records, Steps
<1>4. CASE /\ \E f \in Views : value' = { f[v] : v \in value }
           /\ step' = "redact" /\ failed' = failed
  <2>1. PICK f \in Views : value' = { f[v] : v \in value }
    BY <1>4
  <2>2. step' = "redact" /\ failed' = failed
    BY <1>4
  <2>3. \A v \in value : Seen(f[v])
    BY <1>1, ViewSeen
  <2>4. (\A v \in value : Seen(v))'
    BY <1>2, <2>1, <2>3 DEF Seen
  <2>5. QED
    BY <1>1, <1>2, <2>2, <2>4 DEF IndInv, Checks, Parts, Records, Steps
<1>5. QED
  BY <1>3, <1>4 DEF View

LEMMA RedactStep ==
  ASSUME IndInv, Redact, input' = input, Quota' = Quota, Cost' = Cost, Cleared' = Cleared,
         Remote' = Remote, Combined' = Combined
  PROVE  IndInv'
<1>1. GoodRow(row)' /\ step = "redact" /\ wire = Cost /\ Cleared /\ allowed /\ failed = FALSE
      /\ answer = "none" /\ (\A v \in value : Seen(v))
  BY DEF IndInv, Checks, Parts, Records, Redact, Cleared, input, GoodRow
<1>2. wire' = wire /\ effect' = effect /\ audit' = audit /\ answer' = answer /\ row' = row
      /\ allowed' = allowed /\ pageOk' = pageOk /\ step' = "finish" /\ failed' = failed
  BY DEF Redact, input
<1>3. (\A v \in value : Masked(v))'
  <2>1. \A v \in value' : Masked(v)
    BY <1>1, MaskMasks DEF Redact
  <2>2. QED
    BY <1>2, <2>1 DEF Masked, Seen
<1>4. wire \in 0..Quota /\ (wire > 0 => Remote)
  BY <1>1 DEF Cost, Quota
<1>5. QED
  BY <1>1, <1>2, <1>3, <1>4 DEF IndInv, Checks, Parts, Records, Steps

LEMMA NextHolds == ASSUME IndInv, [Next]_vars PROVE IndInv'
<1>. input' = input /\ Remote' = Remote /\ Combined' = Combined /\ Quota' = Quota /\ Cost' = Cost
     /\ Cleared' = Cleared
  BY InputStays
<1>1. CASE Authorize
  BY <1>1 DEF Authorize, Goto, input, IndInv, Checks, Parts, Records, Steps, GoodRow, Quota
<1>. DEFINE Moves(t) == step' = t /\ UNCHANGED <<input, wire, value, failed, effect, audit, answer>>
            Fails == failed' = TRUE /\ step' = "finish"
                       /\ UNCHANGED <<input, wire, value, effect, audit, answer>>
<1>2. CASE CheckPage
  <2>1. /\ step = "page"
        /\ \/ Fails
           \/ Moves("identifiers") /\ (row.paged => pageOk)
    BY <1>2 DEF CheckPage, Goto, Err
  <2>2. GoodRow(row)' /\ 0 \in 0..Quota
    BY DEF input, IndInv, GoodRow, Quota
  <2>3. CASE Fails
    BY <2>1, <2>2, <2>3 DEF input, IndInv, Checks, Parts, Records, Steps
  <2>4. CASE Moves("identifiers") /\ (row.paged => pageOk)
    BY <2>1, <2>2, <2>4 DEF input, IndInv, Checks, Parts, Records, Steps
  <2>5. QED
    BY <2>1, <2>3, <2>4
<1>3. CASE CheckIdentifiers
  <2>1. /\ step = "identifiers"
        /\ \/ Fails
           \/ bad = 0 /\ Moves("request") /\ Remote
           \/ bad = 0 /\ Moves("manager") /\ ~Remote
    BY <1>3 DEF CheckIdentifiers, Valid, Goto, Err
  <2>2. GoodRow(row)' /\ 0 \in 0..Quota /\ (bad = 0 => Cleared)
    BY <2>1 DEF input, IndInv, GoodRow, Quota, Cleared, Checks
  <2>3. CASE Fails
    BY <2>1, <2>2, <2>3 DEF input, IndInv, Checks, Parts, Records, Steps
  <2>4. CASE bad = 0 /\ Moves("request") /\ Remote
    BY <2>1, <2>2, <2>4 DEF input, IndInv, Checks, Parts, Records, Steps
  <2>5. CASE bad = 0 /\ Moves("manager") /\ ~Remote
    BY <2>1, <2>2, <2>5 DEF input, IndInv, Checks, Parts, Records, Steps
  <2>6. QED
    BY <2>1, <2>3, <2>4, <2>5
<1>4. CASE Request
  BY <1>4, RequestStep
<1>5. CASE Manager
  BY <1>5, ManagerStep
<1>6. CASE View
  BY <1>6, ViewStep
<1>7. CASE Redact
  BY <1>7, RedactStep
<1>8. CASE Finish
  <2>1. (\A v \in value : Masked(v)) => (\A v \in value : Masked(v))'
    BY <1>8 DEF Finish, input, Masked, Seen
  <2>2. QED
    BY <1>8, <2>1 DEF Finish, input, IndInv, Checks, Parts, Records, Steps, GoodRow
<1>9. CASE UNCHANGED vars
  <2>1. UNCHANGED <<row, step, allowed, pageOk, bad, wire, value, failed, effect, audit, answer>>
    BY <1>9 DEF vars
  <2>2. QED
    BY <2>1 DEF IndInv, Checks, Parts, Records, GoodRow, Masked, Seen, Fresh
<1>10. QED
  BY <1>1, <1>2, <1>3, <1>4, <1>5, <1>6, <1>7, <1>8, <1>9 DEF Next

LEMMA IndInvHolds == Spec => []IndInv
BY InitHolds, NextHolds, PTL DEF Spec

-----------------------------------------------------------------------------
(* A caller gets no masked name, no licence key, and of members with an    *)
(* allow-list only what is on it, whatever SDC answers with.               *)
THEOREM ConfinedHolds == Spec => []Confined
<1>1. IndInv => Confined
  BY DEF IndInv, Parts, Records, Masked, Seen, Confined
<1>2. QED
  BY <1>1, IndInvHolds, PTL

(* A refused call sends nothing, an answered one what its method sends. *)
THEOREM RefusedLocallyHolds == Spec => []RefusedLocally
<1>1. ASSUME IndInv PROVE RefusedLocally
  <2>1. wire > 0 => Cleared /\ Remote
    BY <1>1 DEF IndInv, Checks, Records, Steps, Cost
  <2>2. wire <= Quota
    BY <1>1 DEF IndInv, Checks, Records, Steps, Cost, Quota
  <2>3. answer = "value" /\ Remote => wire = Quota
    BY <1>1 DEF IndInv, Checks, Records, Cost
  <2>4. QED
    BY <2>1, <2>2, <2>3 DEF RefusedLocally, Cleared, Remote, Quota
<1>2. QED
  BY <1>1, IndInvHolds, PTL

(* The audit record and the answer agree with what was done. *)
THEOREM OutcomeIsReportedHolds == Spec => []OutcomeIsReported
<1>1. IndInv => OutcomeIsReported
  BY DEF IndInv, Records, OutcomeIsReported
<1>2. QED
  BY <1>1, IndInvHolds, PTL
=============================================================================
