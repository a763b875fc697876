------------------------------- MODULE Plans -------------------------------
(***************************************************************************)
(* What a plan holds, from the arguments of a prepare tool to the request  *)
(* that leaves at commit, for every kind of write: what prepare checks and *)
(* reads, the envelope and its digest, the record in the state file, the   *)
(* checks of stage, and what the client still refuses.                     *)
(*                                                                         *)
(* An identifier is absent, good or malformed, a body or a state one of a  *)
(* few classes.  Who may approve and apply, and drift, are in              *)
(* ChangeControl and DriftCheck.                                           *)
(***************************************************************************)
EXTENDS Naturals, FiniteSets, Sequences, SequencesExt

CONSTANTS
  Device,      \* identifiers of devices and deploy targets, numbers; 0 is malformed
  MaxListed,   \* bound: entries of a list in the arguments
  MaxDevices   \* MAX_DEVICES_PER_SYNC

ASSUME PlansAssumption ==
  Device \subseteq Nat \ {0} /\ MaxListed \in Nat /\ MaxDevices \in Nat \ {0}

(* ResourceKind: the families this server may read. *)
ReadableFamilies == {
  "addresses", "applications", "services", "schedulers", "aamw_profiles",
  "anti_spam_profiles", "anti_virus_profiles", "content_filtering_profiles",
  "content_security_profiles", "enhanced_content_filtering_profiles",
  "flow_based_antivirus_profiles", "icap_profiles", "icap_servers",
  "identity_objects", "ips_contexts", "ips_profiles", "ips_services",
  "ips_signatures", "ips_vulnerabilities", "proxy_servers",
  "redirect_profiles", "rule_options", "secintel_profiles",
  "secintel_profiles_groups", "ssl_initiations", "ssl_proxy_profiles",
  "swp_profiles", "url_category_lists", "url_patterns", "templates",
  "variable_zones", "web_filtering_profiles" }

(* Every collection is named as its family is. *)
Collection(family) == <<"api", "v1", family>>

(* WritableResource. *)
WritableFamilies == {"addresses", "applications", "services", "schedulers"}

WriteCollection(family) == Collection(family)

-----------------------------------------------------------------------------
(* The requests of the client, one row each.  A segment that is the name   *)
(* of an identifier stands for its value, "family" for the collection.     *)

IdName == {"uuid", "policy_id", "rule_id", "group_id", "device_uuid"}

Write(kind, action, method, path) ==
  [kind |-> kind, action |-> action, method |-> method, path |-> path]

ObjectWrites == {
  Write("object_write", "create", "POST", <<"family">>),
  Write("object_write", "update", "PUT", <<"family", "uuid">>),
  Write("object_write", "delete", "DELETE", <<"family", "uuid">>) }

Firewall == <<"api", "v1", "policies", "firewall">>
OneFirewall == <<"api", "v1", "policies", "firewall", "uuid">>

FirewallWrites == {
  Write("firewall_write", "create_policy", "POST", Firewall),
  Write("firewall_write", "update_policy", "PUT", OneFirewall),
  Write("firewall_write", "delete_policy", "DELETE", OneFirewall) }

Nat1 == <<"api", "v1", "policies", "nat">>
NatRules == Nat1 \o <<"policy_id", "rules">>
NatGroups == Nat1 \o <<"policy_id", "rule_groups">>

NatWrites == {
  Write("nat_write", "create_policy", "POST", Nat1),
  Write("nat_write", "update_policy", "PUT", Nat1 \o <<"policy_id">>),
  Write("nat_write", "delete_policy", "DELETE", Nat1 \o <<"policy_id">>),
  Write("nat_write", "create_rule", "POST", NatRules),
  Write("nat_write", "update_rule", "PUT", NatRules \o <<"rule_id">>),
  Write("nat_write", "delete_rule", "DELETE", NatRules \o <<"rule_id">>),
  Write("nat_write", "create_rule_group", "POST", NatGroups),
  Write("nat_write", "update_rule_group", "PUT", NatGroups \o <<"group_id">>) }

OnDevice(verb) == <<"api", "v1", "devices", "device_uuid", verb>>

LicenseWrites == { Write("license_write", verb, "POST", OnDevice(verb)) :
  verb \in {"install_license", "install_ca_certificate",
            "install_local_certificate", "delete_certificate"} }

SyncWrite   == Write("device_sync", "sync", "POST", <<"api", "v1", "devices", "sync">>)
DeployWrite == Write("policy_deploy", "deploy", "POST", <<"api", "v1", "policies", "deploy">>)

Writes == ObjectWrites \cup FirewallWrites \cup NatWrites \cup LicenseWrites
            \cup {SyncWrite, DeployWrite}

Needs(op) == IdName \cap ToSet(op.path)
Prior(op) == op.method # "POST"
Sends(op) == op.method # "DELETE"
Listing(op) == op.kind \in {"device_sync", "policy_deploy"}

(* The identifiers a tool's arguments have room for. *)
Offered(kind) ==
  CASE kind \in {"object_write", "firewall_write"} -> {"uuid"}
    [] kind = "nat_write"     -> {"policy_id", "rule_id", "group_id"}
    [] kind = "license_write" -> {"device_uuid"}
    [] OTHER                  -> {}

(* Null, {}, another JSON value, an object, one with a redaction marker    *)
(* in it, one over the client's 1 MiB, one over the envelope's 2 MiB.      *)
Body == {"null", "empty", "array", "object", "marked", "large", "huge"}

Populated(b) == b \in {"object", "marked", "large", "huge"}

Args ==
  UNION { [op : {op},
           family : IF op.kind = "object_write" THEN WritableFamilies ELSE {"none"},
           ids : [Offered(op.kind) -> IF op.kind = "license_write" THEN {"good", "bad"}
                                      ELSE {"absent", "good", "bad"}],
           body : IF Listing(op) THEN {"object"} ELSE Body,
           list : IF Listing(op) THEN SeqOf(Device \cup {0}, MaxListed) ELSE {<<>>},
           policies : IF op = DeployWrite THEN {"none", "bad", "group", "good"}
                      ELSE {"none"}] : op \in Writes }

VARIABLES
  args,       \* the arguments of the prepare tool
  step,       \* how far the plan has come
  before,     \* the state prepare read, or the preview it resolved
  asked,      \* history: SDC was asked something for it
  plan,       \* the envelope prepare showed, the one that is approved
  stored,     \* the envelope in the state file
  wire        \* the request that left

vars == <<args, step, before, asked, plan, stored, wire>>

Nothing == [kind |-> "nothing"]

Init ==
  /\ args \in Args
  /\ step = "arguments"
  /\ before = "null"
  /\ asked = FALSE
  /\ plan = Nothing
  /\ stored = Nothing
  /\ wire = Nothing

-----------------------------------------------------------------------------
(* prepare *)

Refuse ==
  /\ step' = "refused"
  /\ UNCHANGED <<args, before, asked, plan, stored, wire>>

(* canonical_device_list: sorted, and without repeats, too many or malformed. *)
DeviceListOk(l) ==
  /\ l # <<>> /\ Len(l) <= MaxDevices
  /\ 0 \notin ToSet(l)
  /\ IsInjective(l)

(* The members of l in increasing order. *)
Sorted(l) ==
  CHOOSE s \in [1..Cardinality(ToSet(l)) -> ToSet(l)] :
    \A i, j \in DOMAIN s : i < j => s[i] < s[j]

(* slip: the list is looked at after its devices were read *)
ReadableLate(a) ==
  IF a.op.kind = "nat_write" THEN Prior(a.op) => \A i \in Needs(a.op) : a.ids[i] = "good"
  ELSE IF a.op = DeployWrite THEN a.policies = "good" /\ a.list # <<>>
  ELSE Prior(a.op) \/ a.op.kind = "license_write" => \A i \in Needs(a.op) : a.ids[i] = "good"

(* What prepare asks of the arguments before SDC is asked anything: an     *)
(* update, a deletion and a device's write name what they read, a sync its *)
(* devices, a deployment policies with targets that are no groups.  The    *)
(* identifiers of a creation are not looked at.                            *)
Readable(a) ==
  CASE a.op = SyncWrite   -> DeviceListOk(a.list)
    [] a.op = DeployWrite -> a.policies = "good" /\ a.list # <<>>
    [] OTHER -> Prior(a.op) \/ a.op.kind = "license_write" =>
                  \A i \in Needs(a.op) : a.ids[i] = "good"

(* Whether prepare reads something at all. *)
Reads(op) == Prior(op) \/ op.kind \in {"license_write", "device_sync", "policy_deploy"}

Read ==
  /\ step = "arguments"
  /\ IF ~Readable(args) THEN Refuse
     ELSE /\ asked' = Reads(args.op)
          /\ \/ /\ Reads(args.op)            \* the read, or the preview, fails
                /\ step' = "refused"
                /\ UNCHANGED before
             \/ /\ step' = "read"
                /\ before' \in IF ~Reads(args.op) THEN {"null"}
                               ELSE IF Listing(args.op) THEN {"object", "big"}
                               ELSE {"object", "array", "big"}
          /\ UNCHANGED <<args, plan, stored, wire>>

(* The envelope's digest covers all that is planned; a deployment's covers *)
(* its preview.                                                            *)
Digest(p) ==
  IF p.op = DeployWrite THEN <<p.before>>
  ELSE <<p.op, p.family, p.ids, p.body, p.list, p.before>>

Fits(p) == p.body # "huge" /\ p.before # "big"

(* The shape an action requires of a policy's or an object's envelope. *)
Shaped(p) ==
  /\ p.ids["uuid"] = IF Prior(p.op) THEN "good" ELSE "absent"
  /\ IF Sends(p.op) THEN Populated(p.body) ELSE p.body = "null"
  /\ p.before \in IF Prior(p.op) THEN {"object", "big"} ELSE {"null"}

(* slip: a licence or a policy is not searched for a marker *)
MarkerCheckedOnlyNat(kind) == kind = "nat_write"

MarkerChecked(kind) == kind \in {"firewall_write", "nat_write", "license_write"}

(* slip: the digest is not computed again *)
ValidUndigested(p) == Fits(p)

(* validate, of each envelope. *)
Valid(p) ==
  /\ p.digest = Digest(p)
  /\ Fits(p)
  /\ MarkerChecked(p.op.kind) => p.body # "marked"
  /\ p.op.kind # "nat_write" => p.operation = p.op.kind
  /\ p.op.kind \in {"object_write", "firewall_write"} => Shaped(p)
  /\ p.op.kind = "license_write" => p.ids["device_uuid"] = "good" /\ Populated(p.body)
  /\ p.op = SyncWrite => p.list # <<>>
  /\ p.op = DeployWrite =>
       p.list # <<>> /\ 0 \notin ToSet(p.list) /\ p.list = Sorted(p.list)

Envelope ==
  LET p == [kind |-> "plan", operation |-> args.op.kind, op |-> args.op,
            family |-> args.family, ids |-> args.ids, body |-> args.body,
            list |-> Sorted(args.list), before |-> before]
  IN [f \in DOMAIN p \cup {"digest"} |-> IF f = "digest" THEN Digest(p) ELSE p[f]]

Plan ==
  /\ step = "read"
  /\ IF ~Valid(Envelope) THEN Refuse
     ELSE /\ plan' = Envelope
          /\ stored' = Envelope
          /\ step' = "planned"
          /\ UNCHANGED <<args, before, asked, wire>>

-----------------------------------------------------------------------------
(* The record is damaged in the state file, one field of it. *)
Damage ==
  /\ step = "planned"
  /\ stored = plan
  /\ \/ \E b \in Body \ {"null"} : stored' = [stored EXCEPT !.body = b]
     \/ \E b \in {"object", "array", "null"} : stored' = [stored EXCEPT !.before = b]
     \/ \E o \in {op \in Writes : op.kind = plan.op.kind} : stored' = [stored EXCEPT !.op = o]
     \/ \E i \in DOMAIN plan.ids, v \in {"absent", "bad"} : stored' = [stored EXCEPT !.ids[i] = v]
     \/ Listing(plan.op) /\ stored' = [stored EXCEPT !.list = <<>>]
     \/ stored' = [stored EXCEPT !.operation = "unknown"]
  /\ UNCHANGED <<args, step, before, asked, plan, wire>>

(* The coordinator compares the digest of the change set, which is all     *)
(* that binds the request of a deployment; nothing rests on it for the     *)
(* other kinds.                                                            *)
CoordinatorAccepts == plan.op = DeployWrite => stored.body = plan.body /\ stored.list = plan.list

(* stage: the envelope is valid still, and the one whose digest was given. *)
Stage ==
  /\ step = "planned"
  /\ step' = IF CoordinatorAccepts /\ Valid(stored) /\ stored.operation = stored.op.kind
                /\ stored.digest = plan.digest
             THEN "staged" ELSE "rejected"
  /\ UNCHANGED <<args, before, asked, plan, stored, wire>>

(* slip: a marker may be sent *)
BodyOkMarked(b) == b \in {"object", "marked"}

(* validate_object_body: an object with fields, at most 1 MiB, no marker. *)
BodyOk(b) == b = "object"

Path(op, family) == IF Head(op.path) = "family" THEN WriteCollection(family) \o Tail(op.path)
                    ELSE op.path

Request(p) ==
  [kind |-> "request", method |-> p.op.method, path |-> Path(p.op, p.family), ids |-> p.ids,
   body |-> IF Sends(p.op) THEN p.body ELSE "null", list |-> p.list]

(* What the client refuses: a malformed or missing identifier, a body.     *)
(* The transaction has cleared refused_before_write by then, and the       *)
(* operation stays failed until its owner discards it.                     *)
Sendable(p) ==
  /\ \A i \in Needs(p.op) : p.ids[i] = "good"
  /\ Sends(p.op) => BodyOk(p.body)

Commit ==
  /\ step = "staged"
  /\ IF Sendable(stored)
     THEN /\ step' = "sent"
          /\ wire' = Request(stored)
     ELSE /\ step' = "unsendable"
          /\ UNCHANGED wire
  /\ UNCHANGED <<args, before, asked, plan, stored>>

Next == Read \/ Plan \/ Damage \/ Stage \/ Commit

Spec == Init /\ [][Next]_vars

-----------------------------------------------------------------------------
(* Properties *)

(* What leaves at commit is what the envelope showed the approver, and     *)
(* that is what the arguments asked for: the same target, the same body,   *)
(* the same devices in whatever order they were given.  A replacement or a *)
(* deletion goes where the state it was compared with was read, and a      *)
(* record damaged in the state file sends nothing else.                    *)
SentIsApproved ==
  step = "sent" =>
    /\ wire = Request(plan)
    /\ plan.op = args.op /\ plan.ids = args.ids /\ plan.body = args.body
    /\ ToSet(plan.list) = ToSet(args.list)
    /\ args.op.kind = "object_write" =>
         SubSeq(wire.path, 1, 3) = Collection(args.family)
    /\ Prior(args.op) => before = "object" \/ args.op.kind = "nat_write"

(* A placeholder that a read put in a credential's place is never written  *)
(* over the credential.                                                    *)
NoPlaceholderIsSent == wire # Nothing => wire.body # "marked"

(* Malformed arguments cost SDC no read and no preview: a list of devices  *)
(* is checked as a whole first, and so is what a read names.               *)
MalformedCostsNothing ==
  asked => /\ args.op = SyncWrite => DeviceListOk(args.list)
           /\ \A i \in Needs(args.op) : args.ids[i] = "good"

(* The plans that can be approved and then not be sent: bodies between the *)
(* client's limit and the envelope's, an object with a marker in it, and   *)
(* NAT writes, whose envelope looks at neither body nor identifiers.       *)
KnownUnsendable(p) ==
  \/ Sends(p.op) /\ p.body = "large"
  \/ p.op.kind = "object_write" /\ p.body = "marked"
  \/ p.op.kind = "nat_write" /\ Sends(p.op) /\ ~Populated(p.body)
  \/ p.op.kind = "nat_write" /\ ~Prior(p.op) /\ \E i \in Needs(p.op) : p.ids[i] # "good"

(* Any other plan that was approved is sent, unless its record is damaged. *)
ApprovedIsSendable ==
  step = "unsendable" => KnownUnsendable(plan)
=============================================================================
