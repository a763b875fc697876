---------------------------- MODULE PlansProofs ----------------------------
(* Proofs about Plans, for any devices, lengths of lists and limit.         *)
EXTENDS Plans, FiniteSetTheorems, SequenceTheorems, TLAPS

(* The identifiers a request of each kind names. *)
LEMMA ObjectNeeds == \A op \in ObjectWrites :
  op.kind = "object_write" /\ Needs(op) = IF Prior(op) THEN {"uuid"} ELSE {}
BY DEF ObjectWrites, Write, Needs, Prior, IdName, ToSet

LEMMA FirewallNeeds == \A op \in FirewallWrites :
  op.kind = "firewall_write" /\ Needs(op) = IF Prior(op) THEN {"uuid"} ELSE {}
BY DEF FirewallWrites, Firewall, OneFirewall, Write, Needs, Prior, IdName, ToSet

LEMMA LicenseNeeds == \A op \in LicenseWrites :
  op.kind = "license_write" /\ Needs(op) = {"device_uuid"} /\ ~Prior(op) /\ Sends(op)
BY DEF LicenseWrites, OnDevice, Write, Needs, Prior, Sends, IdName, ToSet

LEMMA ListingNeeds == \A op \in {SyncWrite, DeployWrite} :
  Listing(op) /\ Needs(op) = {} /\ ~Prior(op) /\ Sends(op)
BY DEF SyncWrite, DeployWrite, Listing, Write, Needs, Prior, Sends, IdName, ToSet

LEMMA NatKind == \A op \in NatWrites : op.kind = "nat_write"
BY DEF NatWrites, Write

-----------------------------------------------------------------------------
(* Sorting keeps the members of a list.                                     *)

(* A finite set of numbers can be listed in increasing order: each number  *)
(* stands at the place that counts the numbers up to it.                    *)
LEMMA SortedExists ==
  ASSUME NEW S, S \subseteq Nat, IsFiniteSet(S)
  PROVE  \E f \in [1..Cardinality(S) -> S] : \A i, j \in DOMAIN f : i < j => f[i] < f[j]
<1>. DEFINE n == Cardinality(S)
            UpTo(x) == {y \in S : y <= x}
            rank == [x \in S |-> Cardinality(UpTo(x))]
<1>1. n \in Nat /\ IsFiniteSet(1..n) /\ Cardinality(1..n) = n
  <2>1. n \in Nat
    BY FS_CardinalityType
  <2>2. QED
    BY <2>1, FS_Interval
<1>2. ASSUME NEW x \in S
      PROVE  IsFiniteSet(UpTo(x)) /\ Cardinality(UpTo(x)) \in 1..n
  <2>1. UpTo(x) \in SUBSET S /\ x \in UpTo(x)
    OBVIOUS
  <2>2. IsFiniteSet(UpTo(x)) /\ Cardinality(UpTo(x)) <= n
    BY <2>1, FS_Subset
  <2>3. Cardinality(UpTo(x)) \in Nat /\ Cardinality(UpTo(x)) # 0
    BY <2>1, <2>2, FS_CardinalityType, FS_EmptySet
  <2>4. QED
    BY <1>1, <2>2, <2>3
<1>3. rank \in [S -> 1..n]
  BY <1>2
<1>4. ASSUME NEW x \in S, NEW y \in S, x < y
      PROVE  rank[x] < rank[y]
  <2>1. UpTo(x) \in SUBSET UpTo(y) /\ y \in UpTo(y) /\ y \notin UpTo(x)
    <3>1. x \in Nat /\ y \in Nat /\ y <= y /\ ~(y <= x)
      BY <1>4
    <3>2. \A z \in S : z <= x => z <= y
      BY <1>4, <3>1
    <3>3. QED
      BY <3>1, <3>2
  <2>2. Cardinality(UpTo(x)) <= Cardinality(UpTo(y))
        /\ Cardinality(UpTo(x)) # Cardinality(UpTo(y))
    BY <1>2, <2>1, FS_Subset
  <2>3. QED
    BY <1>2, <2>2
<1>5. rank \in Injection(S, 1..n)
  <2>1. ASSUME NEW x \in S, NEW y \in S, rank[x] = rank[y]
        PROVE  x = y
    <3>1. rank[x] \in Nat /\ rank[y] \in Nat /\ x \in Nat /\ y \in Nat
      BY <1>1, <1>3
    <3>2. ~(x < y) /\ ~(y < x)
      BY <1>4, <2>1, <3>1
    <3>3. QED
      BY <3>1, <3>2
  <2>2. QED
    BY <1>3, <2>1 DEF Injection, IsInjective
<1>6. rank \in Surjection(S, 1..n)
  BY <1>1, <1>5, FS_Injection
<1>. DEFINE f == [i \in 1..n |-> CHOOSE x \in S : rank[x] = i]
<1>7. \A i \in 1..n : f[i] \in S /\ rank[f[i]] = i
  <2>1. \A i \in 1..n : \E x \in S : rank[x] = i
    BY <1>6 DEF Surjection
  <2>. HIDE DEF rank
  <2>2. QED
    BY <2>1
<1>8. ASSUME NEW i \in 1..n, NEW j \in 1..n, i < j
      PROVE  f[i] < f[j]
  <2>. HIDE DEF f, rank
  <2>1. f[i] \in Nat /\ f[j] \in Nat /\ f[i] # f[j]
    <3>1. f[i] \in S /\ f[j] \in S /\ rank[f[i]] # rank[f[j]]
      <4>1. i # j
        BY <1>1, <1>8
      <4>2. QED
        BY <1>7, <4>1
    <3>2. QED
      BY <3>1
  <2>2. ASSUME f[j] < f[i] PROVE FALSE
    <3>1. rank[f[j]] < rank[f[i]]
      BY <1>4, <1>7, <2>2
    <3>2. j < i
      BY <1>7, <3>1
    <3>3. QED
      BY <1>1, <1>8, <3>2
  <2>3. QED
    BY <2>1, <2>2
<1>9. f \in [1..n -> S]
  BY <1>7
<1>10. QED
  BY <1>8, <1>9

LEMMA SortedKeepsMembers ==
  ASSUME NEW l, ToSet(l) \subseteq Nat, IsFiniteSet(ToSet(l))
  PROVE  ToSet(Sorted(l)) = ToSet(l)
<1>. DEFINE S == ToSet(l)
            n == Cardinality(S)
            s == Sorted(l)
<1>1. s \in [1..n -> S] /\ \A i, j \in DOMAIN s : i < j => s[i] < s[j]
  BY SortedExists DEF Sorted
<1>2. n \in Nat /\ Cardinality(1..n) = n
  BY FS_CardinalityType, FS_Interval
<1>. HIDE DEF s
<1>3. ASSUME NEW i \in 1..n, NEW j \in 1..n, s[i] = s[j]
      PROVE  i = j
  <2>1. s[i] \in Nat /\ s[j] \in Nat /\ i \in Nat /\ j \in Nat
    BY <1>1, <1>2
  <2>2. ~(i < j) /\ ~(j < i)
    BY <1>1, <1>3, <2>1
  <2>3. QED
    BY <2>1, <2>2
<1>4. s \in Injection(1..n, S)
  BY <1>1, <1>3 DEF Injection, IsInjective
<1>5. s \in Surjection(1..n, S)
  BY <1>2, <1>4, FS_Injection
<1>6. ToSet(s) = S
  BY <1>1, <1>5 DEF ToSet, Surjection
<1>7. QED
  BY <1>6 DEF s

-----------------------------------------------------------------------------
(* The kind of a request says which family of requests it is of. *)
LEMMA KindOf == \A op \in Writes :
  /\ op.kind = "object_write" <=> op \in ObjectWrites
  /\ op.kind = "firewall_write" <=> op \in FirewallWrites
  /\ op.kind = "nat_write" <=> op \in NatWrites
  /\ op.kind = "license_write" <=> op \in LicenseWrites
  /\ op.kind = "device_sync" <=> op = SyncWrite
  /\ op.kind = "policy_deploy" <=> op = DeployWrite
<1>1. SyncWrite.kind = "device_sync" /\ DeployWrite.kind = "policy_deploy"
  BY DEF SyncWrite, DeployWrite, Write
<1>2. QED
  BY <1>1, ObjectNeeds, FirewallNeeds, LicenseNeeds, NatKind DEF Writes

-----------------------------------------------------------------------------
(* An approved plan can be sent, but for the known exceptions.              *)

ArgsOk ==
  /\ args.op \in Writes /\ args.body \in Body
  /\ Listing(args.op) => args.body = "object"
  /\ DOMAIN args.ids = Offered(args.op.kind)

LEMMA ArgsType == \A a \in Args :
  /\ a.op \in Writes /\ a.body \in Body
  /\ Listing(a.op) => a.body = "object"
  /\ DOMAIN a.ids = Offered(a.op.kind)
<1>. SUFFICES ASSUME NEW a \in Args
              PROVE  /\ a.op \in Writes /\ a.body \in Body
                     /\ Listing(a.op) => a.body = "object"
                     /\ DOMAIN a.ids = Offered(a.op.kind)
  OBVIOUS
<1>1. PICK op \in Writes :
        a \in [op : {op},
           family : IF op.kind = "object_write" THEN WritableFamilies ELSE {"none"},
           ids : [Offered(op.kind) -> IF op.kind = "license_write" THEN {"good", "bad"}
                                      ELSE {"absent", "good", "bad"}],
           body : IF Listing(op) THEN {"object"} ELSE Body,
           list : IF Listing(op) THEN SeqOf(Device \cup {0}, MaxListed) ELSE {<<>>},
           policies : IF op = DeployWrite THEN {"none", "bad", "group", "good"}
                      ELSE {"none"}]
  BY DEF Args
<1>2. QED
  BY <1>1 DEF Body

(* A plan that validates, made of readable arguments, is sendable or known. *)
LEMMA ValidIsSendable ==
  ASSUME NEW p, p.op \in Writes, p.body \in Body, Valid(p), ~Sendable(p),
         Listing(p.op) => p.body = "object",
         Prior(p.op) => \A i \in Needs(p.op) : p.ids[i] = "good"
  PROVE  KnownUnsendable(p)
<1>1. CASE p.op \in ObjectWrites
  BY <1>1, ObjectNeeds DEF Valid, Shaped, Fits, Sendable, BodyOk, KnownUnsendable, Body, Populated,
                           Prior, Sends
<1>2. CASE p.op \in FirewallWrites
  BY <1>2, FirewallNeeds DEF Valid, Shaped, Fits, Sendable, BodyOk, KnownUnsendable, Body,
                             Populated, Prior, Sends, MarkerChecked
<1>3. CASE p.op \in NatWrites
  BY <1>3, NatKind DEF Valid, Fits, Sendable, BodyOk, KnownUnsendable, Body, Populated,
                       MarkerChecked
<1>4. CASE p.op \in LicenseWrites
  BY <1>4, LicenseNeeds DEF Valid, Fits, Sendable, BodyOk, KnownUnsendable, Body, Populated,
                            MarkerChecked
<1>5. CASE p.op \in {SyncWrite, DeployWrite}
  BY <1>5, ListingNeeds DEF Sendable, BodyOk
<1>6. QED
  BY <1>1, <1>2, <1>3, <1>4, <1>5 DEF Writes

(* Readable names what an update, a deletion or a device's write reads. *)
LEMMA ReadableIds ==
  ASSUME Readable(args), args.op \in Writes, Prior(args.op)
  PROVE  \A i \in Needs(args.op) : args.ids[i] = "good"
<1>1. args.op # SyncWrite /\ args.op # DeployWrite
  BY ListingNeeds
<1>2. QED
  BY <1>1 DEF Readable

LEMMA EnvelopeFields ==
  /\ Envelope.op = args.op /\ Envelope.ids = args.ids /\ Envelope.body = args.body
  /\ Envelope.list = Sorted(args.list) /\ Envelope.before = before
  /\ Envelope.family = args.family /\ Envelope.operation = args.op.kind
  /\ DOMAIN Envelope = {"kind", "operation", "op", "family", "ids", "body", "list", "before",
                        "digest"}
BY DEF Envelope

(* The envelope is what the arguments asked for; the record is bound to it  *)
(* by the digest and by the fields no damage touches; the request is made   *)
(* of the record.                                                           *)
PlannedInv ==
  /\ step \in {"read", "planned", "staged", "sent", "unsendable"} => Readable(args)
  /\ step \in {"planned", "staged", "sent", "unsendable"} =>
       /\ plan.op = args.op /\ plan.ids = args.ids /\ plan.body = args.body
       /\ plan.list = Sorted(args.list) /\ plan.before = before /\ plan.family = args.family
       /\ plan.digest = Digest(plan) /\ Valid(plan)
       /\ stored.family = plan.family /\ stored.op.kind = plan.op.kind /\ stored.op \in Writes
       /\ plan.op = DeployWrite => stored.ids = plan.ids
       /\ {"op", "family", "ids", "body", "list"} \subseteq DOMAIN plan
  /\ step \in {"staged", "sent", "unsendable"} =>
       stored.op = plan.op /\ stored.ids = plan.ids /\ stored.body = plan.body
         /\ stored.list = plan.list
  /\ step = "sent" => wire = Request(stored)
  /\ step = "unsendable" => ~Sendable(stored)

LEMMA PlannedStep ==
  ASSUME ArgsOk, PlannedInv, [Next]_vars
  PROVE  PlannedInv'
<1>1. CASE Read
  BY <1>1 DEF Read, Refuse, PlannedInv, Readable
<1>2. CASE Plan
  <2>1. CASE ~Valid(Envelope)
    BY <1>2, <2>1 DEF Plan, Refuse, PlannedInv, Readable
  <2>2. CASE Valid(Envelope)
    <3>1. plan' = Envelope /\ stored' = Envelope /\ step' = "planned" /\ args' = args
          /\ before' = before /\ Readable(args)
      BY <1>2, <2>2 DEF Plan, PlannedInv
    <3>2. Envelope.digest = Digest(Envelope)
      BY <2>2 DEF Valid
    <3>3. Valid(plan)' /\ plan'.digest = Digest(plan)' /\ Readable(args)'
      BY <2>2, <3>1, <3>2 DEF Valid, Digest, Fits, MarkerChecked, Shaped, Populated, Readable,
                              DeviceListOk
    <3>4. Sorted(args.list)' = Sorted(args.list)
      BY <3>1 DEF Sorted
    <3>5. QED
      BY <3>1, <3>3, <3>4, EnvelopeFields DEF PlannedInv, ArgsOk
  <2>3. QED
    BY <2>1, <2>2
<1>3. CASE Damage
  <2>1. step = "planned" /\ stored = plan /\ UNCHANGED <<args, step, before, asked, plan, wire>>
    BY <1>3 DEF Damage
  <2>2. stored.op \in Writes
        /\ {"op", "family", "ids", "body", "list"} \subseteq DOMAIN stored
        /\ plan.ids = args.ids /\ plan.op = args.op
    BY <2>1 DEF PlannedInv
  <2>3. stored'.op \in Writes /\ stored'.op.kind = plan.op.kind /\ stored'.family = plan.family
    BY <1>3, <2>1, <2>2 DEF Damage
  <2>4. plan.op = DeployWrite => stored'.ids = plan.ids
    <3>1. plan.op = DeployWrite => DOMAIN plan.ids = {}
      BY <2>2 DEF ArgsOk, DeployWrite, Write, Offered
    <3>2. QED
      BY <1>3, <2>1, <2>2, <3>1 DEF Damage
  <2>5. QED
    BY <2>1, <2>3, <2>4 DEF PlannedInv, Sorted, Readable
<1>4. CASE Stage
  <2>1. step = "planned" /\ UNCHANGED <<args, before, asked, plan, stored, wire>>
        /\ step' \in {"staged", "rejected"}
    BY <1>4 DEF Stage
  <2>2. ASSUME step' = "staged"
        PROVE  /\ stored.op = plan.op /\ stored.ids = plan.ids /\ stored.body = plan.body
               /\ stored.list = plan.list
    <3>1. Digest(stored) = Digest(plan) /\ CoordinatorAccepts
      BY <1>4, <2>1, <2>2 DEF Stage, Valid, PlannedInv
    <3>2. plan.op = DeployWrite <=> stored.op = DeployWrite
      BY <2>1, KindOf DEF PlannedInv, ArgsOk
    <3>3. CASE plan.op = DeployWrite
      BY <2>1, <3>1, <3>2, <3>3 DEF CoordinatorAccepts, PlannedInv
    <3>4. CASE plan.op # DeployWrite
      BY <3>1, <3>2, <3>4 DEF Digest
    <3>5. QED
      BY <3>3, <3>4
  <2>3. QED
    BY <2>1, <2>2 DEF PlannedInv, Sorted, Readable
<1>5. CASE Commit
  <2>1. step = "staged" /\ UNCHANGED <<args, before, asked, plan, stored>>
        /\ \/ step' = "sent" /\ wire' = Request(stored)
           \/ step' = "unsendable" /\ ~Sendable(stored)
    BY <1>5 DEF Commit
  <2>2. Request(stored)' = Request(stored) /\ (Sendable(stored)' <=> Sendable(stored))
    BY <2>1 DEF Request, Path, Sends, Sendable, Needs
  <2>3. QED
    BY <2>1, <2>2 DEF PlannedInv, Sorted, Readable
<1>6. CASE UNCHANGED vars
  BY <1>6 DEF vars, PlannedInv, Sorted
<1>7. QED
  BY <1>1, <1>2, <1>3, <1>4, <1>5, <1>6 DEF Next

LEMMA ArgsStay == ASSUME ArgsOk, [Next]_vars PROVE ArgsOk'
BY DEF ArgsOk, Next, Read, Refuse, Plan, Damage, Stage, Commit, vars

LEMMA ArgsStart == Init => ArgsOk
BY ArgsType DEF Init, ArgsOk

(* A plan that was approved is sent, unless it is one of the known          *)
(* exceptions: the checks of the envelope cover those of the client.        *)
THEOREM ApprovedIsSendableHolds == Spec => []ApprovedIsSendable
<1>1. Init => PlannedInv
  BY DEF Init, PlannedInv
<1>2. ArgsOk /\ PlannedInv => ApprovedIsSendable
  <2>. SUFFICES ASSUME ArgsOk, PlannedInv, step = "unsendable" PROVE KnownUnsendable(plan)
    BY DEF ApprovedIsSendable
  <2>1. ~Sendable(plan)
    BY DEF PlannedInv, Sendable, Needs, Sends
  <2>2. plan.op \in Writes /\ plan.body \in Body /\ Valid(plan)
        /\ (Listing(plan.op) => plan.body = "object")
    BY DEF PlannedInv, ArgsOk
  <2>3. Prior(plan.op) => \A i \in Needs(plan.op) : plan.ids[i] = "good"
    BY <2>2, ReadableIds DEF PlannedInv
  <2>4. QED
    BY <2>1, <2>2, <2>3, ValidIsSendable
<1>3. QED
  BY <1>1, <1>2, ArgsStart, ArgsStay, PlannedStep, PTL DEF Spec

-----------------------------------------------------------------------------
(* What leaves is what was approved, and what the arguments asked for.      *)

ListOk == ToSet(args.list) \subseteq Nat /\ IsFiniteSet(ToSet(args.list))

LEMMA ListType == \A a \in Args : ToSet(a.list) \subseteq Nat /\ IsFiniteSet(ToSet(a.list))
<1>. SUFFICES ASSUME NEW a \in Args
              PROVE  ToSet(a.list) \subseteq Nat /\ IsFiniteSet(ToSet(a.list))
  OBVIOUS
<1>1. PICK m \in Nat : a.list \in [1..m -> Device \cup {0}]
  <2>1. a.list \in SeqOf(Device \cup {0}, MaxListed) \cup {<<>>}
    <3>1. PICK op \in Writes :
            a \in [op : {op},
               family : IF op.kind = "object_write" THEN WritableFamilies ELSE {"none"},
               ids : [Offered(op.kind) -> IF op.kind = "license_write" THEN {"good", "bad"}
                                          ELSE {"absent", "good", "bad"}],
               body : IF Listing(op) THEN {"object"} ELSE Body,
               list : IF Listing(op) THEN SeqOf(Device \cup {0}, MaxListed) ELSE {<<>>},
               policies : IF op = DeployWrite THEN {"none", "bad", "group", "good"}
                          ELSE {"none"}]
      BY DEF Args
    <3>2. QED
      BY <3>1
  <2>2. CASE a.list = <<>>
    BY <2>2
  <2>3. CASE a.list \in SeqOf(Device \cup {0}, MaxListed)
    BY <2>3, PlansAssumption DEF SeqOf
  <2>4. QED
    BY <2>1, <2>2, <2>3
<1>2. IsFiniteSet(1..m)
  BY FS_Interval
<1>3. a.list \in Surjection(1..m, ToSet(a.list))
  BY <1>1 DEF Surjection, ToSet
<1>4. IsFiniteSet(ToSet(a.list))
  BY <1>2, <1>3, FS_Surjection
<1>5. ToSet(a.list) \subseteq Nat
  <2>1. Device \cup {0} \subseteq Nat
    BY PlansAssumption
  <2>2. \A i \in DOMAIN a.list : a.list[i] \in Device \cup {0}
    BY <1>1
  <2>3. QED
    BY <2>1, <2>2 DEF ToSet
<1>6. QED
  BY <1>4, <1>5

(* A request about an object goes to its family's collection. *)
LEMMA ObjectPath ==
  ASSUME NEW op \in ObjectWrites, NEW family
  PROVE  SubSeq(Path(op, family), 1, 3) = Collection(family)
<1>. DEFINE S == {"api", "v1", "uuid", family}
            c == Collection(family)
            t == Tail(op.path)
<1>1. Head(op.path) = "family"
  BY DEF ObjectWrites, Write
<1>2. t \in Seq(S)
  <2>1. op.path = <<"family">> \/ op.path = <<"family", "uuid">>
    BY DEF ObjectWrites, Write
  <2>2. Tail(<<"family">>) = <<>> /\ Tail(<<"family", "uuid">>) = <<"uuid">>
    OBVIOUS
  <2>3. <<>> \in Seq(S) /\ <<"uuid">> \in Seq(S)
    OBVIOUS
  <2>4. QED
    BY <2>1, <2>2, <2>3
<1>3. c \in Seq(S) /\ Len(c) = 3
  BY DEF Collection
<1>4. Path(op, family) = c \o t
  BY <1>1 DEF Path, WriteCollection
<1>. HIDE DEF c, t, S
<1>5. SubSeq(c \o t, 1, 3) = SubSeq(c, 1, 3)
  <2>1. 1 \in 1..Len(c) /\ 3 \in 1..Len(c)
    BY <1>3
  <2>2. QED
    BY <1>2, <1>3, <2>1, SubSeqOfConcat1
<1>6. SubSeq(c, 1, 3) = c
  BY <1>3, SubSeqFull
<1>7. QED
  BY <1>4, <1>5, <1>6 DEF c

(* What leaves at commit is what the envelope showed the approver and what  *)
(* the arguments asked for, whatever one field of the record became.        *)
THEOREM SentIsApprovedHolds == Spec => []SentIsApproved
<1>1. Init => PlannedInv /\ ListOk
  BY ListType DEF Init, PlannedInv, ListOk
<1>2. ASSUME ListOk, [Next]_vars PROVE ListOk'
  <2>1. args' = args
    BY <1>2 DEF Next, Read, Refuse, Plan, Damage, Stage, Commit, vars
  <2>2. QED
    BY <1>2, <2>1 DEF ListOk, ToSet
<1>3. ArgsOk /\ ListOk /\ PlannedInv => SentIsApproved
  <2>. SUFFICES ASSUME ArgsOk, ListOk, PlannedInv, step = "sent"
                PROVE  SentIsApproved
    BY DEF SentIsApproved
  <2>1. wire = Request(plan)
    BY DEF PlannedInv, Request, Path, Sends
  <2>2. plan.op = args.op /\ plan.ids = args.ids /\ plan.body = args.body
        /\ plan.family = args.family /\ plan.before = before /\ Valid(plan)
        /\ plan.list = Sorted(args.list)
    BY DEF PlannedInv
  <2>3. ToSet(plan.list) = ToSet(args.list)
    BY <2>2, SortedKeepsMembers DEF ListOk
  <2>4. args.op.kind = "object_write" => SubSeq(wire.path, 1, 3) = Collection(args.family)
    BY <2>1, <2>2, KindOf, ObjectPath DEF ArgsOk, Request
  <2>5. Prior(args.op) => before = "object" \/ args.op.kind = "nat_write"
    <3>1. Prior(args.op) => args.op.kind \in {"object_write", "firewall_write", "nat_write"}
      BY LicenseNeeds, ListingNeeds, ObjectNeeds, FirewallNeeds, NatKind DEF ArgsOk, Writes
    <3>2. QED
      BY <2>2, <3>1 DEF Valid, Shaped, Fits
  <2>6. QED
    BY <2>1, <2>2, <2>3, <2>4, <2>5 DEF SentIsApproved
<1>4. QED
  BY <1>1, <1>2, <1>3, ArgsStart, ArgsStay, PlannedStep, PTL DEF Spec

-----------------------------------------------------------------------------
(* Malformed arguments cost SDC no read and no preview. *)
THEOREM MalformedCostsNothingHolds == Spec => []MalformedCostsNothing
<1>1. Init => MalformedCostsNothing
  BY DEF Init, MalformedCostsNothing
<1>2. ASSUME ArgsOk, MalformedCostsNothing, [Next]_vars PROVE MalformedCostsNothing'
  <2>1. CASE UNCHANGED <<args, asked>>
    BY <1>2, <2>1 DEF MalformedCostsNothing
  <2>2. CASE Read /\ Readable(args) /\ args' = args /\ asked' = Reads(args.op)
    <3>. SUFFICES ASSUME Reads(args.op)
                  PROVE  /\ args.op = SyncWrite => DeviceListOk(args.list)
                         /\ \A i \in Needs(args.op) : args.ids[i] = "good"
      BY <2>2 DEF MalformedCostsNothing, DeviceListOk
    <3>1. args.op = SyncWrite => DeviceListOk(args.list)
      <4>1. SyncWrite # DeployWrite
        BY DEF SyncWrite, DeployWrite, Write
      <4>2. QED
        BY <2>2, <4>1 DEF Readable, DeviceListOk
    <3>2. CASE args.op \in {SyncWrite, DeployWrite}
      BY <3>1, <3>2, ListingNeeds
    <3>3. CASE args.op \notin {SyncWrite, DeployWrite}
      <4>1. Prior(args.op) \/ args.op.kind = "license_write"
        BY <1>2, <3>3, KindOf DEF Reads, ArgsOk
      <4>2. QED
        BY <2>2, <3>3, <4>1 DEF Readable
    <3>4. QED
      BY <3>2, <3>3
  <2>3. QED
    BY <1>2, <2>1, <2>2 DEF Next, Read, Refuse, Plan, Damage, Stage, Commit, vars
<1>3. QED
  BY <1>1, <1>2, ArgsStart, ArgsStay, PTL DEF Spec

(* A redaction placeholder never leaves in a request. *)
THEOREM NoPlaceholderHolds == Spec => []NoPlaceholderIsSent
<1>1. Init => NoPlaceholderIsSent
  BY DEF Init, NoPlaceholderIsSent
<1>2. ASSUME NoPlaceholderIsSent, [Next]_vars PROVE NoPlaceholderIsSent'
  <2>1. CASE UNCHANGED wire
    BY <1>2, <2>1 DEF NoPlaceholderIsSent
  <2>2. CASE wire' = Request(stored) /\ Sendable(stored)
    BY <2>2 DEF NoPlaceholderIsSent, Request, Sendable, BodyOk
  <2>3. QED
    BY <1>2, <2>1, <2>2 DEF Next, Read, Refuse, Plan, Damage, Stage, Commit, vars
<1>3. QED
  BY <1>1, <1>2, PTL DEF Spec
=============================================================================
