---------------------------- MODULE PagingProofs ----------------------------
(***************************************************************************)
(* Proofs about Paging, for any versions, weights, budgets and numbers of  *)
(* changes.  Reach is where in the archive the walk stands; IndInv says    *)
(* what the entries before it (Missed, InStep) and behind it (Repeated)    *)
(* have to do with what the walk has been given.                           *)
(***************************************************************************)
EXTENDS Paging, FiniteSetTheorems, SequenceTheorems, WellFoundedInduction, TLAPS

-----------------------------------------------------------------------------
(* Sequences and numbers *)

(* A set of numbers that is not empty has a least one. *)
LEMMA LeastExists ==
  ASSUME NEW T, T \subseteq Nat, T # {}
  PROVE  \E n \in T : \A m \in T : ~(m < n)
<1>1. PICK n \in T : \A m \in T : <<m, n>> \notin OpToRel(<, Nat)
  BY NatLessThanWellFounded, WFMin
<1>2. \A m \in T : ~(m < n)
  BY <1>1 DEF OpToRel
<1>3. QED
  BY <1>2

LEMMA SliceFacts ==
  ASSUME NEW S, NEW s \in Seq(S), NEW m \in 1..(Len(s) + 1), NEW n \in (m - 1)..Len(s)
  PROVE  /\ SubSeq(s, m, n) \in Seq(S)
         /\ Len(SubSeq(s, m, n)) = n - m + 1
         /\ \A i \in 1..(n - m + 1) : SubSeq(s, m, n)[i] = s[m + i - 1]
<1>1. Len(s) \in Nat /\ \A i \in 1..Len(s) : s[i] \in S
  BY LenProperties, ElementOfSeq
<1>2. \A i \in m..n : s[i] \in S
  BY <1>1
<1>3. m \in Int /\ n \in Int
  BY <1>1
<1>4. QED
  BY <1>1, <1>2, <1>3, SubSeqProperties

LEMMA InsertFacts ==
  ASSUME NEW s \in Seq(Version), NEW i \in 1..(Len(s) + 1), NEW e \in Version
  PROVE  /\ InsertAt(s, i, e) \in Seq(Version)
         /\ Len(InsertAt(s, i, e)) = Len(s) + 1
         /\ \A j \in 1..(Len(s) + 1) :
              InsertAt(s, i, e)[j] = IF j < i THEN s[j] ELSE IF j = i THEN e ELSE s[j - 1]
<1>. DEFINE a == SubSeq(s, 1, i - 1)
            b == SubSeq(s, i, Len(s))
<1>1. Len(s) \in Nat
  BY LenProperties
<1>2. a \in Seq(Version) /\ Len(a) = i - 1 /\ \A j \in 1..(i - 1) : a[j] = s[j]
  <2>1. 1 \in 1..(Len(s) + 1) /\ i - 1 \in (1 - 1)..Len(s)
    BY <1>1
  <2>2. QED
    BY <1>1, <2>1, SliceFacts
<1>3. b \in Seq(Version) /\ Len(b) = Len(s) - i + 1 /\ \A j \in 1..(Len(s) - i + 1) : b[j] = s[i + j - 1]
  <2>1. Len(s) \in (i - 1)..Len(s)
    BY <1>1
  <2>2. QED
    BY <1>1, <2>1, SliceFacts
<1>. HIDE DEF a, b
<1>. DEFINE c == a \o <<e>>
<1>4. c \in Seq(Version) /\ Len(c) = i /\ (\A j \in 1..(i - 1) : c[j] = s[j]) /\ c[i] = e
  <2>1. <<e>> \in Seq(Version) /\ Len(<<e>>) = 1 /\ <<e>>[1] = e
    OBVIOUS
  <2>2. c \in Seq(Version) /\ Len(c) = Len(a) + 1
        /\ \A j \in 1..(Len(a) + 1) : c[j] = IF j <= Len(a) THEN a[j] ELSE <<e>>[j - Len(a)]
    BY <1>2, <2>1, ConcatProperties
  <2>. HIDE DEF c
  <2>3. QED
    BY <1>1, <1>2, <2>1, <2>2
<1>. HIDE DEF c
<1>5. c \o b \in Seq(Version) /\ Len(c \o b) = Len(s) + 1
      /\ \A j \in 1..(Len(s) + 1) : (c \o b)[j] = IF j <= i THEN c[j] ELSE b[j - i]
  <2>1. c \o b \in Seq(Version) /\ Len(c \o b) = Len(c) + Len(b)
        /\ \A j \in 1..(Len(c) + Len(b)) :
             (c \o b)[j] = IF j <= Len(c) THEN c[j] ELSE b[j - Len(c)]
    BY <1>3, <1>4, ConcatProperties
  <2>2. QED
    BY <1>1, <1>3, <1>4, <2>1
<1>6. InsertAt(s, i, e) = c \o b
  BY DEF InsertAt, a, b, c
<1>7. ASSUME NEW j \in 1..(Len(s) + 1)
      PROVE  (c \o b)[j] = IF j < i THEN s[j] ELSE IF j = i THEN e ELSE s[j - 1]
  <2>1. CASE j <= i
    BY <1>1, <1>4, <1>5, <2>1
  <2>2. CASE ~(j <= i)
    <3>1. j - i \in 1..(Len(s) - i + 1) /\ i + (j - i) - 1 = j - 1
      BY <1>1, <2>2
    <3>2. b[j - i] = s[j - 1]
      BY <1>3, <3>1
    <3>3. ~(j < i) /\ j # i
      BY <1>1, <2>2
    <3>4. QED
      BY <1>5, <2>2, <3>2, <3>3
  <2>3. QED
    BY <2>1, <2>2
<1>8. QED
  BY <1>5, <1>6, <1>7

LEMMA RemoveFacts ==
  ASSUME NEW S, NEW s \in Seq(S), NEW i \in 1..Len(s)
  PROVE  /\ RemoveAt(s, i) \in Seq(S)
         /\ Len(RemoveAt(s, i)) = Len(s) - 1
         /\ \A j \in 1..(Len(s) - 1) : RemoveAt(s, i)[j] = IF j < i THEN s[j] ELSE s[j + 1]
<1>. DEFINE a == SubSeq(s, 1, i - 1)
            b == SubSeq(s, i + 1, Len(s))
<1>1. Len(s) \in Nat
  BY LenProperties
<1>2. a \in Seq(S) /\ Len(a) = i - 1 /\ \A j \in 1..(i - 1) : a[j] = s[j]
  <2>1. 1 \in 1..(Len(s) + 1) /\ i - 1 \in (1 - 1)..Len(s)
    BY <1>1
  <2>2. QED
    BY <1>1, <2>1, SliceFacts
<1>3. b \in Seq(S) /\ Len(b) = Len(s) - i /\ \A j \in 1..(Len(s) - i) : b[j] = s[i + j]
  <2>1. i + 1 \in 1..(Len(s) + 1) /\ Len(s) \in (i + 1 - 1)..Len(s)
    BY <1>1
  <2>2. b \in Seq(S) /\ Len(b) = Len(s) - (i + 1) + 1
        /\ \A j \in 1..(Len(s) - (i + 1) + 1) : b[j] = s[(i + 1) + j - 1]
    BY <1>1, <2>1, SliceFacts
  <2>. HIDE DEF b
  <2>3. QED
    BY <1>1, <2>2
<1>. HIDE DEF a, b
<1>4. a \o b \in Seq(S) /\ Len(a \o b) = Len(s) - 1
      /\ \A j \in 1..(Len(s) - 1) : (a \o b)[j] = IF j < i THEN a[j] ELSE b[j - i + 1]
  <2>1. a \o b \in Seq(S) /\ Len(a \o b) = Len(a) + Len(b)
        /\ \A j \in 1..(Len(a) + Len(b)) :
             (a \o b)[j] = IF j <= Len(a) THEN a[j] ELSE b[j - Len(a)]
    BY <1>2, <1>3, ConcatProperties
  <2>2. \A j \in Int : j - (i - 1) = j - i + 1 /\ (j <= i - 1 <=> j < i)
    OBVIOUS
  <2>3. QED
    BY <1>1, <1>2, <1>3, <2>1, <2>2
<1>5. RemoveAt(s, i) = a \o b
  BY DEF RemoveAt, a, b
<1>6. ASSUME NEW j \in 1..(Len(s) - 1)
      PROVE  (a \o b)[j] = IF j < i THEN s[j] ELSE s[j + 1]
  <2>1. CASE j < i
    BY <1>1, <1>2, <1>4, <2>1
  <2>2. CASE ~(j < i)
    <3>1. j - i + 1 \in 1..(Len(s) - i) /\ i + (j - i + 1) = j + 1
      BY <1>1, <2>2
    <3>2. QED
      BY <1>3, <1>4, <2>2, <3>1
  <2>3. QED
    BY <2>1, <2>2
<1>7. QED
  BY <1>4, <1>5, <1>6

(* The members of a sequence are finitely many, one per entry at most. *)
LEMMA MembersFinite ==
  ASSUME NEW S, NEW s \in Seq(S)
  PROVE  /\ IsFiniteSet(ToSet(s))
         /\ NoRepeats(s) => Cardinality(ToSet(s)) = Len(s)
<1>. DEFINE n == Len(s)
<1>1. n \in Nat /\ DOMAIN s = 1..n /\ s \in [1..n -> S]
  BY LenProperties
<1>2. IsFiniteSet(1..n) /\ Cardinality(1..n) = n
  BY <1>1, FS_Interval
<1>3. s \in Surjection(1..n, ToSet(s))
  BY <1>1 DEF Surjection, ToSet
<1>4. IsFiniteSet(ToSet(s)) /\ (Cardinality(ToSet(s)) = Cardinality(1..n)
                                  <=> s \in Injection(1..n, ToSet(s)))
  BY <1>2, <1>3, FS_Surjection
<1>5. NoRepeats(s) => s \in Injection(1..n, ToSet(s))
  BY <1>1, <1>3 DEF NoRepeats, Injection, Surjection, IsInjective
<1>6. QED
  BY <1>2, <1>4, <1>5

LEMMA ConcatMembers ==
  ASSUME NEW S, NEW s \in Seq(S), NEW t \in Seq(S)
  PROVE  ToSet(s \o t) = ToSet(s) \cup ToSet(t)
<1>. DEFINE u == s \o t
<1>1. /\ Len(s) \in Nat /\ Len(t) \in Nat /\ Len(u) = Len(s) + Len(t)
      /\ DOMAIN s = 1..Len(s) /\ DOMAIN t = 1..Len(t) /\ DOMAIN u = 1..Len(u)
      /\ \A i \in 1..Len(u) : u[i] = IF i <= Len(s) THEN s[i] ELSE t[i - Len(s)]
  BY ConcatProperties, LenProperties
<1>. HIDE DEF u
<1>2. ASSUME NEW i \in 1..Len(u) PROVE u[i] \in ToSet(s) \cup ToSet(t)
  <2>1. CASE i <= Len(s)
    BY <1>1, <2>1 DEF ToSet
  <2>2. CASE ~(i <= Len(s))
    <3>1. i - Len(s) \in 1..Len(t)
      BY <1>1, <2>2
    <3>2. QED
      BY <1>1, <2>2, <3>1 DEF ToSet
  <2>3. QED
    BY <2>1, <2>2
<1>3. ASSUME NEW i \in 1..Len(s) PROVE s[i] \in ToSet(u)
  <2>1. i \in 1..Len(u) /\ u[i] = s[i]
    BY <1>1
  <2>2. QED
    BY <1>1, <2>1 DEF ToSet
<1>4. ASSUME NEW i \in 1..Len(t) PROVE t[i] \in ToSet(u)
  <2>1. Len(s) + i \in 1..Len(u) /\ u[Len(s) + i] = t[i]
    BY <1>1
  <2>2. QED
    BY <1>1, <2>1 DEF ToSet
<1>5. QED
  BY <1>1, <1>2, <1>3, <1>4 DEF ToSet, u

(* One more member makes a set larger by one at most. *)
LEMMA OneMore ==
  ASSUME NEW A, NEW B, NEW e, IsFiniteSet(A), B \subseteq A \cup {e}
  PROVE  IsFiniteSet(B) /\ Cardinality(B) <= Cardinality(A) + 1
<1>1. IsFiniteSet(A \cup {e}) /\ Cardinality(A \cup {e}) \in {Cardinality(A), Cardinality(A) + 1}
  BY FS_AddElement
<1>2. IsFiniteSet(B) /\ Cardinality(B) <= Cardinality(A \cup {e})
  BY <1>1, FS_Subset
<1>3. Cardinality(A) \in Nat /\ Cardinality(B) \in Nat
  BY <1>2, FS_CardinalityType
<1>4. QED
  BY <1>1, <1>2, <1>3

-----------------------------------------------------------------------------
(* Where a page ends *)

(* Some number of entries is right: the first at which the list ends or    *)
(* the next does not fit.                                                  *)
LEMMA TakenFacts ==
  ASSUME Len(archive) \in Nat, NEW start \in 0..Len(archive), NEW fields
  PROVE  /\ Taken(start, fields) \in 0..(Len(archive) - start)
         /\ start < Len(archive) => Taken(start, fields) >= 1
         /\ \A m \in 1..Taken(start, fields) : Fits(start, m, fields)
         /\ start + Taken(start, fields) < Len(archive) =>
              ~Fits(start, Taken(start, fields) + 1, fields)
<1>. DEFINE rest == Len(archive) - start
            F(m) == Fits(start, m, fields)
            T == {n \in 0..rest : n = rest \/ ~F(n + 1)}
<1>1. rest \in Nat
  OBVIOUS
<1>2. T \subseteq Nat /\ rest \in T
  BY <1>1
<1>3. PICK n \in T : \A m \in T : ~(m < n)
  BY <1>2, LeastExists
<1>4. n \in 0..rest /\ (n = rest \/ ~F(n + 1))
  BY <1>3
<1>5. \A m \in 1..n : F(m)
  <2>. SUFFICES ASSUME NEW m \in 1..n PROVE F(m)
    OBVIOUS
  <2>1. m - 1 \in 0..rest /\ m - 1 < n /\ (m - 1) + 1 = m /\ m - 1 # rest
    BY <1>1, <1>4
  <2>2. m - 1 \notin T
    BY <1>3, <2>1
  <2>3. QED
    BY <2>1, <2>2
<1>6. start + n < Len(archive) => ~F(n + 1)
  BY <1>1, <1>4
<1>. DEFINE t == Taken(start, fields)
<1>7. t \in 0..rest /\ (\A m \in 1..t : F(m)) /\ (start + t < Len(archive) => ~F(t + 1))
  BY <1>4, <1>5, <1>6 DEF Taken
<1>. HIDE DEF t
<1>8. start < Len(archive) => t >= 1
  <2>1. F(0 + 1)
    BY DEF Fits
  <2>2. t = 0 => ~(start + 0 < Len(archive))
    BY <1>7, <2>1
  <2>3. QED
    BY <1>7, <2>2
<1>9. QED
  BY <1>7, <1>8 DEF t

-----------------------------------------------------------------------------
(* The inductive invariant *)

TypeOK ==
  /\ archive \in Seq(Version) /\ NoRepeats(archive)
  /\ seen \in Seq(Version)
  /\ kept \subseteq ToSet(archive)
  /\ walk \in {"idle", "walking", "done"}
  /\ token.offset \in Nat /\ token.kind \in {"none", "offset"}
  /\ changes \in Nat /\ archived \in Nat /\ purged \in Nat

(* Where the walk stands: at its offset, or at the end. *)
Reach == IF walk = "done" THEN Len(archive) ELSE token.offset

Before == { archive[i] : i \in {j \in 1..Len(archive) : j <= Reach} }
After  == { archive[i] : i \in {j \in 1..Len(archive) : j > Reach} }

(* What stayed and is behind the walk, though it was not given. *)
Missed == (kept \ ToSet(seen)) \cap Before

(* What was given, and is still to come. *)
Repeated == ToSet(seen) \cap After

Counted ==
  /\ Cardinality(Missed) <= purged
  /\ Len(seen) + Cardinality(Repeated) <= Cardinality(ToSet(seen)) + archived

(* The entries that stayed, as far as the walk has come: as InOrder has it. *)
InStep ==
  \E f \in [{i \in 1..Len(archive) : i <= Reach /\ archive[i] \in kept} -> 1..Len(seen)] :
    /\ \A i \in DOMAIN f : seen[f[i]] = archive[i]
    /\ \A i, j \in DOMAIN f : i < j => f[i] < f[j]

Undisturbed == Reach <= Len(archive) /\ seen = SubSeq(archive, 1, Reach)

IndInv ==
  /\ TypeOK
  /\ walk # "idle" =>
       /\ Counted
       /\ purged = 0 => InStep
       /\ archived = 0 /\ purged = 0 => Undisturbed

LEMMA ReachIsNat == TypeOK => Reach \in Nat /\ Len(archive) \in Nat /\ Len(seen) \in Nat
BY LenProperties DEF TypeOK, Reach

LEMMA SetsFinite ==
  ASSUME TypeOK
  PROVE  /\ IsFiniteSet(Missed) /\ IsFiniteSet(Repeated) /\ IsFiniteSet(ToSet(seen))
         /\ Cardinality(Missed) \in Nat /\ Cardinality(Repeated) \in Nat
         /\ Cardinality(ToSet(seen)) \in Nat
<1>1. IsFiniteSet(ToSet(seen)) /\ IsFiniteSet(ToSet(archive))
  BY MembersFinite DEF TypeOK
<1>2. Missed \subseteq ToSet(archive) /\ Repeated \subseteq ToSet(seen)
  BY DEF Missed, Repeated, TypeOK
<1>3. IsFiniteSet(Missed) /\ IsFiniteSet(Repeated)
  BY <1>1, <1>2, FS_Subset
<1>4. QED
  BY <1>1, <1>3, FS_CardinalityType

LEMMA InitHolds == Init => IndInv
<1>. SUFFICES ASSUME Init PROVE TypeOK
  BY DEF Init, IndInv
<1>1. archive \in Seq(Version)
  <2>1. PICK m \in 0..MaxLength : archive \in [1..m -> Version]
    BY DEF Init, SeqOf
  <2>2. m \in Nat
    BY <2>1, PagingAssumption
  <2>3. QED
    BY <2>1, <2>2, SeqDef
<1>2. QED
  BY <1>1 DEF Init, TypeOK, NoToken, Token

-----------------------------------------------------------------------------
(* A version is archived: entries move on, one of them past the walk. *)
LEMMA ArchiveStep ==
  ASSUME IndInv, Archive
  PROVE  IndInv'
<1>. DEFINE L == Len(archive)
            r == Reach
<1>1. /\ r \in Nat /\ L \in Nat /\ Len(seen) \in Nat /\ TypeOK
      /\ archived \in Nat /\ purged \in Nat
  BY ReachIsNat DEF IndInv, TypeOK
<1>2. PICK v \in Version \ (ToSet(archive) \cup ToSet(seen)), i \in 1..(L + 1) :
        archive' = InsertAt(archive, i, v)
  BY DEF Archive
<1>3. /\ UNCHANGED <<walk, token, seen, kept, purged>>
      /\ changes' = changes + 1 /\ archived' = archived + 1
  BY DEF Archive
<1>4. /\ archive' \in Seq(Version) /\ Len(archive') = L + 1
      /\ \A j \in 1..(L + 1) :
           archive'[j] = IF j < i THEN archive[j] ELSE IF j = i THEN v ELSE archive[j - 1]
  <2>1. archive \in Seq(Version) /\ v \in Version
    BY <1>1, <1>2 DEF TypeOK
  <2>. DEFINE w == InsertAt(archive, i, v)
  <2>2. w \in Seq(Version) /\ Len(w) = L + 1
    BY <2>1, InsertFacts
  <2>3. ASSUME NEW j \in 1..(L + 1)
        PROVE  w[j] = IF j < i THEN archive[j] ELSE IF j = i THEN v ELSE archive[j - 1]
    BY <2>1, InsertFacts
  <2>. HIDE DEF w
  <2>4. archive' = w
    BY <1>2 DEF w
  <2>5. QED
    BY <2>2, <2>3, <2>4
<1>5. Reach' \in {r, r + 1} /\ (r # Reach' => r = L /\ walk = "done")
      /\ (walk = "done" => r = L /\ Reach' = L + 1)
  <2>1. Reach' = IF walk = "done" THEN L + 1 ELSE token.offset
    BY <1>3, <1>4 DEF Reach
  <2>2. r = IF walk = "done" THEN L ELSE token.offset
    BY DEF Reach
  <2>3. QED
    BY <1>1, <2>1, <2>2
<1>6. v \notin ToSet(seen) /\ v \notin kept /\ \A j \in 1..L : archive[j] # v
  BY <1>1, <1>2 DEF ToSet, TypeOK
(* An old entry stands where it stood or one further. *)
<1>7. ASSUME NEW j \in 1..(L + 1), archive'[j] # v
      PROVE  \E k \in 1..L : archive'[j] = archive[k] /\ (k = j \/ k = j - 1)
                               /\ (j <= Reach' => k <= r) /\ (k = j => j < i)
                               /\ (k = j - 1 => j > i)
  <2>1. CASE j < i
    <3>1. j \in 1..L /\ archive'[j] = archive[j] /\ (j <= Reach' => j <= r)
      BY <1>1, <1>4, <1>5, <2>1
    <3>2. QED
      BY <2>1, <3>1
  <2>2. CASE j > i
    <3>1. j - 1 \in 1..L /\ archive'[j] = archive[j - 1] /\ (j <= Reach' => j - 1 <= r)
          /\ j - 1 # j
      BY <1>1, <1>4, <1>5, <2>2
    <3>2. QED
      BY <2>2, <3>1
  <2>3. CASE j = i
    BY <1>4, <1>7, <2>3
  <2>4. QED
    BY <2>1, <2>2, <2>3
<1>8. TypeOK'
  <2>1. NoRepeats(archive')
    <3>. SUFFICES ASSUME NEW j \in 1..(L + 1), NEW k \in 1..(L + 1), archive'[j] = archive'[k]
                  PROVE  j = k
      BY <1>4 DEF NoRepeats
    <3>1. CASE archive'[j] = v
      <4>1. \A m \in 1..(L + 1) : m # i => archive'[m] # v
        <5>. SUFFICES ASSUME NEW m \in 1..(L + 1), m # i PROVE archive'[m] # v
          OBVIOUS
        <5>1. CASE m < i
          <6>1. m \in 1..L
            BY <1>1, <5>1
          <6>2. QED
            BY <1>4, <1>6, <5>1, <6>1
        <5>2. CASE m > i
          <6>1. m - 1 \in 1..L /\ ~(m < i)
            BY <1>1, <5>2
          <6>2. QED
            BY <1>4, <1>6, <5>2, <6>1
        <5>3. QED
          BY <1>1, <5>1, <5>2
      <4>2. QED
        BY <3>1, <4>1
    <3>2. CASE archive'[j] # v
      <4>1. PICK m \in 1..L : archive'[j] = archive[m] /\ (m = j \/ m = j - 1)
                                /\ (m = j => j < i) /\ (m = j - 1 => j > i)
        BY <1>7, <3>2
      <4>2. PICK n \in 1..L : archive'[k] = archive[n] /\ (n = k \/ n = k - 1)
                                /\ (n = k => k < i) /\ (n = k - 1 => k > i)
        BY <1>7, <3>2
      <4>3. m = n
        BY <1>1, <4>1, <4>2 DEF TypeOK, NoRepeats
      <4>4. QED
        BY <4>1, <4>2, <4>3
    <3>3. QED
      BY <3>1, <3>2
  <2>2. ToSet(archive) \subseteq ToSet(archive')
    <3>. SUFFICES ASSUME NEW k \in 1..L PROVE archive[k] \in ToSet(archive')
      BY <1>1 DEF ToSet, TypeOK
    <3>1. CASE k < i
      <4>1. k \in 1..(L + 1) /\ archive'[k] = archive[k]
        BY <1>1, <1>4, <3>1
      <4>2. QED
        BY <1>4, <4>1 DEF ToSet
    <3>2. CASE ~(k < i)
      <4>1. PICK m \in 1..(L + 1) : m = k + 1
        BY <1>1
      <4>2. archive'[m] = archive[k]
        BY <1>1, <1>4, <3>2, <4>1
      <4>3. QED
        BY <1>4, <4>2 DEF ToSet
    <3>3. QED
      BY <3>1, <3>2
  <2>3. QED
    BY <1>1, <1>3, <1>4, <2>1, <2>2 DEF TypeOK
<1>9. CASE walk # "idle"
  <2>1. Missed' \subseteq Missed
    <3>. SUFFICES ASSUME NEW j \in 1..(L + 1), j <= Reach', archive'[j] \in kept \ ToSet(seen)
                  PROVE  archive'[j] \in Missed
      BY <1>3, <1>4 DEF Missed, Before
    <3>1. PICK k \in 1..L : archive'[j] = archive[k] /\ (j <= Reach' => k <= r)
      BY <1>6, <1>7
    <3>2. QED
      BY <3>1 DEF Missed, Before
  <2>2. Repeated' \subseteq Repeated \cup {archive[r]}
    <3>. SUFFICES ASSUME NEW j \in 1..(L + 1), j > Reach', archive'[j] \in ToSet(seen)
                  PROVE  archive'[j] \in Repeated \cup {archive[r]}
      BY <1>3, <1>4 DEF Repeated, After
    <3>1. PICK k \in 1..L : archive'[j] = archive[k] /\ (k = j \/ k = j - 1)
      BY <1>6, <1>7
    <3>2. k > r \/ k = r
      BY <1>1, <1>5, <3>1
    <3>3. QED
      BY <3>1, <3>2 DEF Repeated, After
  <2>3. Counted'
    <3>1. Cardinality(Missed') <= Cardinality(Missed)
      BY <1>1, <2>1, SetsFinite, FS_Subset
    <3>2. Cardinality(Repeated') <= Cardinality(Repeated) + 1
      BY <1>1, <2>2, SetsFinite, OneMore
    <3>3. /\ Cardinality(Missed') \in Nat /\ Cardinality(Repeated') \in Nat
          /\ Cardinality(Missed) \in Nat /\ Cardinality(Repeated) \in Nat
          /\ Cardinality(ToSet(seen)) \in Nat
      <4>1. IsFiniteSet(Missed') /\ IsFiniteSet(Repeated')
        BY <1>1, <2>1, <2>2, SetsFinite, OneMore, FS_Subset
      <4>2. QED
        BY <1>1, <4>1, SetsFinite, FS_CardinalityType
    <3>4. Counted
      BY <1>9 DEF IndInv
    <3>5. Cardinality(Missed') <= purged
      BY <1>1, <3>1, <3>3, <3>4 DEF Counted
    <3>6. Len(seen) + Cardinality(Repeated') <= Cardinality(ToSet(seen)) + (archived + 1)
      BY <1>1, <3>2, <3>3, <3>4 DEF Counted
    <3>7. QED
      BY <1>3, <3>5, <3>6 DEF Counted
  <2>4. ASSUME purged = 0 PROVE InStep'
    <3>. DEFINE D == {k \in 1..L : k <= r /\ archive[k] \in kept}
                E == {j \in 1..(L + 1) : j <= Reach' /\ archive'[j] \in kept}
                Old(j) == IF j < i THEN j ELSE j - 1
    <3>1. PICK f \in [D -> 1..Len(seen)] :
            /\ \A k \in DOMAIN f : seen[f[k]] = archive[k]
            /\ \A k, m \in DOMAIN f : k < m => f[k] < f[m]
      BY <1>9, <2>4 DEF IndInv, InStep
    <3>2. \A j \in E : j # i /\ Old(j) \in D /\ archive'[j] = archive[Old(j)]
      <4>. SUFFICES ASSUME NEW j \in E
                    PROVE  j # i /\ Old(j) \in D /\ archive'[j] = archive[Old(j)]
        OBVIOUS
      <4>1. archive'[j] # v
        BY <1>6
      <4>2. PICK k \in 1..L : archive'[j] = archive[k] /\ (k = j \/ k = j - 1)
                                /\ (j <= Reach' => k <= r) /\ (k = j => j < i)
                                /\ (k = j - 1 => j > i)
        BY <1>7, <4>1
      <4>3. k = Old(j) /\ j # i
        BY <1>1, <4>2
      <4>4. QED
        BY <4>2, <4>3
    <3>3. \A j, k \in E : j < k => Old(j) < Old(k)
      <4>. SUFFICES ASSUME NEW j \in E, NEW k \in E, j < k PROVE Old(j) < Old(k)
        OBVIOUS
      <4>1. j # i /\ k # i
        BY <3>2
      <4>2. QED
        BY <1>1, <4>1
    <3>. DEFINE g == [j \in E |-> f[Old(j)]]
    <3>. HIDE DEF D, Old
    <3>4. g \in [E -> 1..Len(seen)] /\ (\A j \in E : seen[g[j]] = archive'[j])
          /\ (\A j, k \in E : j < k => g[j] < g[k])
      BY <3>1, <3>2, <3>3
    <3>5. E = {j \in 1..Len(archive') : j <= Reach' /\ archive'[j] \in kept}
      BY <1>4
    <3>. HIDE DEF g, E
    <3>6. g \in [E -> 1..Len(seen)] /\ (\A j \in DOMAIN g : seen[g[j]] = archive'[j])
          /\ (\A j, k \in DOMAIN g : j < k => g[j] < g[k])
      BY <3>4
    <3>7. QED
      BY <1>3, <3>5, <3>6 DEF InStep
  <2>5. QED
    BY <1>1, <1>3, <1>8, <2>3, <2>4 DEF IndInv
<1>10. CASE walk = "idle"
  BY <1>3, <1>8, <1>10 DEF IndInv
<1>11. QED
  BY <1>9, <1>10

(* A version is purged: entries move back, one of them behind the walk. *)
LEMMA PurgeStep ==
  ASSUME IndInv, Purge
  PROVE  IndInv'
<1>. DEFINE L == Len(archive)
            r == Reach
<1>1. /\ r \in Nat /\ L \in Nat /\ Len(seen) \in Nat /\ TypeOK
      /\ archived \in Nat /\ purged \in Nat
  BY ReachIsNat DEF IndInv, TypeOK
<1>2. PICK i \in 1..L : archive' = RemoveAt(archive, i) /\ kept' = kept \ {archive[i]}
  BY DEF Purge
<1>3. /\ UNCHANGED <<walk, token, seen, archived>>
      /\ changes' = changes + 1 /\ purged' = purged + 1
  BY DEF Purge
<1>4. /\ archive' \in Seq(Version) /\ Len(archive') = L - 1
      /\ \A j \in 1..(L - 1) : archive'[j] = IF j < i THEN archive[j] ELSE archive[j + 1]
  BY <1>1, <1>2, RemoveFacts DEF TypeOK
<1>5. IF walk = "done" THEN r = L /\ Reach' = L - 1 ELSE Reach' = r
  BY <1>1, <1>3, <1>4 DEF Reach
(* An entry that stays stands where it stood or one nearer. *)
<1>6. ASSUME NEW j \in 1..(L - 1)
      PROVE  \E k \in 1..L : /\ archive'[j] = archive[k] /\ k # i
                             /\ k = (IF j < i THEN j ELSE j + 1)
  <2>1. PICK k \in 1..L : k = (IF j < i THEN j ELSE j + 1)
    BY <1>1
  <2>2. k # i /\ archive'[j] = archive[k]
    BY <1>1, <1>4, <2>1
  <2>3. QED
    BY <2>1, <2>2
<1>7. TypeOK'
  <2>1. NoRepeats(archive')
    <3>. SUFFICES ASSUME NEW j \in 1..(L - 1), NEW m \in 1..(L - 1), archive'[j] = archive'[m]
                  PROVE  j = m
      BY <1>4 DEF NoRepeats
    <3>1. PICK k \in 1..L : archive'[j] = archive[k] /\ k = (IF j < i THEN j ELSE j + 1)
      BY <1>6
    <3>2. PICK n \in 1..L : archive'[m] = archive[n] /\ n = (IF m < i THEN m ELSE m + 1)
      BY <1>6
    <3>3. k = n
      BY <1>1, <3>1, <3>2 DEF TypeOK, NoRepeats
    <3>4. QED
      BY <1>1, <3>1, <3>2, <3>3
  <2>2. kept' \subseteq ToSet(archive')
    <3>. SUFFICES ASSUME NEW k \in 1..L, k # i PROVE archive[k] \in ToSet(archive')
      BY <1>1, <1>2 DEF ToSet, TypeOK
    <3>1. PICK m \in 1..(L - 1) : m = (IF k < i THEN k ELSE k - 1)
      BY <1>1
    <3>2. archive'[m] = archive[k]
      BY <1>1, <1>4, <3>1
    <3>3. QED
      BY <1>4, <3>2 DEF ToSet
  <2>3. QED
    BY <1>1, <1>3, <1>4, <2>1, <2>2 DEF TypeOK
<1>8. CASE walk # "idle"
  <2>1. Missed' \subseteq Missed \cup {archive[r + 1]}
    <3>. SUFFICES ASSUME NEW j \in 1..(L - 1), j <= Reach', archive'[j] \in kept \ ToSet(seen)
                  PROVE  archive'[j] \in Missed \cup {archive[r + 1]}
      BY <1>2, <1>3, <1>4 DEF Missed, Before
    <3>1. PICK k \in 1..L : archive'[j] = archive[k] /\ k = (IF j < i THEN j ELSE j + 1)
      BY <1>6
    <3>2. k <= r \/ k = r + 1
      BY <1>1, <1>5, <3>1
    <3>3. QED
      BY <3>1, <3>2 DEF Missed, Before
  <2>2. Repeated' \subseteq Repeated
    <3>. SUFFICES ASSUME NEW j \in 1..(L - 1), j > Reach', archive'[j] \in ToSet(seen)
                  PROVE  archive'[j] \in Repeated
      BY <1>3, <1>4 DEF Repeated, After
    <3>1. PICK k \in 1..L : archive'[j] = archive[k] /\ k = (IF j < i THEN j ELSE j + 1)
      BY <1>6
    <3>2. k > r
      BY <1>1, <1>5, <3>1
    <3>3. QED
      BY <3>1, <3>2 DEF Repeated, After
  <2>3. Counted'
    <3>1. Cardinality(Missed') <= Cardinality(Missed) + 1
      BY <1>1, <2>1, SetsFinite, OneMore
    <3>2. Cardinality(Repeated') <= Cardinality(Repeated)
      BY <1>1, <2>2, SetsFinite, FS_Subset
    <3>3. /\ Cardinality(Missed') \in Nat /\ Cardinality(Repeated') \in Nat
          /\ Cardinality(Missed) \in Nat /\ Cardinality(Repeated) \in Nat
          /\ Cardinality(ToSet(seen)) \in Nat
      <4>1. IsFiniteSet(Missed) /\ IsFiniteSet(Repeated)
        BY <1>1, SetsFinite
      <4>2. IsFiniteSet(Missed')
        BY <2>1, <4>1, OneMore
      <4>3. IsFiniteSet(Repeated')
        BY <2>2, <4>1, FS_Subset
      <4>4. QED
        BY <1>1, <4>2, <4>3, SetsFinite, FS_CardinalityType
    <3>4. Counted
      BY <1>8 DEF IndInv
    <3>5. Cardinality(Missed') <= purged + 1
      BY <1>1, <3>1, <3>3, <3>4 DEF Counted
    <3>6. Len(seen) + Cardinality(Repeated') <= Cardinality(ToSet(seen)) + archived
      BY <1>1, <3>2, <3>3, <3>4 DEF Counted
    <3>7. QED
      BY <1>3, <3>5, <3>6 DEF Counted
  <2>4. purged' # 0
    BY <1>1, <1>3
  <2>5. QED
    BY <1>7, <2>3, <2>4 DEF IndInv
<1>9. CASE walk = "idle"
  BY <1>3, <1>7, <1>9 DEF IndInv
<1>10. QED
  BY <1>8, <1>9

(* A walk begins before the first entry, with nothing missed or repeated. *)
LEMMA BeginStep ==
  ASSUME IndInv, Begin
  PROVE  IndInv'
<1>1. /\ archive' = archive /\ changes' = changes /\ walk' = "walking"
      /\ token' = NoToken /\ seen' = <<>> /\ kept' = ToSet(archive)
      /\ archived' = 0 /\ purged' = 0 /\ TypeOK
  BY DEF Begin, IndInv
<1>2. TypeOK'
  BY <1>1 DEF TypeOK, NoToken, Token
<1>3. Reach' = 0
  BY <1>1 DEF Reach, NoToken, Token
<1>4. ToSet(seen') = {} /\ Len(seen') = 0
  BY <1>1 DEF ToSet
<1>5. Missed' = {} /\ Repeated' = {}
  BY <1>3, <1>4 DEF Missed, Repeated, Before
<1>6. Cardinality(Missed') = 0 /\ Cardinality(Repeated') = 0 /\ Cardinality(ToSet(seen')) = 0
  BY <1>4, <1>5, FS_EmptySet
<1>7. Counted'
  BY <1>1, <1>4, <1>6 DEF Counted
<1>8. InStep'
  <2>. DEFINE f == [i \in {} |-> 1]
              D == {i \in 1..Len(archive') : i <= Reach' /\ archive'[i] \in kept'}
  <2>1. D = {}
    BY <1>3
  <2>2. f \in [D -> 1..Len(seen')] /\ DOMAIN f = {}
    BY <2>1
  <2>. HIDE DEF f
  <2>3. QED
    BY <2>2 DEF InStep
<1>9. Undisturbed'
  <2>1. Len(archive') \in Nat /\ SubSeq(archive', 1, 0) = <<>>
    BY <1>1, ReachIsNat, SubSeqEmpty DEF TypeOK
  <2>2. QED
    BY <1>1, <1>3, <2>1 DEF Undisturbed
<1>10. QED
  BY <1>2, <1>7, <1>8, <1>9 DEF IndInv

(* A page: the walk comes to its end, and was given what lies between. *)
LEMMA PageStep ==
  ASSUME IndInv, NEW fields \in BOOLEAN, Page(fields)
  PROVE  IndInv'
<1>. DEFINE L == Len(archive)
            r == Reach
            start == Start(token)
            n == Taken(start, fields)
            to == start + n
            P == SubSeq(archive, start + 1, to)
<1>1. /\ r \in Nat /\ L \in Nat /\ Len(seen) \in Nat /\ TypeOK
      /\ archived \in Nat /\ purged \in Nat /\ walk = "walking" /\ r = token.offset
  BY ReachIsNat DEF IndInv, TypeOK, Page, Reach
<1>2. /\ UNCHANGED <<archive, changes, kept, archived, purged>>
      /\ seen' = seen \o P /\ token' = NextToken(to)
      /\ walk' = (IF token' = NoToken THEN "done" ELSE "walking")
  BY DEF Page, Handed
<1>3. start \in 0..L /\ start <= r /\ (r <= L => start = r) /\ (r > L => start = L)
  BY <1>1 DEF Start
<1>4. n \in 0..(L - start)
  BY <1>1, <1>3, TakenFacts
<1>. HIDE DEF start, n
<1>5. to \in start..L /\ to \in Nat
  BY <1>1, <1>3, <1>4
<1>6. P \in Seq(Version) /\ Len(P) = n /\ \A i \in 1..n : P[i] = archive[start + i]
  <2>1. PICK m \in 1..(L + 1) : m = start + 1
    BY <1>1, <1>3
  <2>2. to \in (m - 1)..L /\ to - m + 1 = n /\ \A i \in 1..n : m + i - 1 = start + i
    BY <1>1, <1>3, <1>4, <2>1
  <2>3. archive \in Seq(Version) /\ P = SubSeq(archive, m, to)
    BY <1>1, <2>1 DEF TypeOK
  <2>. HIDE DEF P, to
  <2>4. P \in Seq(Version) /\ Len(P) = to - m + 1
        /\ \A i \in 1..(to - m + 1) : P[i] = archive[m + i - 1]
    BY <2>2, <2>3, SliceFacts
  <2>5. QED
    BY <2>2, <2>4
<1>. HIDE DEF P
<1>7. /\ Reach' = to /\ walk' \in {"walking", "done"}
      /\ token'.offset \in Nat /\ token'.kind \in {"none", "offset"}
  <2>1. CASE to < L
    <3>1. token' = [kind |-> "offset", offset |-> to] /\ token'.kind = "offset"
      BY <1>2, <2>1 DEF NextToken, Token
    <3>2. NoToken.kind = "none"
      BY DEF NoToken, Token
    <3>3. walk' = "walking"
      BY <1>2, <3>1, <3>2
    <3>4. QED
      BY <1>5, <3>1, <3>3 DEF Reach
  <2>2. CASE ~(to < L)
    <3>1. token' = NoToken /\ to = L
      BY <1>1, <1>2, <1>5, <2>2 DEF NextToken
    <3>2. QED
      BY <1>2, <3>1 DEF Reach, NoToken, Token
  <2>3. QED
    BY <2>1, <2>2
<1>8. /\ seen' \in Seq(Version) /\ Len(seen') = Len(seen) + n
      /\ \A i \in 1..(Len(seen) + n) :
           seen'[i] = IF i <= Len(seen) THEN seen[i] ELSE P[i - Len(seen)]
      /\ ToSet(seen') = ToSet(seen) \cup ToSet(P)
  <2>1. seen \in Seq(Version)
    BY <1>1 DEF TypeOK
  <2>2. seen \o P \in Seq(Version) /\ Len(seen \o P) = Len(seen) + Len(P)
        /\ \A i \in 1..(Len(seen) + Len(P)) :
             (seen \o P)[i] = IF i <= Len(seen) THEN seen[i] ELSE P[i - Len(seen)]
    BY <1>6, <2>1, ConcatProperties
  <2>3. ToSet(seen \o P) = ToSet(seen) \cup ToSet(P)
    BY <1>6, <2>1, ConcatMembers
  <2>4. QED
    BY <1>2, <1>6, <2>2, <2>3
<1>9. TypeOK'
  BY <1>1, <1>2, <1>7, <1>8 DEF TypeOK
(* The page holds the entries between where it started and where it ends. *)
<1>10. \A i \in 1..L : i > start /\ i <= to => archive[i] \in ToSet(P)
  <2>. SUFFICES ASSUME NEW i \in 1..L, i > start, i <= to PROVE archive[i] \in ToSet(P)
    OBVIOUS
  <2>1. i - start \in 1..n /\ start + (i - start) = i
    BY <1>1, <1>3, <1>4
  <2>2. DOMAIN P = 1..n
    BY <1>6, LenProperties
  <2>3. QED
    BY <1>6, <2>1, <2>2 DEF ToSet
<1>11. \A x \in ToSet(P) : \E i \in 1..L : x = archive[i] /\ i > start /\ i <= to
  <2>. SUFFICES ASSUME NEW x \in ToSet(P)
                PROVE  \E i \in 1..L : x = archive[i] /\ i > start /\ i <= to
    OBVIOUS
  <2>1. DOMAIN P = 1..n
    BY <1>6, LenProperties
  <2>2. PICK k \in 1..n : x = P[k]
    BY <2>1 DEF ToSet
  <2>3. start + k \in 1..L /\ start + k > start /\ start + k <= to
    BY <1>1, <1>3, <1>4
  <2>4. QED
    BY <1>6, <2>2, <2>3
<1>12. Missed' \subseteq Missed
  <2>. SUFFICES ASSUME NEW i \in 1..L, i <= to, archive[i] \in kept \ ToSet(seen')
                PROVE  archive[i] \in Missed
    BY <1>2, <1>7 DEF Missed, Before
  <2>1. i <= r
    BY <1>1, <1>3, <1>8, <1>10
  <2>2. QED
    BY <1>8, <2>1 DEF Missed, Before
<1>. DEFINE X == ToSet(P) \cap ToSet(seen)
<1>13. Repeated' \cup X \subseteq Repeated /\ Repeated' \cap X = {}
  <2>1. ASSUME NEW x \in Repeated'
        PROVE  x \in Repeated /\ x \notin ToSet(P)
    <3>1. PICK i \in 1..L : x = archive[i] /\ i > to /\ x \in ToSet(seen')
      BY <1>2, <1>7 DEF Repeated, After
    <3>2. x \notin ToSet(P)
      <4>1. SUFFICES ASSUME NEW j \in 1..L, x = archive[j], j <= to PROVE FALSE
        BY <1>11
      <4>2. i = j
        BY <1>1, <3>1, <4>1 DEF TypeOK, NoRepeats
      <4>3. QED
        BY <1>1, <1>5, <3>1, <4>1, <4>2
    <3>3. i > r
      BY <1>1, <1>3, <1>5, <3>1
    <3>4. QED
      BY <1>8, <3>1, <3>2, <3>3 DEF Repeated, After
  <2>2. ASSUME NEW x \in X
        PROVE  x \in Repeated
    <3>1. PICK i \in 1..L : x = archive[i] /\ i > start
      BY <1>11
    <3>2. i > r
      BY <1>1, <1>3, <3>1
    <3>3. QED
      BY <3>1, <3>2 DEF Repeated, After
  <2>3. QED
    BY <2>1, <2>2
<1>14. Counted'
  <2>1. Counted
    BY <1>1 DEF IndInv
  <2>2. /\ IsFiniteSet(Missed) /\ IsFiniteSet(Repeated) /\ IsFiniteSet(ToSet(seen))
        /\ Cardinality(Missed) \in Nat /\ Cardinality(Repeated) \in Nat
        /\ Cardinality(ToSet(seen)) \in Nat
    BY <1>1, SetsFinite
  <2>3. Cardinality(Missed') <= Cardinality(Missed) /\ Cardinality(Missed') \in Nat
    BY <1>12, <2>2, FS_Subset, FS_CardinalityType
  <2>4. /\ IsFiniteSet(ToSet(P)) /\ Cardinality(ToSet(P)) = n
    <3>1. NoRepeats(P)
      <4>. SUFFICES ASSUME NEW i \in 1..n, NEW j \in 1..n, P[i] = P[j] PROVE i = j
        BY <1>6 DEF NoRepeats
      <4>1. start + i \in 1..L /\ start + j \in 1..L
        BY <1>1, <1>3, <1>4
      <4>2. archive[start + i] = archive[start + j]
        BY <1>6
      <4>3. start + i = start + j
        BY <1>1, <4>1, <4>2 DEF TypeOK, NoRepeats
      <4>4. QED
        BY <1>3, <4>3
    <3>2. QED
      BY <1>6, <3>1, MembersFinite
  <2>5. /\ Cardinality(ToSet(seen')) = Cardinality(ToSet(seen)) + n - Cardinality(X)
    <3>1. ToSet(seen) \cap ToSet(P) = X
      OBVIOUS
    <3>2. QED
      BY <1>8, <2>2, <2>4, <3>1, FS_Union
  <2>6. IsFiniteSet(Repeated') /\ IsFiniteSet(X)
    BY <1>13, <2>2, FS_Subset
  <2>7. /\ Cardinality(Repeated') \in Nat /\ Cardinality(X) \in Nat
        /\ Cardinality(Repeated') + Cardinality(X) <= Cardinality(Repeated)
    <3>1. Cardinality(Repeated' \cup X)
            = Cardinality(Repeated') + Cardinality(X) - Cardinality(Repeated' \cap X)
      BY <2>6, FS_Union
    <3>2. Cardinality(Repeated' \cap X) = 0
      BY <1>13, FS_EmptySet
    <3>3. Cardinality(Repeated' \cup X) <= Cardinality(Repeated)
      BY <1>13, <2>2, FS_Subset
    <3>4. Cardinality(Repeated') \in Nat /\ Cardinality(X) \in Nat
      BY <2>6, FS_CardinalityType
    <3>5. QED
      BY <2>2, <3>1, <3>2, <3>3, <3>4
  <2>8. Cardinality(Missed') <= purged
    BY <1>1, <2>1, <2>2, <2>3 DEF Counted
  <2>. HIDE DEF X
  <2>9. Len(seen') + Cardinality(Repeated') <= Cardinality(ToSet(seen')) + archived
    <3>1. n \in Nat
      BY <1>1, <1>3, <1>4
    <3>2. QED
      <4>1. Len(seen) + Cardinality(Repeated) <= Cardinality(ToSet(seen)) + archived
        BY <2>1 DEF Counted
      <4>2. Len(seen') = Len(seen) + n /\ Len(seen) \in Nat /\ archived \in Nat
        BY <1>1, <1>8
      <4>3. QED
        BY <2>2, <2>5, <2>7, <3>1, <4>1, <4>2
  <2>10. QED
    BY <1>2, <2>8, <2>9 DEF Counted
<1>15. ASSUME purged = 0 PROVE InStep'
  <2>. DEFINE D == {i \in 1..L : i <= r /\ archive[i] \in kept}
              E == {i \in 1..L : i <= to /\ archive[i] \in kept}
  <2>1. PICK f \in [D -> 1..Len(seen)] :
          /\ \A i \in DOMAIN f : seen[f[i]] = archive[i]
          /\ \A i, j \in DOMAIN f : i < j => f[i] < f[j]
    BY <1>1, <1>15 DEF IndInv, InStep
  <2>. DEFINE g == [i \in E |-> IF i <= start THEN f[i] ELSE Len(seen) + i - start]
  <2>2. ASSUME NEW i \in E
        PROVE  /\ g[i] \in 1..(Len(seen) + n) /\ seen'[g[i]] = archive[i]
               /\ i <= start => i \in D /\ g[i] <= Len(seen)
               /\ i > start => g[i] = Len(seen) + i - start
    <3>1. CASE i <= start
      <4>1. i \in D
        BY <1>1, <1>3, <3>1
      <4>2. g[i] = f[i] /\ f[i] \in 1..Len(seen) /\ seen[f[i]] = archive[i]
        BY <2>1, <3>1, <4>1
      <4>. HIDE DEF g
      <4>3. g[i] \in 1..(Len(seen) + n) /\ g[i] <= Len(seen)
        BY <1>1, <1>3, <1>4, <4>2
      <4>4. seen'[g[i]] = archive[i]
        BY <1>8, <4>2, <4>3
      <4>5. QED
        BY <1>3, <3>1, <4>1, <4>3, <4>4
    <3>2. CASE i > start
      <4>1. ~(i <= start) /\ i - start \in 1..n /\ start + (i - start) = i
        BY <1>1, <1>3, <1>4, <3>2
      <4>2. g[i] = Len(seen) + i - start
        BY <4>1
      <4>. HIDE DEF g
      <4>3. /\ g[i] \in 1..(Len(seen) + n) /\ ~(g[i] <= Len(seen))
            /\ g[i] - Len(seen) = i - start
        BY <1>1, <1>3, <1>4, <4>1, <4>2
      <4>4. seen'[g[i]] = archive[i]
        BY <1>6, <1>8, <4>1, <4>3
      <4>5. QED
        BY <4>1, <4>2, <4>3, <4>4
    <3>3. QED
      BY <1>1, <1>3, <3>1, <3>2
  <2>3. \A i, j \in E : i < j => g[i] < g[j]
    <3>. SUFFICES ASSUME NEW i \in E, NEW j \in E, i < j PROVE g[i] < g[j]
      OBVIOUS
    <3>1. CASE j <= start
      <4>1. i <= start /\ i \in D /\ j \in D
        BY <1>1, <1>3, <2>2, <3>1
      <4>2. g[i] = f[i] /\ g[j] = f[j]
        BY <3>1, <4>1
      <4>3. QED
        BY <2>1, <4>1, <4>2
    <3>2. CASE j > start
      <4>1. g[j] = Len(seen) + j - start
        BY <2>2, <3>2
      <4>2. g[i] \in 1..(Len(seen) + n) /\ (i <= start => g[i] <= Len(seen))
            /\ (i > start => g[i] = Len(seen) + i - start)
        BY <2>2
      <4>. HIDE DEF g
      <4>3. QED
        BY <1>1, <1>3, <1>4, <3>2, <4>1, <4>2
    <3>3. QED
      BY <1>1, <1>3, <3>1, <3>2
  <2>4. g \in [E -> 1..Len(seen')] /\ DOMAIN g = E
    BY <1>8, <2>2
  <2>5. E = {i \in 1..Len(archive') : i <= Reach' /\ archive'[i] \in kept'}
    BY <1>2, <1>7
  <2>6. \A i \in DOMAIN g : seen'[g[i]] = archive'[i]
    BY <1>2, <2>2
  <2>. HIDE DEF g, E
  <2>7. QED
    BY <2>3, <2>4, <2>5, <2>6 DEF InStep
<1>16. ASSUME Undisturbed PROVE Undisturbed'
  <2>1. r <= L /\ seen = SubSeq(archive, 1, r) /\ start = r
    BY <1>1, <1>3, <1>16 DEF Undisturbed
  <2>2. 1 \in 1..(L + 1) /\ r \in (1 - 1)..L /\ to \in r..L
    BY <1>1, <1>5, <2>1
  <2>3. SubSeq(archive, 1, r) \o SubSeq(archive, r + 1, to) = SubSeq(archive, 1, to)
    BY <1>1, <2>2, ConcatAdjacentSubSeq DEF TypeOK
  <2>4. seen' = SubSeq(archive, 1, to)
    BY <1>2, <2>1, <2>3 DEF P
  <2>5. QED
    BY <1>2, <1>5, <1>7, <2>4 DEF Undisturbed
<1>17. QED
  BY <1>1, <1>2, <1>9, <1>14, <1>15, <1>16 DEF IndInv

LEMMA NextHolds == IndInv /\ [Next]_vars => IndInv'
<1>. SUFFICES ASSUME IndInv, [Next]_vars PROVE IndInv'
  OBVIOUS
<1>1. CASE Archive
  BY <1>1, ArchiveStep
<1>2. CASE Purge
  BY <1>2, PurgeStep
<1>3. CASE Begin
  BY <1>3, BeginStep
<1>4. CASE AskPage
  BY <1>4, PageStep DEF AskPage
<1>5. CASE GiveUp
  <2>1. walk' = "idle" /\ UNCHANGED <<archive, changes, token, seen, kept, archived, purged>>
    BY <1>5 DEF GiveUp, history
  <2>2. QED
    BY <2>1 DEF IndInv, TypeOK
<1>6. CASE UNCHANGED vars
  <2>1. UNCHANGED <<archive, changes, walk, token, seen, kept, archived, purged>>
    BY <1>6 DEF vars
  <2>2. UNCHANGED Reach
    BY <2>1 DEF Reach
  <2>3. QED
    BY <2>1, <2>2 DEF IndInv, TypeOK, Counted, Missed, Repeated, Before, After, InStep, Undisturbed
<1>7. QED
  BY <1>1, <1>2, <1>3, <1>4, <1>5, <1>6 DEF Next

(* The offset, the archive and what was given agree in every state of a    *)
(* walk, whatever SDC archives and purges between two pages.               *)
THEOREM IndInvHolds == FairSpec => []IndInv
<1>1. Init => IndInv
  BY InitHolds
<1>2. IndInv /\ [Next]_vars => IndInv'
  BY NextHolds
<1>3. QED
  BY <1>1, <1>2, PTL DEF FairSpec

LEMMA BoundedShift == IndInv => ShiftIsBounded
<1>. SUFFICES ASSUME IndInv, walk = "done"
              PROVE  /\ archived = 0 /\ purged = 0 => seen = archive
                     /\ Cardinality(kept \ ToSet(seen)) <= purged
                     /\ Len(seen) <= Cardinality(ToSet(seen)) + archived
                     /\ purged = 0 => InOrder(archive, kept, seen)
  BY DEF ShiftIsBounded
<1>1. /\ TypeOK /\ Counted /\ Reach = Len(archive)
      /\ Len(archive) \in Nat /\ Len(seen) \in Nat
      /\ archived \in Nat /\ purged \in Nat
  BY ReachIsNat DEF IndInv, TypeOK, Reach
<1>2. archived = 0 /\ purged = 0 => seen = archive
  <2>. SUFFICES ASSUME archived = 0, purged = 0 PROVE seen = archive
    OBVIOUS
  <2>1. seen = SubSeq(archive, 1, Len(archive))
    BY <1>1 DEF IndInv, Undisturbed
  <2>2. QED
    BY <1>1, <2>1, SubSeqFull DEF TypeOK
<1>3. Missed = kept \ ToSet(seen)
  <2>1. \A i \in 1..Len(archive) : i <= Reach
    BY <1>1
  <2>2. ToSet(archive) = Before
    <3>1. DOMAIN archive = 1..Len(archive)
      BY <1>1, LenProperties DEF TypeOK
    <3>2. QED
      BY <2>1, <3>1 DEF ToSet, Before
  <2>3. QED
    BY <1>1, <2>2 DEF Missed, TypeOK
<1>4. Len(seen) <= Cardinality(ToSet(seen)) + archived
  <2>1. Cardinality(Repeated) \in Nat /\ Cardinality(ToSet(seen)) \in Nat
    BY <1>1, SetsFinite
  <2>2. QED
    BY <1>1, <2>1 DEF Counted
<1>5. purged = 0 => InOrder(archive, kept, seen)
  <2>1. {i \in 1..Len(archive) : i <= Reach /\ archive[i] \in kept}
          = {i \in 1..Len(archive) : archive[i] \in kept}
    BY <1>1
  <2>2. QED
    BY <2>1 DEF IndInv, InStep, InOrder
<1>6. QED
  BY <1>1, <1>2, <1>3, <1>4, <1>5 DEF Counted

(* A walk over an archive that stays as it is gives every version once and *)
(* in order, and a walk over one that changes misses at most one version   *)
(* that stayed for each one purged and repeats at most one for each one    *)
(* archived (page_list, list_sdc_config_versions).                         *)
THEOREM ShiftIsBoundedHolds == FairSpec => []ShiftIsBounded
BY IndInvHolds, BoundedShift, PTL

(* Why a walk ends, short of fairness: a page is its last or takes the     *)
(* offset on, over entries above the budget and past an end that moved     *)
(* (page_list takes the first entry whatever its size).                    *)
THEOREM EveryPageMovesOn ==
  FairSpec => [][AskPage => walk' = "done" \/ token'.offset > token.offset]_vars
<1>1. ASSUME IndInv, NEW fields \in BOOLEAN, Page(fields)
      PROVE  walk' = "done" \/ token'.offset > token.offset
  <2>. DEFINE L == Len(archive)
              start == Start(token)
              n == Taken(start, fields)
  <2>1. L \in Nat /\ token.offset \in Nat
    BY <1>1, ReachIsNat DEF IndInv, TypeOK
  <2>2. start \in 0..L /\ start \in {token.offset, L}
    BY <2>1 DEF Start
  <2>3. n \in 0..(L - start) /\ (start < L => n >= 1)
    BY <2>1, <2>2, TakenFacts
  <2>4. token' = NextToken(start + n) /\ walk' = (IF token' = NoToken THEN "done" ELSE "walking")
    BY <1>1 DEF Page, Handed
  <2>. HIDE DEF start, n
  <2>5. CASE start + n < L
    <3>1. token'.offset = start + n
      BY <2>4, <2>5 DEF NextToken, Token
    <3>2. start = token.offset /\ n >= 1
      BY <2>1, <2>2, <2>3, <2>5
    <3>3. QED
      BY <2>1, <2>3, <3>1, <3>2
  <2>6. CASE ~(start + n < L)
    BY <2>4, <2>6 DEF NextToken
  <2>7. QED
    BY <2>5, <2>6
<1>2. IndInv /\ [Next]_vars => [AskPage => walk' = "done" \/ token'.offset > token.offset]_vars
  BY <1>1 DEF AskPage
<1>3. QED
  BY <1>2, IndInvHolds, PTL DEF FairSpec

(* What list_page_budget_bytes is for: a page keeps to the budget, unless  *)
(* its only entry does not; and it ends before the end of the list only    *)
(* where the next entry would take it over.                                *)
THEOREM PagesFillTheBudget ==
  FairSpec => [][\A fields \in BOOLEAN : Page(fields) =>
                   \E s \in Seq(Version) :
                     /\ seen' = seen \o s
                     /\ Len(s) <= 1 \/ Bytes(s, fields) <= Budget
                     /\ token' # NoToken =>
                          LET to == token'.offset IN
                            /\ s = SubSeq(archive, to - Len(s) + 1, to)
                            /\ Len(s) >= 1
                            /\ ~(Bytes(SubSeq(archive, to - Len(s) + 1, to + 1), fields)
                                   <= Budget)]_vars
<1>. DEFINE Filled(s, fields) ==
              /\ seen' = seen \o s
              /\ Len(s) <= 1 \/ Bytes(s, fields) <= Budget
              /\ token' # NoToken =>
                   LET to == token'.offset IN
                     /\ s = SubSeq(archive, to - Len(s) + 1, to)
                     /\ Len(s) >= 1
                     /\ ~(Bytes(SubSeq(archive, to - Len(s) + 1, to + 1), fields) <= Budget)
<1>1. ASSUME IndInv, NEW fields \in BOOLEAN, Page(fields)
      PROVE  \E s \in Seq(Version) : Filled(s, fields)
  <2>. DEFINE L == Len(archive)
              start == Start(token)
              n == Taken(start, fields)
              P == SubSeq(archive, start + 1, start + n)
  <2>1. L \in Nat /\ token.offset \in Nat /\ archive \in Seq(Version)
    BY <1>1, ReachIsNat DEF IndInv, TypeOK
  <2>2. start \in 0..L
    BY <2>1 DEF Start
  <2>3. /\ n \in 0..(L - start) /\ (start < L => n >= 1)
        /\ \A m \in 1..n : Fits(start, m, fields)
        /\ start + n < L => ~Fits(start, n + 1, fields)
    BY <2>1, <2>2, TakenFacts
  <2>4. seen' = seen \o P /\ token' = NextToken(start + n)
    BY <1>1 DEF Page, Handed
  <2>. HIDE DEF start, n
  <2>5. P \in Seq(Version) /\ Len(P) = n
    <3>1. PICK m \in 1..(L + 1) : m = start + 1
      BY <2>1, <2>2
    <3>2. PICK to \in (m - 1)..L : to = start + n
      BY <2>1, <2>2, <2>3, <3>1
    <3>3. SubSeq(archive, m, to) \in Seq(Version) /\ Len(SubSeq(archive, m, to)) = to - m + 1
      BY <2>1, SliceFacts
    <3>4. to - m + 1 = n /\ SubSeq(archive, m, to) = P
      BY <2>1, <2>2, <2>3, <3>1, <3>2
    <3>. HIDE DEF P
    <3>5. QED
      BY <3>3, <3>4
  <2>6. n <= 1 \/ Bytes(P, fields) <= Budget
    <3>1. CASE n > 1
      <4>1. Fits(start, n, fields) /\ n # 1
        BY <2>1, <2>2, <2>3, <3>1
      <4>2. QED
        BY <4>1 DEF Fits
    <3>2. QED
      BY <2>1, <2>2, <2>3, <3>1
  <2>7. ASSUME token' # NoToken
        PROVE  LET to == token'.offset IN
                 /\ P = SubSeq(archive, to - n + 1, to)
                 /\ n >= 1
                 /\ ~(Bytes(SubSeq(archive, to - n + 1, to + 1), fields) <= Budget)
    <3>1. start + n < L /\ token'.offset = start + n
      BY <2>4, <2>7 DEF NextToken, Token
    <3>2. n >= 1 /\ (start + n) - n + 1 = start + 1 /\ (start + n) + 1 = start + (n + 1)
      BY <2>1, <2>2, <2>3, <3>1
    <3>3. ~(Bytes(SubSeq(archive, start + 1, start + (n + 1)), fields) <= Budget)
      BY <2>3, <3>1 DEF Fits
    <3>4. P = SubSeq(archive, (start + n) - n + 1, start + n)
      BY <3>2
    <3>5. ~(Bytes(SubSeq(archive, (start + n) - n + 1, (start + n) + 1), fields) <= Budget)
      BY <3>2, <3>3
    <3>. HIDE DEF P
    <3>6. QED
      BY <3>1, <3>2, <3>4, <3>5
  <2>. HIDE DEF P
  <2>8. Filled(P, fields)
    BY <2>4, <2>5, <2>6, <2>7
  <2>. HIDE DEF Filled
  <2>9. QED
    BY <2>5, <2>8
<1>2. IndInv /\ [Next]_vars =>
        [\A fields \in BOOLEAN : Page(fields) => \E s \in Seq(Version) : Filled(s, fields)]_vars
  BY <1>1
<1>3. QED
  BY <1>2, IndInvHolds, PTL DEF FairSpec
=============================================================================
