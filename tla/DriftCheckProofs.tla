-------------------------- MODULE DriftCheckProofs --------------------------
(***************************************************************************)
(* Proofs about DriftCheck, for targets of any number of parts and any     *)
(* number of edits.  The cursor splits the target into the parts a pass    *)
(* has read and those it has not: IndInv says of the first that they agree *)
(* with the plan or were edited since, and every property follows from it. *)
(***************************************************************************)
EXTENDS DriftCheck, TLAPS

LEMMA SizeBound ==
  ASSUME shape \in {"create", "record", "lists", "devices"}, size \in Sizes(shape)
  PROVE  size \in 0..MaxParts
BY PartsAssumption DEF Sizes, Part

LEMMA InitHolds == Init => IndInv
<1> SUFFICES ASSUME Init PROVE IndInv
  OBVIOUS
<1>1. size \in 0..MaxParts
  BY SizeBound DEF Init
<1> QED
  BY <1>1, EditsAssumption DEF Init, IndInv, TypeOK, Stages, ReadByPrepare, Passed,
     OnlyTheWindowIsOpen, RefusedOnlyIfMoved

LEMMA NextHolds == IndInv /\ [Next]_vars => IndInv'
<1> SUFFICES ASSUME IndInv, [Next]_vars PROVE IndInv'
  OBVIOUS
<1> USE DEF IndInv, TypeOK, Stages, ReadByPrepare, Passed, OnlyTheWindowIsOpen,
            RefusedOnlyIfMoved, Same, View, plan, history
<1>0. size \in 0..MaxParts /\ Part = 1..MaxParts /\ MaxParts \in Nat
  BY SizeBound, PartsAssumption DEF Part
<1>1. CASE ReadBefore
  <2>1. next \in 1..size /\ next \in Part /\ now[next] \in Content /\ now[next] # None
    <3>1. next \in 1..size /\ next \in Part
      BY <1>0, <1>1 DEF ReadBefore
    <3>2. now[next] \in Content
      BY <3>1
    <3> QED  BY <3>1, <3>2, NoneAssumption DEF Content
  <2>2. next' = next + 1 /\ stage' = stage /\ stage = "preparing" /\ now' = now
        /\ UNCHANGED <<shape, size, moved, late, off, edits>>
    BY <1>1 DEF ReadBefore
  <2>3. before' = [before EXCEPT ![next] = now[next]]
    BY <1>1 DEF ReadBefore
  <2>4. TypeOK'
    BY <1>0, <2>1, <2>2, <2>3
  <2>5. ASSUME NEW q \in 1..(next' - 1) PROVE before'[q] # None /\ (Same(q)' \/ q \in moved')
    <3>1. CASE q = next
      BY <3>1, <2>1, <2>2, <2>3
    <3>2. CASE q # next
      <4>1. q \in 1..(next - 1) /\ before'[q] = before[q]
        BY <3>2, <2>1, <2>2, <2>3, <2>5, <1>0
      <4> QED  BY <4>1, <2>2
    <3> QED  BY <3>1, <3>2
  <2> QED  BY <2>2, <2>4, <2>5
<1>2. CASE Prepared
  BY <1>0, <1>2 DEF Prepared
<1>3. CASE BeginValidate
  BY <1>0, <1>3 DEF BeginValidate
<1>4. CASE BeginCommit
  BY <1>0, <1>4 DEF BeginCommit
<1>5. CASE ReadAgain
  <2>1. next \in 1..size /\ next' = next + 1 /\ Same(next)
        /\ stage \in {"validating", "rechecking"}
        /\ UNCHANGED <<shape, size, now, before, stage, moved, late, off, edits>>
    BY <1>0, <1>5 DEF ReadAgain, Checking
  <2>2. TypeOK'
    BY <1>0, <2>1
  <2>3. ASSUME NEW q \in Passed' PROVE q \notin off' /\ (Same(q)' \/ q \in late')
    <3>0. Passed' = IF stage = "rechecking" THEN 1..next ELSE {}
      <4>1. next' - 1 = next
        BY <2>1, <1>0
      <4> QED  BY <4>1, <2>1
    <3>1. stage = "rechecking" /\ q \in 1..next /\ q \in Part
      BY <3>0, <2>1, <2>3, <1>0
    <3>2. CASE q = next
      BY <3>1, <3>2, <2>1
    <3>3. CASE q # next
      <4>1. q \in Passed
        BY <3>1, <3>3, <2>1, <1>0
      <4> QED  BY <4>1, <2>1
    <3> QED  BY <3>2, <3>3
  <2> QED  BY <2>1, <2>2, <2>3
<1>6. CASE Drifted
  <2>1. next \in 1..size /\ ~Same(next) /\ stage \in {"validating", "rechecking"}
        /\ stage' = "refused"
        /\ UNCHANGED <<shape, size, now, before, next, moved, late, off, edits>>
    BY <1>0, <1>6 DEF Drifted, Checking
  <2>2. next \in moved
    BY <2>1
  <2>3. Passed' = {} /\ ReadByPrepare' = ReadByPrepare
    BY <2>1
  <2>4. \A q \in Part : Same(q)' <=> Same(q)
    BY <2>1
  <2>5. off \subseteq Part /\ ReadByPrepare \subseteq Part
    BY <1>0, <2>1
  <2>6. TypeOK'
    BY <1>0, <2>1
  <2> HIDE DEF Same, Passed, ReadByPrepare
  <2>7. OnlyTheWindowIsOpen' /\ RefusedOnlyIfMoved'
    BY <2>1, <2>2, <2>3, <2>4, <2>5
  <2>8. stage' # "failed" =>
          \A p \in ReadByPrepare' : before'[p] # None /\ (Same(p)' \/ p \in moved')
    BY <2>1, <2>3, <2>4, <2>5
  <2>9. off' \cap Passed' = {} /\ \A p \in off' : before'[p] # None /\ ~Same(p)'
    BY <2>1, <2>3, <2>4, <2>5
  <2> HIDE DEF TypeOK, OnlyTheWindowIsOpen, RefusedOnlyIfMoved
  <2> QED
    BY <2>1, <2>6, <2>7, <2>8, <2>9
<1>7. CASE Unchanged
  <2>1. next > size /\ next - 1 = size /\ stage \in {"validating", "rechecking"}
        /\ stage' = (IF stage = "validating" THEN "validated" ELSE "sending")
        /\ UNCHANGED <<shape, size, now, before, next, moved, late, off, edits>>
    BY <1>0, <1>7 DEF Unchanged, Checking
  <2>2. Passed' = Passed /\ ReadByPrepare' = ReadByPrepare
    BY <2>1
  <2>3. \A q : Same(q)' <=> Same(q)
    BY <2>1
  <2>4. TypeOK'
    BY <2>1
  <2> HIDE DEF Same, Passed, ReadByPrepare
  <2> QED
    BY <2>1, <2>2, <2>3, <2>4
<1>8. CASE ReadFails
  BY <1>0, <1>8 DEF ReadFails, Checking
<1>9. CASE Send
  BY <1>0, <1>9 DEF Send
<1>10. ASSUME NEW p \in Part, NEW content \in Content, Edit(p, content) PROVE IndInv'
  <2> DEFINE seen == shape = "record" \/ content.shown # now[p].shown
             passed == stage \in {"sending", "sent"} \/ (stage = "rechecking" /\ p < next)
             planned == stage # "preparing" \/ p < next
  <2>1. p \in 1..size /\ edits' = edits + 1 /\ edits < MaxEdits
        /\ now' = [now EXCEPT ![p] = content]
        /\ UNCHANGED <<shape, size, before, stage, next>>
    BY <1>0, <1>10 DEF Edit
  <2>2. /\ moved' = IF seen /\ planned THEN moved \cup {p} ELSE moved
        /\ late' = IF seen /\ passed THEN late \cup {p} ELSE late
        /\ off' = IF before[p] # None /\ View(content) = View(before[p])
                  THEN off \ {p} ELSE off
    BY <1>10 DEF Edit
  <2>3. TypeOK'
    BY <1>0, <1>10, <2>1, <2>2, EditsAssumption
  <2>4. ~seen => View(content) = View(now[p])
    BY <1>10, <2>1 DEF Content
  <2>5. p \in Passed <=> passed
    BY <1>0, <2>1
  <2>6. p \in ReadByPrepare <=> planned
    BY <1>0, <2>1
  <2> HIDE DEF seen, passed, planned
  <2>7. ASSUME NEW q \in Part, q # p
        PROVE /\ Same(q)' <=> Same(q)
              /\ q \in moved' <=> q \in moved
              /\ q \in late' <=> q \in late
              /\ q \in off' <=> q \in off
    BY <2>1, <2>2, <2>7
  <2>8. Passed' = Passed /\ ReadByPrepare' = ReadByPrepare /\ Passed \subseteq Part
        /\ ReadByPrepare \subseteq Part
    <3>1. Passed' = Passed /\ ReadByPrepare' = ReadByPrepare
      BY <2>1
    <3>2. Passed \subseteq 1..size /\ ReadByPrepare \subseteq 1..size
      <4>1. 1..(next - 1) \subseteq 1..size /\ {} \subseteq 1..size
        BY <1>0
      <4> QED  BY <4>1
    <3>3. 1..size \subseteq Part
      BY <1>0
    <3> QED  BY <3>1, <3>2, <3>3
  <2>9. Same(p)' <=> View(content) = View(before[p])
    BY <2>1
  <2>10. p \in Passed => Same(p)' \/ p \in late'
    BY <2>2, <2>4, <2>5, <2>9
  <2>11. p \in ReadByPrepare /\ stage # "failed" => Same(p)' \/ p \in moved'
    BY <2>2, <2>4, <2>6, <2>9
  <2>12. p \in off' => ~Same(p)'
    <3>1. p \in off' => p \in off
      BY <2>2
    <3>2. p \in off => before[p] # None
      OBVIOUS
    <3> QED  BY <3>1, <3>2, <2>2, <2>9
  <2>13. p \notin off' \/ p \notin Passed
    BY <2>2
  <2>14. late' = late \/ stage \in {"rechecking", "sending", "sent"}
    BY <2>2 DEF passed
  <2>15. moved \subseteq moved' /\ off' \subseteq off
    BY <2>2
  <2> HIDE DEF Passed, ReadByPrepare, Same
  <2>16. stage' # "failed" => \A q \in ReadByPrepare' : before'[q] # None /\ (Same(q)' \/ q \in moved')
    BY <2>1, <2>7, <2>8, <2>11
  <2>17. OnlyTheWindowIsOpen'
    BY <2>7, <2>8, <2>10
  <2>18. RefusedOnlyIfMoved'
    BY <2>1, <2>15
  <2>19. \A q \in off' : before'[q] # None /\ ~Same(q)'
    <3>1. off' \subseteq Part
      BY <1>0, <2>15
    <3> QED  BY <3>1, <2>1, <2>7, <2>12, <2>15
  <2>20. off' \cap Passed' = {}
    BY <2>8, <2>15
  <2>21. stage' \in {"preparing", "planned", "validating", "validated"} => off' = {} /\ late' = {}
    BY <2>1, <2>14, <2>15
  <2> QED
    BY <2>3, <2>16, <2>17, <2>18, <2>19, <2>20, <2>21
<1>11. CASE UNCHANGED vars
  BY <1>11 DEF vars
<1> QED
  BY <1>1, <1>2, <1>3, <1>4, <1>5, <1>6, <1>7, <1>8, <1>9, <1>10, <1>11 DEF Next

(* The cursor, the plan and the edits agree in every reachable state.      *)
THEOREM Consistent == Spec => []IndInv
BY InitHolds, NextHolds, PTL DEF Spec

(* target_unchanged and targets_unchanged leave open only the window       *)
(* between the last read of a part and the write.                          *)
THEOREM OnlyTheWindowIsOpenHolds == Spec => []OnlyTheWindowIsOpen
<1>1. IndInv => OnlyTheWindowIsOpen
  BY DEF IndInv
<1> QED  BY <1>1, Consistent, PTL

(* No write goes out over a change that was there before the recheck and   *)
(* stayed.                                                                 *)
THEOREM LastingDriftStopsHolds == Spec => []LastingDriftStops
<1>1. IndInv => LastingDriftStops
  BY DEF IndInv, TypeOK, Passed, LastingDriftStops
<1> QED  BY <1>1, Consistent, PTL

(* A refusal for drift is about something that did move.                   *)
THEOREM RefusedOnlyIfMovedHolds == Spec => []RefusedOnlyIfMoved
<1>1. IndInv => RefusedOnlyIfMoved
  BY DEF IndInv
<1> QED  BY <1>1, Consistent, PTL
=============================================================================
