---------------------------- MODULE GroupSearch_proofs ----------------------------
(***************************************************************************)
(* locate_group_pt1 is right for every root, every key, every prediction   *)
(* and every interleaving with group merges.                               *)
(***************************************************************************)
EXTENDS GroupSearch, TLAPS

(* Pivots up to slot a are not larger than the key, pivots after b are.    *)
Edges(a, b) ==
  /\ \A i \in 0 .. group_n - 1 : i <= a => pivot[i] <= key
  /\ \A i \in 0 .. group_n - 1 : i > b => pivot[i] > key

(* What is known of the ends of the range. *)
GroupRangeInv ==
  /\ group_pc = "up" => /\ begin_group_i \in 0 .. group_n - 1 /\ begin_group_i < end_group_i
                  /\ pivot[begin_group_i] <= key
  /\ group_pc = "down" => /\ end_group_i \in 0 .. group_n - 1 /\ begin_group_i < end_group_i
                    /\ pivot[end_group_i] > key
  /\ group_pc = "bisect" => Edges(begin_group_i, end_group_i)
  /\ group_pc \in {"walk", "done"} => Edges(end_group_i, end_group_i)

(* What is known of the empty slots and of the walk over them. *)
SlotInv ==
  /\ 0 \in present
  /\ \A i \in 1 .. group_n - 1 : i \in present \/ i - 1 \in present
  /\ group_pc \in {"walk", "done"} =>
       /\ end_group_i <= group_n - 1
       /\ ClampLow(end_group_i) - group_i \in {0, 1}
       /\ group_i # ClampLow(end_group_i) => group_i + 1 \notin present
  /\ group_pc = "done" => group # "null"

GroupIInv == GroupTypeOK /\ GroupRangeInv /\ SlotInv

(* The state at the call. *)
LEMMA GroupSearchInit == GroupInit => GroupIInv
  BY RootAssumption DEF GroupInit, GroupIInv, GroupTypeOK, GroupRangeInv, SlotInv

(* mid is within the range that is left, above its lower end. *)
LEMMA SlotMidWithin ==
  ASSUME NEW b \in Int, NEW e \in Int, b < e
  PROVE  /\ (e + b + 2) \div 2 \in Int
         /\ b < (e + b + 2) \div 2 /\ (e + b + 2) \div 2 <= e
  OBVIOUS

(* The search's steps keep the invariant. *)
LEMMA GroupStepInv == GroupIInv /\ GroupSearchStep => GroupIInv'
<1> SUFFICES ASSUME GroupIInv, GroupSearchStep PROVE GroupIInv'
  OBVIOUS
<1> USE DEF GroupIInv, GroupTypeOK, GroupRangeInv, SlotInv, Edges, Increasing, fixed
<1>1. CASE GroupStart
  <2>1. ClampSlot(group_i) \in 0 .. group_n - 1
    BY DEF ClampSlot, ClampLow
  <2>2. GroupTypeOK' /\ SlotInv'
    BY <1>1, <2>1 DEF GroupStart
  <2>3. GroupRangeInv'
    BY <1>1, <2>1 DEF GroupStart
  <2> QED
    BY <2>2, <2>3
<1>2. CASE GroupGallopUp
  BY <1>2 DEF GroupGallopUp, GroupMoreUp
<1>3. CASE GroupEndUp
  <2>1. GroupTypeOK' /\ SlotInv'
    BY <1>3 DEF GroupEndUp, GroupMoreUp
  <2>2. GroupRangeInv'
    BY <1>3 DEF GroupEndUp, GroupMoreUp
  <2> QED
    BY <2>1, <2>2
<1>4. CASE GroupGallopDown
  BY <1>4 DEF GroupGallopDown, GroupMoreDown
<1>5. CASE GroupEndDown
  <2>1. GroupTypeOK' /\ SlotInv'
    BY <1>5 DEF GroupEndDown
  <2>2. GroupRangeInv'
    BY <1>5 DEF GroupEndDown, GroupMoreDown
  <2> QED
    BY <2>1, <2>2
<1>6. CASE GroupBisect
  <2>1. group_mid \in Int /\ begin_group_i < group_mid /\ group_mid <= end_group_i
    BY <1>6, SlotMidWithin DEF GroupBisect, group_mid
  <2>2. group_mid \in 0 .. group_n - 1
    BY <1>6, <2>1 DEF GroupBisect
  <2>3. CASE pivot[group_mid] <= key /\ begin_group_i' = group_mid /\ UNCHANGED end_group_i
    BY <1>6, <2>1, <2>2, <2>3 DEF GroupBisect
  <2>4. CASE pivot[group_mid] > key /\ end_group_i' = group_mid - 1 /\ UNCHANGED begin_group_i
    BY <1>6, <2>1, <2>2, <2>4 DEF GroupBisect
  <2> QED
    BY <1>6, <2>3, <2>4 DEF GroupBisect
<1>7. CASE Found
  BY <1>7 DEF Found, ClampLow
<1>8. CASE WalkBack
  <2> USE <1>8 DEF WalkBack, groups_second
  <2>1. GroupTypeOK' /\ GroupRangeInv'
    OBVIOUS
  <2>2. CASE group_i > 0 /\ group' = "null" /\ group_i' = group_i - 1 /\ UNCHANGED group_pc
    <3>1. group_i \notin present
      BY <2>2
    <3>2. ASSUME group_i # ClampLow(end_group_i) PROVE FALSE
      <4>1. group_i + 1 \in 1 .. group_n - 1 /\ group_i + 1 \notin present
        BY <3>2, <2>2 DEF ClampLow
      <4>2. (group_i + 1) - 1 = group_i
        OBVIOUS
      <4> QED
        BY <3>1, <4>1, <4>2
    <3> QED
      BY <2>1, <2>2, <3>1, <3>2 DEF ClampLow
  <2>3. CASE (group_i = 0 \/ group' # "null") /\ group_pc' = "done" /\ UNCHANGED group_i
    BY <2>1, <2>3 DEF ClampLow
  <2> QED
    BY <2>2, <2>3
<1> QED
  BY <1>1, <1>2, <1>3, <1>4, <1>5, <1>6, <1>7, <1>8 DEF GroupSearchStep

(* So does a group merge: it empties no neighbour of an empty slot. *)
LEMMA MergeStep ==
  ASSUME GroupIInv, NEW i \in 1 .. group_n - 1, NullifyNext(i)
  PROVE  GroupIInv'
  BY DEF GroupIInv, GroupTypeOK, GroupRangeInv, SlotInv, Edges, Increasing, ClampLow, NullifyNext, search

(* The invariant holds throughout a call. *)
LEMMA GroupInv == GroupSpec => []GroupIInv
<1>1. GroupIInv /\ UNCHANGED groupVars => GroupIInv'
  BY DEF GroupIInv, GroupTypeOK, GroupRangeInv, SlotInv, Edges, Increasing, ClampLow, groupVars, search
<1>2. GroupIInv /\ [GroupNext]_groupVars => GroupIInv'
  BY <1>1, GroupStepInv, MergeStep DEF GroupNext
<1> QED
  BY <1>2, GroupSearchInit, PTL DEF GroupSpec

(* The bisection's result falls in [-1, group_n - 1]. *)
THEOREM GroupSearchTypeOK == GroupSpec => []GroupTypeOK
<1>1. GroupIInv => GroupTypeOK
  BY DEF GroupIInv
<1> QED
  BY <1>1, GroupInv, PTL

(* No prediction makes locate_group_pt1 read outside the array of slots. *)
THEOREM GroupSearchInBounds == GroupSpec => []GroupInBounds
<1>1. GroupIInv => GroupInBounds
  <2> SUFFICES ASSUME GroupIInv PROVE GroupInBounds
    OBVIOUS
  <2>1. group_pc = "up" /\ end_group_i < group_n => end_group_i \in DOMAIN pivot
    BY DEF GroupIInv, GroupTypeOK, GroupRangeInv
  <2>2. group_pc = "down" /\ begin_group_i >= 0 => begin_group_i \in DOMAIN pivot
    BY DEF GroupIInv, GroupTypeOK, GroupRangeInv
  <2>3. ASSUME group_pc = "bisect", end_group_i # begin_group_i PROVE group_mid \in DOMAIN pivot
    BY <2>3, SlotMidWithin DEF GroupIInv, GroupTypeOK, group_mid
  <2> QED
    BY <2>1, <2>2, <2>3 DEF GroupInBounds
<1> QED
  BY <1>1, GroupInv, PTL

(* locate_group_pt1 returns a group of the slot responsible for the key,   *)
(* however merges interleave with it.                                      *)
THEOREM GroupSearchFindsSlot == GroupSpec => []FindsSlot
<1>1. GroupIInv => FindsSlot
  BY DEF GroupIInv, GroupTypeOK, GroupRangeInv, SlotInv, Edges, ClampLow, FindsSlot
<1> QED
  BY <1>1, GroupInv, PTL

(* The first slot stays in use, and the walk back takes at most one step. *)
THEOREM GroupSearchShortWalk == GroupSpec => []ShortWalk
<1>1. GroupIInv => ShortWalk
  BY DEF GroupIInv, SlotInv, ShortWalk
<1> QED
  BY <1>1, GroupInv, PTL
================================================================================
