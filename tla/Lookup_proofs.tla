------------------------------ MODULE Lookup_proofs ------------------------------
(***************************************************************************)
(* A lookup finds its key in the array of the group it located, for every  *)
(* content of the index, every way to cut it into groups, every prediction *)
(* of both models and every interleaving with group merges.                *)
(***************************************************************************)
EXTENDS Lookup, GroupSearch_proofs, ArraySearch_proofs

(* Root::init: no key is before the first pivot. *)
ContentInv ==
  /\ content \subseteq Int
  /\ \A k \in content : pivot[0] <= k

(* Once the slot is found, the array that was read there decides whether   *)
(* the index has the key; before, the search of an array has not begun.    *)
LinkInv ==
  /\ group_pc # "done" => pc = "start"
  /\ group_pc = "done" => (key \in content <=> key \in Elements(data))

LookupInv == GroupIInv /\ IInv /\ ContentInv /\ LinkInv

(* The state at the call. *)
LEMMA LookupInitInv == LookupInit => LookupInv
<1> SUFFICES ASSUME LookupInit PROVE LookupInv
  OBVIOUS
<1>1. GroupIInv
  BY GroupSearchInit DEF LookupInit
<1>2. IInv
  BY <1>1 DEF LookupInit, IInv, TypeOK, RangeInv, Increasing, GroupIInv, GroupTypeOK
<1>3. ContentInv /\ LinkInv
  BY ContentAssumption DEF LookupInit, ContentInv, LinkInv, GroupInit
<1> QED
  BY <1>1, <1>2, <1>3 DEF LookupInv

(* A group of the slot that locate_group_pt1 found holds the key if any    *)
(* group does: the key is not before its first slot, and if the walk went  *)
(* back over an empty slot the group is merged with that slot's.           *)
LEMMA SpanHasKey ==
  ASSUME GroupTypeOK, ContentInv, NEW e \in Int, NEW i \in 0 .. group_n - 1,
         Edges(e, e), e <= group_n - 1, ClampLow(e) - i \in {0, 1},
         i # ClampLow(e) => i + 1 \notin present,
         NEW s \in Spans(i)
  PROVE  key \in content <=> key \in KeysOf(s)
<1> SUFFICES ASSUME key \in content PROVE key \in KeysOf(s)
  BY DEF KeysOf
<1> USE DEF GroupTypeOK
<1> DEFINE f == s[1]
           l == s[2]
<1>1. /\ f \in Int /\ l \in Int /\ 0 <= f /\ l < group_n /\ f <= i /\ i <= l
      /\ (i + 1 < group_n /\ i + 1 \notin present => l = i + 1)
  <2>1. s = <<i, i>> \/ s = <<i, i + 1>> \/ s = <<i - 1, i>>
    BY DEF Spans
  <2>2. f \in {i, i - 1} /\ l \in {i, i + 1}
    BY <2>1
  <2>3. /\ 0 <= f /\ l < group_n
        /\ (i + 1 < group_n /\ i + 1 \notin present => l = i + 1)
    BY DEF Spans
  <2> HIDE DEF f, l
  <2> QED
    BY <2>2, <2>3
<1> HIDE DEF f, l
<1>2. pivot[f] <= key
  <2>1. CASE f = 0
    BY <2>1 DEF ContentInv
  <2>2. CASE f # 0
    <3>1. f <= e
      BY <1>1, <2>2 DEF ClampLow
    <3> QED
      BY <3>1, <1>1 DEF Edges
  <2> QED
    BY <2>1, <2>2
<1>3. ASSUME l + 1 < group_n PROVE key < pivot[l + 1]
  <2>1. l + 1 > e
    <3>1. CASE i = ClampLow(e)
      BY <1>1, <3>1 DEF ClampLow
    <3>2. CASE i # ClampLow(e)
      <4>1. i = e - 1
        BY <3>2 DEF ClampLow
      <4> QED
        BY <1>1, <3>2, <4>1
    <3> QED
      BY <3>1, <3>2
  <2> QED
    BY <2>1, <1>1, <1>3 DEF Edges
<1> QED
  BY <1>2, <1>3 DEF KeysOf, f, l

(* The steps of locate_group_pt1; the last one reads the group. *)
LEMMA LocateStep == LookupInv /\ Locate => LookupInv'
<1> SUFFICES ASSUME LookupInv, Locate PROVE LookupInv'
  OBVIOUS
<1>1. GroupIInv'
  BY GroupStepInv DEF LookupInv, Locate
<1>2. UNCHANGED fixed /\ group_pc # "done"
  BY DEF Locate, GroupSearchStep, GroupStart, GroupGallopUp, GroupEndUp, GroupGallopDown,
         GroupEndDown, GroupBisect, Found, WalkBack
<1>3. ContentInv'
  BY <1>2 DEF LookupInv, ContentInv, Locate, fixed
<1>4. pc = "start" /\ UNCHANGED bounds
  BY <1>2 DEF LookupInv, LinkInv, Locate
<1>5. CASE group_pc' # "done"
  <2>1. IInv'
    BY <1>2, <1>4, <1>5 DEF LookupInv, Locate, IInv, TypeOK, RangeInv, Increasing, fixed, array, bounds
  <2> QED
    BY <1>1, <1>3, <1>4, <1>5, <2>1 DEF LookupInv, LinkInv, bounds
<1>6. CASE group_pc' = "done"
  <2>1. PICK s \in Spans(group_i') :
          \E d \in Arrays, p \in Positions :
            Elements(d) = KeysOf(s) /\ data' = d /\ array_size' = Size(d) /\ pos' = p
    BY <1>6 DEF Locate, ReadGroup
  <2>2. IInv'
    BY <1>2, <1>4, <2>1, SearchAssumption
       DEF LookupInv, IInv, TypeOK, RangeInv, Increasing, fixed, bounds
  <2>3. key \in content <=> key \in KeysOf(s)
    <3>1. GroupTypeOK /\ ContentInv
      BY DEF LookupInv, GroupIInv
    <3>2. /\ end_group_i' \in Int /\ group_i' \in 0 .. group_n - 1
          /\ Edges(end_group_i', end_group_i') /\ end_group_i' <= group_n - 1
          /\ ClampLow(end_group_i') - group_i' \in {0, 1}
          /\ group_i' # ClampLow(end_group_i') => group_i' + 1 \notin present
      BY <1>1, <1>2, <1>6 DEF GroupIInv, GroupTypeOK, GroupRangeInv, SlotInv, Edges, ClampLow, fixed
    <3> QED
      BY <3>1, <3>2, <2>1, SpanHasKey
  <2>4. LinkInv'
    BY <1>2, <1>6, <2>1, <2>3 DEF LinkInv, Locate, fixed
  <2> QED
    BY <1>1, <1>3, <2>2, <2>4 DEF LookupInv
<1> QED
  BY <1>5, <1>6

(* The steps of exponential_search_key. *)
LEMMA SearchArrayStep == LookupInv /\ SearchArray => LookupInv'
<1> SUFFICES ASSUME LookupInv, SearchArray PROVE LookupInv'
  OBVIOUS
<1>1. IInv'
  BY SearchStep DEF LookupInv, SearchArray
<1>2. GroupIInv'
  BY DEF LookupInv, SearchArray, GroupIInv, GroupTypeOK, GroupRangeInv, SlotInv, Edges, Increasing,
         ClampLow, groupVars, search
<1>3. UNCHANGED data
  BY DEF SearchArray, Next, Empty, Start, GallopUp, EndUp, GallopDown, EndDown, Bisect, Return, input
<1>4. ContentInv' /\ LinkInv'
  BY <1>3 DEF LookupInv, SearchArray, ContentInv, LinkInv, groupVars, search
<1> QED
  BY <1>1, <1>2, <1>4 DEF LookupInv

(* A merge leaves the array that was read as it is. *)
LEMMA MergeGroupsStep == LookupInv /\ MergeGroups => LookupInv'
<1> SUFFICES ASSUME LookupInv, MergeGroups PROVE LookupInv'
  OBVIOUS
<1>1. PICK i \in 1 .. group_n - 1 : NullifyNext(i)
  BY DEF MergeGroups
<1>2. GroupIInv'
  BY <1>1, MergeStep DEF LookupInv
<1>3. IInv'
  BY <1>1 DEF LookupInv, MergeGroups, NullifyNext, IInv, TypeOK, RangeInv, Between, Increasing,
              array, bounds, search
<1>4. ContentInv' /\ LinkInv'
  BY <1>1 DEF LookupInv, MergeGroups, NullifyNext, ContentInv, LinkInv, array, bounds, search
<1> QED
  BY <1>2, <1>3, <1>4 DEF LookupInv

(* The invariant holds throughout a lookup. *)
LEMMA LookupInvariant == LookupSpec => []LookupInv
<1>1. LookupInv /\ UNCHANGED lookupVars => LookupInv'
  <2> SUFFICES ASSUME LookupInv, UNCHANGED lookupVars PROVE LookupInv'
    OBVIOUS
  <2>1. GroupIInv'
    BY DEF LookupInv, lookupVars, GroupIInv, GroupTypeOK, GroupRangeInv, SlotInv, Edges, Increasing,
           ClampLow, groupVars, search
  <2>2. IInv'
    BY DEF LookupInv, lookupVars, IInv, TypeOK, RangeInv, Between, Increasing, array, bounds,
           groupVars, search
  <2>3. ContentInv' /\ LinkInv'
    BY DEF LookupInv, lookupVars, ContentInv, LinkInv, array, bounds, groupVars, search
  <2> QED
    BY <2>1, <2>2, <2>3 DEF LookupInv
<1>2. LookupInv /\ [LookupNext]_lookupVars => LookupInv'
  BY <1>1, LocateStep, SearchArrayStep, MergeGroupsStep DEF LookupNext
<1> QED
  BY <1>2, LookupInitInv, PTL DEF LookupSpec

(* get_from_array finds the key exactly if some array of the index has it. *)
THEOREM LookupFindsKey == LookupSpec => []FindsKey
<1>1. LookupInv => FindsKey
  <2> SUFFICES ASSUME LookupInv, pc = "done"
               PROVE  key \in content <=> end_i < array_size /\ data[end_i] = key
    BY DEF FindsKey
  <2>1. key \in content <=> key \in Elements(data)
    BY DEF LookupInv, LinkInv
  <2>2. /\ DOMAIN data = 0 .. array_size - 1 /\ array_size \in Nat
        /\ \A i \in 0 .. array_size - 1 : data[i] \in Int
        /\ end_i \in Int /\ 0 <= end_i /\ Between(end_i, end_i) /\ key \in Int
        /\ Increasing(array_size, data)
    BY DEF LookupInv, IInv, TypeOK, RangeInv
  <2>3. ASSUME key \in Elements(data) PROVE end_i < array_size /\ data[end_i] = key
    <3>1. PICK i \in 0 .. array_size - 1 : data[i] = key
      BY <2>2, <2>3 DEF Elements
    <3>2. end_i <= i
      BY <2>2, <3>1 DEF Between
    <3>3. end_i \in 0 .. array_size - 1 /\ data[end_i] >= key
      BY <2>2, <3>1, <3>2 DEF Between
    <3>4. end_i < i => data[end_i] < data[i]
      BY <2>2, <3>1, <3>3 DEF Increasing
    <3> QED
      BY <2>2, <3>1, <3>2, <3>3, <3>4
  <2>4. ASSUME end_i < array_size, data[end_i] = key PROVE key \in Elements(data)
    BY <2>2, <2>4 DEF Elements
  <2> QED
    BY <2>1, <2>3, <2>4
<1> QED
  BY <1>1, LookupInvariant, PTL
==================================================================================
