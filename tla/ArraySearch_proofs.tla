---------------------------- MODULE ArraySearch_proofs ----------------------------
(***************************************************************************)
(* exponential_search_key is right for every sorted array, every key and   *)
(* every prediction of the model.                                          *)
(***************************************************************************)
EXTENDS ArraySearch, TLAPS

(* No key of the array from b on is smaller, none before a is not. *)
Between(a, b) ==
  /\ \A i \in 0 .. array_size - 1 : i < a => data[i] < key
  /\ \A i \in 0 .. array_size - 1 : i >= b => data[i] >= key

(* The inductive invariant: what is known of the ends of the range.        *)
RangeInv ==
  /\ pc = "start" => begin_i = 0 /\ end_i = 0
  /\ pc = "up" => begin_i \in 0 .. array_size - 1 /\ begin_i < end_i /\ data[begin_i] <= key
  /\ pc = "down" => end_i \in 0 .. array_size - 1 /\ begin_i < end_i /\ data[end_i] > key
  /\ pc = "bisect" => Between(begin_i, end_i)
  /\ pc = "done" => begin_i = end_i /\ Between(begin_i, end_i)

IInv == TypeOK /\ RangeInv

(* The state at the call. *)
LEMMA SearchInit == Init => IInv
  BY SearchAssumption DEF Init, IInv, TypeOK, RangeInv

(* mid is within the range that is left. *)
LEMMA MidWithin ==
  ASSUME NEW b \in Int, NEW e \in Int, b < e
  PROVE  /\ (b + e) \div 2 \in Int
         /\ b <= (b + e) \div 2 /\ (b + e) \div 2 < e
  OBVIOUS

(* Every step keeps the invariant. *)
LEMMA SearchStep == IInv /\ [Next]_vars => IInv'
<1> SUFFICES ASSUME IInv, [Next]_vars PROVE IInv'
  OBVIOUS
<1> USE DEF IInv, TypeOK, RangeInv, Between, Increasing, input
<1>1. CASE Empty
  BY <1>1 DEF Empty
<1>2. CASE Start
  BY <1>2 DEF Start, Clamp
<1>3. CASE GallopUp
  BY <1>3 DEF GallopUp, MoreUp
<1>4. CASE EndUp
  BY <1>4 DEF EndUp, MoreUp
<1>5. CASE GallopDown
  BY <1>5 DEF GallopDown, MoreDown
<1>6. CASE EndDown
  BY <1>6 DEF EndDown, MoreDown
<1>7. CASE Bisect
  <2>1. mid \in Int /\ begin_i <= mid /\ mid < end_i
    BY <1>7, MidWithin DEF Bisect, mid
  <2>2. mid \in 0 .. array_size - 1
    BY <1>7, <2>1 DEF Bisect
  <2>3. CASE data[mid] < key /\ begin_i' = mid + 1 /\ UNCHANGED end_i
    BY <1>7, <2>1, <2>2, <2>3 DEF Bisect
  <2>4. CASE data[mid] >= key /\ end_i' = mid /\ UNCHANGED begin_i
    BY <1>7, <2>1, <2>2, <2>4 DEF Bisect
  <2> QED
    BY <1>7, <2>3, <2>4 DEF Bisect
<1>8. CASE Return
  BY <1>8 DEF Return
<1>9. CASE UNCHANGED vars
  BY <1>9 DEF vars
<1> QED
  BY <1>1, <1>2, <1>3, <1>4, <1>5, <1>6, <1>7, <1>8, <1>9 DEF Next

(* The invariant holds throughout a call. *)
LEMMA SearchInv == Spec => []IInv
  BY SearchInit, SearchStep, PTL DEF Spec

(* The assertions of exponential_search_key on the range hold. *)
THEOREM ArraySearchTypeOK == Spec => []TypeOK
<1>1. IInv => TypeOK
  BY DEF IInv
<1> QED
  BY <1>1, SearchInv, PTL

(* No prediction makes exponential_search_key read outside the array. *)
THEOREM ArraySearchInBounds == Spec => []InBounds
<1>1. IInv => InBounds
  <2> SUFFICES ASSUME IInv PROVE InBounds
    OBVIOUS
  <2>1. pc = "up" /\ end_i < array_size => end_i \in DOMAIN data
    BY DEF IInv, TypeOK, RangeInv
  <2>2. pc = "down" /\ begin_i >= 0 => begin_i \in DOMAIN data
    BY DEF IInv, TypeOK, RangeInv
  <2>3. ASSUME pc = "bisect", end_i > begin_i PROVE mid \in DOMAIN data
    BY <2>3, MidWithin DEF IInv, TypeOK, mid
  <2> QED
    BY <2>1, <2>2, <2>3 DEF InBounds
<1> QED
  BY <1>1, SearchInv, PTL

(* exponential_search_key returns the position of the key, or the position *)
(* to insert it at, whatever the model predicted.                          *)
THEOREM ArraySearchLowerBound == Spec => []LowerBound
<1>1. IInv => LowerBound
  BY DEF IInv, TypeOK, RangeInv, Between, LowerBound
<1> QED
  BY <1>1, SearchInv, PTL
================================================================================
