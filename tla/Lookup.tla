--------------------------------- MODULE Lookup ---------------------------------
(***************************************************************************)
(* Root::get as far as the array of a group: locate_group_pt1 finds the    *)
(* slot, the pointer read there gives the group, and get_from_array        *)
(* searches its array for the same key, while merges of the background     *)
(* thread replace the groups of two neighbouring slots.                    *)
(***************************************************************************)
EXTENDS ArraySearch, GroupSearch

CONSTANT Contents     \* sets of the keys in the arrays of an index

ASSUME ContentAssumption == \A c \in Contents : c \subseteq Int

VARIABLE content

array == <<array_size, data, pos>>
bounds == <<begin_i, end_i, step, pc>>
lookupVars == <<content, groupVars, array, bounds>>

(* Root::init: every slot begins with its pivot, the first one with the    *)
(* smallest key.                                                           *)
LookupInit ==
  /\ GroupInit
  /\ content \in Contents
  /\ \A i \in 0 .. group_n - 1 : pivot[i] \in content
  /\ \A k \in content : pivot[0] <= k
  /\ array_size = 0 /\ data = [i \in {} |-> 0] /\ pos = 0
  /\ begin_i = 0 /\ end_i = 0 /\ step = 1 /\ pc = "start"

(* Slots whose keys the group in slot i may hold: its own; those of the    *)
(* next one as well when the two are merged, which they are if that slot   *)
(* is empty; or those of the slot before, when a merge with it has set     *)
(* both pointers to the new group and not yet emptied this one.            *)
Spans(i) ==
  {s \in {<<i, i>>, <<i, i + 1>>, <<i - 1, i>>} :
     0 <= s[1] /\ s[2] < group_n /\ (i + 1 < group_n /\ i + 1 \notin present => s[2] = i + 1)}

KeysOf(s) ==
  {k \in content : pivot[s[1]] <= k /\ (s[2] + 1 < group_n => k < pivot[s[2] + 1])}
Elements(d) == {d[i] : i \in DOMAIN d}

(* Fault: an empty slot does not mean that the group before it has its keys. *)
ReadGroup_Own(i) ==
  \E d \in Arrays, p \in Positions :
    /\ Elements(d) = KeysOf(<<i, i>>)
    /\ data' = d /\ array_size' = Size(d) /\ pos' = p

(* The array of the group that was read from slot i, and the position its  *)
(* model predicts.                                                         *)
ReadGroup(i) ==
  \E s \in Spans(i), d \in Arrays, p \in Positions :
    /\ Elements(d) = KeysOf(s)
    /\ data' = d /\ array_size' = Size(d) /\ pos' = p

Locate ==
  /\ GroupSearchStep
  /\ IF group_pc' = "done" THEN ReadGroup(group_i') ELSE UNCHANGED array
  /\ UNCHANGED <<content, bounds>>

SearchArray ==
  /\ group_pc = "done"
  /\ Next
  /\ UNCHANGED <<content, groupVars>>

MergeGroups ==
  /\ \E i \in 1 .. group_n - 1 : NullifyNext(i)
  /\ UNCHANGED <<content, array, bounds>>

LookupNext == Locate \/ SearchArray \/ MergeGroups

LookupSpec == LookupInit /\ [][LookupNext]_lookupVars

(* A call that is scheduled keeps running; the background thread need not. *)
LookupFair == LookupSpec /\ WF_lookupVars(Locate \/ SearchArray)
-------------------------------------------------------------------------------
(* get_from_array finds the key exactly if some array of the index has it, *)
(* whatever the two models predict and however merges interleave with the  *)
(* search over the slots.                                                  *)
FindsKey ==
  pc = "done" => (key \in content <=> end_i < array_size /\ data[end_i] = key)
=================================================================================
