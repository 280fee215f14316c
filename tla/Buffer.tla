--------------------------------- MODULE Buffer ---------------------------------
(***************************************************************************)
(* AltBtreeBuffer, the B+-tree that takes the inserts of an XIndex group:  *)
(* get, update, insert, remove and the scan of DataSource, by threads that *)
(* share it.  Writers hold the latch of a leaf and, while a split moves    *)
(* up, those of its ancestors; readers hold nothing and validate what they *)
(* read with the latch bit and the version of the node.  A step is one     *)
(* access to shared memory, or a change of a node under its latch: what a  *)
(* reader sees in the middle of such a change is arbitrary (Torn).         *)
(***************************************************************************)
EXTENDS Naturals, Sequences, FiniteSets, FiniteSetsExt, SequencesExt

CONSTANTS Threads,
          NodeCapacity,  \* node_capacity
          Scenarios,     \* records of load: the keys inserted before, ascending;
                         \* ops: the pairs <<operation, key>> the threads call
          MaxOps         \* bound: operations of all threads together

ASSUME BufferAssumption ==
  /\ NodeCapacity \in Nat \ {0, 1} /\ MaxOps \in Nat
  /\ \A sc \in Scenarios :
       /\ IsSorted(sc.load, <) /\ Len(sc.load) <= NodeCapacity * (NodeCapacity + 1)
       /\ sc.ops \subseteq {"get", "put", "update", "remove", "scan"} \X Nat

VARIABLES scenario,  \* the one of this behaviour
          node,      \* the nodes, in the order of their allocation
          root,      \* AltBtreeBuffer::root
          size_est,
          th,        \* local state of the threads
          begun,     \* operations begun
          view,      \* history: the logical content
          seen,      \* history: values the key of an operation has had
          hist       \* history: what a scan may and must return

vars == <<scenario, node, root, size_est, th, begun, view, seen, hist>>

Null == 0
Absent == "absent"
Removed == "removed"
Keys == UNION {ToSet(sc.load) \cup {o[2] : o \in sc.ops} : sc \in Scenarios}

-------------------------------------------------------------------------------
(* Nodes.  keys, and beside them the records of a leaf (slots[i] belongs   *)
(* to keys[i]) or the children of an internal node (one more than keys).   *)
Leaf(keys, slots, next) ==
  [is_leaf |-> TRUE, locked |-> FALSE, version |-> 0, keys |-> keys, slots |-> slots,
   parent |-> Null, next |-> next]
Internal(keys, slots) == [Leaf(keys, slots, Null) EXCEPT !.is_leaf = FALSE]

is_full(n) == Len(node[n].keys) = NodeCapacity
find_first_larger_than_or_equal_to(n, k) ==
  Cardinality({i \in DOMAIN node[n].keys : node[n].keys[i] < k}) + 1
find_first_larger_than(n, k) ==
  Cardinality({i \in DOMAIN node[n].keys : node[n].keys[i] <= k}) + 1
find_child(n, k) == node[n].slots[find_first_larger_than(n, k)]
Has(n, k) == \E i \in DOMAIN node[n].keys : node[n].keys[i] = k
RecordOf(n, k) == IF Has(n, k) THEN node[n].slots[find_first_larger_than_or_equal_to(n, k)]
                  ELSE Removed

(* The logical content: every key is in one leaf. *)
Content ==
  LET recs == UNION {{<<node[n].keys[i], node[n].slots[i]>> : i \in DOMAIN node[n].keys} :
                       n \in {m \in DOMAIN node : node[m].is_leaf}}
  IN [k \in Keys |-> IF \E r \in recs : r[1] = k /\ r[2] # Removed
                       THEN (CHOOSE r \in recs : r[1] = k /\ r[2] # Removed)[2] ELSE Absent]

Idle == [pc |-> "idle", op |-> "none", key |-> Null, done |-> FALSE, res |-> Absent,
         node |-> Null, ver |-> 0, nxt |-> Null, nver |-> 0,
         sib |-> Null, split_key |-> Null, bumps |-> <<>>, latches |-> <<>>, ret |-> "",
         i |-> 0, copy |-> <<>>, result |-> <<>>, later |-> FALSE]

(* The tree that inserts in ascending order leave: full leaves, the last   *)
(* one perhaps not, under one internal node if there are several.          *)
Loaded(load) ==
  LET n == Max({1, (Len(load) + NodeCapacity - 1) \div NodeCapacity})
      Part(i) == SubSeq(load, (i - 1) * NodeCapacity + 1, Min({i * NodeCapacity, Len(load)}))
      leaves == [i \in 1 .. n |->
                   [Leaf(Part(i), [j \in DOMAIN Part(i) |-> "loaded"],
                         IF i < n THEN i + 1 ELSE Null)
                     EXCEPT !.parent = IF n > 1 THEN n + 1 ELSE Null]]
  IN IF n = 1 THEN leaves
     ELSE Append(leaves, Internal([i \in 1 .. n - 1 |-> Part(i + 1)[1]], [i \in 1 .. n |-> i]))

Init ==
  /\ scenario \in Scenarios
  /\ node = Loaded(scenario.load)
  /\ root = Len(node)
  /\ size_est = Len(scenario.load)
  /\ th = [t \in Threads |-> Idle]
  /\ begun = 0
  /\ view = Content
  /\ seen = [t \in Threads |-> {}]
  /\ hist = [t \in Threads |-> [ever |-> {}, always |-> {}]]

Present(m) == {k \in DOMAIN m : m[k] # Absent}
Observe ==
  /\ view' = IF node' = node THEN view ELSE Content'
  /\ seen' = [t \in Threads |->
                IF th'[t].op \in {"get", "put", "remove", "update"} /\ ~th'[t].done
                  THEN seen[t] \cup {view'[th'[t].key]} ELSE {}]
  /\ hist' = [t \in Threads |->
                LET now == {<<k, view'[k]>> : k \in Present(view')}
                IN IF th'[t].op # "scan" THEN [ever |-> {}, always |-> {}]
                   ELSE IF th[t].op # "scan" THEN [ever |-> now, always |-> Present(view')]
                   ELSE [ever |-> hist[t].ever \cup now,
                         always |-> hist[t].always \cap Present(view')]]
-------------------------------------------------------------------------------
(* A thread is changing node n: it holds the latch and has not finished.   *)
Torn(n) ==
  \E t \in Threads :
    \/ /\ th[t].pc = "latched" /\ th[t].op = "put" /\ th[t].node = n
       /\ RecordOf(n, th[t].key) = Removed
    \/ th[t].pc = "parent_latched" /\ th[t].nxt = n

At(t, pc) == th[t].pc = pc
Goto(t, pc) == th' = [th EXCEPT ![t].pc = pc]
ReadOnly == UNCHANGED <<node, root, size_est, begun>>

Begin(t) ==
  /\ At(t, "idle")
  /\ begun < MaxOps
  /\ begun' = begun + 1
  /\ \E o \in scenario.ops :
       th' = [th EXCEPT ![t].pc = "root", ![t].op = o[1], ![t].key = o[2]]
  /\ UNCHANGED <<node, root, size_est>>

(* locate_leaf: start at the root, "make sure we start with correct root". *)
Restart(t) == th' = [th EXCEPT ![t] = [Idle EXCEPT !.pc = "root", !.op = th[t].op,
                                                   !.key = th[t].key]]
(* Where a descent or a walk goes on: at the leaf, or at the next level. *)
Arrive(t, n) == IF ~node[n].is_leaf THEN "child"
                ELSE IF th[t].op \in {"get", "scan"} THEN "read" ELSE "lock"

ReadRoot(t) ==
  /\ At(t, "root")
  /\ th' = [th EXCEPT ![t].pc = "root_version", ![t].node = root]
  /\ ReadOnly
RootVersion(t) ==
  /\ At(t, "root_version")
  /\ th' = [th EXCEPT ![t].pc = "root_parent", ![t].ver = node[th[t].node].version]
  /\ ReadOnly
RootParent(t) ==
  /\ At(t, "root_parent")
  /\ IF node[th[t].node].parent # Null THEN Restart(t) ELSE Goto(t, Arrive(t, th[t].node))
  /\ ReadOnly

FindChild(t) ==
  /\ At(t, "child")
  /\ \E c \in ToSet(node[th[t].node].slots) :
       /\ Torn(th[t].node) \/ c = find_child(th[t].node, th[t].key)
       /\ th' = [th EXCEPT ![t].pc = "child_version", ![t].nxt = c]
  /\ ReadOnly
ChildVersion(t) ==
  /\ At(t, "child_version")
  /\ th' = [th EXCEPT ![t].pc = "parent_locked", ![t].nver = node[th[t].nxt].version]
  /\ ReadOnly
ParentLocked(t) ==
  /\ At(t, "parent_locked")
  /\ IF node[th[t].node].locked THEN Restart(t) ELSE Goto(t, "parent_version")
  /\ ReadOnly
ParentVersion(t) ==
  /\ At(t, "parent_version")
  /\ IF node[th[t].node].version # th[t].ver THEN Restart(t)
     ELSE th' = [th EXCEPT ![t].pc = Arrive(t, th[t].nxt), ![t].node = th[t].nxt,
                           ![t].ver = th[t].nver, ![t].nxt = Null, ![t].nver = 0]
  /\ ReadOnly

(* The leaf has changed, possibly split, so need to check its next: the    *)
(* version first.  A scan past its first leaf only reads the leaf again.   *)
Walk(t) ==
  /\ At(t, "walk")
  /\ th' = [th EXCEPT ![t].pc = IF th[t].later THEN "read" ELSE "next",
                      ![t].ver = node[th[t].node].version]
  /\ ReadOnly
WalkNext(t) ==
  /\ At(t, "next")
  /\ LET next_ptr == node[th[t].node].next
     IN IF next_ptr # Null /\ node[next_ptr].keys[1] <= th[t].key
          THEN th' = [th EXCEPT ![t].pc = "walk", ![t].node = next_ptr]
          ELSE Goto(t, Arrive(t, th[t].node))
  /\ ReadOnly

(* get: the record, if any, then the validation. *)
ReadRecord(t) ==
  /\ At(t, "read") /\ th[t].op = "get"
  /\ LET n == th[t].node
     IN \E r \in {Removed, RecordOf(n, th[t].key)} \cup ToSet(node[n].slots) :
          /\ Torn(n) \/ r = RecordOf(n, th[t].key)
          /\ th' = [th EXCEPT ![t].pc = "locked",
                              ![t].res = IF r = Removed THEN Absent ELSE r]
  /\ ReadOnly

(* DataSource: copy the records that are not removed, from the first key   *)
(* on in the first leaf, then next, then the validation.                   *)
CopyLeaf(t) ==
  /\ At(t, "read") /\ th[t].op = "scan"
  /\ th' = [th EXCEPT ![t].pc = "copy", ![t].copy = <<>>,
                      ![t].i = IF th[t].later THEN 1
                               ELSE find_first_larger_than_or_equal_to(th[t].node, th[t].key)]
  /\ ReadOnly
CopyRecord(t) ==
  /\ At(t, "copy")
  /\ LET n == node[th[t].node]
         i == th[t].i
     IN IF i <= Len(n.keys)
          THEN th' = [th EXCEPT ![t].i = i + 1,
                        ![t].copy = IF n.slots[i] = Removed THEN @
                                    ELSE Append(@, <<n.keys[i], n.slots[i]>>)]
          ELSE th' = [th EXCEPT ![t].pc = "locked", ![t].i = 0, ![t].nxt = n.next]
  /\ ReadOnly

(* Fault: the latch bit is not looked at. *)
LeafLocked_Ignored(t) ==
  /\ At(t, "locked")
  /\ Goto(t, "version")
  /\ ReadOnly

LeafLocked(t) ==
  /\ At(t, "locked")
  /\ Goto(t, IF node[th[t].node].locked THEN "walk" ELSE "version")
  /\ ReadOnly

Answer(t) == th' = [th EXCEPT ![t].pc = "done", ![t].done = TRUE]
(* The copy is good: hand it out, and go on with the leaf after it. *)
NextLeaf(t) ==
  th' = [th EXCEPT ![t].result = @ \o th[t].copy, ![t].copy = <<>>, ![t].nxt = Null,
                   ![t].later = TRUE, ![t].node = th[t].nxt, ![t].ver = 0,
                   ![t].done = (th[t].nxt = Null),
                   ![t].pc = IF th[t].nxt = Null THEN "done" ELSE "walk"]

(* Fault: the version is not compared. *)
LeafVersion_Ignored(t) ==
  /\ At(t, "version")
  /\ IF th[t].op = "get" THEN Answer(t) ELSE NextLeaf(t)
  /\ ReadOnly

LeafVersion(t) ==
  /\ At(t, "version")
  /\ IF node[th[t].node].version # th[t].ver THEN Goto(t, "walk")
     ELSE IF th[t].op = "get" THEN Answer(t) ELSE NextLeaf(t)
  /\ ReadOnly
-------------------------------------------------------------------------------
(* locate_leaf_locked: the latch of the leaf, unless its version changed. *)
Lock(t) ==
  /\ At(t, "lock")
  /\ ~node[th[t].node].locked
  /\ node' = [node EXCEPT ![th[t].node].locked = TRUE]
  /\ IF node[th[t].node].version = th[t].ver THEN Goto(t, "latched")
     ELSE th' = [th EXCEPT ![t].pc = "unlock", ![t].latches = <<th[t].node>>, ![t].ret = "walk"]
  /\ UNCHANGED <<root, size_est, begun>>

(* The latches in ls are released, after the versions of the nodes in bs   *)
(* have been incremented; then the thread goes on at ret.                  *)
Finish(t, r, bs, ls, ret) ==
  th' = [th EXCEPT ![t] = [r EXCEPT !.bumps = bs, !.latches = ls, !.ret = ret,
                                    !.pc = IF bs = <<>> THEN "unlock" ELSE "bump"]]
Effect(t, res) == [th[t] EXCEPT !.done = TRUE, !.res = res]

Write(n, k, rec) ==
  node' = [node EXCEPT ![n].slots[find_first_larger_than_or_equal_to(n, k)] = rec]

(* update_ignoring_ptr, remove_ignoring_ptr: no version changed. *)
UpdateOrRemove(t) ==
  /\ At(t, "latched") /\ th[t].op \in {"update", "remove"}
  /\ LET n == th[t].node
         live == RecordOf(n, th[t].key) # Removed
     IN /\ IF live THEN Write(n, th[t].key, IF th[t].op = "update" THEN t ELSE Removed)
           ELSE UNCHANGED node
        /\ Finish(t, Effect(t, IF live THEN "ok" ELSE Absent), <<>>, <<n>>, "done")
  /\ UNCHANGED <<root, size_est, begun>>

(* Fault: overwriting a removed record counts as an insert. *)
InsertInPlace_Counts(t) ==
  /\ At(t, "latched") /\ th[t].op = "put"
  /\ LET n == th[t].node
     IN /\ Has(n, th[t].key)
        /\ Write(n, th[t].key, t)
        /\ Finish(t, Effect(t, "ok"), <<n>>, <<n>>, "count")
  /\ UNCHANGED <<root, size_est, begun>>

(* insert_leaf: update in place, or overwrite a removed record. *)
InsertInPlace(t) ==
  /\ At(t, "latched") /\ th[t].op = "put"
  /\ LET n == th[t].node
     IN /\ Has(n, th[t].key)
        /\ Write(n, th[t].key, t)
        /\ Finish(t, Effect(t, "ok"),
                  IF RecordOf(n, th[t].key) = Removed THEN <<n>> ELSE <<>>, <<n>>, "done")
  /\ UNCHANGED <<root, size_est, begun>>

InsertWithRoom(t) ==
  /\ At(t, "latched") /\ th[t].op = "put"
  /\ LET n == th[t].node
         slot == find_first_larger_than_or_equal_to(n, th[t].key)
     IN /\ ~Has(n, th[t].key) /\ ~is_full(n)
        /\ node' = [node EXCEPT ![n].keys = InsertAt(@, slot, th[t].key),
                                ![n].slots = InsertAt(@, slot, t)]
        /\ Finish(t, Effect(t, "ok"), <<n>>, <<n>>, "count")
  /\ UNCHANGED <<root, size_est, begun>>

(* split_n_insert_leaf: how many keys stay, the new one counted, when it   *)
(* goes to position slot (from 0) of a full leaf.                          *)
LeafStay(slot) ==
  LET half == NodeCapacity \div 2
      mid == IF slot = NodeCapacity THEN NodeCapacity
             ELSE IF slot >= half /\ half < NodeCapacity - half THEN half + 1 ELSE half
  IN IF slot >= mid THEN mid ELSE mid + 1

SplitLeaf(t) ==
  /\ At(t, "latched") /\ th[t].op = "put"
  /\ LET n == th[t].node
         s == Len(node) + 1
         slot == find_first_larger_than_or_equal_to(n, th[t].key)
         keys == InsertAt(node[n].keys, slot, th[t].key)
         slots == InsertAt(node[n].slots, slot, t)
         stay == LeafStay(slot - 1)
         rest == stay + 1
     IN /\ ~Has(n, th[t].key) /\ is_full(n)
        /\ node' = Append([node EXCEPT ![n].keys = SubSeq(keys, 1, stay),
                                       ![n].slots = SubSeq(slots, 1, stay)],
                          [Leaf(SubSeq(keys, rest, Len(keys)), SubSeq(slots, rest, Len(keys)),
                                node[n].next) EXCEPT !.locked = TRUE])
        /\ th' = [th EXCEPT ![t] = [Effect(t, "ok") EXCEPT !.pc = "link", !.sib = s,
                                                           !.split_key = keys[rest]]]
  /\ UNCHANGED <<root, size_est, begun>>

LinkSibling(t) ==
  /\ At(t, "link")
  /\ node' = [node EXCEPT ![th[t].node].next = th[t].sib]
  /\ Goto(t, "parent")
  /\ UNCHANGED <<root, size_est, begun>>

(* Lock the right parent, again "when parent is split by others". *)
ReadParent(t) ==
  /\ At(t, "parent")
  /\ LET p == node[th[t].node].parent
     IN th' = [th EXCEPT ![t].pc = IF p = Null THEN "new_root" ELSE "lock_parent",
                         ![t].nxt = p]
  /\ ReadOnly
(* Fault: the parent is not looked up again once it is locked. *)
LockParent_NoRecheck(t) ==
  /\ At(t, "lock_parent")
  /\ ~node[th[t].nxt].locked
  /\ node' = [node EXCEPT ![th[t].nxt].locked = TRUE]
  /\ Goto(t, "parent_latched")
  /\ UNCHANGED <<root, size_est, begun>>

LockParent(t) ==
  /\ At(t, "lock_parent")
  /\ LET p == th[t].nxt
     IN /\ ~node[p].locked
        /\ node' = [node EXCEPT ![p].locked = TRUE]
        /\ IF node[th[t].node].parent = p THEN Goto(t, "parent_latched")
           ELSE Finish(t, th[t], <<>>, <<p>>, "parent")
  /\ UNCHANGED <<root, size_est, begun>>

(* The node that was split is the root: a new root over it and its sibling. *)
NewRoot(t) ==
  /\ At(t, "new_root")
  /\ LET n == th[t].node
         p == Len(node) + 1
     IN /\ node' = Append([node EXCEPT ![n].parent = p, ![th[t].sib].parent = p],
                          [Internal(<<th[t].split_key>>, <<n, th[t].sib>>)
                             EXCEPT !.locked = TRUE])
        /\ th' = [th EXCEPT ![t].pc = "set_root", ![t].nxt = p]
  /\ UNCHANGED <<root, size_est, begun>>
(* Fault: root keeps pointing to the node that was split. *)
SetRoot_Forgotten(t) ==
  /\ At(t, "set_root")
  /\ LET all == <<th[t].nxt, th[t].node, th[t].sib>> IN Finish(t, th[t], all, all, "count")
  /\ UNCHANGED <<node, root, size_est, begun>>

SetRoot(t) ==
  /\ At(t, "set_root")
  /\ root' = th[t].nxt
  /\ LET all == <<th[t].nxt, th[t].node, th[t].sib>> IN Finish(t, th[t], all, all, "count")
  /\ UNCHANGED <<node, size_est, begun>>

(* Keys and children of p with the new sibling among them. *)
KeysWith(t, p) == InsertAt(node[p].keys, find_first_larger_than(p, th[t].split_key),
                           th[t].split_key)
ChildrenWith(t, p) == InsertAt(node[p].slots, find_first_larger_than(p, th[t].split_key) + 1,
                               th[t].sib)

InsertIntoParent(t) ==
  /\ At(t, "parent_latched")
  /\ LET p == th[t].nxt
         all == <<p, th[t].node, th[t].sib>>
     IN /\ ~is_full(p)
        /\ node' = [node EXCEPT ![p].keys = KeysWith(t, p), ![p].slots = ChildrenWith(t, p),
                                ![th[t].sib].parent = p]
        /\ Finish(t, th[t], all, all, "count")
  /\ UNCHANGED <<root, size_est, begun>>

(* How many keys of a full internal node stay. *)
InternalStay(slot) ==
  LET half == NodeCapacity \div 2
      mid == IF slot = NodeCapacity THEN NodeCapacity - 1
             ELSE IF slot < half /\ half > NodeCapacity - (half + 1) THEN half - 1 ELSE half
  IN IF slot >= mid THEN mid ELSE mid + 1

(* Recursive split, knock the parent as the new node to split. *)
SplitParent(t) ==
  /\ At(t, "parent_latched")
  /\ LET p == th[t].nxt
         s == Len(node) + 1
         keys == KeysWith(t, p)
         children == ChildrenWith(t, p)
         stay == InternalStay(find_first_larger_than(p, th[t].split_key) - 1)
         left == SubSeq(children, 1, stay + 1)
         right == SubSeq(children, stay + 2, Len(children))
         old == <<th[t].node, th[t].sib>>
         moved == [n \in DOMAIN node |->
                     IF n \in ToSet(right) THEN [node[n] EXCEPT !.parent = s]
                     ELSE IF n \in ToSet(left) THEN [node[n] EXCEPT !.parent = p]
                     ELSE node[n]]
     IN /\ is_full(p)
        /\ node' = Append([moved EXCEPT ![p].keys = SubSeq(keys, 1, stay), ![p].slots = left],
                          [Internal(SubSeq(keys, stay + 2, Len(keys)), right)
                             EXCEPT !.locked = TRUE])
        /\ Finish(t, [th[t] EXCEPT !.node = p, !.sib = s, !.split_key = keys[stay + 1],
                                   !.nxt = Null], old, old, "parent")
  /\ UNCHANGED <<root, size_est, begun>>

BumpVersion(t) ==
  /\ At(t, "bump")
  /\ node' = [node EXCEPT ![Head(th[t].bumps)].version = @ + 1]
  /\ th' = [th EXCEPT ![t].bumps = Tail(@),
                      ![t].pc = IF Len(th[t].bumps) = 1 THEN "unlock" ELSE "bump"]
  /\ UNCHANGED <<root, size_est, begun>>

Unlock(t) ==
  /\ At(t, "unlock")
  /\ node' = [node EXCEPT ![Head(th[t].latches)].locked = FALSE]
  /\ th' = [th EXCEPT ![t].latches = Tail(@),
                      ![t].pc = IF Len(th[t].latches) = 1 THEN th[t].ret ELSE "unlock",
                      ![t].ret = IF Len(th[t].latches) = 1 THEN "" ELSE @]
  /\ UNCHANGED <<root, size_est, begun>>

Count(t) ==
  /\ At(t, "count")
  /\ size_est' = size_est + 1
  /\ Goto(t, "done")
  /\ UNCHANGED <<node, root, begun>>

Return(t) ==
  /\ At(t, "done")
  /\ th' = [th EXCEPT ![t] = Idle]
  /\ ReadOnly

Locate(t) ==
  \/ ReadRoot(t) \/ RootVersion(t) \/ RootParent(t)
  \/ FindChild(t) \/ ChildVersion(t) \/ ParentLocked(t) \/ ParentVersion(t)
  \/ Walk(t) \/ WalkNext(t)
Reading(t) ==
  ReadRecord(t) \/ CopyLeaf(t) \/ CopyRecord(t) \/ LeafLocked(t) \/ LeafVersion(t)
Writing(t) ==
  \/ Lock(t) \/ UpdateOrRemove(t) \/ InsertInPlace(t) \/ InsertWithRoom(t)
  \/ SplitLeaf(t) \/ LinkSibling(t) \/ ReadParent(t) \/ LockParent(t)
  \/ NewRoot(t) \/ SetRoot(t) \/ InsertIntoParent(t) \/ SplitParent(t)
  \/ BumpVersion(t) \/ Unlock(t) \/ Count(t)

Step(t) == (Locate(t) \/ Reading(t) \/ Writing(t) \/ Return(t)) /\ Observe /\ UNCHANGED scenario
Call(t) == Begin(t) /\ Observe /\ UNCHANGED scenario

AllDone == begun = MaxOps /\ \A t \in Threads : At(t, "idle")

Next == (\E t \in Threads : Call(t) \/ Step(t)) \/ (AllDone /\ UNCHANGED vars)

Spec == Init /\ [][Next]_vars
(* Threads are scheduled until their operation has returned. *)
FairSpec == Spec /\ \A t \in Threads : WF_vars(Step(t))
-------------------------------------------------------------------------------
(* Every variable has its type. *)
TypeOK ==
  /\ root \in DOMAIN node /\ size_est \in Nat /\ begun \in 0 .. MaxOps
  /\ \A n \in DOMAIN node :
       /\ node[n].locked \in BOOLEAN /\ node[n].version \in Nat
       /\ node[n].parent \in {Null} \cup DOMAIN node /\ node[n].next \in {Null} \cup DOMAIN node
       /\ Len(node[n].keys) <= NodeCapacity
       /\ Len(node[n].slots) = Len(node[n].keys) + (IF node[n].is_leaf THEN 0 ELSE 1)
  /\ \A t \in Threads : th[t].node \in {Null} \cup DOMAIN node

(* Keys of the subtree of n are at least lo, and below hi unless that is Null. *)
Within(n, lo, hi) == \A i \in DOMAIN node[n].keys :
                       lo <= node[n].keys[i] /\ (hi = Null \/ node[n].keys[i] < hi)

(* The assertions of split_n_insert_leaf, at any moment and not only at    *)
(* the end of one split: keys are in order, a latch-free internal node     *)
(* separates its children and is their parent, and the leaves that are     *)
(* linked from the first one on are in order.                              *)
TreeInOrder ==
  /\ \A n \in DOMAIN node : IsSorted(node[n].keys, <)
  /\ \A p \in DOMAIN node :
       ~node[p].is_leaf /\ ~node[p].locked =>
         LET ks == node[p].keys
         IN \A i \in DOMAIN node[p].slots :
              /\ node[node[p].slots[i]].parent = p
              /\ Within(node[p].slots[i], IF i = 1 THEN 0 ELSE ks[i - 1],
                        IF i > Len(ks) THEN Null ELSE ks[i])
  /\ \A n \in DOMAIN node :
       node[n].is_leaf /\ node[n].next # Null /\ node[n].keys # <<>>
         => Last(node[n].keys) < Head(node[node[n].next].keys)

(* Where a descent without interference ends. *)
LeafFor(k) ==
  LET down[n \in DOMAIN node] == IF node[n].is_leaf THEN n ELSE down[find_child(n, k)]
  IN down[root]

(* Between operations every key is found from the root, and the leaves     *)
(* linked from the first one hold all of them: this is what RefSource, the *)
(* background thread's pass over a frozen buffer, relies on ("no workers   *)
(* should insert into buffer (frozen) now, so no lock needed").            *)
Chain ==
  LET from[n \in {Null} \cup DOMAIN node] ==
        IF n = Null THEN <<>>
        ELSE SelectSeq([i \in DOMAIN node[n].keys |-> <<node[n].keys[i], node[n].slots[i]>>],
                       LAMBDA r : r[2] # Removed) \o from[node[n].next]
  IN from[1]
QuietIsComplete ==
  (\A n \in DOMAIN node : ~node[n].locked) =>
    /\ \A k \in Keys : view[k] # Absent => RecordOf(LeafFor(k), k) = view[k]
    /\ ToSet(Chain) = {<<k, view[k]>> : k \in Present(view)}

(* size() is what merge_refs allocates the new array by: it counts the     *)
(* records of the buffer but those whose insert has yet to return.         *)
Records == UNION {{<<n, i>> : i \in DOMAIN node[n].keys} :
                    n \in {m \in DOMAIN node : node[m].is_leaf}}
SizeCounts ==
  /\ size_est <= Cardinality(Records)
  /\ (\A t \in Threads : At(t, "idle")) => size_est = Cardinality(Records)

(* A scan hands out increasing keys, each with a value it had during the   *)
(* scan, and every key from its begin on that was there all the time,      *)
(* whatever splits its leaves went through ("we don't care the splits").   *)
ScanExact ==
  \A t \in Threads :
    th[t].op = "scan" =>
      LET res == th[t].result
          found == {res[i][1] : i \in DOMAIN res}
      IN /\ \A i \in 2 .. Len(res) : res[i - 1][1] < res[i][1]
         /\ ToSet(res) \subseteq hist[t].ever
         /\ At(t, "done") => {k \in hist[t].always : k >= th[t].key} \subseteq found

Map == INSTANCE ConcurrentMap WITH
         Workers <- Threads, map <- view,
         pend <- [t \in Threads |->
                    IF th[t].op \in {"none", "scan"} THEN [op |-> "none"]
                    ELSE [op |-> th[t].op, key |-> th[t].key, done |-> th[t].done,
                          res |-> IF th[t].done THEN th[t].res ELSE Absent]]

(* The buffer is linearizable: get, insert, update and remove behave as    *)
(* one atomic step each while leaves and their ancestors split.            *)
ImplementsMap == Map!MSpec

(* No operation spins for ever: latches are handed on, splits that need    *)
(* the same ancestors do not wait for each other in a circle, and readers  *)
(* get through when the writers are done.                                  *)
OperationsReturn == \A t \in Threads : (th[t].op # "none") ~> (th[t].op = "none")
================================================================================
