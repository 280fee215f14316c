----------------------------- MODULE ConcurrentMap -----------------------------
(***************************************************************************)
(* What an index promises the threads that call it through indexInterface: *)
(* get, put and remove each take effect at one instant between the call    *)
(* and the return.  An operation that only looks (get, or a remove that    *)
(* finds nothing) must answer with a value the key really had at some      *)
(* instant since the call.  A write changes the map in one step; only a    *)
(* put may leave it alone, when another write of the key since the call    *)
(* has taken its place: the put then took effect right before that one.    *)
(***************************************************************************)
CONSTANTS Workers,   \* threads that call the index
          Keys,
          Absent     \* the value of a key that is not in the index

VARIABLES map,       \* map[k]: the value of k, or Absent
          pend,      \* pend[w]: the call w is in
          seen       \* seen[w]: values its key has had since the call

mvars == <<map, pend, seen>>

Idle == [op |-> "none"]
Ops == {"get", "put", "update", "remove"}
Call(op, k, done, res) == [op |-> op, key |-> k, done |-> done, res |-> res]

(* The values of the key of a call accumulate until the call takes effect. *)
Waiting(w) == pend[w].op \in Ops /\ ~pend[w].done
Observe ==
  seen' = [w \in Workers |->
             IF Waiting(w)' THEN seen[w] \cup {map'[pend'[w].key]} ELSE {}]

MInit ==
  /\ map \in [Keys -> {Absent} \cup {"loaded"}]
  /\ pend = [w \in Workers |-> Idle]
  /\ seen = [w \in Workers |-> {}]

Begin(w) ==
  /\ pend[w] = Idle
  /\ \E op \in Ops, k \in Keys :
       pend' = [pend EXCEPT ![w] = Call(op, k, FALSE, Absent)]
  /\ UNCHANGED map

(* The instant at which an operation takes effect, and its answer: a value *)
(* for get; "ok" or, when there is nothing to remove, Absent for a write.  *)
Apply(w) ==
  /\ pend[w].op \in Ops
  /\ ~pend[w].done
  /\ LET k == pend[w].key
         Answer(r) == pend' = [pend EXCEPT ![w] = Call(pend[w].op, k, TRUE, r)]
     IN \/ /\ pend[w].op = "put"
           /\ map' = [map EXCEPT ![k] = w]
           /\ Answer("ok")
        \/ /\ pend[w].op = "put"
           /\ seen[w] # {map[k]}
           /\ UNCHANGED map
           /\ Answer("ok")
        \/ /\ pend[w].op \in {"update", "remove"}
           /\ map[k] # Absent
           /\ map' = [map EXCEPT ![k] = IF pend[w].op = "update" THEN w ELSE Absent]
           /\ Answer("ok")
        \/ /\ pend[w].op \in {"update", "remove"}
           /\ Absent \in seen[w] \cup {map[k]}
           /\ UNCHANGED map
           /\ Answer(Absent)
        \/ /\ pend[w].op = "get"
           /\ UNCHANGED map
           /\ \E r \in seen[w] \cup {map[k]} : Answer(r)

Return(w) ==
  /\ pend[w].op \in Ops
  /\ pend[w].done
  /\ pend' = [pend EXCEPT ![w] = Idle]
  /\ UNCHANGED map

(* Every step moves a call. *)
MNext ==
  /\ pend' # pend
  /\ \E w \in Workers : Begin(w) \/ Apply(w) \/ Return(w)
  /\ Observe

MSpec == MInit /\ [][MNext]_mvars
================================================================================
