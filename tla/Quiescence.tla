------------------------------ MODULE Quiescence ------------------------------
(***************************************************************************)
(* What rcu_barrier promises the background threads of XIndex, without the *)
(* counters it is made of: a call returns only after every worker slot has *)
(* made progress since the call, unless the index has been told to exit.   *)
(* Rcu.tla models the counters and implements this module; XIndex.tla      *)
(* is written on top of this module.                                       *)
(***************************************************************************)
CONSTANTS Slots,    \* indices of config.rcu_status, one per worker
          Callers   \* threads that may be inside rcu_barrier

VARIABLES calling,  \* calling[c]: thread c is inside rcu_barrier
          need,     \* need[c]: the slots whose progress c still waits for
          exited    \* config.exited

qvars == <<calling, need, exited>>

QInit ==
  /\ calling = [c \in Callers |-> FALSE]
  /\ need = [c \in Callers |-> {}]
  /\ exited = FALSE

(* A thread enters rcu_barrier: it will wait for every slot. *)
Call(c) ==
  /\ ~calling[c]
  /\ calling' = [calling EXCEPT ![c] = TRUE]
  /\ need' = [need EXCEPT ![c] = Slots]
  /\ exited' = exited

(* The worker of slot s begins an operation.  A caller that has not looked *)
(* at the slot yet does not notice, so the callers that do are any set S.  *)
ProgressSeen(s, S) ==
  /\ need' = [c \in Callers |-> IF c \in S THEN need[c] \ {s} ELSE need[c]]
  /\ UNCHANGED calling
  /\ exited' = exited

Progress(s) == \E S \in SUBSET Callers : ProgressSeen(s, S)

Return(c) ==
  /\ calling[c]
  /\ need[c] = {} \/ exited
  /\ calling' = [calling EXCEPT ![c] = FALSE]
  /\ need' = [need EXCEPT ![c] = {}]
  /\ exited' = exited

Exit ==
  /\ exited' = TRUE
  /\ UNCHANGED <<calling, need>>

QNext ==
  \/ \E c \in Callers : Call(c) \/ Return(c)
  \/ \E s \in Slots : Progress(s)
  \/ Exit

QSpec == QInit /\ [][QNext]_qvars
===============================================================================
