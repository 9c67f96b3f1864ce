---------------------------- MODULE SingleFlight ----------------------------
(***************************************************************************)
(* What a "single flight" memo table promises, whatever it memoises: the   *)
(* value of a key is computed by one claimant at a time, every claim is    *)
(* resolved, and a resolved key keeps its outcome until, if the table may  *)
(* evict, it is forgotten.                                                 *)
(*                                                                         *)
(* The selector keeps four such tables: the trained models and the CDF     *)
(* fits, which never forget, not even a failure; and the two evaluation    *)
(* caches, which evict, and after a failure let the next caller retry.     *)
(***************************************************************************)
CONSTANTS
  Key,           \* the keys of the table
  AfterFailure,  \* what a failed key becomes: "failed", or "missing" again
  Evictable      \* Boolean: may a ready key be forgotten?

VARIABLE slot    \* slot[k]: "missing", "in_flight", "ready" or "failed"

SlotInit == slot = [k \in Key |-> "missing"]

(* A caller that finds no entry inserts the future and becomes its builder. *)
Claim(k) ==
  /\ slot[k] = "missing"
  /\ slot' = [slot EXCEPT ![k] = "in_flight"]

(* The builder sets a value or an exception. *)
Resolve(k) ==
  /\ slot[k] = "in_flight"
  /\ \E r \in {"ready", AfterFailure} : slot' = [slot EXCEPT ![k] = r]

(* One critical section may evict several keys. *)
Forget(K) ==
  /\ Evictable
  /\ \A k \in K : slot[k] = "ready"
  /\ slot' = [k \in Key |-> IF k \in K THEN "missing" ELSE slot[k]]

SlotNext ==
  \/ \E k \in Key : Claim(k) \/ Resolve(k)
  \/ \E K \in SUBSET Key : Forget(K)

SlotSpec == SlotInit /\ [][SlotNext]_slot /\ \A k \in Key : WF_slot(Resolve(k))

=============================================================================
