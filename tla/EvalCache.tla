------------------------------ MODULE EvalCache ------------------------------
(***************************************************************************)
(* The evaluation caches of the selector: sorted base ranks per model and, *)
(* nested in their construction, nearest centroids per centroid set.  Both *)
(* are single-flight tables under TrainCache::mutex with byte accounting   *)
(* in two tiers; the sampled tier has a budget, the calibration tier not.  *)
(*                                                                         *)
(* get_or_build_eval_base_rank_cache and get_or_build_eval_nearest_cache   *)
(* are the same code over two tables, and are one set of actions here.     *)
(* Which evictable entry goes first (fewest hits, oldest, largest) is left *)
(* open: no property depends on it.                                        *)
(***************************************************************************)
EXTENDS Naturals, FiniteSets, FiniteSetsExt

CONSTANTS
  Worker,      \* candidate evaluation threads
  NearestKey,  \* eval_nearest_cache_key values
  RankKey,     \* eval_base_rank_cache_key values
  NearestOf,   \* the nearest key of a rank key's model
  Bytes,       \* memory_bytes of the built value
  Budget,      \* sampled budget of each table
  NoEntry

Entry == NearestKey \cup RankKey
Table == {"nearest", "rank"}
Tier  == {"sampled", "calibration"}

ASSUME ConstantsAssumption ==
  /\ IsFiniteSet(Entry)
  /\ NearestKey \cap RankKey = {}
  /\ NearestOf \in [RankKey -> NearestKey]
  /\ Bytes \in [Entry -> Nat \ {0}]
  /\ Budget \in [Table -> Nat]
  /\ NoEntry \notin Entry
  /\ Worker \cap {"none", "value", "error"} = {}

VARIABLES
  phase,   \* tier of the running evaluate_candidates call
  slot,    \* by_key and meta.ready: missing, in_flight or ready
  tier,    \* meta.calibration_tier
  behind,  \* what the entry's future waits for: its builder's promise, or "value"
  memory,  \* the *_sampled_ and *_calibration_memory_bytes counters
  pc,      \* where each worker is
  at,      \* the entry it is getting or building
  req,     \* the rank key it evaluates
  future   \* the future it holds: a builder's promise, "value" or "error"

entries == <<slot, tier, behind, memory>>
vars    == <<phase, entries, pc, at, req, future>>

Stage == {"idle", "lookup", "wait", "rank_build", "build", "set_value",
          "enforce", "unwind", "set_exception"}

TypeOK ==
  /\ phase \in Tier
  /\ slot \in [Entry -> {"missing", "in_flight", "ready"}]
  /\ tier \in [Entry -> Tier]
  /\ behind \in [Entry -> Worker \cup {"none", "value"}]
  /\ memory \in [Table -> [Tier -> Nat]]
  /\ pc \in [Worker -> Stage]
  /\ at \in [Worker -> Entry \cup {NoEntry}]
  /\ req \in [Worker -> RankKey \cup {NoEntry}]
  /\ future \in [Worker -> Worker \cup {"none", "value", "error"}]
  /\ \A w \in Worker : pc[w] = "wait" <=> future[w] # "none"

Init ==
  /\ phase = "sampled"
  /\ slot = [e \in Entry |-> "missing"]
  /\ tier = [e \in Entry |-> "sampled"]
  /\ behind = [e \in Entry |-> "none"]
  /\ memory = [t \in Table |-> [c \in Tier |-> 0]]
  /\ pc = [w \in Worker |-> "idle"]
  /\ at = [w \in Worker |-> NoEntry]
  /\ req = [w \in Worker |-> NoEntry]
  /\ future = [w \in Worker |-> "none"]

-----------------------------------------------------------------------------
(* Eviction.                                                               *)

TableOf(e)  == IF e \in NearestKey THEN "nearest" ELSE "rank"
BytesOf(S)  == MapThenSumSet(LAMBDA e : Bytes[e], S)
Minus(a, b) == IF a > b THEN a - b ELSE 0    \* subtract_cache_bytes

(* Variant: entries still being built can be evicted too. *)
EvictableAny(t) ==
  {e \in Entry : TableOf(e) = t /\ slot[e] # "missing" /\ tier[e] = "sampled"}

EvictableIn(t) ==
  {e \in Entry : TableOf(e) = t /\ slot[e] = "ready" /\ tier[e] = "sampled"}

(* Variant: the budget is compared with the memory before the last entry. *)
VictimSetsLate(t, protected) ==
  LET candidates == EvictableIn(t) \ protected
      left(V)    == Minus(memory[t]["sampled"], BytesOf(V \cup protected))
  IN  {V \in SUBSET candidates :
         /\ left(V) <= Budget[t] \/ V = candidates
         /\ V # {} => \E last \in V : left(V \ {last}) > Budget[t]}

(* The sets of victims by which the while loop of enforce_..._locked can   *)
(* end: the budget is met or nothing is left, and not one eviction sooner. *)
VictimSets(t, protected) ==
  LET candidates == EvictableIn(t) \ protected
      left(V)    == Minus(memory[t]["sampled"], BytesOf(V))
  IN  {V \in SUBSET candidates :
         /\ left(V) <= Budget[t] \/ V = candidates
         /\ V # {} => \E last \in V : left(V \ {last}) > Budget[t]}

(* erase_..._locked on every member: all are ready and sampled. *)
Evict(V) ==
  /\ slot' = [e \in Entry |-> IF e \in V THEN "missing" ELSE slot[e]]
  /\ behind' = [e \in Entry |-> IF e \in V THEN "none" ELSE behind[e]]
  /\ memory' = [t \in Table |-> [memory[t] EXCEPT !["sampled"] =
                  Minus(@, BytesOf({e \in V : TableOf(e) = t}))]]
  /\ UNCHANGED tier

-----------------------------------------------------------------------------
(* The start of evaluate_candidates, when no worker runs.                  *)

AllIdle == \A w \in Worker : pc[w] = "idle"

(* prepare_eval_base_rank_cache_for_phase *)
PreparePhase(p) ==
  /\ AllIdle
  /\ phase' = p
  /\ IF p = "calibration"
     THEN Evict(EvictableIn("nearest") \cup EvictableIn("rank"))
     ELSE \E N \in VictimSets("nearest", {}), R \in VictimSets("rank", {}) :
            Evict(N \cup R)
  /\ UNCHANGED <<pc, at, req, future>>

(* prewarm_final_calibration_nearest_caches, by the coordinator before it   *)
(* starts the workers: one of the threads stands for it, without a req.     *)
Prewarm(w, n) ==
  /\ AllIdle
  /\ phase = "calibration"
  /\ pc' = [pc EXCEPT ![w] = "lookup"]
  /\ at' = [at EXCEPT ![w] = n]
  /\ UNCHANGED <<phase, entries, req, future>>

Prewarming == \E w \in Worker : pc[w] # "idle" /\ req[w] = NoEntry

-----------------------------------------------------------------------------
(* One get_or_build, of either table.                                      *)

Goto(w, stage) == pc' = [pc EXCEPT ![w] = stage]

Request(w, k) ==
  /\ pc[w] = "idle"
  /\ ~Prewarming
  /\ Goto(w, "lookup")
  /\ at' = [at EXCEPT ![w] = k]
  /\ req' = [req EXCEPT ![w] = k]
  /\ UNCHANGED <<phase, entries, future>>

LookupHit(w) ==
  /\ pc[w] = "lookup"
  /\ slot[at[w]] # "missing"
  /\ future' = [future EXCEPT ![w] = behind[at[w]]]
  /\ Goto(w, "wait")
  /\ UNCHANGED <<phase, entries, at, req>>

LookupMiss(w) ==
  /\ pc[w] = "lookup"
  /\ slot[at[w]] = "missing"
  /\ slot' = [slot EXCEPT ![at[w]] = "in_flight"]
  /\ tier' = [tier EXCEPT ![at[w]] = phase]
  /\ behind' = [behind EXCEPT ![at[w]] = w]
  /\ Goto(w, IF at[w] \in RankKey THEN "rank_build" ELSE "build")
  /\ UNCHANGED <<phase, memory, at, req, future>>

(* build_eval_base_rank_cache: a sampled build that does not use nearest   *)
(* centroids, or would have to wait for them, hashes directly.             *)
HashDirectly(w) ==
  /\ pc[w] = "rank_build"
  /\ phase = "sampled"
  /\ Goto(w, "build")
  /\ UNCHANGED <<phase, entries, at, req, future>>

(* The bypass check and the lookup that follows are two critical sections. *)
UseNearest(w) ==
  /\ pc[w] = "rank_build"
  /\ phase = "calibration" \/ slot[NearestOf[req[w]]] # "in_flight"
  /\ at' = [at EXCEPT ![w] = NearestOf[req[w]]]
  /\ Goto(w, "lookup")
  /\ UNCHANGED <<phase, entries, req, future>>

(* The build, and its accounting under the mutex. *)
Account(w) ==
  /\ pc[w] = "build"
  /\ IF slot[at[w]] # "missing"
     THEN /\ slot' = [slot EXCEPT ![at[w]] = "ready"]
          /\ tier' = [tier EXCEPT ![at[w]] = phase]
     ELSE UNCHANGED <<slot, tier>>
  /\ memory' = [memory EXCEPT ![TableOf(at[w])][phase] = @ + Bytes[at[w]]]
  /\ Goto(w, "set_value")
  /\ UNCHANGED <<phase, behind, at, req, future>>

BuildFails(w) ==
  /\ pc[w] = "build"
  /\ Goto(w, "unwind")
  /\ UNCHANGED <<phase, entries, at, req, future>>

(* Variant: the handler leaves the failed entry in the table. *)
UnwindKeepingEntry(w) ==
  /\ pc[w] = "unwind"
  /\ Goto(w, "set_exception")
  /\ UNCHANGED <<phase, entries, at, req, future>>

(* The exception handler: the entry goes before the promise is resolved. *)
Unwind(w) ==
  /\ pc[w] = "unwind"
  /\ slot' = [slot EXCEPT ![at[w]] = "missing"]
  /\ behind' = [behind EXCEPT ![at[w]] = "none"]
  /\ Goto(w, "set_exception")
  /\ UNCHANGED <<phase, tier, memory, at, req, future>>

(* Resolving a promise wakes the holders of its future. *)
Deliver(w, outcome) ==
  future' = [v \in Worker |->
    IF pc[v] = "wait" /\ at[v] = at[w] /\ future[v] = w
    THEN outcome ELSE future[v]]

(* A value goes to the evaluation, or to the rank build it is nested in;   *)
(* an exception passes through the handler of the rank build.              *)
Leave(w, rankStage) ==
  IF at[w] \in NearestKey /\ req[w] # NoEntry
  THEN /\ Goto(w, rankStage)
       /\ at' = [at EXCEPT ![w] = req[w]]
       /\ UNCHANGED req
  ELSE /\ Goto(w, "idle")
       /\ at' = [at EXCEPT ![w] = NoEntry]
       /\ req' = [req EXCEPT ![w] = NoEntry]

SetValue(w) ==
  /\ pc[w] = "set_value"
  /\ Deliver(w, "value")
  /\ behind' = [behind EXCEPT ![at[w]] = IF @ = w THEN "value" ELSE @]
  /\ IF phase = "sampled" THEN Goto(w, "enforce") /\ UNCHANGED <<at, req>>
                          ELSE Leave(w, "build")
  /\ UNCHANGED <<phase, slot, tier, memory>>

Enforce(w) ==
  /\ pc[w] = "enforce"
  /\ \E V \in VictimSets(TableOf(at[w]), {at[w]}) : Evict(V)
  /\ Leave(w, "build")
  /\ UNCHANGED <<phase, future>>

(* Variant: the exception reaches the builder's caller, not the waiters. *)
RethrowOnly(w) ==
  /\ pc[w] = "set_exception"
  /\ Leave(w, "unwind")
  /\ UNCHANGED <<phase, entries, future>>

SetException(w) ==
  /\ pc[w] = "set_exception"
  /\ Deliver(w, "error")
  /\ Leave(w, "unwind")
  /\ UNCHANGED <<phase, entries>>

(* Variant: an exception from a nested wait escapes the rank build. *)
GetFutureEscaping(w) ==
  /\ pc[w] = "wait"
  /\ \/ future[w] = "value" /\ Leave(w, "build")
     \/ future[w] = "error" /\ Leave(w, "idle")
  /\ future' = [future EXCEPT ![w] = "none"]
  /\ UNCHANGED <<phase, entries>>

(* future.get() *)
GetFuture(w) ==
  /\ pc[w] = "wait"
  /\ \/ future[w] = "value" /\ Leave(w, "build")
     \/ future[w] = "error" /\ Leave(w, "unwind")
  /\ future' = [future EXCEPT ![w] = "none"]
  /\ UNCHANGED <<phase, entries>>

Step(w) ==
  \/ LookupHit(w) \/ LookupMiss(w) \/ HashDirectly(w) \/ UseNearest(w)
  \/ Account(w) \/ BuildFails(w) \/ Unwind(w) \/ SetValue(w) \/ Enforce(w)
  \/ SetException(w) \/ GetFuture(w)

Next ==
  \/ \E p \in Tier : PreparePhase(p)
  \/ \E w \in Worker, n \in NearestKey : Prewarm(w, n)
  \/ \E w \in Worker, k \in RankKey : Request(w, k)
  \/ \E w \in Worker : Step(w)

(* Threads that can run do run; no thread need start an evaluation. *)
Fairness == \A w \in Worker : WF_vars(Step(w))

Spec == Init /\ [][Next]_vars /\ Fairness

-----------------------------------------------------------------------------
(* Correctness.                                                            *)

(* The byte counters equal the sizes of the ready entries, by table and    *)
(* tier, at every unlock: accounting, eviction, failure and the tier an    *)
(* entry was inserted with never drift apart, and the saturating           *)
(* subtraction never saturates.                                            *)
AccountingExact ==
  /\ TypeOK
  /\ \A t \in Table, c \in Tier :
      memory[t][c] =
        BytesOf({e \in Entry : TableOf(e) = t /\ slot[e] = "ready" /\ tier[e] = c})

(* Once no builder has its enforcement still to do, the sampled tier is    *)
(* within its budget, or is down to the one entry its builder protected,   *)
(* in whichever order builders account and enforce.                        *)
SampledWithinBudget ==
  \A t \in Table :
    \/ memory[t]["sampled"] <= Budget[t]
    \/ Cardinality(EvictableIn(t)) = 1
    \/ \E w \in Worker :
         pc[w] \in {"set_value", "enforce"} /\ at[w] \in Entry /\ TableOf(at[w]) = t

(* Who waits, waits for a promise that its builder still has to resolve:   *)
(* eviction between accounting and set_value, failures, and the reuse of   *)
(* the key by a second builder never orphan a waiter.                      *)
Owes(w, e) ==
  \/ at[w] = e /\ pc[w] \in {"build", "set_value", "unwind", "set_exception"}
  \/ req[w] = e /\ (pc[w] = "rank_build" \/ at[w] \in NearestKey)

WaitersNotOrphaned ==
  /\ \A w \in Worker :
       pc[w] = "wait" /\ future[w] \in Worker => Owes(future[w], at[w])
  /\ \A e \in Entry :
       slot[e] = "in_flight" => behind[e] \in Worker /\ Owes(behind[e], e)

(* Every evaluation gets a value or an error: the two-level waits (rank    *)
(* builders wait for nearest builders) cannot close a cycle.               *)
EveryEvaluationReturns == \A w \in Worker : pc[w] = "lookup" ~> pc[w] = "idle"

(* Both tables are single-flight: a key is built by one worker at a time,  *)
(* a failed key can be retried, and only ready entries are forgotten.      *)
Restriction(S) == [e \in S |-> slot[e]]
Nearest == INSTANCE SingleFlight
             WITH slot <- Restriction(NearestKey), Key <- NearestKey,
                  AfterFailure <- "missing", Evictable <- TRUE
Rank == INSTANCE SingleFlight
          WITH slot <- Restriction(RankKey), Key <- RankKey,
               AfterFailure <- "missing", Evictable <- TRUE

SingleFlightTables == Nearest!SlotSpec /\ Rank!SlotSpec

=============================================================================
