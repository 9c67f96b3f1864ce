----------------------------- MODULE TrainCache -----------------------------
(***************************************************************************)
(* The selector's training cache: candidate workers that ask for trained   *)
(* models (get_or_train_candidate), the single training lane, the shared   *)
(* training components (base, centroid order, CDF fit) and the global and  *)
(* per-context limits on how many models may be trained.                   *)
(*                                                                         *)
(* A critical section under TrainCache::mutex is one action.  The lane,    *)
(* training_mutex, is held across several actions and is a variable.       *)
(***************************************************************************)
EXTENDS Naturals, FiniteSets

CONSTANTS
  Worker,          \* threads evaluating candidates
  Key,             \* selector_training_cache_key values
  Component,       \* keys of training_base_by_key and training_order_by_key
  CdfKey,          \* keys of training_cdf_by_key
  BaseOf,          \* the base key of a training key
  OrderOf,         \* the order key of a training key
  CdfOf,           \* the CDF key of a training key
  MaxModelTrains,  \* max_model_trains; 0 is no limit
  ContextLimit,    \* the limits the coordinator may give a context; 0 is none
  HasDeadline,     \* does the search controller have a deadline?
  NoWorker, NoKey

ASSUME ConstantsAssumption ==
  /\ IsFiniteSet(Key)
  /\ BaseOf \in [Key -> Component]
  /\ OrderOf \in [Key -> Component]
  /\ CdfOf \in [Key -> CdfKey]
  /\ MaxModelTrains \in Nat
  /\ ContextLimit \subseteq Nat
  /\ HasDeadline \in BOOLEAN
  /\ NoWorker \notin Worker
  /\ NoKey \notin Key

VARIABLES
  future,       \* future_by_key: missing, in_flight, ready or failed
  component,    \* the base and order entries present
  built,        \* how often each base or order was built (history)
  cdf,          \* training_cdf_by_key, as future
  lane,         \* holder of training_mutex
  started,      \* model_trains_started
  ctxOpen,      \* between begin_ and end_context_train_budget
  ctxStart,     \* context_model_train_start
  ctxLimit,     \* context_model_train_limit
  budgetHit,    \* model_train_budget_hit
  ctxBudgetHit, \* context_model_train_budget_hit
  expired,      \* the deadline has passed
  timeHit,      \* SearchController::time_budget_hit
  pc,           \* where each worker is
  req           \* the key it asks for

tables  == <<future, component, built, cdf>>
budgets == <<started, ctxOpen, ctxStart, ctxLimit, budgetHit, ctxBudgetHit>>
clock   == <<expired, timeHit>>
vars    == <<tables, lane, budgets, clock, pc, req>>

FutureState == {"missing", "in_flight", "ready", "failed"}
BaseStage   == {"base", "base_build", "base_insert"}
OrderStage  == {"order", "order_build", "order_insert"}
TrainStage  == BaseStage \cup OrderStage \cup {"cdf", "cdf_build", "assemble"}
OwnerStage  == {"lane", "fail"} \cup TrainStage
Stage       == {"idle", "lookup", "wait"} \cup OwnerStage

TypeOK ==
  /\ future \in [Key -> FutureState]
  /\ component \subseteq Component
  /\ built \in [Component -> Nat]
  /\ cdf \in [CdfKey -> FutureState]
  /\ lane \in Worker \cup {NoWorker}
  /\ started \in 0 .. Cardinality(Key)
  /\ ctxOpen \in BOOLEAN
  /\ ctxStart \in Nat
  /\ ctxLimit \in ContextLimit \cup {0}
  /\ budgetHit \in BOOLEAN
  /\ ctxBudgetHit \in BOOLEAN
  /\ expired \in BOOLEAN
  /\ timeHit \in BOOLEAN
  /\ pc \in [Worker -> Stage]
  /\ req \in [Worker -> Key \cup {NoKey}]
  /\ \A w \in Worker : pc[w] = "idle" <=> req[w] = NoKey

Init ==
  /\ future = [k \in Key |-> "missing"]
  /\ component = {}
  /\ built = [c \in Component |-> 0]
  /\ cdf = [c \in CdfKey |-> "missing"]
  /\ lane = NoWorker
  /\ started = 0
  /\ ctxOpen = FALSE
  /\ ctxStart = 0
  /\ ctxLimit = 0
  /\ budgetHit = FALSE
  /\ ctxBudgetHit = FALSE
  /\ expired = FALSE
  /\ timeHit = FALSE
  /\ pc = [w \in Worker |-> "idle"]
  /\ req = [w \in Worker |-> NoKey]

-----------------------------------------------------------------------------
(* The clock and the coordinator.  select_vortex_models opens and closes a *)
(* context budget only between evaluate_candidates calls, that is with no  *)
(* candidate worker running.                                               *)

DeadlinePasses ==
  /\ HasDeadline
  /\ ~expired
  /\ expired' = TRUE
  /\ UNCHANGED <<tables, lane, budgets, timeHit, pc, req>>

AllIdle == \A w \in Worker : pc[w] = "idle"

BeginContext(limit) ==
  /\ AllIdle
  /\ ~ctxOpen
  /\ ctxOpen' = TRUE
  /\ ctxStart' = started
  /\ ctxLimit' = limit
  /\ ctxBudgetHit' = FALSE
  /\ UNCHANGED <<tables, lane, started, budgetHit, clock, pc, req>>

EndContext ==
  /\ AllIdle
  /\ ctxOpen
  /\ ctxOpen' = FALSE
  /\ ctxLimit' = 0
  /\ UNCHANGED <<tables, lane, started, ctxStart, budgetHit, ctxBudgetHit,
                 clock, pc, req>>

-----------------------------------------------------------------------------
(* A request: the time check, then the lookup under the cache mutex.       *)

Goto(w, stage) == pc' = [pc EXCEPT ![w] = stage]

(* Variant: the worker goes idle but stays bound to its request. *)
ReturnKeepingKey(w) ==
  /\ Goto(w, "idle")
  /\ UNCHANGED req

(* A value is returned or an exception thrown to evaluate_candidate. *)
Return(w) ==
  /\ Goto(w, "idle")
  /\ req' = [req EXCEPT ![w] = NoKey]

Request(w, k) ==
  /\ pc[w] = "idle"
  /\ ~expired
  /\ Goto(w, "lookup")
  /\ req' = [req EXCEPT ![w] = k]
  /\ UNCHANGED <<tables, lane, budgets, clock>>

RequestTooLate(w) ==
  /\ pc[w] = "idle"
  /\ expired
  /\ timeHit' = TRUE
  /\ UNCHANGED <<tables, lane, budgets, expired, pc, req>>

ContextStarted == IF started >= ctxStart THEN started - ctxStart ELSE 0

BudgetSpent == MaxModelTrains > 0 /\ started >= MaxModelTrains

ContextSpent == ctxLimit > 0 /\ ContextStarted >= ctxLimit

Hit(w) ==
  /\ pc[w] = "lookup"
  /\ future[req[w]] # "missing"
  /\ Goto(w, "wait")
  /\ UNCHANGED <<tables, lane, budgets, clock, req>>

RefuseBudget(w) ==
  /\ pc[w] = "lookup"
  /\ future[req[w]] = "missing"
  /\ BudgetSpent
  /\ budgetHit' = TRUE
  /\ Return(w)
  /\ UNCHANGED <<tables, lane, started, ctxOpen, ctxStart, ctxLimit,
                 ctxBudgetHit, clock>>

RefuseContext(w) ==
  /\ pc[w] = "lookup"
  /\ future[req[w]] = "missing"
  /\ ~BudgetSpent
  /\ ContextSpent
  /\ ctxBudgetHit' = TRUE
  /\ Return(w)
  /\ UNCHANGED <<tables, lane, started, ctxOpen, ctxStart, ctxLimit,
                 budgetHit, clock>>

RefuseTime(w) ==
  /\ pc[w] = "lookup"
  /\ future[req[w]] = "missing"
  /\ ~BudgetSpent
  /\ ~ContextSpent
  /\ expired
  /\ timeHit' = TRUE
  /\ Return(w)
  /\ UNCHANGED <<tables, lane, budgets, expired>>

(* Variant: the lookup and the insertion in two critical sections. *)
AdmitUnchecked(w) ==
  /\ pc[w] = "lookup"
  /\ ~BudgetSpent
  /\ ~ContextSpent
  /\ ~expired
  /\ future' = [future EXCEPT ![req[w]] = "in_flight"]
  /\ started' = started + 1
  /\ Goto(w, "lane")
  /\ UNCHANGED <<component, built, cdf, lane, ctxOpen, ctxStart, ctxLimit,
                 budgetHit, ctxBudgetHit, clock, req>>

Admit(w) ==
  /\ pc[w] = "lookup"
  /\ future[req[w]] = "missing"
  /\ ~BudgetSpent
  /\ ~ContextSpent
  /\ ~expired
  /\ future' = [future EXCEPT ![req[w]] = "in_flight"]
  /\ started' = started + 1
  /\ Goto(w, "lane")
  /\ UNCHANGED <<component, built, cdf, lane, ctxOpen, ctxStart, ctxLimit,
                 budgetHit, ctxBudgetHit, clock, req>>

-----------------------------------------------------------------------------
(* Training, under the lane: base, order, CDF, assembly (train_candidate). *)

(* Variant: training without the lane's mutex. *)
AcquireLaneUnlocked(w) ==
  /\ pc[w] = "lane"
  /\ lane' = w
  /\ Goto(w, "base")
  /\ UNCHANGED <<tables, budgets, clock, req>>

AcquireLane(w) ==
  /\ pc[w] = "lane"
  /\ lane = NoWorker
  /\ lane' = w
  /\ Goto(w, "base")
  /\ UNCHANGED <<tables, budgets, clock, req>>

(* A base or an order is looked up in one critical section, built outside  *)
(* the cache mutex, and entered in a second one.                           *)
ComponentAt(w) ==
  IF pc[w] \in BaseStage THEN BaseOf[req[w]] ELSE OrderOf[req[w]]

AfterComponent(w) == IF pc[w] \in BaseStage THEN "order" ELSE "cdf"

ComponentHit(w) ==
  /\ pc[w] \in {"base", "order"}
  /\ ComponentAt(w) \in component
  /\ Goto(w, AfterComponent(w))
  /\ UNCHANGED <<tables, lane, budgets, clock, req>>

ComponentMiss(w) ==
  /\ pc[w] \in {"base", "order"}
  /\ ComponentAt(w) \notin component
  /\ Goto(w, IF pc[w] = "base" THEN "base_build" ELSE "order_build")
  /\ UNCHANGED <<tables, lane, budgets, clock, req>>

ComponentBuilt(w) ==
  /\ pc[w] \in {"base_build", "order_build"}
  /\ built' = [built EXCEPT ![ComponentAt(w)] = @ + 1]
  /\ Goto(w, IF pc[w] = "base_build" THEN "base_insert" ELSE "order_insert")
  /\ UNCHANGED <<future, component, cdf, lane, budgets, clock, req>>

(* emplace: the entry of another builder, had one come first, stays. *)
ComponentInsert(w) ==
  /\ pc[w] \in {"base_insert", "order_insert"}
  /\ component' = component \cup {ComponentAt(w)}
  /\ Goto(w, AfterComponent(w))
  /\ UNCHANGED <<future, built, cdf, lane, budgets, clock, req>>

(* Variant: a lock that an exception does not release. *)
ThrowKeepingLane(w) ==
  /\ Goto(w, "fail")
  /\ UNCHANGED lane

(* An exception unwinds the lane's unique_lock before the handler runs. *)
Throw(w) ==
  /\ lane' = NoWorker
  /\ Goto(w, "fail")

ComponentFails(w) ==
  /\ pc[w] \in {"base_build", "order_build"}
  /\ Throw(w)
  /\ UNCHANGED <<tables, budgets, clock, req>>

CdfClaim(w) ==
  /\ pc[w] = "cdf"
  /\ cdf[CdfOf[req[w]]] = "missing"
  /\ cdf' = [cdf EXCEPT ![CdfOf[req[w]]] = "in_flight"]
  /\ Goto(w, "cdf_build")
  /\ UNCHANGED <<future, component, built, lane, budgets, clock, req>>

(* The future of another request's fit: get() blocks while it is in flight. *)
CdfHit(w) ==
  /\ pc[w] = "cdf"
  /\ cdf[CdfOf[req[w]]] = "ready"
  /\ Goto(w, "assemble")
  /\ UNCHANGED <<tables, lane, budgets, clock, req>>

CdfHitFailed(w) ==
  /\ pc[w] = "cdf"
  /\ cdf[CdfOf[req[w]]] = "failed"
  /\ Throw(w)
  /\ UNCHANGED <<tables, budgets, clock, req>>

CdfBuilt(w) ==
  /\ pc[w] = "cdf_build"
  /\ cdf' = [cdf EXCEPT ![CdfOf[req[w]]] = "ready"]
  /\ Goto(w, "assemble")
  /\ UNCHANGED <<future, component, built, lane, budgets, clock, req>>

CdfFails(w) ==
  /\ pc[w] = "cdf_build"
  /\ cdf' = [cdf EXCEPT ![CdfOf[req[w]]] = "failed"]
  /\ Throw(w)
  /\ UNCHANGED <<future, component, built, budgets, clock, req>>

(* set_value runs inside the lane's scope, set_exception after it. *)
SetValue(w) ==
  /\ pc[w] = "assemble"
  /\ future' = [future EXCEPT ![req[w]] = "ready"]
  /\ lane' = NoWorker
  /\ Goto(w, "wait")
  /\ UNCHANGED <<component, built, cdf, budgets, clock, req>>

AssemblyFails(w) ==
  /\ pc[w] = "assemble"
  /\ Throw(w)
  /\ UNCHANGED <<tables, budgets, clock, req>>

(* Variant: the handler forgets the promise. *)
SwallowException(w) ==
  /\ pc[w] = "fail"
  /\ Goto(w, "wait")
  /\ UNCHANGED <<tables, lane, budgets, clock, req>>

(* Variant: the handler erases the entry, as the evaluation caches do. *)
EraseOnException(w) ==
  /\ pc[w] = "fail"
  /\ future' = [future EXCEPT ![req[w]] = "missing"]
  /\ Return(w)
  /\ UNCHANGED <<component, built, cdf, lane, budgets, clock>>

SetException(w) ==
  /\ pc[w] = "fail"
  /\ future' = [future EXCEPT ![req[w]] = "failed"]
  /\ Goto(w, "wait")
  /\ UNCHANGED <<component, built, cdf, lane, budgets, clock, req>>

(* candidate_future.get(): blocks until the future is resolved. *)
GetValue(w) ==
  /\ pc[w] = "wait"
  /\ future[req[w]] \in {"ready", "failed"}
  /\ Return(w)
  /\ UNCHANGED <<tables, lane, budgets, clock>>

Lookup(w) ==
  Hit(w) \/ RefuseBudget(w) \/ RefuseContext(w) \/ RefuseTime(w) \/ Admit(w)

Train(w) ==
  \/ ComponentHit(w) \/ ComponentMiss(w)
  \/ ComponentBuilt(w) \/ ComponentFails(w) \/ ComponentInsert(w)
  \/ CdfClaim(w) \/ CdfHit(w) \/ CdfHitFailed(w) \/ CdfBuilt(w) \/ CdfFails(w)
  \/ SetValue(w) \/ AssemblyFails(w)

Step(w) ==
  Lookup(w) \/ AcquireLane(w) \/ Train(w) \/ SetException(w) \/ GetValue(w)

Next ==
  \/ DeadlinePasses
  \/ \E limit \in ContextLimit : BeginContext(limit)
  \/ EndContext
  \/ \E w \in Worker, k \in Key : Request(w, k)
  \/ \E w \in Worker : RequestTooLate(w) \/ Step(w)

(* The operating system runs every thread that can run; no thread need     *)
(* start a request, and neither the clock nor the coordinator need move.   *)
Fairness == \A w \in Worker : WF_vars(Step(w))

Spec == Init /\ [][Next]_vars /\ Fairness

-----------------------------------------------------------------------------
(* Correctness.                                                            *)

(* Every entry of future_by_key, resolved or not, was charged exactly one  *)
(* training, so trainings never exceed the global limit, and within a      *)
(* context budget never that context's, however the candidate workers that *)
(* race for the last slot interleave.                                      *)
BudgetsRespected ==
  /\ started = Cardinality({k \in Key : future[k] # "missing"})
  /\ MaxModelTrains > 0 => started <= MaxModelTrains
  /\ ctxStart <= started
  /\ ctxLimit > 0 => started - ctxStart <= ctxLimit

(* Every unresolved future has exactly one worker that still has to        *)
(* resolve it: no waiter blocks on an orphaned promise, and no promise is  *)
(* resolved twice, also when training throws halfway.                      *)
Owes(w, k) == pc[w] \in OwnerStage /\ req[w] = k

PromiseOwned ==
  \A k \in Key :
    /\ future[k] = "in_flight" <=> \E w \in Worker : Owes(w, k)
    /\ \A v, w \in Worker : Owes(v, k) /\ Owes(w, k) => v = w

(* One training at a time; and the one that holds the lane never waits for *)
(* a CDF fit of another, which could only finish with the lane it holds.   *)
LaneNeverBlocks ==
  \A w \in Worker :
    /\ pc[w] \in TrainStage <=> lane = w
    /\ pc[w] = "cdf" => cdf[CdfOf[req[w]]] # "in_flight"

(* A base or a centroid order shared by several candidates is built once,  *)
(* although get_training_base and get_training_order look it up, build it  *)
(* and enter it in separate steps, the cache mutex free in between: the    *)
(* lane is what keeps two builders apart.                                  *)
ComponentsBuiltOnce == \A c \in Component : built[c] <= 1

(* A worker that looks a model up gets a value or an error, whichever      *)
(* other workers fail, and whoever holds the lane.                         *)
EveryRequestReturns ==
  \A w \in Worker : pc[w] = "lookup" ~> pc[w] = "idle"

(* future_by_key and training_cdf_by_key are single-flight tables that     *)
(* never forget: a key is trained, and a CDF fitted, at most once in a     *)
(* search, a failure included.                                             *)
Models == INSTANCE SingleFlight
            WITH slot <- future, AfterFailure <- "failed", Evictable <- FALSE
Fits   == INSTANCE SingleFlight
            WITH slot <- cdf, Key <- CdfKey, AfterFailure <- "failed",
                 Evictable <- FALSE

TrainedAndFittedOnce == Models!SlotSpec /\ Fits!SlotSpec

(* "remaining-time and model-train guards stop before budget overruns"     *)
(* (docs/public/vortex_model_selector.md:86): no training starts after the *)
(* deadline.  The clock is read before the wait for the lane, not after.   *)
TrainsOnlyBeforeDeadline ==
  [][\A w \in Worker : pc[w] = "lane" /\ pc'[w] = "base" => ~expired]_vars

=============================================================================
