# A TLA+ verification of LearnedHash

LearnedHash learns hash functions from data.  **LEAD** hashes scalar keys with a
learned index built by the vendored library **rm_model**; **Vortex** hashes
vectors by routing them to centroids and scaling a per-centroid CDF into a range
of the hash space; the **model selector** searches, with threads and under time,
memory and training budgets, for the Vortex configuration to use; and the
**codegen** layer turns a trained model into C++ that is compiled, cached and
loaded at run time.

This directory holds TLA+ modules translated from that code, the TLC runs that
check them on small instances, and theorems about them that the TLA+ proof
system checks for every value of the constants.  `PROJECT.json` relates every
definition to source lines, every property to a hazard of the code, and every
checked property to a *mutant*: a plausible bug in a definition that makes TLC
find the property violated.  Below, `V/` stands for
`src/hash_functions_core/Vortex/src/`, `L/` for
`src/hash_functions_core/LEAD/src/` and `R/` for
`src/learned_structures/rm_model/`.

    tlc -workers 2 -config TrainCache.cfg MCTrainCache.tla    # a run
    tlapm TrainCacheProofs.tla                                # a proof module

## 1. Inventory

### Components with state or concurrency

| component | state | operations | what is hard | what makes it correct |
| --- | --- | --- | --- | --- |
| Training cache and lane (`V/selector_evaluator.cpp`) | `future_by_key`, `training_base/order/cdf_by_key`, `training_mutex`, `model_trains_started`, context limits | `get_or_train_candidate`, `train_candidate` | racing workers, a check before a blocking wait, failures after a promise is published | limits hold, each promise is resolved once, nobody hangs |
| Evaluation caches (`V/selector_eval_nearest_cache.cpp`, `V/selector_eval_base_rank_cache.cpp`) | two tables of futures, entry metadata, byte counters by table and tier | `get_or_build_*`, `enforce_*`, `prepare_*`, prewarm | eviction between accounting and `set_value`, nested builds, failure paths | counters are exact, budgets respected, waiters released |
| Candidate scheduler (`V/selector_scheduler.cpp`) | lists of a batch by cache state, atomic positions, one metrics vector | `evaluate_candidates`, `evaluate_candidate` | unlocked shared vector, an overlap thread, a deadline between any two steps | one verdict per candidate, one stream of fresh training |
| Search coordinator (`V/model_selector.cpp`, `V/selector_orchestration.cpp`, `V/selector_contexts.cpp`) | counters of the context loop, limits, best results, flags of budgets hit | `select_vortex_models` and its phases | eight exits from a context, fair shares with rounding and reserves | later contexts keep a training, contexts closed, the reported reason true |
| rm_model parallel runtime (`R/src/rm_model/parallel.cpp`) | the pool's queue and stop flag, `TaskGroup` counters, `g_active_tasks` | `schedule`, `wait`, `parallel_for`, `join`, `set_thread_count` | wake-ups, references to a caller's stack, nested use of the pool | all tasks done before return, no lost wake-up |
| rm_model trainers (`R/src/rm_model/train_layer.cpp`, `R/include/rm_model/train_lower_bound_correction.h`) | leaf models by index, first and last key per leaf, runs, buckets of a layer | `train_two_layer`, `train_multi_layer`, `train_bounded`, `build_models_from`, `LowerBoundCorrection` | two halves cut by two threads, empty leaves, runs of equal keys, routing that is not monotone | each row trains the leaf that answers it, errors cover lookups |
| rm_model spline correction (`R/src/rm_model/cache_fix.cpp`) | points passed over, points kept | `cache_fix`, `SplineFit::add_point`, the generated lookup | a greedy break restarts the points to check | a lookup finds the cache line of each key |
| Affinity and centroid order (`V/training_base.cpp`, `V/training_order.cpp`, `V/training.cpp`) | rows of counts, a tree, a closed walk | `build_centroid_graph_affinity`, `compute_centroid_order`, `train_vortex_from_training_base` | rows cut and scaled apart, unreachable centroids, 2-opt over a discounted cost | every centroid once, exchanges only improve |
| Hash ranges and placement (`V/training_ranges.cpp`, `V/model.cpp`) | masses, quotas, remainders, ranges | `allocate_ranges`, `hash` | 2^256 and 2^64 wrap, largest remainder | ranges partition the space, order kept |
| Codegen loader and library cache (`V/codegen_loader.cpp`) | a build directory, its marker file, a shared library cache | `CodegenHasher::load` | several processes, deaths between file operations, torn libraries, time stamps | the cache is honest, what is loaded is what was emitted |
| LEAD training, loader, hasher and mapping (`L/trainer.cpp`, `L/rm_loader.cpp`, `L/hasher.cpp`, `L/mapping.cpp`, `L/manifest.cpp`) | the output directory: sources, data, model.json, library, lead.json; the state of each `Hasher` | `train_and_generate`, `RmModel::load`, `Hasher::load`, `Hasher::hash*` | unlocked directory, deaths, values taken over one by one, fixed-point words with carries | a hash comes from one training, refusals are justified, hashes keep the order of predictions |

### Components that are sequential or numeric

Candidate generation and search spaces; scoring and evaluation arithmetic;
selector reports; the numeric Vortex training stages (k-means, assignment, CDF
fit); the centroid graph; model files and vectors; code emission; rm_model's leaf
and top models, its model selector, its data loading, JSON, emission and
logging; the command-line tools; release and dataset scripts; the vendored
faiss.  `PROJECT.json` has a row for each with the reason it is not modelled;
section 8 sums them up.

### How they interact

    select_vortex_models                                 SelectorCoordinator
      `- evaluate_candidates: worker pool, overlap       CandidateScheduler
           thread, deadline marks
           `- get_or_train_candidate                     TrainCache
           |    `- k-means, CDF fit
           |    `- compute_centroid_order                CentroidOrder  \ VortexTraining
           |    `- allocate_ranges -> hash               RangeAllocation /
           `- evaluation of a trained model              EvalCache
                `- rank entry waits for a nearest entry
    CodegenHasher::load -> build -> open                 CodegenCache
    train_and_generate -> lead.json, model               LeadArtifacts
    Hasher::load -> RmModel::load -> build -> open       LeadArtifacts
      `- hash -> IndexMapper::map                        LeadMapping, UInt256
    rm_model train -> train_two_layer, multi_layer       LearnedIndex
      `- train_bounded -> cache_fix                      CacheFix
      `- TaskGroup, parallel_for, join                   ParallelRuntime

Coordinator and scheduler call each other synchronously: a batch is one call,
its results are metrics, and the shared state between them is the training
cache's counter `model_trains_started` and the deadline of the search
controller.  Workers of a batch meet each other only in the training cache and
in the evaluation caches.  Loaders in different processes, of either kind, meet
only in the file system; a LEAD loader also meets the training that writes its directory.  What a component needs from another enters its module as an
environment step: a batch is one step of SelectorCoordinator with any outcome
CandidateScheduler can produce; a training is one call of CandidateScheduler that
blocks or not; the stages of a training are steps of TrainCache that succeed or
fail.

## 2. Modules

| module | what it is | state ↔ code |
| --- | --- | --- |
| `SingleFlight` | abstract: what a memo table of futures promises | `slot[k]`: missing, in flight, ready, failed |
| `TrainCache` | the training cache, its lane and its limits | `future`=`future_by_key`; `component`=base and order tables; `cdf`=`training_cdf_by_key`; `lane`=`training_mutex`; `started`=`model_trains_started`; `ctxStart`, `ctxLimit`=the context's limit; `pc`, `req`: a worker's place in `get_or_train_candidate` and its key |
| `EvalCache` | both evaluation caches, eviction, phases, prewarm | table entries with tier and accounting flag, byte counters, `pc` per evaluation thread |
| `ForkJoin` | abstract: what a fork-join operation promises | callers inside, tasks forked, runs per task |
| `ParallelRuntime` | pool, TaskGroup, parallel_for, join, set_thread_count | `queue`, `inflight`, `remaining`, `active`=`g_active_tasks`, `stage` per thread, sleeping threads |
| `CandidateBatch` | abstract: one verdict per candidate | `verdict`, `returned` |
| `CandidateScheduler` | `evaluate_candidates` with pool, overlap thread and deadline | the partition lists, next positions, marks, `stage` per thread |
| `SelectorCoordinator` | the context loop of `select_vortex_models`, each exit from a context an action of its own | `offset`, `evaluated`, `recorded`, `started`, `max`, `ctx`=the open context, its start and limit, `rounds` of the beam or of the refinement, `found`, `best`, `stagnant`, `hits`, `reason` |
| `CentroidOrder` | the affinity of centroids and `compute_centroid_order` | `rows`=the counted (then cut) rows of the affinity, `edges`=`adj`, `in_mst`, `mst`, `stack`, `cycle`; `at`=the loop's position |
| `VortexTraining` | composes `CentroidOrder` with `RangeAllocation`: `train_vortex_from_training_base` | both states; `order` is handed over or taken from `cycle` |
| `RangeAllocation` | `allocate_ranges` loop by loop, and the hash into a range | `mass`, `total`, quotas, remainders, starts and sizes, all in words of the code's width |
| `CodegenCache` | `CodegenHasher::load` by several processes | library and marker per directory, shared cache, loaders' stages, versions standing for fingerprints |
| `LearnedIndex` | `train_two_layer` from the split to a leaf's error; `train_multi_layer` through two upper layers, row by row; the two layers over a spline of `train_bounded` | `rows`, `layers`=`model_layers`, `partition`=the layer in hand (`data_partitions`, `next_layer_data`), `top`=the routing of lookups, leaves' data, first and last key, run lengths, the model and error of one observed leaf |
| `CacheFix` | `cache_fix`, as recursive functions over the rows and the points of the data | operators only; LearnedIndex looks its splines up |
| `UInt256` | the words of rm_model's 256-bit integers | operators on four words of `WordBits` bits, carries included |
| `LeadMapping` | `MappingConfig::compute` and `IndexMapper` | operators on rationals, fixed-point words and `UInt256` |
| `LeadArtifacts` | LEAD's directory: training, loading, hashing | `file`=each file's writer and status, `todo`=the writes a training has left, `pc` per loader, `hasher`=what `Hasher::hash` reads |

`MCx` instantiates module `x` for TLC, and `xProofs` proves theorems about it
(`VortexTrainingProofs` also about `RangeAllocation` alone and about
`CentroidOrder` within the training, `SelectorProofs` about `SelectorCoordinator`
and `CandidateScheduler`, `RmModelProofs` about `ParallelRuntime`, `LearnedIndex`
and `CacheFix`; the modules of such a pair have disjoint names for that).
`SetsAndLists` has the lemmas on sums over finite sets, lists without repetition,
least and greatest elements, quotients and recursive functions that the proof modules
share.
A critical section under a mutex is one action; a mutex held across several
actions is a variable; what a thread does between two critical sections is the
program counter of that thread.  Operators commented `Mutant:` or `Variant:` play no part
in a specification: each is a wrong version of the definition that follows it,
kept to show that a property can fail.

## 3. What the runs check

| run | question and result | bounds |
| --- | --- | --- |
| `train_cache` | limits hold (`BudgetsRespected`), every unresolved future has one owner (`PromiseOwned`), the lane's holder never blocks on a fit (`LaneNeverBlocks`), shared parts, looked up, built unlocked and entered in three separate steps, are built once (`ComponentsBuiltOnce`), requests return (`EveryRequestReturns`), and the model and CDF tables implement `SingleFlight` (`TrainedAndFittedOnce`) | 2 workers, 3 keys that share 1 base, 2 orders, 2 CDF fits; global limit 2, context limit none or 1; a deadline; failures at each stage |
| `train_deadline` | **finding**: a training starts after the deadline | the same |
| `eval_cache` | counters equal the sum of accounted entries (`AccountingExact`), the sampled tier returns to its budget (`SampledWithinBudget`), whoever waits has a builder who owes it (`WaitersNotOrphaned`), every evaluation returns, and both tables implement the evicting `SingleFlight` (`SingleFlightTables`) | 3 threads, 1 nearest and 2 rank entries, the second of two bytes, budgets of one byte each, so that a builder's own entry may be evicted before it is set; no symmetry |
| `parallel_runtime` | `CountersExact`, `NoTaskOutlivesItsOperation`, every operation returns, and the runtime implements `ForkJoin` | main and helper thread, pool of 2, 3 tasks, 2 in flight |
| `candidate_scheduler` | no slot of the metrics vector has two writers, one stream of fresh training, and `CandidateBatch` is implemented, liveness included | batches of up to 3, pools of up to 2, a deadline |
| `selector_coordinator` | later contexts keep a training, each of the exits closes its context once (`ContextsAreClosed`), the reported reason is true | budgets 3 and 6, reserves 0 and 2, up to 3 contexts, useful minimum 2, stagnation limit 2, one round of the beam and of the refinement, two levels of quality |
| `range_allocation` | the code's own validation passes, shares are fair to one value, hashes keep the centroids' order and are unique to their range, the 64-bit path agrees with the 256-bit path; a computed order has every centroid at exactly one place, and `allocate_ranges` gets that order and cannot reject it (`OrderCoversCentroids`), and 2-opt and the cut only improve it (`OrderImproves`) | orders handed over: up to 3 centroids, masses 0, 1, 2, 3, 5 in every order (and invalid orders), spaces 2, 4, 8, 256, words of four values; computed orders: four layouts of four centroids with up to 3 graph edges, rows cut to 1 entry (also in mid-count, above 2), one layout of six without the graph, 1 or 2 nearest neighbours, 0, 1 or 9 exchanges |
| `codegen_cache` | a cache entry is what its fingerprint says (`CacheHonest`), a load opens what was emitted (`LoadsCurrent`), a load fails only after a death (`LoadsSucceed`) | 2 loaders, 2 directories, 2 versions, 2 deaths between any two operations |
| `codegen_rollback` | **finding**: after the code goes back to an older version the marker vouches for the wrong library | the same with `Rollback` and no death |
| `learned_index` | each row trains the leaf that answers its key (`RowsReachTheirLeaf`), a leaf's error covers every lookup up to the last key (`ErrorsBound`), a lookup through the spline finds the cache line of every key (`LookupFindsLine`), replaced leaves are exact (`EmptyLeavesExact`) | keys 0..3, up to 4 rows, 4 leaves, every monotone top model that may overshoot and three disordered ones, every monotone model of the observed leaf; several layers as twelve stacks, three roots over four pairs of models, with branching factor 2: in order or not, with and without bounds check, predicting between the buckets, below the first and past the last, at most 5 leaf models; splines with lines of 1 and 2 rows over up to 6 rows |
| `learned_index_last_key` | **finding**: the run of the last key is never counted | keys 0..5, up to 5 rows, one stack of two upper layers that is monotone, 4 leaves, lookups of every key |
| `lead` | a published lead.json vouches for every file it points to (`PublishedFilesAgree`), and, until somebody retrains in place, a hash comes from one training throughout (`AnswersAgree`) and a load that has begun is refused only over a torn library (`RefusalIsJustified`); hashes keep the order of the predictions, in 64, 128 and 256 bits (`HashKeepsOrder`) | 2 loaders with 2 loads each, up to 2 trainings, 1 death at any step; five pairs of options: words of 4 bits, spaces of 3 to 16 bits, one row to sixteen, with and without calibration and code; predictions from below to above the index |

Why the bounds are enough for the cases that matter:

- *Caches.*  Two workers are the smallest race for the last slot; three keys are
  needed so that two share an order and two share a fit, and so that a budget of
  two refuses one.  Three threads in EvalCache are a builder, the thread that
  evicts its entry, and a third that starts the same key again; with two the
  hazard at `V/selector_eval_base_rank_cache.cpp:554` never happens.
- *Pool.*  Three tasks with two in flight make a caller wait for a slot, and a
  pool of two lets one worker take the task another was woken for.
- *Scheduler.*  Three candidates allow one in each of the partition's lists, or
  two in one list; two pool threads contend for a position.
- *Coordinator.*  A budget of 3 for 3 contexts is the scarcest for which later
  contexts are promised a training; 6 leaves a surplus for rounding and the reserve.
- *Ranges.*  Words of four values stand for 64-bit words; space 4 and 256 = 4^4
  are then the two places (2^64, 2^256) where sizes wrap to zero.  All
  remainders of small totals occur.
- *Centroid order.*  Four centroids are the fewest with an exchange.  The square's
  indices make the walk cross itself; the distant pairs are not connected by one
  nearest neighbour, so that centroids are attached; coinciding centroids may
  hide a centroid from its own search; three edges let a row be cut while it is
  counted.
- *LEAD.*  Words of 4 bits make spaces below, at and above one word and of all
  four; one death is enough to leave any file torn, and the second training runs
  against loaders of the first.
- *Loader.*  Two deaths allow a torn library left by one load and a second death
  in the load that restores or rebuilds it; two directories are needed to carry an
  entry through the cache.
- *Index.*  Four leaves allow an empty leaf at either end, two neighbouring
  empty leaves, and a split whose halves both have leaves; they are also what two
  upper layers with branching factor 2 lead to, the fewest layers of which one is
  neither the first nor the last.  Four rows over four keys have runs of up to four, and
  several layers reach leaves only with four rows: with fewer the limit on leaf
  models stops the training, which the run has too.  Six rows give a spline two breaks.

Every passing run has more than a hundred states (the largest,
`selector_coordinator`, 4.2 million), and together they fire every action and disjunct of
every next-state relation.  Deadlock checking is on in every run but `lead`: a
state in which the system is meant to rest has a named stuttering action
(`Ended`, `Returned`, `Done`, `Finished`).  In `lead` the system may stop:
trainings and loads are bounded, and nobody has to load.  Symmetry is used
for loaders in `lead` and for loaders and directories in the codegen runs, all
of which check safety only.  The type invariant of a module is the first conjunct
of one of its deeper invariants, except where a theorem names it
(TrainCache, SelectorCoordinator).

## 4. Findings

1. **`train_deadline`** (the doc and the code diverge).
   `V/selector_evaluator.cpp:326`: the remaining time is tested before the wait
   for `training_mutex` and not after it.  A worker that is admitted before the
   deadline and waits for the lane trains after the deadline, although
   `docs/public/vortex_model_selector.md:86` says that the guards stop before
   budget overruns.
2. **`codegen_rollback`** (a bug).  `V/codegen_loader.cpp:224`: a marker with
   the current fingerprint is believed for *any* existing library.  Load version
   1, emit version 2, build by hand as the generated README says, emit version 1
   again: the marker of the first load vouches for version 2's library.
3. **`learned_index_last_key`** (a bug).
   `R/include/rm_model/train_lower_bound_correction.h:111`: a run of equal keys
   is recorded when the next key starts, and nothing records the last one.  A
   lookup of a key above all data may then be predicted further from the end than
   the leaf's error allows, although `R/README.md:404` calls the bounds of
   multi-layer training conservative.  TLC's trace trains on the four keys 0, 0, 0, 2
   with four leaves, which is within the limit of one leaf per row: key 2 is alone in
   leaf 3, whose error is 3; a lookup of key 3 is predicted at 0, and its lower bound
   is 4.  The limit keeps leaves from outnumbering rows but not a leaf from holding
   one long run.  With the last run counted the same instance has no counterexample.

## 5. Fairness

Each thread that has a step to take and keeps having it takes it eventually
(weak fairness per thread: `Step(w)`, `CallerStep`, `WorkerStep`,
`CandidateStep`).  This is what an operating system's scheduler gives runnable
threads, and weak fairness is enough because a waiting thread's step stays
enabled once the future is ready or the lane is free for it.  The training lane
is contended for at most once per key, since a key never leaves the table, so a
worker passed over for it gets it in the end.  Nothing is assumed of the environment: no thread
must start a request, the deadline need not pass, no context must begin.
`ParallelRuntime` also assumes that a pool replacement, once begun, ends
(`Replace`: joins of threads that were told to stop).  A worker asleep on a
condition variable is *not* assumed to wake by itself: only a notification
makes its step possible, so a lost wake-up would show as a violation of
`OperationsReturn`.  The coordinator, the training, both loaders and the index have
safety properties only, and no fairness.

## 6. Refinement

Abstract specifications are used as properties of the detailed ones:

The steps of `SingleFlight` and of `ForkJoin` are also proved for every value of
the constants (section 7); the fairness of an abstract specification is checked only.

- `TrainCache`: the model table (`future`) and the CDF table (`cdf`) each
  implement `SingleFlight` with failures kept and nothing evicted: failed
  training is never retried.  The abstract fairness, every claim is resolved,
  follows from the workers' fairness.
- `EvalCache`: both tables implement `SingleFlight` with eviction and with
  retry after a failure.
- `ParallelRuntime` implements `ForkJoin`: a caller's open operation, the tasks
  it forked (queued, held, done) and how often each ran.
- `CandidateScheduler` implements `CandidateBatch`, with its liveness: a
  slot of the metrics vector that was written is its verdict, a blank one has
  none, and the mark "deadline" gives many at once.

## 7. Proofs

Every theorem below holds for all values of the constants that the module's
assumptions admit.  Each has the form `Spec => []P`, or `Spec => A` for an action
property or a refinement, and is proved the same way: an invariant `IInv`, a
conjunction of named parts, is shown to hold initially and to be kept by each
action, and implies `P`.  None of the properties is inductive alone; what `IInv`
has to add says why the code is right.

**`TrainCacheProofs`**: any number of workers, keys, components, any limits.

| theorem | statement |
| --- | --- |
| `TypeCorrect` | types; trainings started never exceed the number of keys |
| `BudgetSafety` | the global and the context limit hold |
| `PromiseSafety` | an unresolved future has exactly one worker that owes it |
| `LaneSafety` | training is serial and the holder never blocks on a fit in flight |
| `ComponentSafety` | a base or order is built at most once |
| `SingleFlightSafety` | the model and the CDF table take only steps of `SingleFlight`: one builder at a time, an outcome is final |

`IInv` adds: `ILane`, a worker is at a training stage exactly when it holds the
lane; `IFit`, a fit in flight belongs to the lane's holder, which is why the wait
for a CDF inside the lane cannot block; `IBuilt`, a component has been built once
exactly if it is present or a worker is about to enter it, and whoever builds one
has found it absent and nobody has entered it since; `ICharge`, the number of trainings
started is the number of keys that have an entry, which is why a failed or repeated
request is not charged twice; and `ILimit`, which relates the counter to the context's
start.  `IBuilt` is where the lane is needed for the components: lookup and
insertion are two critical sections with an unlocked build between them, and only
the lane, held by the worker from before the first to after the second, keeps
another worker from looking the component up in between.  Without the lane TLC finds
two workers building one base.  The proof goes in four passes: `FlowStep` (types, lane,
fits), `BuildsStep` (components), `OwnershipStep` (promises) and `BudgetsStep` (limits),
one step per action.

**`SelectorProofs`**, the coordinator: every budget, reserve, plan of contexts and
stagnation limit.

| theorem | statement |
| --- | --- |
| `TypeCorrect` | types, with the loop's counters within the plan |
| `SlotsForLaterContexts` | a search that starts with a training per context keeps one for each context still to come |
| `ContextsClosed` | each exit from a context closes it, and exactly once |
| `HonestReason` | the reported `stopped_reason` agrees with what the search did |

The invariant's parts are `ILoop` (the counters of the loop agree with the
stage), `IShare` (in an ample search, the limit of the open context leaves a
training to each of the others, and the context has not trained more than its
limit), and `IReason` (a plateau is reported only with the stagnation and the
recall target that define it; the two stops inside the loop are overridden after
it only by flags that really were raised).  The core is the lemma `FairShare`:
whatever the rounding, the reserve and the useful minimum do, the limit that
`fair_context_train_budget` computes leaves one training for each later context.

A context is left at eight places of `model_selector.cpp`, each with a call of
`finish_context_stats`.  Each of the seven that can be reached is an action, which
calls `FinishContextStats` or, as a mutant does, not; `ContextsClosed` follows from all of
them.  The eighth (line 787, phase 1 has valid candidates and promotes none) cannot be
reached: what is valid (`selector_search.cpp:377`) and what is promoted
(`selector_scoring.cpp:288`) is selected by the same flag, and the options admit no
promotion of zero candidates (`selector_options.cpp:792`).

**`SelectorProofs`**, the scheduler: every batch, pool and deadline, any states of the
training cache.

| theorem | statement |
| --- | --- |
| `SlotsAreOwned` | no two threads have one candidate, and none starts on one that has its verdict |
| `StreamsAreSingle` | under single admission a fresh training runs alone or next to candidates that are ready |
| `BatchKeepsItsPromise` | the refinement: one verdict per candidate, never replaced, all given when the call returns |

The invariant `IBatch` is about who has which candidate.  `Shared` says that each one
without a verdict is in exactly one place (what Main or Fresh has yet to hand out, the
list Main kept for later, a busy thread) and that one with a verdict is in none.  Every
step moves candidates between places, and four lemmas say so: one is taken
(`SharedTake`), gets its verdict (`SharedDeliver`), is marked with all that its caller
will not hand out (`SharedMark`), or comes back with the list kept (`SharedSwap`).
What the join marks is right because of `IPool`: workers that are all off have either
used up the list or seen the deadline pass, and as each of them may take one position
behind the end, the shared position stays within the list's length plus the pool's.
`IStreams` says which states of the cache each list holds: with Fresh at work only ready
candidates are Main's, and with a pool none is missing.

**`EvalCacheProofs`**: any number of threads and entries, any sizes and budgets.

| theorem | statement |
| --- | --- |
| `WaitersAreServed` | whoever waits, waits on a promise that its builder still owes |
| `BytesAreExact` | the byte counters are the sums of the accounted entries, by table and tier |
| `BudgetIsKept` | with no enforcement pending, the sampled tier is within its budget or down to the one entry its builder protects |
| `SingleFlightSafety` | both tables take only steps of the evicting `SingleFlight` |

A waiter holds the future that was in the table when it looked, and the table
forgets.  So the invariant says whose promise every future is, evicted or not:
`IBuilders` (what is being built is in flight under its builder's promise, also
through the nearest entry nested in a rank entry), `IBehind` (the converse,
with the gap between accounting and `set_value`), `IFlow` (how the two levels nest)
and `IWaiters`.  For the bytes, `IAccount` says that every counter is the sum over
the entries accounted; an eviction subtracts what one accounting added, because the
entry's tier and size are fixed while it is there.  `IBudget` says what an enforcement
that is over has left.

**`RmModelProofs`, the parallel runtime**: any number of tasks, pool threads, tasks in flight.

| theorem | statement |
| --- | --- |
| `RuntimeInvariant` | types and the whole invariant |
| `CountersAreExact` | the counters callers wait on equal their tasks queued or running; a stopped pool has no operation open |
| `NoTaskLeftBehind` | no task outlives the stack frame of its operation |
| `RuntimeImplementsForkJoin` | the refinement: every task runs exactly once, before its operation returns |

The counters are compared with the numbers of tasks queued and held, so the
invariant says that no task is in two places (`IPlaces`), that identifiers are fresh
(`IForked`), and how often each task has run at each place (`IRuns`); `ICounters`
has the caller's own unit while it still enqueues; `IStop` keeps replacement of
the pool away from open operations.  That the main and the helper thread, the only ones
that open operations, are no workers is part of the model (section 8) and used.

**`RmModelProofs`, the trained model**: any rows, keys, leaves and routing, every leaf
model, cache lines of any size.

| theorem | statement |
| --- | --- |
| `RowsAreTrainedByTheirLeaf` | in every interleaving of the halves no leaf is trained twice or left out, and a row is in the data of the leaf that answers it |
| `LeafErrorCoversLookups` | a leaf's error covers the search for every key of the data, and with a monotone routing for every key up to the last |
| `ReplacedLeavesAreExact` | a replaced empty leaf predicts the lower bound of every key it is asked for |
| `SplineLookupsFindLine` | a lookup over a spline ends on the cache line of the key's first row |
| `IndexTypeCorrect` | types and bounds |

The invariant `IIndex` has six parts.  `IInput` is what `train` is given.  `ISearch`
is the binary search for the split: what the probes showed of the rows outside the
interval.  `IBuild` describes the two calls (`CallsOk`): together they have all leaves
and rows and no leaf twice (`Tiled`); a call has trained the leaves below the one it is
at and no other (`CallOk`); its rows are aimed at the leaf that lookups use, although
it clamps to its own last leaf and lookups to the last of all (`CallRouted`).  That the
split makes this so is `SplitCalls`; that a step of one call leaves the other's
alone is `OneCallMoves`.  Under a router that is not monotone `CallRouted` is not
invariant, and is not claimed.

`IPartition` does the same for several layers, without monotony.  Training
(`predict_to_int`, then the least of it and the last bucket) and lookups
(`predict_leaf_index`, which clamps the prediction before it is cut to an integer)
compute the model of the next layer in two ways; `RoutingsAgree` says that they agree
wherever training does not refuse the row, for models that check their bounds and
models that do not.  So every row dealt so far is in the data of the model that lookups
of its key go through at that layer (`Here`, `There`), and, when the last layer is
dealt, of the leaf that answers it (`LeavesDealt`), whose index is in bounds.

`ICorrect` is the pass of `LowerBoundCorrection`: each leaf's first and last row so
far, the run in progress, and that every run but that one is in the longest of
its leaf.  `LeafErrorCoversLookups` then needs no further step of the system.  A key
that is not in the data lies in a gap between two rows (`Gap`).  If both are in the
leaf, the model is between its predictions for them, whose errors are among the
leaf's; the longest run makes up for the duplicates of the row below (`GapUpper`,
`GapLower`).  At an edge of the leaf the row is missing, and the terms at
`next_key` and `prev_key` take its place.  Above the last key there is no next row to
end the run: `AllQueriesBounded` fails there and the theorem stops there.

`SplineLookupsFindLine` adds the fit.  The points of the data are strictly increasing
and have one for the first row of every key (`PointsFacts`).  `FitOk`, by induction over the points
added, says that each point passed is interpolated on its line by a finished segment or by
the one in progress; the points still to be checked are all that lie on the latter, also
after a break, when only the new point is kept.  The error bound of the leaf puts
the right segment in the window that is searched (`SearchFinds`).  Points and fit are
recursive functions, whose value at n follows from that at n - 1 by `Recursion`; the
inductions are inductions over numbers, derived as below.

**`VortexTrainingProofs`**, with **`SetsAndLists`**: any number of centroids at any
places, any masses, width of a word and graph, any order, handed over or computed.

| theorem | statement |
| --- | --- |
| `ValidationNeverFails` | of `allocate_ranges` alone: the ranges are contiguous and fill the space, the check at its end never throws |
| `TrainingsValidate` | the same in every training, whose order may be computed |
| `FairShares` | a range is its centroid's share up to one value; a heavier centroid has no smaller range |
| `HashesInOrder` | hashes keep the order of the centroids and of the fractions in a range, and belong to one range |
| `BothPathsAgree` | the 64-bit path of `hash` agrees with the 256-bit path in a space of one word |
| `OrderIsComplete` | a computed order has each centroid at exactly one place, and is the order that `allocate_ranges` gets; no training with one fails, and none is rejected but for its masses: all zero, or too large |
| `OrderIsImproved` | every exchange shortens the walk, none that would is missed, the cut leaves out a longest leg |

For the ranges the invariant follows the loops: `ITotal` (the prefix sum), `IQuota`
(quotient and remainder of those done), `IShare` (who got a value left over), `IExtra`
(what the ranges lack to fill the space is exactly what is still to be given, and
never more than the remainders) and `IPlace` (the cursor is the sum of the sizes
placed).  Each stage must also show that UInt256 did not wrap, or that
it wrapped where the code means it to: a range that is the whole of 2^256.

For the order, `ITree` says that every centroid in the tree but the first hangs on
one edge, from a centroid of smaller depth; the depth is a witness that the proof
builds as the tree grows, also for centroids that no edge of the graph leads to and
that are attached afterwards.  `IWalk` says that a centroid is on the stack or walked
as soon as the one it hangs on is walked, and never twice.  When the stack is empty
and a centroid were left, one of the least depth would hang on a walked one: so all
are walked, and as none is twice, the walk has K of them (`ICycle`), each at exactly
one place (`AllOnce`).

`OrderIsImproved` needs no more than that the costs are symmetric natural numbers,
which they are although the affinities come from rows cut and scaled apart
(`SameBothWays`, `Costs`).  Turning a part of the walk around permutes the legs inside
it and exchanges two (`TurnCost`, by `SumPermuted`), so the gain that
`two_opt_refine_cycle` computes from four costs is what the whole walk gets shorter
by (`ExchangeGain`).  The code tries only pairs of edges that do not touch: the parts
they do not reach are the same part seen from its other side (`FirstPartGain`) or
leave the length as it is (`AllButOne`, `ReversedCost`).

`SetsAndLists` proves what the sums need: that they exist and do not depend on the
order, adding one element, monotony, bounds.  `MapThenSumSet` is a recursion over a
set, so the lemmas are inductions on cardinality; as the theorem of induction over
numbers takes an operator and cannot be used, `NatSets` derives induction for
*sets* of numbers from the well-foundedness of `<`.

**`CodegenCacheProofs`**: any number of loaders, directories, versions, deaths.

| theorem | statement |
| --- | --- |
| `CacheIsHonest` | an entry of the shared cache is a whole library of the version in its fingerprint |
| `LoadsDoSucceed` | a load fails only in a directory in which an earlier load died |
| `LoadsAreCurrent` | unless an older version is emitted again, a load opens the library of the code it fingerprinted |

The loader knows libraries by modification times only.  `ITimes` says what is
newer than the inputs was made of them; `IStage` says what a loader may count on at
each stage, and that a torn library will be linked again before anybody stores
it; `IClean` says the same more sharply for directories where nobody died.
`IMarked` relates the marker to the library and is kept only under `~Rollback`:
the hypothesis of `LoadsAreCurrent` is necessary, as the run `codegen_rollback` shows.

**`LeadArtifactsProofs`**: any number of loaders, loads, deaths, any options, words of
any width.

| theorem | statement |
| --- | --- |
| `FilesAgree` | a published, loadable lead.json vouches for files of its own training |
| `HashesAgree` | until a retraining in place, a hash uses the code, data, mapping and calibration of one training |
| `RefusalsJustified` | until a retraining in place, a load that got past lead.json is refused only at a torn library |
| `HashesKeepOrder` | the word arithmetic gives the hash of unbounded integers, in the scaled range, growing with the prediction; its leading words are its most significant bits; the hash of an index grows with the index |

That the files are all of one training follows from the number of writes left
(`IPlan`, `IProgress`); that nobody builds from half-written sources follows from
lead.json being absent until the end (`IUnpublished`); that a loader mixes nothing from what
it holds at each stage (`ILoaders`).

`HashesKeepOrder` needs little of the state: that a Hasher that finished its load has
a mapping, and that a calibration in use has an extent (`IHasher`).  The rest says what
each loop over words computes, as a number: a shift is a division (`ShiftWords`,
`ShiftFacts`), a carry is never more than the factor, so that five words hold the
product (`MulWords`) and four do when it fits (`MulInRange`), the digits of a quotient
are words because the remainder is below the divisor (`DivWords`), and masking takes
nothing from a value of so many bits (`MaskFacts`).  Each is an induction over the
words, written out from the top one down as Horner's rule does.  From these follow the
scaled range on both paths (`RangeWords`), the hash (`HashWords`) and the scale of an
index (`MapWords`); they grow because a quotient grows with its dividend (`Share`).
The provers know no law of `^` with a variable exponent, so the model computes 2^n by
doubling (`PowerOf2`), and `Powers` and `PowersAdd` prove the laws.

*Assumptions.*  Those of the modules: keys, entries and pools are finite; limits are
natural numbers; `NearestOf` maps rank to nearest entries; thread names differ from
the values they share a variable with; a word has more than one value, a space fits
256 bits, and a sum of masses that `checked_total_mass` lets through is below 2^256
(the code bounds it by 2^64 - 1); a training of LEAD or of Vortex has well-typed
options, and centroids have integer coordinates; the predictions of a LEAD model are
multiples of 1 / `Grain`.  TLC evaluates each of them in a run of its module.

*Model-checked only.*  Every liveness property, and the fairness in the refinements
of `SingleFlight` and `CandidateBatch`: fairness and `ENABLED` are outside
the prover's reach.  No proof takes anything from a run on trust.


## 8. Abstractions, and what is not modelled

- *TrainCache.*  Training stages are steps that succeed or fail; memory
  estimates and timings are left out.
- *EvalCache.*  The victim among evictable entries is any of them: the code
  ranks them by hits, age and size, and no property depends on it.
- *ParallelRuntime.*  `set_thread_count` runs between operations: no code of
  the repository calls it while another thread has one open.  Tasks do not throw.
- *CandidateScheduler.*  The guards' time and memory estimates are whether they
  refuse; counters and logging are left out.
- *SelectorCoordinator.*  A batch, with the fits before it, is one step; scores have a few
  levels; rounds of the beam and of the refinement are bounded by one constant; the
  exit that cannot be reached (section 7), the threshold of improvement, the recall-best
  and phase-2 limits and 32-bit wrap in the fair budget are left out (see the hazards for
  what follows).
- *RangeAllocation.*  A CDF's value is any 64-bit fraction; the routing to a
  centroid, in floating point, is any active centroid.
- *CentroidOrder.*  Centroids are points of the plane with integer coordinates, so
  that distances and costs are exact; the search for near centroids breaks ties in
  any way.  The order is computed anew or handed over; where the code caches it
  is TrainCache.
- *CodegenCache.*  A directory is emitted into, built by hand or removed only while no
  loader works in it, and one loader works in it at a time (nothing locks it in
  the code, and no document allows it otherwise).  Writes have distinct times.  The build
  tool behaves like make and writes the library in place.  Emission is atomic.
- *LearnedIndex.*  The fitted leaf models are monotone functions whose predictions
  go up to one past the number of rows (errors and lookups clamp larger ones alike); the top
  models are those of section 3; a replaced empty leaf is constant; one leaf is observed at a time
  (the errors of different leaves do not depend on each other); a model whose
  predictions are in range is treated as needing no bounds check, which is
  stricter than the code; lookups clamp to the last row.

- *LearnedIndex, several layers.*  There are two upper layers, of one branching factor;
  deeper stacks deal rows out in the same loop.  Upper models are arbitrary functions from
  keys to halves of an index, enough to tell a cut from a rounding and a clamp
  before it from one after; one that skips the bounds check does not go below 0 at the
  keys of the data, where the code would convert a negative double to unsigned.  The limit on
  leaf models is the one `train_multi_layer` has.
- *CacheFix.*  The interpolation is in integers; the fit and the lookup, which
  round alike in the code, do so here.
- *LeadArtifacts.*  One training runs at a time; the compiler and the linker are external: they read the
  sources at once and write the library in place.  Predictions are rationals.  What a
  *re*training into a directory that has a library does to loads is left
  open (`retrained`): no document says, and the loader keeps the old library.

Not modelled: components that are sequential, deterministic and compute a
result without intermediate states worth a property (candidate generation,
reports, emission of text, option parsing, JSON); floating-point numerics
(k-means, fitting, scoring, search in a graph), which TLA+ and its tools do not
handle; file formats; scripts.  Most of the repository's lines are the vendored
faiss, which is third-party code and enters only as calls that succeed or
fail; of the rest a good half is reports, options, tools and tests.  What carries state,
concurrency, failure or exact arithmetic is in the table of section 1 and
modelled, so the modelled lines are a small share of all.

## 9. Plan

The order was: the training cache first, since every training of a search goes
through it and its hazards are the worst to test; then the evaluation caches,
the pool, the scheduler and the coordinator that use them; then placement, the
codegen loader and the learned index; then the trainer's other forms, LEAD and the
centroid order.  These are written and checked, and their safety is proved.  To extend
them, if more is wanted: a composition of CandidateScheduler with TrainCache in place of
the scheduler's abstract cache states; the pruned search of the emitted centroid index
against the full scan of `CentroidRouter`.
