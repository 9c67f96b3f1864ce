------------------------- MODULE CandidateScheduler -------------------------
(***************************************************************************)
(* One call of evaluate_candidates: the batch is partitioned by what the   *)
(* training cache holds, and its lists are evaluated by the calling        *)
(* thread, by a pool of workers that share an atomic position, or by both  *)
(* the pool and one thread that trains the missing models.                 *)
(*                                                                         *)
(* evaluate_candidate is two steps: the guards it consults first, and the  *)
(* training and evaluation they let through (the modules TrainCache and    *)
(* EvalCache).  A clock reading is part of the step that uses it.          *)
(***************************************************************************)
EXTENDS Naturals, FiniteSets, SequencesExt

CONSTANTS
  MaxBatch,     \* the longest batch
  MaxPool,      \* the most workers a resource plan may ask for
  WithDeadline, \* does the search controller have a deadline?
  Main,         \* the thread that calls evaluate_candidates
  Fresh         \* missing_worker, the thread for candidates with no model

ASSUME SchedulerAssumption ==
  /\ MaxBatch \in Nat
  /\ MaxPool \in Nat \ {0}
  /\ WithDeadline \in BOOLEAN
  /\ Main # Fresh
  /\ {Main, Fresh} \cap Nat = {}

VARIABLES
  size,      \* candidates.size()
  explicit,  \* options.selector_parallelism > 0
  model,     \* what the training cache holds for each candidate
  observed,  \* the same, as partition_candidate_cache_states saw it
  admission, \* single_admission_batch
  deadline_passed,
  metrics,   \* the result slot of each candidate
  later,     \* the missing list, while Main keeps it for itself
  list,      \* the index list each calling thread evaluates
  width,     \* parallelism of Main's list
  next,      \* its position in it; the pool's next_position
  stop,      \* the pool's stop flag
  stage,     \* where each thread is
  cand       \* the candidate it evaluates

batch   == <<size, explicit, observed, admission>>
queues  == <<later, list, width, next, stop>>
threads == <<stage, cand>>
schedulerVars == <<batch, model, deadline_passed, metrics, queues, threads>>

Pool      == 1 .. MaxPool
Caller    == {Main, Fresh}
Thread    == Caller \cup Pool
Candidate == 1 .. size

CacheState == {"ready", "in_flight", "missing"}
Slot       == {"blank", "ok", "failed", "skipped", "late", "guarded"}
Running    == {"guards", "evaluate"}
ThreadStage == {"off", "entry", "plan", "list", "seq", "join", "await",
                "returned", "check", "take"} \cup Running

IndexList == UNION {[1 .. m -> Candidate] : m \in 0 .. size}

\* Every variable stays in the range its C++ counterpart can take.
SchedulerTypeOK ==
  /\ size \in 0 .. MaxBatch
  /\ explicit \in BOOLEAN
  /\ admission \in BOOLEAN
  /\ deadline_passed \in BOOLEAN
  /\ stop \in BOOLEAN
  /\ model \in [Candidate -> CacheState]
  /\ observed \in [Candidate -> CacheState]
  /\ metrics \in [Candidate -> Slot]
  /\ later \in IndexList
  /\ list \in [Caller -> IndexList]
  /\ width \in 1 .. MaxPool
  /\ next \in [Caller -> 0 .. MaxBatch + MaxPool]
  /\ stage \in [Thread -> ThreadStage]
  /\ cand \in [Thread -> 0 .. size]

\* A candidate's model may be cached by an earlier batch, in training for
\* another user of the cache, or missing.
SchedulerInit ==
  /\ size \in 0 .. MaxBatch
  /\ explicit \in BOOLEAN
  /\ model \in [Candidate -> CacheState]
  /\ observed = model
  /\ admission = FALSE
  /\ deadline_passed = FALSE
  /\ metrics = [i \in Candidate |-> "blank"]
  /\ later = <<>>
  /\ list = [c \in Caller |-> <<>>]
  /\ width = 1
  /\ next = [c \in Caller |-> 0]
  /\ stop = FALSE
  /\ stage = [t \in Thread |-> IF t = Main THEN "entry" ELSE "off"]
  /\ cand = [t \in Thread |-> 0]

-----------------------------------------------------------------------------
DeadlinePasses ==
  /\ WithDeadline
  /\ ~deadline_passed
  /\ stage[Main] # "returned"
  /\ deadline_passed' = TRUE
  /\ UNCHANGED <<batch, model, metrics, queues, threads>>

\* A model in training elsewhere becomes ready.
InFlightReady(i) ==
  /\ model[i] = "in_flight"
  /\ stage[Main] # "returned"
  /\ model' = [model EXCEPT ![i] = "ready"]
  /\ UNCHANGED <<batch, deadline_passed, metrics, queues, threads>>

\* mark_time_budget and mark_time_budget_indices: ok is cleared, and an
\* error that is already there is kept.
Mark(S) ==
  metrics' = [i \in Candidate |->
                IF i \in S /\ metrics[i] \in {"blank", "ok"}
                THEN "late" ELSE metrics[i]]

\* The candidates of an index list from a zero-based position on.
From(s, pos) == {s[j] : j \in pos + 1 .. Len(s)}

-----------------------------------------------------------------------------
(* The calling thread.                                                     *)

Enter ==
  /\ stage[Main] = "entry"
  /\ IF deadline_passed
       THEN /\ Mark(Candidate)
            /\ stage' = [stage EXCEPT ![Main] = "await"]
       ELSE /\ stage' = [stage EXCEPT ![Main] = "plan"]
            /\ UNCHANGED metrics
  /\ UNCHANGED <<batch, model, deadline_passed, queues, cand>>

InState(state) == {i \in Candidate : model[i] = state}

Ascending(S) ==
  {s \in SetToSeqs(S) : \A p, q \in DOMAIN s : p < q => s[p] < s[q]}

\* A pool of width workers starts; its creator waits for it in join.
Spawn == [t \in Thread |-> CASE t \in 1 .. width' -> "check"
                             [] t = Main          -> "join"
                             [] OTHER             -> stage[t]]

\* compute_eval_resource_plan: as many workers as the hardware, the memory
\* budget and the options allow, but no more than candidates and at least one.
Widths(count) == {w \in 1 .. MaxPool : w = 1 \/ w <= count}

\* Without single admission all candidates are one list; its pool starts with
\* no further look at the clock.
PlanPlain ==
  /\ list' = [list EXCEPT ![Main] = [i \in Candidate |-> i]]
  /\ width' \in Widths(size)
  /\ stage' = IF width' > 1 THEN Spawn ELSE [stage EXCEPT ![Main] = "list"]
  /\ UNCHANGED later

\* Mutant: training in flight is not looked at.
CanOverlapInFlight(cached, missing) == cached # <<>> /\ missing # <<>>

\* Training of the missing models overlaps the cached evaluations only if
\* no training is under way for one of those.
CanOverlap(cached, missing) ==
  cached # <<>> /\ missing # <<>> /\ InState("in_flight") = {}

\* Mutant: evaluate_missing also runs after missing_worker is joined.
PlanSingleTwice ==
  \E ready \in Ascending(InState("ready")), waiting \in Ascending(InState("in_flight")),
     missing \in SetToSeqs(InState("missing")) :
       LET cached  == ready \o waiting
           overlap == CanOverlap(cached, missing)
       IN /\ list' = [list EXCEPT ![Main] = cached,
                        ![Fresh] = IF overlap THEN missing ELSE <<>>]
          /\ later' = missing
          /\ width' \in Widths(Len(cached))
          /\ stage' = [stage EXCEPT ![Main] = "list",
                      ![Fresh] = IF overlap THEN "list" ELSE "off"]

\* The missing list is stably sorted by how many shared components each
\* candidate would reuse, here any order.
PlanSingle ==
  \E ready \in Ascending(InState("ready")), waiting \in Ascending(InState("in_flight")),
     missing \in SetToSeqs(InState("missing")) :
       LET cached  == ready \o waiting
           overlap == CanOverlap(cached, missing)
       IN /\ list' = [list EXCEPT ![Main] = cached,
                        ![Fresh] = IF overlap THEN missing ELSE <<>>]
          /\ later' = IF overlap THEN <<>> ELSE missing
          /\ width' \in Widths(Len(cached))
          /\ stage' = [stage EXCEPT ![Main] = "list",
                      ![Fresh] = IF overlap THEN "list" ELSE "off"]

Plan ==
  /\ stage[Main] = "plan"
  /\ observed' = model
  /\ admission' = (~explicit /\ InState("missing") # {} /\ size > 1)
  /\ IF admission' THEN PlanSingle ELSE PlanPlain
  /\ UNCHANGED <<size, explicit, model, deadline_passed, metrics, next, stop, cand>>

-----------------------------------------------------------------------------
(* evaluate_index_list, by a calling thread.  Main goes on to the missing  *)
(* list if it kept it, and otherwise joins missing_worker.                 *)

ListEnds(c) ==
  IF c = Main /\ later # <<>>
    THEN /\ list' = [list EXCEPT ![Main] = later]
         /\ next' = [next EXCEPT ![Main] = 0]
         /\ width' = 1
         /\ later' = <<>>
         /\ stop' = FALSE
         /\ stage' = [stage EXCEPT ![Main] = "list"]
    ELSE /\ stage' = [stage EXCEPT ![c] = IF c = Main THEN "await" ELSE "returned"]
         /\ UNCHANGED queues

EnterList(c) ==
  /\ stage[c] = "list"
  /\ \/ /\ list[c] = <<>>
        /\ ListEnds(c)
        /\ UNCHANGED metrics
     \/ /\ list[c] # <<>>
        /\ deadline_passed
        /\ Mark(From(list[c], 0))
        /\ ListEnds(c)
     \/ /\ list[c] # <<>>
        /\ ~deadline_passed
        /\ UNCHANGED <<queues, metrics>>
        /\ stage' = IF c = Main /\ width > 1 /\ Len(list[c]) > 1
                   THEN Spawn ELSE [stage EXCEPT ![c] = "seq"]
  /\ UNCHANGED <<batch, model, deadline_passed, cand>>

\* The sequential loop: one look at the clock before each candidate.
SeqStep(c) ==
  /\ stage[c] = "seq"
  /\ \/ /\ next[c] = Len(list[c])
        /\ ListEnds(c)
        /\ UNCHANGED <<metrics, cand>>
     \/ /\ next[c] < Len(list[c])
        /\ deadline_passed
        /\ Mark(From(list[c], next[c]))
        /\ ListEnds(c)
        /\ UNCHANGED cand
     \/ /\ next[c] < Len(list[c])
        /\ ~deadline_passed
        /\ cand' = [cand EXCEPT ![c] = list[c][next[c] + 1]]
        /\ next' = [next EXCEPT ![c] = @ + 1]
        /\ stage' = [stage EXCEPT ![c] = "guards"]
        /\ UNCHANGED <<later, list, width, stop, metrics>>
  /\ UNCHANGED <<batch, model, deadline_passed>>

\* Mutant: nothing is marked after the join.
JoinPoolUnmarked ==
  /\ stage[Main] = "join"
  /\ \A w \in Pool : stage[w] = "off"
  /\ UNCHANGED metrics
  /\ ListEnds(Main)
  /\ UNCHANGED <<batch, model, deadline_passed, cand>>

\* After the join, candidates no worker took are marked.
JoinPool ==
  /\ stage[Main] = "join"
  /\ \A w \in Pool : stage[w] = "off"
  /\ IF deadline_passed THEN Mark(From(list[Main], next[Main])) ELSE UNCHANGED metrics
  /\ ListEnds(Main)
  /\ UNCHANGED <<batch, model, deadline_passed, cand>>

Return ==
  /\ stage[Main] = "await"
  /\ stage[Fresh] \in {"off", "returned"}
  /\ stage' = [stage EXCEPT ![Main] = "returned"]
  /\ UNCHANGED <<batch, model, deadline_passed, metrics, queues, cand>>

-----------------------------------------------------------------------------
(* A pool worker: look at stop and at the clock, take a position.          *)

Check(w) ==
  /\ stage[w] = "check"
  /\ stop' = (stop \/ deadline_passed)
  /\ stage' = [stage EXCEPT ![w] = IF stop' THEN "off" ELSE "take"]
  /\ UNCHANGED <<batch, model, deadline_passed, metrics, later, list, width, next, cand>>

Take(w) ==
  /\ stage[w] = "take"
  /\ next' = [next EXCEPT ![Main] = @ + 1]
  /\ IF next[Main] < Len(list[Main])
       THEN /\ cand' = [cand EXCEPT ![w] = list[Main][next[Main] + 1]]
            /\ stage' = [stage EXCEPT ![w] = "guards"]
       ELSE /\ stage' = [stage EXCEPT ![w] = "off"]
            /\ UNCHANGED cand
  /\ UNCHANGED <<batch, model, deadline_passed, metrics, later, list, width, stop>>

-----------------------------------------------------------------------------
(* evaluate_candidate, by a caller or a worker.                            *)

Deliver(t, slot) ==
  /\ metrics' = [metrics EXCEPT ![cand[t]] = slot]
  /\ cand' = [cand EXCEPT ![t] = 0]
  /\ stage' = [stage EXCEPT ![t] = IF t \in Pool THEN "check" ELSE "seq"]

\* The progressive-K guard refuses only a candidate with no model; the
\* remaining-time guard may refuse any, by how long the work should take.
Refuse(t) ==
  /\ stage[t] = "guards"
  /\ \/ model[cand[t]] = "missing" /\ Deliver(t, "skipped")
     \/ deadline_passed /\ Deliver(t, "late")
     \/ WithDeadline /\ Deliver(t, "guarded")
  /\ UNCHANGED <<batch, model, deadline_passed, queues>>

Launch(t) ==
  /\ stage[t] = "guards"
  /\ ~deadline_passed
  /\ stage' = [stage EXCEPT ![t] = "evaluate"]
  /\ UNCHANGED <<batch, model, deadline_passed, metrics, queues, cand>>

\* Training and evaluation return metrics, or throw and leave the error.
EvaluateCandidate(t) ==
  /\ stage[t] = "evaluate"
  /\ \/ /\ Deliver(t, "ok")
        /\ model' = [model EXCEPT ![cand[t]] = "ready"]
     \/ /\ Deliver(t, "failed")
        /\ UNCHANGED model
  /\ UNCHANGED <<batch, deadline_passed, queues>>

-----------------------------------------------------------------------------
Done == stage[Main] = "returned" /\ UNCHANGED schedulerVars

CallerStep(c) == EnterList(c) \/ SeqStep(c)
WorkerStep(w) == Check(w) \/ Take(w)
CandidateStep(t) == Refuse(t) \/ Launch(t) \/ EvaluateCandidate(t)

SchedulerNext ==
  \/ DeadlinePasses
  \/ \E i \in Candidate : InFlightReady(i)
  \/ Enter \/ Plan \/ JoinPool \/ Return
  \/ \E c \in Caller : CallerStep(c)
  \/ \E w \in Pool : WorkerStep(w)
  \/ \E t \in Thread : CandidateStep(t)
  \/ Done

\* Every thread is scheduled, and an evaluation ends.
SchedulerFairness ==
  /\ WF_schedulerVars(Enter \/ Plan \/ JoinPool \/ Return)
  /\ \A t \in Thread : WF_schedulerVars(CandidateStep(t))
  /\ \A c \in Caller : WF_schedulerVars(CallerStep(c))
  /\ \A w \in Pool : WF_schedulerVars(WorkerStep(w))

SchedulerSpec == SchedulerInit /\ [][SchedulerNext]_schedulerVars /\ SchedulerFairness

-----------------------------------------------------------------------------
(* Properties.                                                             *)

Busy(t) == stage[t] \in Running

\* No two threads ever write the same metrics slot, and none starts on a
\* candidate that already has its verdict: the pool's atomic position and
\* the disjoint index lists are the only synchronisation of that array.
NoSlotContended ==
  /\ SchedulerTypeOK
  /\ \A t \in Thread :
      Busy(t) =>
        /\ metrics[cand[t]] = "blank"
        /\ \A u \in Thread \ {t} : Busy(u) => cand[u] # cand[t]

\* Under single admission a fresh training stream runs alone or next to
\* candidates whose models are ready, never next to another fresh one or to
\* one that waits for a training in flight ("would simply recreate lane wait").
SingleFreshStream ==
  admission =>
    \A t, u \in Thread :
      t # u /\ Busy(t) /\ Busy(u) /\ observed[cand[t]] = "missing"
        => observed[cand[u]] = "ready"

\* The call implements CandidateBatch: one verdict per candidate, never
\* replaced, all given when it returns, and it returns.
Verdict == [i \in Candidate |->
              CASE metrics[i] = "blank" -> "blank"
                [] metrics[i] = "ok"    -> "metrics"
                [] OTHER                -> "error"]

Promise == INSTANCE CandidateBatch
             WITH Candidate <- 1 .. MaxBatch,
                  verdict <- Verdict,
                  returned <- stage[Main] = "returned"

BatchImplemented == Promise!BatchSpec
=============================================================================
