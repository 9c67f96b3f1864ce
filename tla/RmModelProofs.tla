---------------------------- MODULE RmModelProofs ----------------------------
(***************************************************************************)
(* Two parts of rm_model, for any number of tasks, threads, rows, leaves   *)
(* and keys: the parallel runtime, and what a trained model promises.      *)
(***************************************************************************)
EXTENDS ParallelRuntime, LearnedIndex, SetsAndLists

(***************************************************************************)
(* The parallel runtime.  Every task of every operation runs exactly once  *)
(* and before its operation returns; the counters that callers wait on are *)
(* exact, and no task outlives the stack frame it refers to.               *)
(*                                                                         *)
(* The counters of CountersExact are cardinalities of sets of identifiers, *)
(* so the invariant must say that no task is in two places (IPlaces), that *)
(* identifiers are fresh (IForked), where each task stands (IRuns), and    *)
(* which stages an open operation can be in (IStage).                      *)
(***************************************************************************)

\* An operation is open from its first stage to its last.
IStage ==
  /\ \A t \in Thread : op[t] = "none" <=> stage[t] \in {"idle", "resize"}
  /\ \A w \in Worker : op[w] = "none"
  /\ \A t \in Thread : stage[t] \in {"enqueue", "full"} =>
       op[t] \in Group /\ Cardinality(forked[t]) < planned[t]
  /\ \A t \in Thread : stage[t] \in {"join", "asleep"} =>
       Cardinality(forked[t]) = planned[t]

\* Tasks are numbered as they are forked, and no more are than planned.
IForked ==
  \A t \in Thread : /\ Cardinality(forked[t]) \in 0 .. planned[t]
                    /\ forked[t] = 1 .. Cardinality(forked[t])

\* A task is in one place: at one position of the queue or with one thread.
IPlaces ==
  /\ \A a, b \in DOMAIN queue : queue[a] = queue[b] => a = b
  /\ \A v, w \in Worker : job[v] = job[w] /\ job[v] # NoTask => v = w
  /\ \A a \in DOMAIN queue, w \in Worker : queue[a] # job[w]
  /\ \A w \in Worker : job[w] # NoTask <=> work[w] \in {"run", "ran"}

\* A task belongs to an open operation, which waits for it, and has run n times.
Owed(e, n) ==
  /\ op[e.owner] # "none"
  /\ e.id \in forked[e.owner]
  /\ runs[e.owner][e.id] = n

\* A task runs when a thread takes it, and only then.
IRuns ==
  /\ \A a \in DOMAIN queue : Owed(queue[a], 0)
  /\ \A w \in Worker : work[w] = "run" => Owed(job[w], 0)
  /\ \A w \in Worker : work[w] = "ran" => Owed(job[w], 1)
  /\ \A t \in Thread : op[t] # "none" => \A i \in forked[t] :
       i \notin Queued(t) \cup Held(t) => runs[t][i] = 1
  /\ \A t \in Thread : op[t] # "none" => \A i \in TaskId \ forked[t] : runs[t][i] = 0

Outstanding(t) == Cardinality(Queued(t)) + Cardinality(Held(t))

\* The counters of the open and the closed operations.
ICounters ==
  \A t \in Thread :
    IF op[t] = "for"
      THEN /\ remaining[t] = Outstanding(t) + planned[t] - Cardinality(forked[t])
           /\ inflight[t] = 0
      ELSE /\ remaining[t] = Outstanding(t) + IF stage[t] = "enqueue" THEN 1 ELSE 0
           /\ inflight[t] = remaining[t]

\* The pool is stopped between operations, by the thread that opens them.
IStop ==
  /\ active = Cardinality({t \in Thread : op[t] # "none"})
  /\ stop => active = 0 /\ queue = <<>> /\ stage[Main] = "resize"

IInv == /\ TypeOK /\ IStage /\ IForked /\ IPlaces /\ IRuns /\ ICounters /\ IStop
-----------------------------------------------------------------------------
(* The places of the tasks.                                                *)

\* A task is its owner and its number.
LEMMA TaskOf ==
  \A e \in Task : /\ e.owner \in Thread /\ e.id \in TaskId
                  /\ e = [owner |-> e.owner, id |-> e.id]
  BY DEF Task

\* Where a task is, stated without the indices of the queue and of the threads.
LEMMA Members ==
  ASSUME TypeOK, NEW t \in Thread, NEW i
  PROVE  /\ i \in Queued(t) <=> \E a \in DOMAIN queue : queue[a] = [owner |-> t, id |-> i]
         /\ i \in Held(t) <=> /\ [owner |-> t, id |-> i] # NoTask
                              /\ \E w \in Worker : job[w] = [owner |-> t, id |-> i]
<1>1. \A a \in DOMAIN queue : queue[a] \in Task
  BY DEF TypeOK
<1>2. \A w \in Worker : job[w] # NoTask => job[w] \in Task
  BY DEF TypeOK
<1>3. i \in Queued(t) <=> \E a \in DOMAIN queue : queue[a].owner = t /\ queue[a].id = i
  BY DEF Queued
<1>4. i \in Held(t) <=>
          \E w \in Worker : job[w] # NoTask /\ job[w].owner = t /\ job[w].id = i
  BY DEF Held
<1>5. \A e \in Task : e = [owner |-> t, id |-> i] <=> e.owner = t /\ e.id = i
  BY TaskOf
<1>6. i \in Queued(t) <=> \E a \in DOMAIN queue : queue[a] = [owner |-> t, id |-> i]
  BY <1>1, <1>3, <1>5
<1>7. i \in Held(t) <=>
          \E w \in Worker : job[w] # NoTask /\ job[w] = [owner |-> t, id |-> i]
  BY <1>2, <1>4, <1>5
<1>. QED
  BY <1>6, <1>7

\* The sets of CountersExact are finite, disjoint, and parts of what was forked.
LEMMA PlacesFinite ==
  ASSUME IInv, NEW t \in Thread
  PROVE  /\ Queued(t) \in SUBSET forked[t] /\ Held(t) \in SUBSET forked[t]
         /\ Queued(t) \cap Held(t) = {}
         /\ IsFiniteSet(forked[t]) /\ IsFiniteSet(Queued(t)) /\ IsFiniteSet(Held(t))
         /\ Cardinality(Queued(t)) \in Nat /\ Cardinality(Held(t)) \in Nat
         /\ Outstanding(t) \in Nat /\ Outstanding(t) <= Cardinality(forked[t])
         /\ Outstanding(t) = 0 => Queued(t) = {} /\ Held(t) = {}
         /\ op[t] = "none" => Queued(t) = {} /\ Held(t) = {}
<1>1. TypeOK /\ IPlaces /\ IRuns /\ IForked
  BY DEF IInv
<1>2. ASSUME NEW i \in Queued(t) PROVE i \in forked[t] /\ op[t] # "none"
  <2>1. PICK a \in DOMAIN queue : queue[a] = [owner |-> t, id |-> i]
    BY <1>1, <1>2, Members
  <2>2. Owed(queue[a], 0)
    BY <1>1, <2>1 DEF IRuns
  <2>. QED
    BY <2>1, <2>2 DEF Owed
<1>3. ASSUME NEW i \in Held(t) PROVE i \in forked[t] /\ op[t] # "none"
  <2>1. PICK w \in Worker : job[w] = [owner |-> t, id |-> i] /\ job[w] # NoTask
    BY <1>1, <1>3, Members
  <2>2. Owed(job[w], 0) \/ Owed(job[w], 1)
    BY <1>1, <2>1 DEF IRuns, IPlaces
  <2>. QED
    BY <2>1, <2>2 DEF Owed
<1>4. Queued(t) \cap Held(t) = {}
  <2>. SUFFICES ASSUME NEW i \in Queued(t), i \in Held(t) PROVE FALSE
    OBVIOUS
  <2>1. PICK a \in DOMAIN queue : queue[a] = [owner |-> t, id |-> i]
    BY <1>1, Members
  <2>2. PICK w \in Worker : job[w] = [owner |-> t, id |-> i]
    BY <1>1, Members
  <2>. QED
    BY <1>1, <2>1, <2>2 DEF IPlaces
<1>5. Queued(t) \in SUBSET forked[t] /\ Held(t) \in SUBSET forked[t]
  BY <1>2, <1>3
<1>6. IsFiniteSet(forked[t])
  <2>1. forked[t] \in SUBSET (1 .. MaxTasks) /\ IsFiniteSet(1 .. MaxTasks)
    BY <1>1, ConstantsAssumption, FS_Interval DEF TypeOK, TaskId
  <2>. QED
    BY <2>1, FS_Subset
<1>7. /\ IsFiniteSet(Queued(t)) /\ IsFiniteSet(Held(t))
      /\ Cardinality(Queued(t)) \in Nat /\ Cardinality(Held(t)) \in Nat
      /\ Cardinality(forked[t]) \in Nat
  BY <1>5, <1>6, FS_Subset, FS_CardinalityType
<1>8. Outstanding(t) = Cardinality(Queued(t) \cup Held(t))
  <2>1. /\ IsFiniteSet(Queued(t) \cup Held(t))
        /\ Cardinality(Queued(t) \cup Held(t)) = Cardinality(Queued(t)) + Cardinality(Held(t))
                                                   - Cardinality(Queued(t) \cap Held(t))
    BY <1>7, FS_Union
  <2>2. Cardinality(Queued(t) \cap Held(t)) = 0
    BY <1>4, FS_EmptySet
  <2>. QED
    BY <1>7, <2>1, <2>2 DEF Outstanding
<1>9. Outstanding(t) \in Nat /\ Outstanding(t) <= Cardinality(forked[t])
  <2>1. Queued(t) \cup Held(t) \in SUBSET forked[t]
    BY <1>5
  <2>2. Cardinality(Queued(t) \cup Held(t)) <= Cardinality(forked[t])
    BY <1>6, <2>1, FS_Subset
  <2>. QED
    BY <1>7, <1>8, <2>2 DEF Outstanding
<1>10. Outstanding(t) = 0 => Queued(t) = {} /\ Held(t) = {}
  <2>1. Outstanding(t) = 0 => Cardinality(Queued(t)) = 0 /\ Cardinality(Held(t)) = 0
    BY <1>7 DEF Outstanding
  <2>. QED
    BY <1>7, <2>1, FS_EmptySet
<1>11. op[t] = "none" => Queued(t) = {} /\ Held(t) = {}
  BY <1>2, <1>3
<1>. QED
  BY <1>4, <1>5, <1>6, <1>7, <1>9, <1>10, <1>11

\* The counters stay within the range of their types.
LEMMA CountersInRange ==
  ASSUME IInv, NEW t \in Thread
  PROVE  /\ stage[t] = "enqueue" => Cardinality(forked[t]) < planned[t]
         /\ remaining[t] \in Nat /\ planned[t] \in Nat /\ Cardinality(forked[t]) \in Nat
         /\ Cardinality(forked[t]) <= planned[t] /\ planned[t] <= MaxTasks
         /\ Outstanding(t) \in Nat
  BY PlacesFinite, ConstantsAssumption DEF IInv, TypeOK, IForked, IStage

\* The callers that fork are not pool threads.
LEMMA FiniteThreads ==
  IsFiniteSet(Thread) /\ Main \in Thread \ Worker /\ Helper \in Thread \ Worker
<1>1. IsFiniteSet({Main}) /\ {Main, Helper} = {Main} \cup {Helper}
  BY FS_Singleton
<1>2. IsFiniteSet({Main, Helper})
  BY <1>1, FS_AddElement
<1>. QED
  BY <1>2, ConstantsAssumption, FS_Union DEF Thread

\* While the pool is stopped no operation is open.
LEMMA OpenNotStopped ==
  ASSUME IInv, NEW t \in Thread, op[t] # "none"
  PROVE  ~stop
<1>. SUFFICES ASSUME stop PROVE FALSE
  OBVIOUS
<1>1. Cardinality({u \in Thread : op[u] # "none"}) = 0
  BY DEF IInv, IStop
<1>2. IsFiniteSet({u \in Thread : op[u] # "none"})
  BY FiniteThreads, FS_Subset
<1>. QED
  BY <1>1, <1>2, FS_EmptySet
-----------------------------------------------------------------------------
(* Steps that move no task.                                                *)

\* A step that neither moves nor runs a task leaves the tasks where they are.
LEMMA TasksStay ==
  ASSUME IInv, UNCHANGED <<op, planned, queue, job, forked, runs>>,
         \A w \in Worker : {work[w], work'[w]} \cap {"run", "ran"} # {} =>
              work'[w] = work[w]
  PROVE  /\ IForked' /\ IPlaces' /\ IRuns'
         /\ \A t \in Thread : Outstanding(t)' = Outstanding(t)
<1>1. TypeOK /\ IForked /\ IPlaces /\ IRuns
  BY DEF IInv
<1>2. IForked'
  BY <1>1 DEF IForked
<1>3. IPlaces'
  BY <1>1 DEF IPlaces
<1>4. ASSUME NEW t \in Thread
      PROVE  /\ Queued(t)' = Queued(t) /\ Held(t)' = Held(t)
             /\ Outstanding(t)' = Outstanding(t)
  BY DEF Queued, Held, Outstanding
<1>5. IRuns'
  <2>1. \A a \in DOMAIN queue : Owed(queue[a], 0)'
    BY <1>1 DEF IRuns, Owed
  <2>2. \A w \in Worker : work'[w] = "run" => Owed(job[w], 0)'
    BY <1>1 DEF IRuns, Owed
  <2>3. \A w \in Worker : work'[w] = "ran" => Owed(job[w], 1)'
    BY <1>1 DEF IRuns, Owed
  <2>4. ASSUME NEW t \in Thread
        PROVE  op'[t] # "none" =>
                 /\ \A i \in forked'[t] : i \notin Queued(t)' \cup Held(t)' =>
                         runs'[t][i] = 1
                 /\ \A i \in TaskId \ forked'[t] : runs'[t][i] = 0
    BY <1>1, <1>4 DEF IRuns
  <2>. QED
    BY <2>1, <2>2, <2>3, <2>4 DEF IRuns, Owed
<1>. QED
  BY <1>2, <1>3, <1>4, <1>5

\* Reserving a slot: the counters count the task before it is enqueued.
LEMMA ReserveIInv == ASSUME IInv, NEW t \in Thread, Reserve(t) PROVE IInv'
<1>1. /\ UNCHANGED <<op, planned, active, queue, stop, work, job, forked, runs>>
      /\ stage[t] = "fork" /\ Cardinality(forked[t]) < planned[t]
      /\ op[t] \in Group /\ inflight[t] < MaxInflight
      /\ inflight' = [inflight EXCEPT ![t] = @ + 1]
      /\ remaining' = [remaining EXCEPT ![t] = @ + 1]
      /\ stage' = [stage EXCEPT ![t] = "enqueue"]
  BY DEF Reserve, HasMore, Goto, pool
<1>2. TypeOK /\ IStage /\ IForked /\ ICounters /\ IStop
  BY DEF IInv
<1>3. IForked' /\ IPlaces' /\ IRuns' /\ \A u \in Thread : Outstanding(u)' = Outstanding(u)
  BY <1>1, TasksStay
<1>4. /\ Outstanding(t) <= Cardinality(forked[t]) /\ Outstanding(t) \in Nat
      /\ remaining[t] \in Nat /\ planned[t] \in Nat /\ Cardinality(forked[t]) \in Nat
      /\ planned[t] <= MaxTasks
  BY PlacesFinite, CountersInRange
<1>5. /\ remaining[t] = Outstanding(t) /\ inflight[t] = remaining[t]
  BY <1>1, <1>2, <1>4 DEF ICounters, Group
<1>6. TypeOK'
  <2>1. remaining[t] + 1 \in 0 .. MaxTasks /\ inflight[t] + 1 \in 0 .. MaxInflight
    BY <1>1, <1>4, <1>5, ConstantsAssumption
  <2>. QED
    BY <1>1, <1>2, <2>1 DEF TypeOK
<1>7. IStage'
  BY <1>1, <1>2 DEF IStage, TypeOK, Group
<1>8. ICounters'
  <2>1. ASSUME NEW u \in Thread
        PROVE  IF op'[u] = "for"
                 THEN /\ remaining'[u]
                             = Outstanding(u)' + planned'[u] - Cardinality(forked'[u])
                      /\ inflight'[u] = 0
                 ELSE /\ remaining'[u] = Outstanding(u)'
                                           + IF stage'[u] = "enqueue" THEN 1 ELSE 0
                      /\ inflight'[u] = remaining'[u]
    <3>1. CASE u = t
      BY <1>1, <1>2, <1>3, <1>4, <1>5, <3>1 DEF TypeOK, Group
    <3>2. CASE u # t
      BY <1>1, <1>2, <1>3, <3>2 DEF TypeOK, ICounters
    <3>. QED
      BY <3>1, <3>2
  <2>. QED
    BY <2>1 DEF ICounters
<1>9. IStop'
  BY <1>1, <1>2 DEF IStop, IStage, TypeOK
<1>. QED
  BY <1>3, <1>6, <1>7, <1>8, <1>9 DEF IInv

\* Steps of a caller from one stage to another, without a word to the pool.
LEMMA StageIInv ==
  ASSUME IInv, NEW t \in Thread, NEW s \in {"fork", "full", "join", "asleep"},
         UNCHANGED <<op, planned, inflight, remaining, active, queue, stop, job,
                     forked, runs>>,
         work' \in [Worker -> {"poll", "asleep", "run", "ran", "exited"}],
         \A w \in Worker : {work[w], work'[w]} \cap {"run", "ran"} # {} =>
              work'[w] = work[w],
         stage' = [stage EXCEPT ![t] = s], stage[t] \notin {"idle", "resize", "enqueue"},
         s = "full" => op[t] \in Group /\ Cardinality(forked[t]) < planned[t],
         s \in {"join", "asleep"} => Cardinality(forked[t]) = planned[t]
  PROVE  IInv'
<1>1. TypeOK /\ IStage /\ IForked /\ ICounters /\ IStop
  BY DEF IInv
<1>2. IForked' /\ IPlaces' /\ IRuns' /\ \A u \in Thread : Outstanding(u)' = Outstanding(u)
  BY TasksStay
<1>3. TypeOK'
  BY <1>1 DEF TypeOK
<1>4. IStage'
  BY <1>1 DEF IStage, TypeOK
<1>5. ICounters'
  BY <1>1, <1>2 DEF ICounters, TypeOK
<1>6. IStop'
  BY <1>1 DEF IStop, IStage, TypeOK
<1>. QED
  BY <1>2, <1>3, <1>4, <1>5, <1>6 DEF IInv

\* Waiting for a slot, waking a pool thread, and waiting for the tasks.
LEMMA QuietCallerIInv ==
  ASSUME IInv, NEW t \in Thread,
         WaitForSlot(t) \/ NotifyOne(t) \/ AllForked(t) \/ WaitForTasks(t)
  PROVE  IInv'
<1>1. TypeOK /\ IStage
  BY DEF IInv
<1>2. CASE WaitForSlot(t) \/ AllForked(t) \/ WaitForTasks(t)
  <2>1. UNCHANGED <<op, planned, inflight, remaining, active, queue, stop, work, job,
                    forked, runs>>
    BY <1>2 DEF WaitForSlot, AllForked, WaitForTasks, pool
  <2>2. CASE WaitForSlot(t)
    <3>1. /\ stage' = [stage EXCEPT ![t] = "full"] /\ stage[t] = "fork"
          /\ op[t] \in Group /\ Cardinality(forked[t]) < planned[t]
      BY <2>2 DEF WaitForSlot, HasMore, Goto
    <3>. QED
      BY <1>1, <2>1, <3>1, StageIInv DEF TypeOK
  <2>3. CASE AllForked(t)
    <3>1. /\ stage' = [stage EXCEPT ![t] = "join"] /\ stage[t] = "fork"
          /\ Cardinality(forked[t]) = planned[t]
      BY <2>3 DEF AllForked, Goto
    <3>. QED
      BY <1>1, <2>1, <3>1, StageIInv DEF TypeOK
  <2>4. CASE WaitForTasks(t)
    <3>1. /\ stage' = [stage EXCEPT ![t] = "asleep"] /\ stage[t] = "join"
          /\ Cardinality(forked[t]) = planned[t]
      BY <1>1, <2>4 DEF WaitForTasks, Goto, IStage
    <3>. QED
      BY <1>1, <2>1, <3>1, StageIInv DEF TypeOK
  <2>. QED
    BY <1>2, <2>2, <2>3, <2>4
<1>3. CASE NotifyOne(t)
  <2>1. /\ UNCHANGED <<op, planned, inflight, remaining, active, queue, stop, job,
                       forked, runs>>
        /\ stage' = [stage EXCEPT ![t] = "fork"] /\ stage[t] = "notify"
    BY <1>3 DEF NotifyOne, Goto
  <2>2. \/ UNCHANGED work
        \/ \E w \in Worker : work[w] = "asleep" /\ work' = [work EXCEPT ![w] = "poll"]
    BY <1>3 DEF NotifyOne
  <2>3. /\ work' \in [Worker -> {"poll", "asleep", "run", "ran", "exited"}]
        /\ \A w \in Worker : {work[w], work'[w]} \cap {"run", "ran"} # {} =>
                work'[w] = work[w]
    BY <1>1, <2>2 DEF TypeOK
  <2>. QED
    BY <2>1, <2>3, StageIInv
<1>. QED
  BY <1>2, <1>3

\* A pool thread that finds no task goes to sleep or exits.
LEMMA IdleWorkerIInv ==
  ASSUME IInv, NEW w \in Worker, Sleep(w) \/ Exit(w)
  PROVE  IInv'
<1>1. TypeOK /\ IStage /\ IForked /\ ICounters /\ IStop
  BY DEF IInv
<1>2. /\ UNCHANGED <<op, stage, planned, inflight, remaining, active, queue, stop, job,
                     forked, runs>>
      /\ work[w] = "poll"
      /\ work' = [work EXCEPT ![w] = "asleep"] \/ work' = [work EXCEPT ![w] = "exited"]
  BY DEF Sleep, Exit, callers
<1>3. \A v \in Worker : {work[v], work'[v]} \cap {"run", "ran"} # {} => work'[v] = work[v]
  BY <1>1, <1>2 DEF TypeOK
<1>4. IForked' /\ IPlaces' /\ IRuns' /\ \A u \in Thread : Outstanding(u)' = Outstanding(u)
  BY <1>2, <1>3, TasksStay
<1>5. TypeOK' /\ IStage' /\ ICounters' /\ IStop'
  BY <1>1, <1>2, <1>4 DEF TypeOK, IStage, ICounters, IStop
<1>. QED
  BY <1>4, <1>5 DEF IInv

\* A pool is stopped when no operation is open, so its queue is empty.
LEMMA ResizeIInv ==
  ASSUME IInv, ResetPool \/ Replace
  PROVE  IInv'
<1>1. TypeOK /\ IStage /\ IForked /\ IPlaces /\ IRuns /\ ICounters /\ IStop
  BY DEF IInv
<1>2. CASE ResetPool
  <2>1. /\ UNCHANGED <<op, planned, inflight, remaining, active, queue, job, forked, runs>>
        /\ stage[Main] = "idle" /\ stage' = [stage EXCEPT ![Main] = "resize"]
        /\ active = 0 /\ stop' = TRUE
        /\ work' = [w \in Worker |-> IF work[w] = "asleep" THEN "poll" ELSE work[w]]
    BY <1>2, ConstantsAssumption DEF ResetPool, MayFork, Goto
  <2>2. \A v \in Worker : {work[v], work'[v]} \cap {"run", "ran"} # {} => work'[v] = work[v]
    BY <1>1, <2>1 DEF TypeOK
  <2>3. IForked' /\ IPlaces' /\ IRuns' /\ \A u \in Thread : Outstanding(u)' = Outstanding(u)
    BY <2>1, <2>2, TasksStay
  <2>4. TypeOK' /\ IStage' /\ ICounters'
    BY <1>1, <2>1, <2>3 DEF TypeOK, IStage, ICounters
  <2>5. IStop'
    <3>1. {t \in Thread : op[t] # "none"} = {}
      <4>1. IsFiniteSet({t \in Thread : op[t] # "none"})
        BY FiniteThreads, FS_Subset
      <4>. QED
        BY <1>1, <2>1, <4>1, FS_EmptySet DEF IStop
    <3>2. queue = <<>>
      <4>1. ASSUME NEW a \in DOMAIN queue PROVE FALSE
        <5>1. Owed(queue[a], 0) /\ queue[a] \in Task
          BY <1>1 DEF IRuns, TypeOK
        <5>. QED
          BY <3>1, <5>1, TaskOf DEF Owed
      <4>2. queue \in Seq(Task)
        BY <1>1 DEF TypeOK
      <4>3. DOMAIN queue = 1 .. Len(queue) /\ Len(queue) \in Nat
        BY <4>2, LenProperties
      <4>4. Len(queue) = 0
        BY <4>1, <4>3
      <4>. QED
        BY <4>2, <4>4, EmptySeq
    <3>3. stage'[Main] = "resize"
      BY <1>1, <2>1 DEF TypeOK, Thread
    <3>. QED
      BY <1>1, <2>1, <3>2, <3>3 DEF IStop
  <2>. QED
    BY <2>3, <2>4, <2>5 DEF IInv
<1>3. CASE Replace
  <2>1. PICK W \in (SUBSET Worker) \ {{}} : PoolReplaced(W)
    BY <1>3 DEF Replace
  <2>2. /\ UNCHANGED <<op, planned, inflight, remaining, active, queue, job, forked, runs>>
        /\ stage[Main] = "resize" /\ stage' = [stage EXCEPT ![Main] = "idle"]
        /\ stop' = FALSE /\ \A w \in Worker : work[w] = "exited"
        /\ work' = [w \in Worker |-> IF w \in W THEN "poll" ELSE "exited"]
    BY <2>1 DEF PoolReplaced, Goto
  <2>3. \A v \in Worker : {work[v], work'[v]} \cap {"run", "ran"} # {} => work'[v] = work[v]
    BY <2>2
  <2>4. IForked' /\ IPlaces' /\ IRuns' /\ \A u \in Thread : Outstanding(u)' = Outstanding(u)
    BY <2>2, <2>3, TasksStay
  <2>5. TypeOK' /\ IStage' /\ ICounters' /\ IStop'
    BY <1>1, <2>2, <2>4 DEF TypeOK, IStage, ICounters, IStop
  <2>. QED
    BY <2>4, <2>5 DEF IInv
<1>. QED
  BY <1>2, <1>3
-----------------------------------------------------------------------------
(* Opening and closing an operation.                                       *)

\* A thread that opens an operation has none, and so no task is left of it.
LEMMA OpenIInv ==
  ASSUME IInv, NEW T \in {{Main}, {Main, Helper}}, NEW kind \in {"leaf", "measure", "for"},
         NEW n \in 0 .. MaxTasks, MayFork(Main), Open(T, kind, n)
  PROVE  IInv' /\ \A u \in T : u \in Thread /\ op[u] = "none"
<1>1. TypeOK /\ IStage /\ IForked /\ IPlaces /\ IRuns /\ ICounters /\ IStop
  BY DEF IInv
<1>2. /\ op' = [t \in Thread |-> IF t \in T THEN kind ELSE op[t]]
      /\ stage' = [t \in Thread |-> IF t \in T THEN "fork" ELSE stage[t]]
      /\ planned' = [t \in Thread |-> IF t \in T THEN n ELSE planned[t]]
      /\ inflight' = [t \in Thread |-> IF t \in T THEN 0 ELSE inflight[t]]
      /\ remaining' = [t \in Thread |->
           IF t \notin T THEN remaining[t] ELSE IF kind = "for" THEN n ELSE 0]
      /\ active' = active + Cardinality(T)
      /\ forked' = [t \in Thread |-> IF t \in T THEN {} ELSE forked[t]]
      /\ runs' = [t \in Thread |-> IF t \in T THEN [i \in TaskId |-> 0] ELSE runs[t]]
      /\ UNCHANGED <<queue, stop, work, job>>
  BY DEF Open, pool
<1>3. /\ stage[Main] = "idle" /\ stage[Helper] = "idle"
      /\ \A u \in T : u \in Thread /\ u \notin Worker /\ op[u] = "none"
  BY <1>1, FiniteThreads DEF MayFork, IStage
<1>4. \A u \in T : Queued(u) = {} /\ Held(u) = {}
  BY <1>3, PlacesFinite
<1>5. \A u \in Thread : Queued(u)' = Queued(u) /\ Held(u)' = Held(u)
  BY <1>2 DEF Queued, Held
<1>6. /\ active' = Cardinality({t \in Thread : op'[t] # "none"})
      /\ active' \in 0 .. Cardinality(Thread)
  <2>1. {t \in Thread : op'[t] # "none"} = {t \in Thread : op[t] # "none"} \cup T
    BY <1>2, <1>3
  <2>2. {t \in Thread : op[t] # "none"} \cap T = {}
    BY <1>3
  <2>3. IsFiniteSet(T)
    BY <1>3, FiniteThreads, FS_Subset
  <2>4. PICK A : A = {t \in Thread : op[t] # "none"}
    OBVIOUS
  <2>5. /\ IsFiniteSet(A) /\ Cardinality(A) \in Nat /\ Cardinality(T) \in Nat
        /\ Cardinality(A \cup T) = Cardinality(A) + Cardinality(T)
    <3>1. IsFiniteSet(A) /\ Cardinality(A) \in Nat /\ Cardinality(T) \in Nat
      BY <2>3, <2>4, FiniteThreads, FS_Subset, FS_CardinalityType
    <3>2. Cardinality(A \cup T) = Cardinality(A) + Cardinality(T) - Cardinality(A \cap T)
      BY <2>3, <3>1, FS_Union
    <3>3. Cardinality(A \cap T) = 0
      BY <2>2, <2>4, FS_EmptySet
    <3>. QED
      BY <3>1, <3>2, <3>3
  <2>6. A \cup T \in SUBSET Thread
    BY <1>3, <2>4
  <2>7. Cardinality(A \cup T) <= Cardinality(Thread) /\ Cardinality(Thread) \in Nat
    BY <2>6, FiniteThreads, FS_Subset, FS_CardinalityType
  <2>8. active = Cardinality(A) /\ active' = active + Cardinality(T)
    BY <1>1, <1>2, <2>4 DEF IStop
  <2>9. Cardinality({t \in Thread : op'[t] # "none"}) = Cardinality(A \cup T)
    BY <2>1, <2>4
  <2>. QED
    BY <2>5, <2>7, <2>8, <2>9
<1>7. TypeOK'
  <2>1. 0 \in 0 .. MaxInflight /\ 0 \in 0 .. MaxTasks
    BY ConstantsAssumption
  <2>2. /\ op' \in [Thread -> Operation]
        /\ stage' \in [Thread -> {"idle", "fork", "full", "enqueue", "notify", "join",
                                  "asleep", "resize"}]
        /\ planned' \in [Thread -> 0 .. MaxTasks]
    BY <1>1, <1>2 DEF TypeOK, Operation
  <2>3. /\ inflight' \in [Thread -> 0 .. MaxInflight]
        /\ remaining' \in [Thread -> 0 .. MaxTasks]
        /\ forked' \in [Thread -> SUBSET TaskId]
        /\ runs' \in [Thread -> [TaskId -> Nat]]
    BY <1>1, <1>2, <2>1 DEF TypeOK
  <2>. QED
    BY <1>1, <1>2, <1>6, <2>2, <2>3 DEF TypeOK
<1>8. IStage'
  <2>1. ASSUME NEW u \in Thread
        PROVE  /\ op'[u] = "none" <=> stage'[u] \in {"idle", "resize"}
               /\ u \in Worker => op'[u] = "none"
               /\ stage'[u] \in {"enqueue", "full"} =>
                    op'[u] \in Group /\ Cardinality(forked'[u]) < planned'[u]
               /\ stage'[u] \in {"join", "asleep"} =>
                    Cardinality(forked'[u]) = planned'[u]
    <3>1. CASE u \in T
      BY <1>2, <1>3, <3>1
    <3>2. CASE u \notin T
      <4>1. /\ op'[u] = op[u] /\ stage'[u] = stage[u] /\ planned'[u] = planned[u]
            /\ forked'[u] = forked[u]
        BY <1>2, <3>2
      <4>. QED
        BY <1>1, <4>1 DEF IStage
    <3>. QED
      BY <3>1, <3>2
  <2>. QED
    BY <2>1, ConstantsAssumption DEF IStage, Thread
<1>9. IForked'
  <2>1. Cardinality({}) = 0 /\ {} = 1 .. 0 /\ 0 \in 0 .. n
    BY FS_EmptySet
  <2>2. ASSUME NEW u \in Thread
        PROVE  /\ Cardinality(forked'[u]) \in 0 .. planned'[u]
               /\ forked'[u] = 1 .. Cardinality(forked'[u])
    <3>1. CASE u \in T
      BY <1>2, <2>1, <3>1
    <3>2. CASE u \notin T
      BY <1>1, <1>2, <3>2 DEF IForked
    <3>. QED
      BY <3>1, <3>2
  <2>. QED
    BY <2>2 DEF IForked
<1>10. IPlaces'
  BY <1>1, <1>2 DEF IPlaces
<1>11. IRuns'
  <2>1. ASSUME NEW e \in Task, op[e.owner] # "none"
        PROVE  /\ op'[e.owner] = op[e.owner] /\ forked'[e.owner] = forked[e.owner]
               /\ runs'[e.owner] = runs[e.owner]
    <3>1. e.owner \in Thread /\ e.owner \notin T
      BY <1>3, <2>1, TaskOf
    <3>. QED
      BY <1>2, <3>1
  <2>2. UNCHANGED <<queue, job, work>>
    BY <1>2
  <2>3. ASSUME NEW a \in DOMAIN queue PROVE Owed(queue[a], 0)'
    <3>1. queue[a] \in Task /\ Owed(queue[a], 0)
      BY <1>1 DEF IRuns, TypeOK
    <3>. QED
      BY <2>1, <2>2, <3>1 DEF Owed
  <2>4. ASSUME NEW w \in Worker, NEW m \in {0, 1}, work[w] = IF m = 0 THEN "run" ELSE "ran"
        PROVE  Owed(job[w], m)'
    <3>1. job[w] \in Task /\ Owed(job[w], m)
      BY <1>1, <2>4 DEF IRuns, IPlaces, TypeOK
    <3>. QED
      BY <2>1, <2>2, <3>1 DEF Owed
  <2>5. ASSUME NEW u \in Thread, op'[u] # "none"
        PROVE  /\ \A i \in forked'[u] : i \notin Queued(u)' \cup Held(u)' => runs'[u][i] = 1
               /\ \A i \in TaskId \ forked'[u] : runs'[u][i] = 0
    <3>1. CASE u \in T
      BY <1>2, <3>1
    <3>2. CASE u \notin T
      BY <1>1, <1>2, <1>5, <2>5, <3>2 DEF IRuns
    <3>. QED
      BY <3>1, <3>2
  <2>. QED
    <3>1. \A a \in DOMAIN queue' : Owed(queue[a], 0)'
      BY <2>3, <2>2
    <3>2. \A w \in Worker : /\ work'[w] = "run" => Owed(job[w], 0)'
                            /\ work'[w] = "ran" => Owed(job[w], 1)'
      BY <2>4, <2>2
    <3>. QED
      BY <2>5, <3>1, <3>2 DEF IRuns
<1>12. ICounters'
  <2>1. ASSUME NEW u \in Thread
        PROVE  IF op'[u] = "for"
                 THEN /\ remaining'[u]
                             = Outstanding(u)' + planned'[u] - Cardinality(forked'[u])
                      /\ inflight'[u] = 0
                 ELSE /\ remaining'[u] = Outstanding(u)'
                                           + IF stage'[u] = "enqueue" THEN 1 ELSE 0
                      /\ inflight'[u] = remaining'[u]
    <3>1. CASE u \in T
      <4>1. Queued(u)' = {} /\ Held(u)' = {} /\ forked'[u] = {}
        BY <1>2, <1>4, <1>5, <3>1
      <4>2. Cardinality({}) = 0
        BY FS_EmptySet
      <4>3. Outstanding(u)' = 0 /\ Cardinality(forked'[u]) = 0
        BY <4>1, <4>2 DEF Outstanding
      <4>. QED
        BY <1>2, <3>1, <4>3
    <3>2. CASE u \notin T
      <4>1. Outstanding(u)' = Outstanding(u)
        BY <1>5 DEF Outstanding
      <4>. QED
        BY <1>1, <1>2, <3>2, <4>1 DEF ICounters
    <3>. QED
      BY <3>1, <3>2
  <2>. QED
    BY <2>1 DEF ICounters
<1>13. IStop'
  BY <1>1, <1>2, <1>3, <1>6 DEF IStop
<1>. QED
  BY <1>3, <1>7, <1>8, <1>9, <1>10, <1>11, <1>12, <1>13 DEF IInv

\* A pool thread never opens an operation: the tasks of the selector and of
\* parallel_for are marked as a parallel region.
LEMMA WorkersDoNotFork ==
  ASSUME IInv, NEW t \in Thread, MayFork(t)
  PROVE  t = Main
  BY DEF MayFork, InRegion

\* A caller that finds nothing remaining has all its tasks behind it.
LEMMA NothingRemains ==
  ASSUME IInv, NEW t \in Thread, stage[t] = "join", remaining[t] = 0
  PROVE  /\ op[t] # "none" /\ inflight[t] = 0 /\ Outstanding(t) = 0
         /\ Queued(t) = {} /\ Held(t) = {}
         /\ \A i \in forked[t] : runs[t][i] = 1
<1>1. op[t] # "none" /\ Cardinality(forked[t]) = planned[t]
  BY DEF IInv, IStage
<1>2. Outstanding(t) = 0 /\ inflight[t] = 0
  BY <1>1, CountersInRange DEF IInv, ICounters
<1>3. Queued(t) = {} /\ Held(t) = {}
  BY <1>2, PlacesFinite
<1>. QED
  BY <1>1, <1>2, <1>3 DEF IInv, IRuns

\* An operation returns with its counters at zero: no task is left of it.
LEMMA CloseIInv == ASSUME IInv, NEW t \in Thread, Close(t) PROVE IInv'
<1>1. TypeOK /\ IStage /\ IForked /\ IPlaces /\ IRuns /\ ICounters /\ IStop
  BY DEF IInv
<1>2. /\ UNCHANGED <<planned, inflight, remaining, queue, stop, work, job, forked, runs>>
      /\ stage[t] = "join" /\ remaining[t] = 0
      /\ op' = [op EXCEPT ![t] = "none"] /\ stage' = [stage EXCEPT ![t] = "idle"]
      /\ active' = active - 1
  BY DEF Close, Goto, pool
<1>3. /\ op[t] # "none" /\ inflight[t] = 0 /\ Outstanding(t) = 0
      /\ Queued(t) = {} /\ Held(t) = {}
  BY <1>2, NothingRemains
<1>4. \A u \in Thread : /\ Queued(u)' = Queued(u) /\ Held(u)' = Held(u)
                        /\ Outstanding(u)' = Outstanding(u)
  BY <1>2 DEF Queued, Held, Outstanding
<1>5. /\ active' = Cardinality({u \in Thread : op'[u] # "none"})
      /\ active' \in 0 .. Cardinality(Thread)
  <2>1. PICK A : A = {u \in Thread : op[u] # "none"}
    OBVIOUS
  <2>2. {u \in Thread : op'[u] # "none"} = A \ {t} /\ t \in A
    BY <1>1, <1>2, <1>3, <2>1 DEF TypeOK
  <2>3. IsFiniteSet(A) /\ Cardinality(A) \in Nat /\ A \ {t} \in SUBSET Thread
    BY <2>1, FiniteThreads, FS_Subset, FS_CardinalityType
  <2>4. Cardinality(A \ {t}) = Cardinality(A) - 1
    BY <2>2, <2>3, FS_RemoveElement
  <2>5. /\ Cardinality(A \ {t}) <= Cardinality(Thread) /\ Cardinality(Thread) \in Nat
        /\ Cardinality(A \ {t}) \in Nat
    BY <2>3, FiniteThreads, FS_Subset, FS_CardinalityType
  <2>6. active = Cardinality(A) /\ active' = active - 1
    BY <1>1, <1>2, <2>1 DEF IStop
  <2>7. Cardinality({u \in Thread : op'[u] # "none"}) = Cardinality(A \ {t})
    BY <2>2
  <2>. QED
    BY <2>3, <2>4, <2>5, <2>6, <2>7
<1>6. TypeOK'
  BY <1>1, <1>2, <1>5 DEF TypeOK, Operation
<1>7. IStage' /\ IForked' /\ IPlaces'
  BY <1>1, <1>2 DEF IStage, IForked, IPlaces, TypeOK
<1>8. IRuns'
  <2>1. ASSUME NEW e \in Task, e.owner # t PROVE op'[e.owner] = op[e.owner]
    BY <1>1, <1>2, <2>1, TaskOf DEF TypeOK
  <2>2. ASSUME NEW a \in DOMAIN queue PROVE Owed(queue[a], 0)'
    <3>1. queue[a] \in Task /\ Owed(queue[a], 0)
      BY <1>1 DEF IRuns, TypeOK
    <3>2. queue[a].owner # t
      BY <1>3 DEF Queued
    <3>. QED
      BY <1>2, <2>1, <3>1, <3>2 DEF Owed
  <2>3. ASSUME NEW w \in Worker, NEW m \in {0, 1}, work[w] = IF m = 0 THEN "run" ELSE "ran"
        PROVE  Owed(job[w], m)'
    <3>1. job[w] \in Task /\ job[w] # NoTask /\ Owed(job[w], m)
      BY <1>1, <2>3 DEF IRuns, IPlaces, TypeOK
    <3>2. job[w].owner # t
      BY <1>3, <3>1 DEF Held
    <3>. QED
      BY <1>2, <2>1, <3>1, <3>2 DEF Owed
  <2>4. ASSUME NEW u \in Thread, op'[u] # "none"
        PROVE  /\ \A i \in forked'[u] : i \notin Queued(u)' \cup Held(u)' => runs'[u][i] = 1
               /\ \A i \in TaskId \ forked'[u] : runs'[u][i] = 0
    BY <1>1, <1>2, <1>4, <2>4 DEF IRuns, TypeOK
  <2>. QED
    BY <1>2, <2>2, <2>3, <2>4 DEF IRuns, Owed
<1>9. ICounters'
  BY <1>1, <1>2, <1>3, <1>4 DEF ICounters, TypeOK
<1>10. IStop'
  BY <1>2, <1>3, <1>5, OpenNotStopped DEF IStop
<1>. QED
  BY <1>6, <1>7, <1>8, <1>9, <1>10 DEF IInv
-----------------------------------------------------------------------------
(* The way of a task: enqueued, taken, run, and finished.                  *)

\* A task gets the next number, which no task before it has.
LEMMA EnqueueIInv ==
  ASSUME IInv, NEW t \in Thread, Enqueue(t)
  PROVE  /\ IInv' /\ op[t] # "none"
         /\ \E id \in TaskId \ forked[t] : forked' = [forked EXCEPT ![t] = @ \cup {id}]
<1>1. TypeOK /\ IStage /\ IForked /\ IPlaces /\ IRuns /\ ICounters /\ IStop
  BY DEF IInv
<1>2. PICK id : id = Cardinality(forked[t]) + 1
  OBVIOUS
<1>3. PICK e : e = [owner |-> t, id |-> id]
  OBVIOUS
<1>4. /\ UNCHANGED <<op, planned, inflight, remaining, active, stop, work, job, runs>>
      /\ stage[t] = "enqueue" \/ (stage[t] = "fork" /\ op[t] = "for")
      /\ Cardinality(forked[t]) < planned[t]
      /\ op[t] # "none" /\ (op[t] # "for" => stage[t] = "enqueue")
      /\ op[t] = "for" => stage[t] # "enqueue"
      /\ ~stop /\ queue' = Append(queue, e)
      /\ forked' = [forked EXCEPT ![t] = @ \cup {id}]
      /\ stage' = [stage EXCEPT ![t] = "notify"]
  BY <1>1, <1>2, <1>3 DEF Enqueue, HasMore, Goto, IStage, Group
<1>5. /\ Cardinality(forked[t]) \in Nat /\ planned[t] \in Nat /\ planned[t] <= MaxTasks
      /\ Outstanding(t) \in Nat /\ remaining[t] \in Nat
  BY CountersInRange
<1>6. id \in TaskId /\ id \notin forked[t] /\ e \in Task /\ e.owner = t /\ e.id = id
  <2>1. id \in TaskId
    BY <1>2, <1>4, <1>5, ConstantsAssumption DEF TaskId
  <2>2. id \notin forked[t]
    BY <1>1, <1>2, <1>5 DEF IForked
  <2>. QED
    BY <1>3, <2>1, <2>2 DEF Task
<1>7. /\ Len(queue) \in Nat /\ DOMAIN queue = 1 .. Len(queue)
      /\ queue' \in Seq(Task) /\ DOMAIN queue' = 1 .. Len(queue) + 1
      /\ \A a \in 1 .. Len(queue) : queue'[a] = queue[a]
      /\ queue'[Len(queue) + 1] = e
  BY <1>1, <1>4, <1>6 DEF TypeOK
<1>8. /\ \A a \in DOMAIN queue : queue[a] # e
      /\ \A w \in Worker : job[w] # e
  <2>1. id \notin Queued(t) /\ id \notin Held(t)
    BY <1>6, PlacesFinite
  <2>2. \A a \in DOMAIN queue : queue[a] # e
    BY <1>1, <1>3, <2>1, Members
  <2>3. \A w \in Worker : job[w] # e
    BY <1>1, <1>3, <1>6, <2>1, Members, ConstantsAssumption
  <2>. QED
    BY <2>2, <2>3
<1>9. ASSUME NEW u \in Thread
      PROVE  /\ Queued(u)' = IF u = t THEN Queued(u) \cup {id} ELSE Queued(u)
             /\ Held(u)' = Held(u)
  <2>1. Held(u)' = Held(u)
    BY <1>4 DEF Held
  <2>2. \A i : i \in Queued(u)' <=>
          \E a \in 1 .. Len(queue) + 1 : queue'[a].owner = u /\ queue'[a].id = i
    BY <1>7 DEF Queued
  <2>3. \A i : i \in Queued(u) <=>
            \E a \in 1 .. Len(queue) : queue[a].owner = u /\ queue[a].id = i
    BY <1>7 DEF Queued
  <2>4. 1 .. Len(queue) + 1 = (1 .. Len(queue)) \cup {Len(queue) + 1}
    BY <1>7
  <2>5. \A i : i \in Queued(u)' <=> i \in Queued(u) \/ (e.owner = u /\ e.id = i)
    BY <1>7, <2>2, <2>3, <2>4
  <2>. QED
    BY <1>6, <2>1, <2>5
<1>10. /\ Outstanding(t)' = Outstanding(t) + 1
       /\ \A u \in Thread : u # t => Outstanding(u)' = Outstanding(u)
  <2>1. Cardinality(Queued(t) \cup {id}) = Cardinality(Queued(t)) + 1
    BY <1>6, PlacesFinite, FS_AddElement
  <2>2. Cardinality(Queued(t)) \in Nat /\ Cardinality(Held(t)) \in Nat
    BY PlacesFinite
  <2>. QED
    BY <1>9, <2>1, <2>2 DEF Outstanding
<1>11. TypeOK'
  BY <1>1, <1>4, <1>6, <1>7 DEF TypeOK
<1>12. Cardinality(forked'[t]) = id /\ \A u \in Thread : u # t => forked'[u] = forked[u]
  <2>1. forked'[t] = forked[t] \cup {id}
    BY <1>1, <1>4 DEF TypeOK
  <2>2. Cardinality(forked[t] \cup {id}) = Cardinality(forked[t]) + 1
    BY <1>6, PlacesFinite, FS_AddElement
  <2>. QED
    BY <1>1, <1>2, <1>4, <2>1, <2>2 DEF TypeOK
<1>13. IStage'
  <2>1. ASSUME NEW u \in Thread
        PROVE  /\ op'[u] = "none" <=> stage'[u] \in {"idle", "resize"}
               /\ u \in Worker => op'[u] = "none"
               /\ stage'[u] \in {"enqueue", "full"} =>
                    op'[u] \in Group /\ Cardinality(forked'[u]) < planned'[u]
               /\ stage'[u] \in {"join", "asleep"} =>
                    Cardinality(forked'[u]) = planned'[u]
    <3>1. CASE u = t
      BY <1>1, <1>4, <3>1 DEF IStage, TypeOK
    <3>2. CASE u # t
      <4>1. /\ op'[u] = op[u] /\ stage'[u] = stage[u] /\ planned'[u] = planned[u]
            /\ forked'[u] = forked[u]
        BY <1>1, <1>4, <1>12, <3>2 DEF TypeOK
      <4>. QED
        BY <1>1, <4>1 DEF IStage
    <3>. QED
      BY <3>1, <3>2
  <2>. QED
    BY <2>1 DEF IStage, Thread
<1>14. IForked'
  <2>1. ASSUME NEW u \in Thread
        PROVE  /\ Cardinality(forked'[u]) \in 0 .. planned'[u]
               /\ forked'[u] = 1 .. Cardinality(forked'[u])
    <3>1. CASE u = t
      <4>1. forked[t] = 1 .. Cardinality(forked[t]) /\ forked'[t] = forked[t] \cup {id}
        BY <1>1, <1>4 DEF IForked, TypeOK
      <4>2. id \in 0 .. planned[t] /\ planned'[t] = planned[t]
        BY <1>2, <1>4, <1>5
      <4>3. forked'[t] = 1 .. id
        BY <1>2, <1>5, <4>1
      <4>. QED
        BY <1>12, <3>1, <4>2, <4>3
    <3>2. CASE u # t
      BY <1>1, <1>4, <1>12, <3>2 DEF IForked
    <3>. QED
      BY <3>1, <3>2
  <2>. QED
    BY <2>1 DEF IForked
<1>15. IPlaces'
  <2>1. ASSUME NEW a \in DOMAIN queue', NEW b \in DOMAIN queue', queue'[a] = queue'[b]
        PROVE  a = b
    BY <1>1, <1>7, <1>8, <2>1 DEF IPlaces
  <2>2. ASSUME NEW a \in DOMAIN queue', NEW w \in Worker PROVE queue'[a] # job'[w]
    BY <1>1, <1>4, <1>7, <1>8 DEF IPlaces
  <2>. QED
    BY <1>1, <1>4, <2>1, <2>2 DEF IPlaces
<1>16. IRuns'
  <2>1. /\ UNCHANGED <<op, runs, job, work>>
        /\ \A u \in Thread : forked[u] \subseteq forked'[u]
    BY <1>1, <1>4, <1>12 DEF TypeOK
  <2>2. ASSUME NEW a \in DOMAIN queue' PROVE Owed(queue[a], 0)'
    <3>1. CASE a \in DOMAIN queue
      <4>1. queue[a] \in Task /\ Owed(queue[a], 0) /\ queue'[a] = queue[a]
        BY <1>1, <1>7, <3>1 DEF IRuns, TypeOK
      <4>. QED
        BY <2>1, <4>1, TaskOf DEF Owed
    <3>2. CASE a \notin DOMAIN queue
      <4>1. queue'[a] = e
        BY <1>7, <3>2
      <4>2. op[t] # "none" /\ id \in forked'[t] /\ runs[t][id] = 0
        BY <1>1, <1>4, <1>6 DEF IRuns, TypeOK
      <4>. QED
        BY <1>6, <2>1, <4>1, <4>2 DEF Owed
    <3>. QED
      BY <3>1, <3>2
  <2>3. ASSUME NEW w \in Worker, NEW m \in {0, 1}, work[w] = IF m = 0 THEN "run" ELSE "ran"
        PROVE  Owed(job[w], m)'
    <3>1. job[w] \in Task /\ Owed(job[w], m)
      BY <1>1, <2>3 DEF IRuns, IPlaces, TypeOK
    <3>. QED
      BY <2>1, <3>1, TaskOf DEF Owed
  <2>4. ASSUME NEW u \in Thread, op'[u] # "none"
        PROVE  /\ \A i \in forked'[u] : i \notin Queued(u)' \cup Held(u)' => runs'[u][i] = 1
               /\ \A i \in TaskId \ forked'[u] : runs'[u][i] = 0
    <3>1. CASE u = t
      <4>1. forked'[t] = forked[t] \cup {id} /\ Queued(t)' = Queued(t) \cup {id}
            /\ Held(t)' = Held(t)
        BY <1>1, <1>4, <1>9 DEF TypeOK
      <4>. QED
        BY <1>1, <2>1, <2>4, <3>1, <4>1 DEF IRuns
    <3>2. CASE u # t
      BY <1>1, <1>9, <1>12, <2>1, <2>4, <3>2 DEF IRuns
    <3>. QED
      BY <3>1, <3>2
  <2>. QED
    <3>1. \A w \in Worker : /\ work'[w] = "run" => Owed(job[w], 0)'
                            /\ work'[w] = "ran" => Owed(job[w], 1)'
      BY <2>1, <2>3
    <3>. QED
      BY <2>2, <2>4, <3>1 DEF IRuns
<1>17. ICounters'
  <2>1. ASSUME NEW u \in Thread
        PROVE  IF op'[u] = "for"
                 THEN /\ remaining'[u]
                             = Outstanding(u)' + planned'[u] - Cardinality(forked'[u])
                      /\ inflight'[u] = 0
                 ELSE /\ remaining'[u] = Outstanding(u)'
                                           + IF stage'[u] = "enqueue" THEN 1 ELSE 0
                      /\ inflight'[u] = remaining'[u]
    <3>1. CASE u = t
      <4>1. stage'[t] = "notify"
        BY <1>1, <1>4 DEF TypeOK
      <4>2. IF op[t] = "for"
              THEN remaining[t] = Outstanding(t) + planned[t] - Cardinality(forked[t])
                   /\ inflight[t] = 0
              ELSE remaining[t] = Outstanding(t) + 1 /\ inflight[t] = remaining[t]
        BY <1>1, <1>4 DEF ICounters
      <4>3. IF op[t] = "for"
              THEN remaining[t] = Outstanding(t) + 1 + planned[t] - id
                   /\ inflight[t] = 0
              ELSE remaining[t] = Outstanding(t) + 1 /\ inflight[t] = remaining[t]
        BY <1>2, <1>5, <4>2
      <4>4. Outstanding(t) + 1 + 0 = Outstanding(t) + 1
        BY <1>5
      <4>. QED
        BY <1>4, <1>10, <1>12, <3>1, <4>1, <4>3, <4>4
    <3>2. CASE u # t
      BY <1>1, <1>4, <1>10, <1>12, <3>2 DEF ICounters, TypeOK
    <3>. QED
      BY <3>1, <3>2
  <2>. QED
    BY <2>1 DEF ICounters
<1>18. IStop'
  BY <1>1, <1>4 DEF IStop
<1>. QED
  BY <1>4, <1>6, <1>11, <1>13, <1>14, <1>15, <1>16, <1>17, <1>18 DEF IInv

\* The front task leaves the queue for the thread that takes it.
LEMMA TakeIInv == ASSUME IInv, NEW w \in Worker, Take(w) PROVE IInv'
<1>1. TypeOK /\ IStage /\ IForked /\ IPlaces /\ IRuns /\ ICounters /\ IStop
  BY DEF IInv
<1>2. /\ UNCHANGED <<op, stage, planned, inflight, remaining, active, stop, forked, runs>>
      /\ work[w] = "poll" /\ queue # <<>>
      /\ job' = [job EXCEPT ![w] = Head(queue)]
      /\ work' = [work EXCEPT ![w] = "run"]
      /\ queue' = Tail(queue)
  BY DEF Take, callers
<1>3. PICK e : e = Head(queue)
  OBVIOUS
<1>4. /\ Len(queue) \in Nat \ {0} /\ DOMAIN queue = 1 .. Len(queue)
      /\ e = queue[1] /\ e \in Task /\ 1 \in DOMAIN queue
      /\ queue' \in Seq(Task) /\ DOMAIN queue' = 1 .. Len(queue) - 1
      /\ \A a \in 1 .. Len(queue) - 1 : queue'[a] = queue[a + 1]
  <2>1. queue \in Seq(Task)
    BY <1>1 DEF TypeOK
  <2>2. /\ Head(queue) \in Task /\ Tail(queue) \in Seq(Task)
        /\ Len(Tail(queue)) = Len(queue) - 1
        /\ \A a \in 1 .. Len(Tail(queue)) : Tail(queue)[a] = queue[a + 1]
    BY <1>2, <2>1, HeadTailProperties
  <2>3. Len(queue) \in Nat \ {0} /\ DOMAIN queue = 1 .. Len(queue)
        /\ DOMAIN Tail(queue) = 1 .. Len(Tail(queue))
    BY <1>2, <2>1, <2>2, EmptySeq, LenProperties
  <2>4. Head(queue) = queue[1]
    BY <1>2, <2>1
  <2>. QED
    BY <1>2, <1>3, <2>2, <2>3, <2>4
<1>5. /\ job[w] = NoTask /\ e # NoTask /\ job'[w] = e /\ work'[w] = "run"
      /\ \A v \in Worker : v # w => job'[v] = job[v] /\ work'[v] = work[v]
      /\ \A v \in Worker : job[v] # e
      /\ \A a \in DOMAIN queue : a # 1 => queue[a] # e
  <2>1. job[w] = NoTask /\ e # NoTask
    BY <1>1, <1>2, <1>4, ConstantsAssumption DEF IPlaces
  <2>2. /\ job'[w] = e /\ work'[w] = "run"
        /\ \A v \in Worker : v # w => job'[v] = job[v] /\ work'[v] = work[v]
    BY <1>1, <1>2, <1>3 DEF TypeOK
  <2>3. \A v \in Worker : job[v] # e
    BY <1>1, <1>4 DEF IPlaces
  <2>4. \A a \in DOMAIN queue : a # 1 => queue[a] # e
    BY <1>1, <1>4 DEF IPlaces
  <2>. QED
    BY <2>1, <2>2, <2>3, <2>4
<1>6. /\ e.owner \in Thread /\ e.id \in TaskId /\ e = [owner |-> e.owner, id |-> e.id]
  BY <1>4, TaskOf
<1>7. ASSUME NEW u \in Thread
      PROVE  IF u = e.owner
               THEN /\ e.id \in Queued(u) /\ Queued(u)' = Queued(u) \ {e.id}
                    /\ e.id \notin Held(u) /\ Held(u)' = Held(u) \cup {e.id}
               ELSE Queued(u)' = Queued(u) /\ Held(u)' = Held(u)
  <2>1. \A i : i \in Queued(u)' <=>
          \E a \in 1 .. Len(queue) - 1 : queue'[a].owner = u /\ queue'[a].id = i
    BY <1>4 DEF Queued
  <2>2. \A i : i \in Queued(u) <=>
            \E a \in 1 .. Len(queue) : queue[a] = [owner |-> u, id |-> i]
    BY <1>1, <1>4, Members
  <2>3. \A a \in 1 .. Len(queue) - 1 : queue'[a] \in Task /\ queue'[a] = queue[a + 1]
    BY <1>1, <1>4 DEF TypeOK
  <2>4. \A i : i \in Queued(u)' <=>
          \E a \in 1 .. Len(queue) - 1 : queue[a + 1] = [owner |-> u, id |-> i]
    BY <2>1, <2>3, TaskOf
  <2>5. ASSUME NEW i
        PROVE  i \in Queued(u)' <=> i \in Queued(u) /\ e # [owner |-> u, id |-> i]
    <3>1. ASSUME NEW a \in 1 .. Len(queue), a # 1 PROVE a - 1 \in 1 .. Len(queue) - 1
      BY <1>4, <3>1
    <3>2. \A a \in 1 .. Len(queue) - 1 : a + 1 \in 1 .. Len(queue) /\ a + 1 # 1
      BY <1>4
    <3>3. ASSUME i \in Queued(u)' PROVE i \in Queued(u) /\ e # [owner |-> u, id |-> i]
      <4>1. PICK a \in 1 .. Len(queue) - 1 : queue[a + 1] = [owner |-> u, id |-> i]
        BY <2>4, <3>3
      <4>. QED
        BY <1>4, <1>5, <2>2, <3>2, <4>1
    <3>4. ASSUME i \in Queued(u), e # [owner |-> u, id |-> i] PROVE i \in Queued(u)'
      <4>1. PICK a \in 1 .. Len(queue) : queue[a] = [owner |-> u, id |-> i]
        BY <2>2, <3>4
      <4>2. a # 1 /\ (a - 1) + 1 = a
        BY <1>4, <3>4, <4>1
      <4>. QED
        BY <2>4, <3>1, <4>1, <4>2
    <3>. QED
      BY <3>3, <3>4
  <2>6. \A i : i \in Held(u) <=>
            \E v \in Worker : job[v] # NoTask /\ job[v].owner = u /\ job[v].id = i
    BY DEF Held
  <2>7. \A i : i \in Held(u)' <=>
          \E v \in Worker : job'[v] # NoTask /\ job'[v].owner = u /\ job'[v].id = i
    BY DEF Held
  <2>8. \A i : i \in Held(u)' <=> i \in Held(u) \/ (e.owner = u /\ e.id = i)
    BY <1>5, <2>6, <2>7
  <2>9. \A i : e = [owner |-> u, id |-> i] <=> u = e.owner /\ i = e.id
    BY <1>6
  <2>10. u = e.owner => e.id \in Queued(u)
    BY <1>4, <1>6, <2>2
  <2>11. u = e.owner => e.id \notin Held(u)
    BY <1>1, <1>5, <1>6, Members
  <2>. QED
    BY <2>5, <2>8, <2>9, <2>10, <2>11
<1>8. \A u \in Thread : /\ Outstanding(u)' = Outstanding(u)
                        /\ Queued(u)' \cup Held(u)' = Queued(u) \cup Held(u)
  <2>. SUFFICES ASSUME NEW u \in Thread
                PROVE  /\ Outstanding(u)' = Outstanding(u)
                       /\ Queued(u)' \cup Held(u)' = Queued(u) \cup Held(u)
    OBVIOUS
  <2>1. CASE u # e.owner
    BY <1>7, <2>1 DEF Outstanding
  <2>2. CASE u = e.owner
    <3>1. /\ Cardinality(Queued(u) \ {e.id}) = Cardinality(Queued(u)) - 1
          /\ Cardinality(Held(u) \cup {e.id}) = Cardinality(Held(u)) + 1
      BY <1>7, <2>2, PlacesFinite, FS_RemoveElement, FS_AddElement
    <3>2. Cardinality(Queued(u)) \in Nat /\ Cardinality(Held(u)) \in Nat
      BY PlacesFinite
    <3>3. Outstanding(u)' = Cardinality(Queued(u) \ {e.id}) + Cardinality(Held(u) \cup {e.id})
      BY <1>7, <2>2 DEF Outstanding
    <3>. QED
      BY <1>7, <2>2, <3>1, <3>2, <3>3 DEF Outstanding
  <2>. QED
    BY <2>1, <2>2
<1>9. TypeOK'
  BY <1>1, <1>2, <1>3, <1>4 DEF TypeOK
<1>10. IStage' /\ IForked'
  BY <1>1, <1>2 DEF IStage, IForked
<1>11. IPlaces'
  <2>1. ASSUME NEW a \in DOMAIN queue'
        PROVE  a + 1 \in DOMAIN queue /\ a + 1 # 1 /\ queue'[a] = queue[a + 1]
    BY <1>4
  <2>2. ASSUME NEW a \in DOMAIN queue', NEW b \in DOMAIN queue', queue'[a] = queue'[b]
        PROVE  a = b
    <3>1. a + 1 = b + 1
      BY <1>1, <2>1, <2>2 DEF IPlaces
    <3>2. a \in Int /\ b \in Int
      BY <1>4
    <3>. QED
      BY <3>1, <3>2
  <2>3. ASSUME NEW v \in Worker, NEW x \in Worker, job'[v] = job'[x], job'[v] # NoTask
        PROVE  v = x
    BY <1>1, <1>5, <2>3 DEF IPlaces
  <2>4. ASSUME NEW a \in DOMAIN queue', NEW v \in Worker PROVE queue'[a] # job'[v]
    BY <1>1, <1>5, <2>1 DEF IPlaces
  <2>5. ASSUME NEW v \in Worker PROVE job'[v] # NoTask <=> work'[v] \in {"run", "ran"}
    BY <1>1, <1>5 DEF IPlaces
  <2>. QED
    BY <2>2, <2>3, <2>4, <2>5 DEF IPlaces
<1>12. IRuns'
  <2>1. ASSUME NEW a \in DOMAIN queue' PROVE Owed(queue[a], 0)'
    <3>1. Owed(queue[a + 1], 0) /\ queue'[a] = queue[a + 1]
      BY <1>1, <1>4 DEF IRuns
    <3>. QED
      BY <1>2, <3>1 DEF Owed
  <2>2. ASSUME NEW v \in Worker, NEW m \in {0, 1}, work'[v] = IF m = 0 THEN "run" ELSE "ran"
        PROVE  Owed(job[v], m)'
    <3>1. CASE v = w
      <4>1. m = 0 /\ Owed(e, 0)
        BY <1>1, <1>4, <1>5, <2>2, <3>1 DEF IRuns
      <4>. QED
        BY <1>2, <1>5, <3>1, <4>1 DEF Owed
    <3>2. CASE v # w
      <4>1. Owed(job[v], m) /\ job'[v] = job[v]
        BY <1>1, <1>5, <2>2, <3>2 DEF IRuns
      <4>. QED
        BY <1>2, <4>1 DEF Owed
    <3>. QED
      BY <3>1, <3>2
  <2>3. ASSUME NEW u \in Thread, op'[u] # "none"
        PROVE  /\ \A i \in forked'[u] : i \notin Queued(u)' \cup Held(u)' => runs'[u][i] = 1
               /\ \A i \in TaskId \ forked'[u] : runs'[u][i] = 0
    BY <1>1, <1>2, <1>8, <2>3 DEF IRuns
  <2>4. \A v \in Worker : /\ work'[v] = "run" => Owed(job[v], 0)'
                          /\ work'[v] = "ran" => Owed(job[v], 1)'
    BY <2>2
  <2>. QED
    BY <2>1, <2>3, <2>4 DEF IRuns
<1>13. ICounters'
  BY <1>1, <1>2, <1>8 DEF ICounters
<1>14. IStop'
  BY <1>1, <1>2 DEF IStop
<1>. QED
  BY <1>9, <1>10, <1>11, <1>12, <1>13, <1>14 DEF IInv

\* A task that runs has not run before.
LEMMA RunIInv ==
  ASSUME IInv, NEW w \in Worker, Run(w)
  PROVE  /\ IInv'
         /\ job[w].owner \in Thread /\ job[w].id \in TaskId /\ Owed(job[w], 0)
         /\ UNCHANGED <<op, forked>>
         /\ runs' = [runs EXCEPT ![job[w].owner][job[w].id] = 1]
<1>1. TypeOK /\ IStage /\ IForked /\ IPlaces /\ IRuns /\ ICounters /\ IStop
  BY DEF IInv
<1>2. PICK o, i : o = job[w].owner /\ i = job[w].id
  OBVIOUS
<1>3. /\ UNCHANGED <<op, stage, planned, inflight, remaining, active, queue, stop,
                     job, forked>>
      /\ work[w] = "run"
      /\ work' = [work EXCEPT ![w] = "ran"]
      /\ runs' = [runs EXCEPT ![o][i] = @ + 1]
  BY <1>2 DEF Run, callers
<1>4. /\ job[w] # NoTask /\ job[w] \in Task /\ Owed(job[w], 0) /\ o \in Thread
      /\ i \in TaskId
      /\ op[o] # "none" /\ i \in forked[o] /\ runs[o][i] = 0
      /\ job[w] = [owner |-> o, id |-> i]
  <2>1. job[w] # NoTask /\ job[w] \in Task /\ Owed(job[w], 0)
    BY <1>1, <1>3 DEF IPlaces, IRuns, TypeOK
  <2>. QED
    BY <1>2, <2>1, TaskOf DEF Owed
<1>5. /\ runs' \in [Thread -> [TaskId -> Nat]] /\ runs'[o][i] = 1
      /\ \A u \in Thread, j \in TaskId : u # o \/ j # i => runs'[u][j] = runs[u][j]
  BY <1>1, <1>3, <1>4 DEF TypeOK
<1>6. \A u \in Thread : /\ Queued(u)' = Queued(u) /\ Held(u)' = Held(u)
                        /\ Outstanding(u)' = Outstanding(u)
  BY <1>3 DEF Queued, Held, Outstanding
<1>7. \A v \in Worker : v # w => work'[v] = work[v] /\ job[v] # job[w]
  BY <1>1, <1>3, <1>4 DEF TypeOK, IPlaces
<1>8. work'[w] = "ran"
  BY <1>1, <1>3 DEF TypeOK
<1>9. TypeOK'
  BY <1>1, <1>3, <1>5 DEF TypeOK
<1>10. IStage' /\ IForked' /\ ICounters' /\ IStop'
  BY <1>1, <1>3, <1>6 DEF IStage, IForked, ICounters, IStop
<1>11. IPlaces'
  <2>1. \A v \in Worker : job[v] # NoTask <=> work'[v] \in {"run", "ran"}
    BY <1>1, <1>4, <1>7, <1>8 DEF IPlaces
  <2>. QED
    BY <1>1, <1>3, <2>1 DEF IPlaces
<1>12. IRuns'
  <2>1. ASSUME NEW e \in Task, e # job[w]
        PROVE  e.owner # o \/ e.id # i
    BY <1>4, <2>1, TaskOf
  <2>2. ASSUME NEW e \in Task, e # job[w], e.id \in forked[e.owner]
        PROVE  runs'[e.owner][e.id] = runs[e.owner][e.id]
    BY <1>5, <2>1, <2>2, TaskOf
  <2>3. UNCHANGED <<op, queue, job, forked>>
    BY <1>3
  <2>4. ASSUME NEW a \in DOMAIN queue PROVE Owed(queue[a], 0)'
    <3>1. queue[a] \in Task /\ Owed(queue[a], 0) /\ queue[a] # job[w]
      BY <1>1 DEF IRuns, IPlaces, TypeOK
    <3>. QED
      BY <2>2, <2>3, <3>1 DEF Owed
  <2>5. ASSUME NEW v \in Worker, NEW m \in {0, 1}, work'[v] = IF m = 0 THEN "run" ELSE "ran"
        PROVE  Owed(job[v], m)'
    <3>1. CASE v = w
      <4>1. m = 1
        BY <1>8, <2>5, <3>1
      <4>. QED
        BY <1>2, <1>4, <1>5, <2>3, <3>1, <4>1 DEF Owed
    <3>2. CASE v # w
      <4>1. Owed(job[v], m) /\ job[v] # job[w] /\ job[v] \in Task
        BY <1>1, <1>7, <2>5, <3>2 DEF IRuns, IPlaces, TypeOK
      <4>. QED
        BY <2>2, <2>3, <4>1 DEF Owed
    <3>. QED
      BY <3>1, <3>2
  <2>6. ASSUME NEW u \in Thread, op'[u] # "none"
        PROVE  /\ \A j \in forked'[u] : j \notin Queued(u)' \cup Held(u)' => runs'[u][j] = 1
               /\ \A j \in TaskId \ forked'[u] : runs'[u][j] = 0
    <3>1. forked[u] \subseteq TaskId
      BY <1>1 DEF TypeOK
    <3>2. /\ \A j \in forked[u] : j \notin Queued(u) \cup Held(u) => runs[u][j] = 1
          /\ \A j \in TaskId \ forked[u] : runs[u][j] = 0
      BY <1>1, <2>3, <2>6 DEF IRuns
    <3>3. ASSUME NEW j \in TaskId \ forked[u] PROVE runs'[u][j] = 0
      <4>1. u # o \/ j # i
        BY <1>4
      <4>. QED
        BY <1>5, <3>2, <4>1
    <3>4. ASSUME NEW j \in forked[u], j \notin Queued(u) \cup Held(u) PROVE runs'[u][j] = 1
      BY <1>5, <3>1, <3>2, <3>4
    <3>. QED
      BY <1>6, <2>3, <3>3, <3>4
  <2>7. \A v \in Worker : /\ work'[v] = "run" => Owed(job[v], 0)'
                          /\ work'[v] = "ran" => Owed(job[v], 1)'
    BY <2>5
  <2>8. \A a \in DOMAIN queue' : Owed(queue[a], 0)'
    BY <2>3, <2>4
  <2>. QED
    BY <2>6, <2>7, <2>8 DEF IRuns
<1>13. runs' = [runs EXCEPT ![o][i] = 1]
  BY <1>1, <1>3, <1>4 DEF TypeOK
<1>. QED
  BY <1>2, <1>3, <1>4, <1>9, <1>10, <1>11, <1>12, <1>13 DEF IInv

\* A finished task is no longer counted, and its caller is woken if it waits.
LEMMA FinishIInv == ASSUME IInv, NEW w \in Worker, Finish(w) PROVE IInv'
<1>1. TypeOK /\ IStage /\ IForked /\ IPlaces /\ IRuns /\ ICounters /\ IStop
  BY DEF IInv
<1>2. PICK t, i : t = job[w].owner /\ i = job[w].id
  OBVIOUS
<1>3. /\ UNCHANGED <<op, planned, active, queue, stop, forked, runs>>
      /\ work[w] = "ran"
      /\ remaining' = [remaining EXCEPT ![t] = @ - 1]
      /\ inflight' = [inflight EXCEPT ![t] = IF op[t] \in Group THEN @ - 1 ELSE @]
      /\ Wake(t, op[t] \in Group \/ remaining[t] = 1)
      /\ work' = [work EXCEPT ![w] = "poll"]
      /\ job' = [job EXCEPT ![w] = NoTask]
  BY <1>2 DEF Finish
<1>4. /\ job[w] # NoTask /\ job[w] \in Task /\ t \in Thread /\ i \in TaskId
      /\ op[t] # "none" /\ i \in forked[t] /\ runs[t][i] = 1
      /\ job[w] = [owner |-> t, id |-> i]
  <2>1. job[w] # NoTask /\ job[w] \in Task /\ Owed(job[w], 1)
    BY <1>1, <1>3 DEF IPlaces, IRuns, TypeOK
  <2>. QED
    BY <1>2, <2>1, TaskOf DEF Owed
<1>5. PICK s : /\ stage' = [stage EXCEPT ![t] = s]
               /\ \/ s = stage[t]
                  \/ s = "fork" /\ stage[t] = "full"
                  \/ s = "join" /\ stage[t] = "asleep"
  BY <1>3 DEF Wake
<1>6. /\ job'[w] = NoTask /\ work'[w] = "poll"
      /\ \A v \in Worker : v # w =>
              job'[v] = job[v] /\ work'[v] = work[v] /\ job[v] # job[w]
  BY <1>1, <1>3, <1>4 DEF TypeOK, IPlaces
<1>7. ASSUME NEW u \in Thread
      PROVE  /\ Queued(u)' = Queued(u)
             /\ IF u = t THEN i \in Held(u) /\ Held(u)' = Held(u) \ {i}
                         ELSE Held(u)' = Held(u)
  <2>1. Queued(u)' = Queued(u)
    BY <1>3 DEF Queued
  <2>2. \A j : j \in Held(u) <=>
            \E v \in Worker : job[v] # NoTask /\ job[v].owner = u /\ job[v].id = j
    BY DEF Held
  <2>3. \A j : j \in Held(u)' <=>
          \E v \in Worker : job'[v] # NoTask /\ job'[v].owner = u /\ job'[v].id = j
    BY DEF Held
  <2>4. ASSUME NEW j PROVE j \in Held(u)' <=> j \in Held(u) /\ ~(u = t /\ j = i)
    <3>1. ASSUME j \in Held(u)' PROVE j \in Held(u) /\ ~(u = t /\ j = i)
      <4>1. PICK v \in Worker : job'[v] # NoTask /\ job'[v].owner = u /\ job'[v].id = j
        BY <2>3, <3>1
      <4>2. v # w /\ job'[v] = job[v] /\ job[v] # job[w] /\ job[v] \in Task
        BY <1>1, <1>6, <4>1 DEF TypeOK
      <4>3. ~(u = t /\ j = i)
        BY <1>4, <4>1, <4>2, TaskOf
      <4>. QED
        BY <2>2, <4>1, <4>2, <4>3
    <3>2. ASSUME j \in Held(u), ~(u = t /\ j = i) PROVE j \in Held(u)'
      <4>1. PICK v \in Worker : job[v] # NoTask /\ job[v].owner = u /\ job[v].id = j
        BY <2>2, <3>2
      <4>2. v # w
        BY <1>2, <3>2, <4>1
      <4>. QED
        BY <1>6, <2>3, <4>1, <4>2
    <3>. QED
      BY <3>1, <3>2
  <2>5. u = t => i \in Held(u)
    BY <1>2, <1>4, <2>2
  <2>. QED
    BY <2>1, <2>4, <2>5
<1>8. /\ Outstanding(t)' = Outstanding(t) - 1 /\ Outstanding(t) \in Nat \ {0}
      /\ \A u \in Thread : u # t => Outstanding(u)' = Outstanding(u)
  <2>1. Cardinality(Held(t) \ {i}) = Cardinality(Held(t)) - 1
    BY <1>4, <1>7, PlacesFinite, FS_RemoveElement
  <2>2. /\ Cardinality(Queued(t)) \in Nat /\ Cardinality(Held(t)) \in Nat
        /\ Outstanding(t) \in Nat
    BY <1>4, PlacesFinite
  <2>3. Outstanding(t) # 0
    BY <1>4, <1>7, PlacesFinite
  <2>4. Outstanding(t)' = Outstanding(t) - 1
    <3>1. Queued(t)' = Queued(t) /\ Held(t)' = Held(t) \ {i}
      BY <1>4, <1>7
    <3>2. Outstanding(t)' = Cardinality(Queued(t)) + Cardinality(Held(t) \ {i})
      BY <3>1 DEF Outstanding
    <3>3. Outstanding(t) = Cardinality(Queued(t)) + Cardinality(Held(t))
      BY DEF Outstanding
    <3>. QED
      BY <2>1, <2>2, <3>2, <3>3
  <2>5. ASSUME NEW u \in Thread, u # t PROVE Outstanding(u)' = Outstanding(u)
    <3>1. Queued(u)' = Queued(u) /\ Held(u)' = Held(u)
      BY <1>7, <2>5
    <3>. QED
      BY <3>1 DEF Outstanding
  <2>. QED
    BY <2>2, <2>3, <2>4, <2>5
<1>9. /\ remaining[t] \in 1 .. MaxTasks /\ planned[t] \in Nat
      /\ Cardinality(forked[t]) \in Nat
      /\ op[t] \in Group => inflight[t] = remaining[t]
      /\ IF op[t] = "for"
           THEN /\ remaining[t] = Outstanding(t) + planned[t] - Cardinality(forked[t])
                /\ inflight[t] = 0
           ELSE /\ remaining[t] = Outstanding(t) + IF stage[t] = "enqueue" THEN 1 ELSE 0
                /\ inflight[t] = remaining[t]
  <2>1. IF op[t] = "for"
          THEN /\ remaining[t] = Outstanding(t) + planned[t] - Cardinality(forked[t])
               /\ inflight[t] = 0
          ELSE /\ remaining[t] = Outstanding(t) + IF stage[t] = "enqueue" THEN 1 ELSE 0
               /\ inflight[t] = remaining[t]
    BY <1>1, <1>4 DEF ICounters
  <2>2. /\ remaining[t] \in 0 .. MaxTasks /\ planned[t] \in Nat
        /\ Cardinality(forked[t]) \in Nat /\ Cardinality(forked[t]) <= planned[t]
    BY <1>1, <1>4, CountersInRange DEF TypeOK
  <2>3. remaining[t] # 0
    BY <1>8, <2>1, <2>2
  <2>. QED
    BY <2>1, <2>2, <2>3, ConstantsAssumption DEF Group
<1>10. /\ remaining'[t] = remaining[t] - 1
       /\ inflight'[t] = IF op[t] \in Group THEN inflight[t] - 1 ELSE inflight[t]
       /\ stage'[t] = s
       /\ \A u \in Thread : u # t =>
            /\ remaining'[u] = remaining[u] /\ inflight'[u] = inflight[u]
            /\ stage'[u] = stage[u]
  BY <1>1, <1>3, <1>4, <1>5 DEF TypeOK
<1>11. TypeOK'
  <2>1. remaining' \in [Thread -> 0 .. MaxTasks]
    <3>1. remaining[t] - 1 \in 0 .. MaxTasks
      BY <1>9, ConstantsAssumption
    <3>. QED
      BY <1>1, <1>3, <3>1 DEF TypeOK
  <2>2. inflight' \in [Thread -> 0 .. MaxInflight]
    <3>1. inflight[t] \in 0 .. MaxInflight /\ MaxInflight \in Nat
      BY <1>1, <1>4, ConstantsAssumption DEF TypeOK
    <3>2. (IF op[t] \in Group THEN inflight[t] - 1 ELSE inflight[t]) \in 0 .. MaxInflight
      BY <1>9, <3>1, ConstantsAssumption
    <3>. QED
      BY <1>1, <1>3, <3>2 DEF TypeOK
  <2>3. stage' \in [Thread -> {"idle", "fork", "full", "enqueue", "notify", "join",
                               "asleep", "resize"}]
    BY <1>1, <1>4, <1>5 DEF TypeOK
  <2>. QED
    BY <1>1, <1>3, <2>1, <2>2, <2>3 DEF TypeOK
<1>12. IStage'
  <2>1. ASSUME NEW u \in Thread
        PROVE  /\ op'[u] = "none" <=> stage'[u] \in {"idle", "resize"}
               /\ u \in Worker => op'[u] = "none"
               /\ stage'[u] \in {"enqueue", "full"} =>
                    op'[u] \in Group /\ Cardinality(forked'[u]) < planned'[u]
               /\ stage'[u] \in {"join", "asleep"} =>
                    Cardinality(forked'[u]) = planned'[u]
    <3>1. op'[u] = op[u] /\ forked'[u] = forked[u] /\ planned'[u] = planned[u]
      BY <1>3
    <3>2. CASE u = t
      BY <1>1, <1>5, <1>10, <3>1, <3>2 DEF IStage
    <3>3. CASE u # t
      BY <1>1, <1>10, <3>1, <3>3 DEF IStage
    <3>. QED
      BY <3>2, <3>3
  <2>. QED
    BY <2>1 DEF IStage, Thread
<1>13. IForked'
  BY <1>1, <1>3 DEF IForked
<1>14. IPlaces'
  <2>1. ASSUME NEW v \in Worker, NEW x \in Worker, job'[v] = job'[x], job'[v] # NoTask
        PROVE  v = x
    BY <1>1, <1>6, <2>1 DEF IPlaces
  <2>2. ASSUME NEW a \in DOMAIN queue, NEW v \in Worker PROVE queue[a] # job'[v]
    <3>1. queue[a] \in Task
      BY <1>1 DEF TypeOK
    <3>. QED
      BY <1>1, <1>6, <3>1, ConstantsAssumption DEF IPlaces
  <2>3. ASSUME NEW v \in Worker PROVE job'[v] # NoTask <=> work'[v] \in {"run", "ran"}
    BY <1>1, <1>6 DEF IPlaces
  <2>. QED
    BY <1>1, <1>3, <2>1, <2>2, <2>3 DEF IPlaces
<1>15. IRuns'
  <2>1. UNCHANGED <<op, queue, forked, runs>>
    BY <1>3
  <2>2. ASSUME NEW a \in DOMAIN queue PROVE Owed(queue[a], 0)'
    BY <1>1, <2>1 DEF IRuns, Owed
  <2>3. ASSUME NEW v \in Worker, NEW m \in {0, 1}, work'[v] = IF m = 0 THEN "run" ELSE "ran"
        PROVE  Owed(job[v], m)'
    <3>1. v # w
      BY <1>6, <2>3
    <3>2. Owed(job[v], m) /\ job'[v] = job[v]
      BY <1>1, <1>6, <2>3, <3>1 DEF IRuns
    <3>. QED
      BY <2>1, <3>2 DEF Owed
  <2>4. ASSUME NEW u \in Thread, op'[u] # "none"
        PROVE  /\ \A j \in forked'[u] : j \notin Queued(u)' \cup Held(u)' => runs'[u][j] = 1
               /\ \A j \in TaskId \ forked'[u] : runs'[u][j] = 0
    BY <1>1, <1>4, <1>7, <2>1, <2>4 DEF IRuns
  <2>5. \A v \in Worker : /\ work'[v] = "run" => Owed(job[v], 0)'
                          /\ work'[v] = "ran" => Owed(job[v], 1)'
    BY <2>3
  <2>6. \A a \in DOMAIN queue' : Owed(queue[a], 0)'
    BY <2>1, <2>2
  <2>. QED
    BY <2>4, <2>5, <2>6 DEF IRuns
<1>16. ICounters'
  <2>1. ASSUME NEW u \in Thread
        PROVE  IF op'[u] = "for"
                 THEN /\ remaining'[u]
                             = Outstanding(u)' + planned'[u] - Cardinality(forked'[u])
                      /\ inflight'[u] = 0
                 ELSE /\ remaining'[u] = Outstanding(u)'
                                           + IF stage'[u] = "enqueue" THEN 1 ELSE 0
                      /\ inflight'[u] = remaining'[u]
    <3>1. op'[u] = op[u] /\ forked'[u] = forked[u] /\ planned'[u] = planned[u]
      BY <1>3
    <3>2. CASE u = t
      <4>1. stage'[u] = "enqueue" <=> stage[u] = "enqueue"
        BY <1>5, <1>10, <3>2
      <4>2. op[u] = "for" \/ op[u] \in Group
        BY <1>1, <1>4, <3>2 DEF TypeOK, Operation, Group
      <4>. QED
        BY <1>8, <1>9, <1>10, <3>1, <3>2, <4>1, <4>2 DEF Group
    <3>3. CASE u # t
      BY <1>1, <1>8, <1>10, <3>1, <3>3 DEF ICounters
    <3>. QED
      BY <3>2, <3>3
  <2>. QED
    BY <2>1 DEF ICounters
<1>17. IStop'
  BY <1>3, <1>4, <1>1, OpenNotStopped DEF IStop
<1>. QED
  BY <1>11, <1>12, <1>13, <1>14, <1>15, <1>16, <1>17 DEF IInv
-----------------------------------------------------------------------------
(* The theorems.                                                           *)

\* The pool starts empty, with no operation open.
LEMMA InitIInv == Init => IInv
<1>. SUFFICES ASSUME Init PROVE IInv
  OBVIOUS
<1>1. /\ op = [t \in Thread |-> "none"] /\ stage = [t \in Thread |-> "idle"]
      /\ planned = [t \in Thread |-> 0] /\ inflight = [t \in Thread |-> 0]
      /\ remaining = [t \in Thread |-> 0] /\ active = 0 /\ queue = <<>> /\ stop = FALSE
      /\ work = [w \in Worker |-> "poll"] /\ job = [w \in Worker |-> NoTask]
      /\ forked = [t \in Thread |-> {}]
      /\ runs = [t \in Thread |-> [i \in TaskId |-> 0]]
  BY DEF Init
<1>2. DOMAIN queue = {} /\ queue \in Seq(Task)
  BY <1>1
<1>3. Cardinality({}) = 0
  BY FS_EmptySet
<1>4. TypeOK
  <2>1. Cardinality(Thread) \in Nat
    BY FiniteThreads, FS_CardinalityType
  <2>2. 0 \in 0 .. MaxInflight /\ 0 \in 0 .. MaxTasks /\ 0 \in 0 .. Cardinality(Thread)
    BY <2>1, ConstantsAssumption
  <2>. QED
    BY <1>1, <1>2, <2>2 DEF TypeOK, Operation
<1>5. IStage
  BY <1>1, FiniteThreads DEF IStage, Thread
<1>6. IForked
  BY <1>1, <1>3 DEF IForked
<1>7. IPlaces /\ IRuns
  BY <1>1, <1>2 DEF IPlaces, IRuns
<1>8. ICounters
  <2>1. ASSUME NEW t \in Thread
        PROVE  /\ op[t] = "none" /\ stage[t] = "idle" /\ remaining[t] = 0 /\ inflight[t] = 0
               /\ Outstanding(t) = 0
    <3>1. Queued(t) = {}
      BY <1>2 DEF Queued
    <3>2. Held(t) = {}
      BY <1>1 DEF Held
    <3>3. Outstanding(t) = 0 + 0
      BY <1>3, <3>1, <3>2 DEF Outstanding
    <3>. QED
      BY <1>1, <3>3
  <2>. QED
    BY <2>1 DEF ICounters
<1>9. IStop
  <2>1. {t \in Thread : op[t] # "none"} = {}
    BY <1>1
  <2>. QED
    BY <1>1, <1>3, <2>1 DEF IStop
<1>. QED
  BY <1>4, <1>5, <1>6, <1>7, <1>8, <1>9 DEF IInv

\* No step of a caller, of a pool thread or of the pool breaks the invariant.
LEMMA NextIInv == ASSUME IInv, [Next]_vars PROVE IInv'
<1>1. ASSUME NEW t \in Thread, NEW kind \in Group, NEW n \in 0 .. MaxTasks,
             OpenGroup(t, kind, n)
      PROVE  IInv'
  <2>1. t = Main /\ MayFork(Main) /\ Open({Main}, kind, n)
    BY <1>1, WorkersDoNotFork DEF OpenGroup
  <2>. QED
    BY <2>1, OpenIInv DEF Group
<1>2. ASSUME NEW n \in 0 .. MaxTasks, OpenJoin(n) \/ OpenFor(n)
      PROVE  IInv'
  BY <1>2, OpenIInv DEF OpenJoin, OpenFor
<1>3. ASSUME NEW t \in Thread, CallerStep(t)
      PROVE  IInv'
  BY <1>3, ReserveIInv, QuietCallerIInv, EnqueueIInv, CloseIInv DEF CallerStep
<1>4. ASSUME NEW w \in Worker, WorkerStep(w)
      PROVE  IInv'
  BY <1>4, TakeIInv, IdleWorkerIInv, RunIInv, FinishIInv DEF WorkerStep
<1>5. CASE ResetPool \/ Replace
  BY <1>5, ResizeIInv
<1>6. CASE UNCHANGED vars
  <2>1. UNCHANGED <<op, stage, planned, inflight, remaining, active, queue, stop, work, job,
                    forked, runs>>
    BY <1>6 DEF vars, callers, pool
  <2>2. TypeOK /\ IStage /\ ICounters /\ IStop
    BY DEF IInv
  <2>3. IForked' /\ IPlaces' /\ IRuns' /\ \A t \in Thread : Outstanding(t)' = Outstanding(t)
    BY <2>1, TasksStay
  <2>4. TypeOK' /\ IStage' /\ ICounters' /\ IStop'
    BY <2>1, <2>2, <2>3 DEF TypeOK, IStage, ICounters, IStop
  <2>. QED
    BY <2>3, <2>4 DEF IInv
<1>. QED
  BY <1>1, <1>2, <1>3, <1>4, <1>5, <1>6 DEF Next

\* The strengthened invariant of the runtime.
THEOREM RuntimeInvariant == Spec => []IInv
<1>. QED
  BY InitIInv, NextIInv, PTL DEF Spec

\* The counters callers wait on equal the tasks still to come, and the pool is
\* stopped only when nothing can enqueue on it: TaskGroup::remaining_ and
\* inflight_, remaining of parallel_for_impl, g_active_tasks.
THEOREM CountersAreExact == Spec => []CountersExact
<1>1. IInv => CountersExact
  <2>. SUFFICES ASSUME IInv PROVE CountersExact
    OBVIOUS
  <2>1. TypeOK /\ ICounters /\ IStop
    BY DEF IInv
  <2>2. ASSUME NEW t \in Thread
        PROVE  LET outstanding == Cardinality(Queued(t)) + Cardinality(Held(t))
               IN  IF op[t] = "for"
                   THEN remaining[t] = outstanding + planned[t] - Cardinality(forked[t])
                   ELSE /\ remaining[t] =
                             outstanding + IF stage[t] = "enqueue" THEN 1 ELSE 0
                        /\ inflight[t] = remaining[t]
    BY <2>1 DEF ICounters, Outstanding
  <2>. QED
    BY <2>1, <2>2 DEF CountersExact, IStop
<1>. QED
  BY <1>1, RuntimeInvariant, PTL

\* A task's references to its caller's stack are good as long as it is queued or
\* held by a pool thread: TaskGroup::wait and the join of parallel_for_impl.
THEOREM NoTaskLeftBehind == Spec => []NoTaskOutlivesItsOperation
<1>1. IInv => NoTaskOutlivesItsOperation
  BY PlacesFinite DEF NoTaskOutlivesItsOperation
<1>. QED
  BY <1>1, RuntimeInvariant, PTL
-----------------------------------------------------------------------------
(* The runtime implements ForkJoin.                                        *)

OpenCallers == {t \in Thread : op[t] # "none"}

\* Nothing is open and nothing is forked at the start.
LEMMA InitRefines == Init => Join!JoinInit
  BY DEF Init, Join!JoinInit, Join!NotRun

\* Every step of the runtime is a step of ForkJoin, or changes nothing of it.
LEMMA StepRefines ==
  ASSUME IInv, [Next]_vars
  PROVE  Join!JoinNext \/ UNCHANGED <<OpenCallers, forked, runs>>
<1>1. ASSUME NEW T \in {{Main}, {Main, Helper}}, NEW kind \in {"leaf", "measure", "for"},
             NEW n \in 0 .. MaxTasks, MayFork(Main), Open(T, kind, n)
      PROVE  Join!JoinNext
  <2>1. \A u \in T : u \in Thread /\ op[u] = "none"
    BY <1>1, OpenIInv
  <2>2. /\ op' = [t \in Thread |-> IF t \in T THEN kind ELSE op[t]]
        /\ forked' = [t \in Thread |-> IF t \in T THEN {} ELSE forked[t]]
        /\ runs' = [t \in Thread |-> IF t \in T THEN [i \in TaskId |-> 0] ELSE runs[t]]
    BY <1>1 DEF Open
  <2>3. T \in SUBSET Thread /\ T \cap OpenCallers = {} /\ OpenCallers' = OpenCallers \cup T
    BY <2>1, <2>2 DEF OpenCallers
  <2>4. Join!Open(T)
    BY <2>2, <2>3 DEF Join!Open, Join!NotRun, OpenCallers
  <2>. QED
    BY <2>3, <2>4 DEF Join!JoinNext
<1>2. ASSUME NEW t \in Thread, NEW kind \in Group, NEW n \in 0 .. MaxTasks,
             OpenGroup(t, kind, n)
      PROVE  Join!JoinNext
  <2>1. t = Main /\ MayFork(Main) /\ Open({Main}, kind, n)
    BY <1>2, WorkersDoNotFork DEF OpenGroup
  <2>. QED
    BY <1>1, <2>1 DEF Group
<1>3. ASSUME NEW n \in 0 .. MaxTasks, OpenJoin(n) \/ OpenFor(n)
      PROVE  Join!JoinNext
  BY <1>1, <1>3 DEF OpenJoin, OpenFor
<1>4. ASSUME NEW t \in Thread, Enqueue(t)
      PROVE  Join!JoinNext
  <2>1. op[t] # "none" /\ op' = op /\ runs' = runs
    BY <1>4, EnqueueIInv DEF Enqueue
  <2>2. PICK id \in TaskId \ forked[t] : forked' = [forked EXCEPT ![t] = @ \cup {id}]
    BY <1>4, EnqueueIInv
  <2>3. Join!Fork(t, id)
    BY <2>1, <2>2 DEF Join!Fork
  <2>. QED
    BY <2>2, <2>3 DEF Join!JoinNext
<1>5. ASSUME NEW t \in Thread, Close(t)
      PROVE  Join!JoinNext
  <2>1. stage[t] = "join" /\ remaining[t] = 0
        /\ op' = [op EXCEPT ![t] = "none"] /\ forked' = forked /\ runs' = runs
    BY <1>5 DEF Close
  <2>2. op[t] # "none" /\ \A i \in forked[t] : runs[t][i] = 1
    BY <2>1, NothingRemains
  <2>3. OpenCallers' = OpenCallers \ {t} /\ t \in OpenCallers
    BY <2>1, <2>2 DEF OpenCallers, IInv, TypeOK
  <2>4. Join!Return(t)
    BY <2>1, <2>2, <2>3 DEF Join!Return, OpenCallers
  <2>. QED
    BY <2>4 DEF Join!JoinNext
<1>6. ASSUME NEW w \in Worker, Run(w)
      PROVE  Join!JoinNext
  <2>1. PICK o, i : o = job[w].owner /\ i = job[w].id
    OBVIOUS
  <2>2. /\ o \in Thread /\ i \in TaskId /\ op[o] # "none" /\ i \in forked[o]
        /\ runs[o][i] = 0
        /\ runs' = [runs EXCEPT ![o][i] = 1]
    BY <1>6, <2>1, RunIInv DEF Owed
  <2>3. op' = op /\ forked' = forked
    BY <1>6 DEF Run, callers
  <2>4. Join!Do(o, i)
    BY <2>2, <2>3 DEF Join!Do
  <2>. QED
    BY <2>2, <2>4 DEF Join!JoinNext
<1>7. ASSUME UNCHANGED <<op, forked, runs>>
      PROVE  UNCHANGED <<OpenCallers, forked, runs>>
  BY <1>7 DEF OpenCallers
<1>8. ASSUME NEW t \in Thread, CallerStep(t)
      PROVE  Join!JoinNext \/ UNCHANGED <<op, forked, runs>>
  BY <1>4, <1>5, <1>8
  DEF CallerStep, Reserve, WaitForSlot, NotifyOne, AllForked, WaitForTasks
<1>9. ASSUME NEW w \in Worker, WorkerStep(w)
      PROVE  Join!JoinNext \/ UNCHANGED <<op, forked, runs>>
  BY <1>6, <1>9 DEF WorkerStep, Take, Sleep, Exit, Finish, callers
<1>10. ASSUME ResetPool \/ Replace \/ UNCHANGED vars
       PROVE  UNCHANGED <<op, forked, runs>>
  BY <1>10 DEF ResetPool, Replace, PoolReplaced, vars, callers
<1>. QED
  BY <1>2, <1>3, <1>7, <1>8, <1>9, <1>10 DEF Next

\* Each task of TaskGroup, parallel_for and join runs exactly once, and before
\* its operation returns.
THEOREM RuntimeImplementsForkJoin == Spec => ForkJoinImplemented
<1>1. IInv /\ [Next]_vars => [Join!JoinNext]_<<OpenCallers, forked, runs>>
  BY StepRefines
<1>. QED
  BY <1>1, InitRefines, RuntimeInvariant, PTL
  DEF Spec, ForkJoinImplemented, Join!JoinSpec, OpenCallers

-----------------------------------------------------------------------------
(***************************************************************************)
(* The learned index.  Every leaf is trained once, on all the rows that    *)
(* lookups route to it, and its error covers every lookup it may be asked  *)
(* for, whatever the keys, the routing and the fitted model.               *)
(*                                                                         *)
(* The invariant has six parts.  IInput: the rows are ordered and stay.    *)
(* ISearch: the probes leave the middle leaf in the interval, so that the  *)
(* split separates the leaves.  IBuild: the calls share out leaves and     *)
(* rows, and each has trained the leaves up to the one it is at, with      *)
(* every row passed in the data of its leaf.  ICorrect: the pass of        *)
(* LowerBoundCorrection has the ends of every leaf and the longest run of  *)
(* every leaf among the rows passed, but for the run in progress.          *)
(* IObserved: the observed leaf has the error that was computed for it.    *)
(* IPartition: of several layers, every row in hand is in the partition of *)
(* the model that a lookup of its key gets to, and every row passed in the *)
(* bucket that the lookup goes on to.  Training and lookups compute these  *)
(* differently; RoutingsAgree is where they meet.                          *)
(*                                                                         *)
(* A key that is not a row lies in a gap between two rows (Gap).  With a   *)
(* monotone routing its leaf is that of one of the two or has no row at    *)
(* all, and each case bounds the prediction from one term of the error on  *)
(* either side: that of a row, or one of the two terms for the gaps at the *)
(* edges of a leaf, with the longest run for the duplicates of a row.      *)
(*                                                                         *)
(* Over a spline the lookup also needs that the greedy fit is exact to the *)
(* line (SplineFacts), by induction over the points added so far.          *)
(***************************************************************************)

\* What the training is given: sorted rows and a router.
IInput ==
  /\ mode \in {"two_layer", "multi_layer", "bounded"}
  /\ \A s \in {dataset, rows} : s \in Seq(Key) \ {<<>>} /\ Ordered(s)
  /\ top \in [Key -> Nat]
  /\ line \in LineSizes \cup {0}
  /\ mode = "bounded" <=> line # 0
  /\ mode = "bounded" => rows = SplineKeys(dataset, line)
  /\ mode = "multi_layer" =>
       layers \in Uppers /\ top = [k \in Key |-> predict_leaf_index(layers, k)]

\* The rows are numbered and ordered, and every key is routed to a leaf.
LEMMA InputFacts ==
  ASSUME IInput
  PROVE  /\ NumRows \in Nat \ {0} /\ Rows = 1 .. NumRows
         /\ \A i \in Rows : rows[i] \in Key
         /\ \A i, j \in Rows : i <= j => rows[i] <= rows[j]
         /\ \A k \in Key : k \in Nat /\ k <= MaxKey /\ top[k] \in Nat /\ LeafOf(k) \in Leaf
         /\ Leaves \in Nat /\ Leaves >= 2 /\ MaxKey \in Nat
<1>1. rows \in Seq(Key) /\ rows # <<>> /\ Ordered(rows) /\ top \in [Key -> Nat]
  BY DEF IInput
<1>2. NumRows \in Nat \ {0} /\ Rows = 1 .. NumRows /\ rows \in [Rows -> Key]
  BY <1>1, EmptySeq, LenProperties DEF NumRows, Rows
<1>3. MaxKey \in Nat /\ Leaves \in Nat /\ Leaves >= 2
  BY IndexAssumption
<1>4. \A k \in Key : k \in Nat /\ k <= MaxKey
  BY <1>3 DEF Key
<1>5. \A k \in Key : top[k] \in Nat /\ LeafOf(k) \in Leaf
  BY <1>1, <1>3 DEF LeafOf, Lesser, Leaf
<1>6. \A i \in Rows : rows[i] \in Key /\ rows[i] \in Nat
  BY <1>2, <1>4
<1>7. \A i \in 2 .. NumRows : rows[i - 1] <= rows[i]
  BY <1>1 DEF Ordered, NumRows
<1>8. \A i, j \in 1 .. NumRows : i <= j => rows[i] <= rows[j]
  BY <1>2, <1>6, <1>7, OrderedPairs
<1>. QED
  BY <1>2, <1>3, <1>4, <1>5, <1>6, <1>8

\* Offset(i) rows come before the run of row i, and their keys are smaller.
LEMMA OffsetFacts ==
  ASSUME IInput, NEW i \in Rows
  PROVE  /\ Offset(i) \in Nat /\ Offset(i) < i
         /\ \A j \in Rows : j <= Offset(i) <=> rows[j] < rows[i]
<1>. DEFINE S == {j \in Rows : rows[j] = rows[i]}
<1>1. /\ NumRows \in Nat \ {0} /\ Rows = 1 .. NumRows
      /\ \A j \in Rows : rows[j] \in Nat
      /\ \A a, b \in Rows : a <= b => rows[a] <= rows[b]
  BY InputFacts
<1>2. S \in SUBSET Nat /\ i \in S
  BY <1>1
<1>. DEFINE m == Min(S)
<1>3. m \in S /\ \A j \in S : m <= j
  BY <1>2, MinOf
<1>4. m \in Rows /\ rows[m] = rows[i] /\ m <= i /\ \A j \in Rows : rows[j] = rows[i] => m <= j
  BY <1>2, <1>3
<1>5. Offset(i) = m - 1
  BY DEF Offset
<1>. HIDE DEF m, S
<1>6. \A j \in Rows : j <= m - 1 <=> rows[j] < rows[i]
  <2>. TAKE j \in Rows
  <2>1. CASE j <= m - 1
    <3>1. j <= m /\ rows[j] <= rows[m] /\ rows[j] # rows[i]
      BY <1>1, <1>4, <2>1
    <3>. QED
      BY <1>1, <1>4, <2>1, <3>1
  <2>2. CASE ~(j <= m - 1)
    <3>1. m <= j /\ rows[m] <= rows[j]
      BY <1>1, <1>4, <2>2
    <3>. QED
      BY <1>1, <1>4, <2>2, <3>1
  <2>. QED
    BY <2>1, <2>2
<1>. QED
  BY <1>1, <1>4, <1>5, <1>6

\* LowerBound(q) counts the rows with smaller keys: they come first.
LEMMA LowerBoundFacts ==
  ASSUME IInput, NEW q \in Key
  PROVE  /\ LowerBound(q) \in 0 .. NumRows
         /\ \A i \in Rows : i <= LowerBound(q) <=> rows[i] < q
         /\ q <= LastKey => LowerBound(q) < NumRows
<1>1. /\ NumRows \in Nat \ {0} /\ Rows = 1 .. NumRows /\ q \in Nat
      /\ \A j \in Rows : rows[j] \in Nat
      /\ \A a, b \in Rows : a <= b => rows[a] <= rows[b]
  BY InputFacts
<1>. DEFINE S == {i \in Rows : rows[i] >= q}
<1>2. \E n \in 0 .. NumRows : \A i \in Rows : i <= n <=> rows[i] < q
  <2>1. CASE S = {}
    <3>1. \A i \in Rows : rows[i] < q
      BY <1>1, <2>1
    <3>2. NumRows \in 0 .. NumRows /\ \A i \in Rows : i <= NumRows
      BY <1>1
    <3>. QED
      BY <3>1, <3>2
  <2>2. CASE S # {}
    <3>. DEFINE m == Min(S)
    <3>1. S \in SUBSET Nat
      BY <1>1
    <3>2. m \in S /\ \A j \in S : m <= j
      BY <2>2, <3>1, MinOf
    <3>3. m \in Rows /\ rows[m] >= q /\ \A j \in Rows : rows[j] >= q => m <= j
      BY <3>2
    <3>. HIDE DEF m, S
    <3>4. \A i \in Rows : i <= m - 1 <=> rows[i] < q
      <4>. TAKE i \in Rows
      <4>1. i >= m => rows[i] >= rows[m]
        BY <1>1, <3>3
      <4>. QED
        BY <1>1, <3>3, <4>1
    <3>5. m - 1 \in 0 .. NumRows
      BY <1>1, <3>3
    <3>. QED
      BY <3>4, <3>5
  <2>. QED
    BY <2>1, <2>2
<1>3. PICK n \in 0 .. NumRows : \A i \in Rows : i <= n <=> rows[i] < q
  BY <1>2
<1>4. {i \in Rows : rows[i] < q} = 1 .. n
  BY <1>1, <1>3
<1>5. Cardinality(1 .. n) = n
  <2>1. n \in Nat /\ 1 \in Int /\ n \in Int /\ (1 > n => n = 0) /\ (n - 1) + 1 = n
    BY <1>1
  <2>2. Cardinality(1 .. n) = IF 1 > n THEN 0 ELSE n - 1 + 1
    BY <2>1, FS_Interval
  <2>. QED
    BY <2>1, <2>2
<1>6. LowerBound(q) = n
  BY <1>4, <1>5 DEF LowerBound
<1>7. q <= LastKey => n # NumRows
  BY <1>1, <1>3 DEF LastKey
<1>. QED
  BY <1>1, <1>3, <1>6, <1>7

-----------------------------------------------------------------------------
(* The pass of LowerBoundCorrection.                                       *)

\* The run in progress is that of the row passed last.
RunInProgress ==
  IF lb.pos = 0 THEN lb.run = 0
  ELSE /\ lb.target = LeafOf(rows[lb.pos]) /\ lb.key = rows[lb.pos]
       /\ lb.run = lb.pos - Offset(lb.pos)

\* A run that another one follows is counted for its leaf.
RunsRecorded ==
  \A i \in Rows : i < lb.pos /\ rows[i] # rows[i + 1] =>
    lb.longest[LeafOf(rows[i])] >= i - Offset(i)

\* The first and the last row of every leaf, of the rows passed.
EndsRecorded ==
  /\ \A i \in Rows : i <= lb.pos =>
       LET l == LeafOf(rows[i]) IN HasRows(l) /\ lb.first[l] <= i /\ i <= lb.last[l]
  /\ \A l \in Leaf : HasRows(l) =>
       \A i \in {lb.first[l], lb.last[l]} : i \in Rows /\ i <= lb.pos /\ LeafOf(rows[i]) = l

ICorrect ==
  /\ lb \in [pos : 0 .. NumRows, target : Leaf, key : Key, run : 0 .. NumRows,
             longest : [Leaf -> 0 .. NumRows],
             first : [Leaf -> 0 .. NumRows], last : [Leaf -> 0 .. NumRows]]
  /\ RunInProgress
  /\ RunsRecorded
  /\ EndsRecorded

\* Nothing that depends on the input alone changes while it does not.
LEMMA SameInput ==
  ASSUME UNCHANGED input
  PROVE  /\ rows' = rows /\ top' = top /\ mode' = mode /\ dataset' = dataset /\ line' = line
         /\ Rows' = Rows /\ NumRows' = NumRows /\ LeafModels' = LeafModels
         /\ \A i : Offset(i)' = Offset(i)
         /\ \A k : LeafOf(k)' = LeafOf(k)
         /\ \A q : LowerBound(q)' = LowerBound(q)
BY DEF input, Rows, NumRows, LeafModels, Offset, LeafOf, LowerBound

\* The run that goes on, or starts, with the next row.
LEMMA NextRun ==
  ASSUME IInput, ICorrect, lb.pos < NumRows
  PROVE  LET i == lb.pos + 1
             goesOn == LeafOf(rows[i]) = lb.target /\ rows[i] = lb.key
         IN /\ i \in Rows
            /\ Offset(i) = IF goesOn THEN i - (lb.run + 1) ELSE i - 1
            /\ ~goesOn /\ lb.pos > 0 => rows[lb.pos] # rows[i]
            /\ goesOn /\ lb.pos > 0 => rows[lb.pos] = rows[i]
<1>. DEFINE i == lb.pos + 1
            goesOn == LeafOf(rows[i]) = lb.target /\ rows[i] = lb.key
<1>1. /\ NumRows \in Nat \ {0} /\ Rows = 1 .. NumRows
      /\ \A j \in Rows : rows[j] \in Nat
      /\ \A a, b \in Rows : a <= b => rows[a] <= rows[b]
  BY InputFacts
<1>2. lb.pos \in Nat /\ i \in Rows /\ lb.run \in Nat
  BY <1>1 DEF ICorrect
<1>3. Offset(i) \in Nat /\ Offset(i) < i /\ \A j \in Rows : j <= Offset(i) <=> rows[j] < rows[i]
  BY <1>2, OffsetFacts
<1>4. CASE lb.pos = 0
  <2>1. lb.run = 0
    BY <1>4 DEF ICorrect, RunInProgress
  <2>. QED
    BY <1>2, <1>3, <1>4, <2>1
<1>5. CASE lb.pos # 0
  <2>1. /\ lb.target = LeafOf(rows[lb.pos]) /\ lb.key = rows[lb.pos]
        /\ lb.run = lb.pos - Offset(lb.pos)
    BY <1>5 DEF ICorrect, RunInProgress
  <2>2. lb.pos \in Rows /\ Offset(lb.pos) \in Nat
    BY <1>1, <1>2, <1>5, OffsetFacts
  <2>3. CASE goesOn
    <3>1. rows[i] = rows[lb.pos]
      BY <2>1, <2>3
    <3>2. Offset(i) = Offset(lb.pos)
      BY <3>1 DEF Offset
    <3>3. Offset(i) = i - (lb.run + 1)
      BY <1>2, <2>1, <2>2, <3>2
    <3>. QED
      BY <1>2, <2>3, <3>1, <3>3
  <2>4. CASE ~goesOn
    <3>1. rows[i] # rows[lb.pos]
      BY <2>1, <2>4
    <3>2. rows[lb.pos] < rows[i]
      BY <1>1, <1>2, <2>2, <3>1
    <3>3. lb.pos <= Offset(i)
      BY <1>3, <2>2, <3>2
    <3>4. Offset(i) = i - 1
      BY <1>2, <1>3, <3>3
    <3>. QED
      BY <1>2, <2>4, <3>1, <3>4
  <2>. QED
    BY <2>3, <2>4
<1>. QED
  BY <1>4, <1>5

\* Passing a row keeps the records.
LEMMA CorrectRowStep ==
  ASSUME IInput, ICorrect, CorrectRow
  PROVE  ICorrect'
<1>. DEFINE i == lb.pos + 1
            t == LeafOf(rows[i])
            goesOn == t = lb.target /\ rows[i] = lb.key
<1>1. /\ NumRows \in Nat \ {0} /\ Rows = 1 .. NumRows
      /\ \A j \in Rows : rows[j] \in Key /\ LeafOf(rows[j]) \in Leaf
  BY InputFacts
<1>2. /\ lb.pos < NumRows /\ UNCHANGED input
      /\ lb' = [pos |-> i, target |-> t, key |-> rows[i],
                run |-> IF goesOn THEN lb.run + 1 ELSE 1,
                longest |-> IF goesOn THEN lb.longest ELSE RunEnded(lb),
                first |-> [lb.first EXCEPT ![t] = IF @ = NoRow THEN i ELSE @],
                last |-> [lb.last EXCEPT ![t] = i]]
  BY DEF CorrectRow
<1>3. /\ lb.pos \in 0 .. NumRows /\ lb.target \in Leaf /\ lb.key \in Key /\ lb.run \in 0 .. NumRows
      /\ lb.longest \in [Leaf -> 0 .. NumRows]
      /\ lb.first \in [Leaf -> 0 .. NumRows] /\ lb.last \in [Leaf -> 0 .. NumRows]
  BY DEF ICorrect
<1>4. /\ i \in Rows
      /\ Offset(i) = IF goesOn THEN i - (lb.run + 1) ELSE i - 1
      /\ ~goesOn /\ lb.pos > 0 => rows[lb.pos] # rows[i]
      /\ goesOn /\ lb.pos > 0 => rows[lb.pos] = rows[i]
  BY <1>2, NextRun
<1>5. Offset(i) \in Nat /\ i \in Nat /\ i <= NumRows /\ i > 0 /\ i - 1 = lb.pos /\ t \in Leaf
  <2>0. lb.pos \in Nat /\ NumRows \in Nat /\ lb.pos < NumRows
    BY <1>1, <1>2, <1>3
  <2>1. i \in Nat /\ i <= NumRows /\ i > 0 /\ i - 1 = lb.pos
    BY <2>0
  <2>2. Offset(i) \in Nat
    BY <1>4, OffsetFacts
  <2>3. t \in Leaf
    BY <1>1, <1>4
  <2>. QED
    BY <2>1, <2>2, <2>3
<1>6. /\ rows' = rows /\ NumRows' = NumRows /\ Rows' = Rows
      /\ \A j : Offset(j)' = Offset(j)
      /\ \A k : LeafOf(k)' = LeafOf(k)
  BY <1>2, SameInput
<1>. HIDE DEF i, t, goesOn
<1>7. /\ lb'.pos = i /\ lb'.target = t /\ lb'.key = rows[i]
      /\ lb'.run = IF goesOn THEN lb.run + 1 ELSE 1
      /\ lb'.longest = IF goesOn THEN lb.longest ELSE RunEnded(lb)
      /\ lb'.first = [lb.first EXCEPT ![t] = IF @ = NoRow THEN i ELSE @]
      /\ lb'.last = [lb.last EXCEPT ![t] = i]
  BY <1>2
<1>8. /\ lb'.run \in 0 .. NumRows /\ lb'.run = i - Offset(i)
  <2>0. lb.run \in Nat /\ NumRows \in Nat
    BY <1>1, <1>3
  <2>1. CASE goesOn
    <3>1. lb'.run = lb.run + 1 /\ Offset(i) = i - (lb.run + 1)
      BY <1>4, <1>7, <2>1
    <3>. QED
      BY <1>5, <2>0, <3>1
  <2>2. CASE ~goesOn
    <3>1. lb'.run = 1 /\ Offset(i) = i - 1
      BY <1>4, <1>7, <2>2
    <3>. QED
      BY <1>5, <2>0, <3>1
  <2>. QED
    BY <2>1, <2>2
<1>9. /\ lb'.longest \in [Leaf -> 0 .. NumRows]
      /\ \A l \in Leaf : lb'.longest[l] >= lb.longest[l]
      /\ ~goesOn => lb'.longest[lb.target] >= lb.run
  <2>1. lb.run \in 0 .. NumRows /\ \A l \in Leaf : lb.longest[l] \in Nat /\ lb.longest[l] >= lb.longest[l]
    BY <1>1, <1>3
  <2>2. CASE goesOn
    <3>1. lb'.longest = lb.longest
      BY <1>7, <2>2
    <3>. QED
      BY <1>3, <2>1, <2>2, <3>1
  <2>3. CASE ~goesOn
    <3>. DEFINE g == Greater(lb.longest[lb.target], lb.run)
    <3>1. lb'.longest = [lb.longest EXCEPT ![lb.target] = g]
      BY <1>7, <2>3 DEF RunEnded
    <3>2. g \in 0 .. NumRows /\ g >= lb.longest[lb.target] /\ g >= lb.run
      BY <1>1, <1>3, <2>1 DEF Greater
    <3>. HIDE DEF g
    <3>3. lb'.longest \in [Leaf -> 0 .. NumRows] /\ lb'.longest[lb.target] = g
      BY <1>3, <3>1, <3>2
    <3>4. \A l \in Leaf : l # lb.target => lb'.longest[l] = lb.longest[l]
      BY <1>3, <3>1
    <3>. QED
      BY <2>1, <2>3, <3>2, <3>3, <3>4
  <2>. QED
    BY <2>2, <2>3
<1>10. lb' \in [pos : 0 .. NumRows, target : Leaf, key : Key, run : 0 .. NumRows,
               longest : [Leaf -> 0 .. NumRows],
               first : [Leaf -> 0 .. NumRows], last : [Leaf -> 0 .. NumRows]]
  <2>2. i \in 0 .. NumRows /\ rows[i] \in Key
    BY <1>1, <1>4, <1>5
  <2>1. lb'.first \in [Leaf -> 0 .. NumRows] /\ lb'.last \in [Leaf -> 0 .. NumRows]
    BY <1>3, <1>5, <1>7, <2>2
  <2>. QED
    BY <1>2, <1>5, <1>7, <1>8, <1>9, <2>1, <2>2
<1>11. RunInProgress'
  BY <1>5, <1>6, <1>7, <1>8 DEF RunInProgress, i, t
<1>12. RunsRecorded'
  <2>. SUFFICES ASSUME NEW j \in Rows, j < i, rows[j] # rows[j + 1]
                PROVE  lb'.longest[LeafOf(rows[j])] >= j - Offset(j)
    BY <1>6, <1>7 DEF RunsRecorded
  <2>1. j \in Nat /\ Offset(j) \in Nat /\ LeafOf(rows[j]) \in Leaf
    BY <1>1, OffsetFacts
  <2>2. CASE j < lb.pos
    <3>1. lb.longest[LeafOf(rows[j])] >= j - Offset(j)
      BY <2>2 DEF ICorrect, RunsRecorded
    <3>2. lb'.longest[LeafOf(rows[j])] >= lb.longest[LeafOf(rows[j])]
      BY <1>9, <2>1
    <3>3. lb'.longest[LeafOf(rows[j])] \in Nat /\ lb.longest[LeafOf(rows[j])] \in Nat
      BY <1>3, <1>9, <2>1
    <3>. QED
      BY <2>1, <3>1, <3>2, <3>3
  <2>3. CASE ~(j < lb.pos)
    <3>1. j = lb.pos /\ lb.pos > 0 /\ j + 1 = i
      BY <1>1, <1>3, <1>5, <2>1, <2>3
    <3>2. ~goesOn
      BY <1>4, <3>1
    <3>3. lb.target = LeafOf(rows[j]) /\ lb.run = j - Offset(j)
      BY <3>1 DEF ICorrect, RunInProgress
    <3>. QED
      BY <1>9, <3>2, <3>3
  <2>. QED
    BY <2>2, <2>3
<1>13. EndsRecorded'
  <2>0. /\ \A j \in Rows : j <= lb.pos =>
             /\ lb.first[LeafOf(rows[j])] # 0 /\ lb.first[LeafOf(rows[j])] <= j
             /\ j <= lb.last[LeafOf(rows[j])]
        /\ \A l \in Leaf : lb.first[l] # 0 =>
             /\ lb.first[l] \in Rows /\ lb.first[l] <= lb.pos /\ LeafOf(rows[lb.first[l]]) = l
             /\ lb.last[l] \in Rows /\ lb.last[l] <= lb.pos /\ LeafOf(rows[lb.last[l]]) = l
    BY DEF ICorrect, EndsRecorded, HasRows, NoRow
  <2>1. ASSUME NEW j \in Rows, j <= i
        PROVE  /\ lb'.first[LeafOf(rows[j])] # 0 /\ lb'.first[LeafOf(rows[j])] <= j
               /\ j <= lb'.last[LeafOf(rows[j])]
    <3>1. LeafOf(rows[j]) \in Leaf
      BY <1>1
    <3>2. CASE j = i
      <4>1. LeafOf(rows[j]) = t
        BY <3>2 DEF t, i
      <4>2. lb'.first[t] = IF lb.first[t] = 0 THEN i ELSE lb.first[t]
        BY <1>3, <1>5, <1>7 DEF NoRow
      <4>3. lb'.last[t] = i
        BY <1>3, <1>5, <1>7
      <4>4. lb.first[t] # 0 => lb.first[t] <= lb.pos /\ lb.first[t] \in 0 .. NumRows
        BY <1>3, <1>5, <2>0
      <4>. QED
        BY <1>1, <1>3, <1>5, <3>2, <4>1, <4>2, <4>3, <4>4
    <3>3. CASE j # i
      <4>1. j <= lb.pos /\ j \in Nat
        BY <1>1, <1>3, <1>5, <2>1, <3>3
      <4>2. /\ lb.first[LeafOf(rows[j])] # 0 /\ lb.first[LeafOf(rows[j])] <= j
            /\ j <= lb.last[LeafOf(rows[j])]
        BY <2>0, <4>1
      <4>3. lb'.first[LeafOf(rows[j])] = lb.first[LeafOf(rows[j])]
        BY <1>3, <1>7, <3>1, <4>2 DEF NoRow
      <4>4. \/ lb'.last[LeafOf(rows[j])] = lb.last[LeafOf(rows[j])]
            \/ lb'.last[LeafOf(rows[j])] = i
        BY <1>3, <1>7, <3>1
      <4>. QED
        BY <1>5, <2>1, <4>2, <4>3, <4>4
    <3>. QED
      BY <3>2, <3>3
  <2>2. ASSUME NEW l \in Leaf, lb'.first[l] # 0
        PROVE  /\ lb'.first[l] \in Rows /\ lb'.first[l] <= i /\ LeafOf(rows[lb'.first[l]]) = l
               /\ lb'.last[l] \in Rows /\ lb'.last[l] <= i /\ LeafOf(rows[lb'.last[l]]) = l
    <3>1. LeafOf(rows[i]) = t
      BY DEF t
    <3>2. CASE l = t
      <4>1. lb'.first[t] = IF lb.first[t] = 0 THEN i ELSE lb.first[t]
        BY <1>3, <1>5, <1>7 DEF NoRow
      <4>2. lb'.last[t] = i
        BY <1>3, <1>5, <1>7
      <4>3. lb.first[t] # 0 => /\ lb.first[t] \in Rows /\ lb.first[t] <= lb.pos
                               /\ LeafOf(rows[lb.first[t]]) = t
        BY <1>5, <2>0
      <4>4. CASE lb.first[t] = 0
        BY <1>4, <1>5, <3>1, <3>2, <4>1, <4>2, <4>4
      <4>5. CASE lb.first[t] # 0
        <5>1. lb.pos \in Nat /\ lb.first[t] \in Nat
          BY <1>1, <1>3, <1>5
        <5>. QED
          BY <1>4, <1>5, <3>1, <3>2, <4>1, <4>2, <4>3, <4>5, <5>1
      <4>. QED
        BY <4>4, <4>5
    <3>3. CASE l # t
      <4>1. lb'.first[l] = lb.first[l] /\ lb'.last[l] = lb.last[l]
        BY <1>3, <1>7, <3>3
      <4>2. /\ lb.first[l] \in Rows /\ lb.first[l] <= lb.pos /\ LeafOf(rows[lb.first[l]]) = l
            /\ lb.last[l] \in Rows /\ lb.last[l] <= lb.pos /\ LeafOf(rows[lb.last[l]]) = l
        BY <2>0, <2>2, <4>1
      <4>3. lb.first[l] \in Nat /\ lb.last[l] \in Nat /\ lb.pos \in Nat
        BY <1>3
      <4>. QED
        BY <1>5, <4>1, <4>2, <4>3
    <3>. QED
      BY <3>2, <3>3
  <2>. QED
    BY <1>6, <1>7, <2>1, <2>2 DEF EndsRecorded, HasRows, NoRow
<1>. QED
  BY <1>6, <1>10, <1>11, <1>12, <1>13 DEF ICorrect

-----------------------------------------------------------------------------
(* Neighbours of a leaf and the terms of its error.                        *)

\* A monotone top model routes the keys to the leaves in order.
LEMMA RoutingOrdered ==
  ASSUME IInput, IsMonotone(top)
  PROVE  /\ \A a, b \in Key : a <= b => LeafOf(a) <= LeafOf(b)
         /\ \A i, j \in Rows : i <= j => LeafOf(rows[i]) <= LeafOf(rows[j])
<1>1. /\ \A i \in Rows : rows[i] \in Key
      /\ \A i, j \in Rows : i <= j => rows[i] <= rows[j]
      /\ \A k \in Key : top[k] \in Nat
      /\ Leaves \in Nat
  BY InputFacts
<1>2. \A a, b \in Key : a <= b => LeafOf(a) <= LeafOf(b)
  BY <1>1 DEF IsMonotone, LeafOf, Lesser
<1>. QED
  BY <1>1, <1>2

\* A completed pass.
Passed == IInput /\ ICorrect /\ lb.pos = NumRows

\* Once all rows are passed, the record of a leaf is exact.
LEMMA EndFacts ==
  ASSUME Passed
  PROVE  /\ \A i \in Rows : LET l == LeafOf(rows[i]) IN
               HasRows(l) /\ lb.first[l] <= i /\ i <= lb.last[l]
         /\ \A l \in Leaf : /\ lb.first[l] \in 0 .. NumRows /\ lb.last[l] \in 0 .. NumRows
                            /\ lb.longest[l] \in 0 .. NumRows
         /\ \A l \in Leaf : HasRows(l) =>
               /\ lb.first[l] \in Rows /\ LeafOf(rows[lb.first[l]]) = l
               /\ lb.last[l] \in Rows /\ LeafOf(rows[lb.last[l]]) = l
<1>1. NumRows \in Nat /\ \A i \in Rows : i <= lb.pos
  BY InputFacts DEF Passed
<1>2. EndsRecorded
  BY DEF Passed, ICorrect
<1>3. /\ lb.longest \in [Leaf -> 0 .. NumRows]
      /\ lb.first \in [Leaf -> 0 .. NumRows] /\ lb.last \in [Leaf -> 0 .. NumRows]
  BY DEF Passed, ICorrect
<1>. QED
  BY <1>1, <1>2, <1>3 DEF EndsRecorded

\* The leaves above and below a leaf are numbers, with an extreme one.
LEMMA NeighbourLeaves ==
  ASSUME Passed, NEW l \in Leaf
  PROVE  /\ LeavesAbove(l) # {} =>
              /\ Min(LeavesAbove(l)) \in Leaf /\ Min(LeavesAbove(l)) > l
              /\ HasRows(Min(LeavesAbove(l)))
              /\ \A m \in Leaf : m > l /\ HasRows(m) => Min(LeavesAbove(l)) <= m
         /\ LeavesBelow(l) # {} =>
              /\ Max(LeavesBelow(l)) \in Leaf /\ Max(LeavesBelow(l)) < l
              /\ HasRows(Max(LeavesBelow(l)))
              /\ \A m \in Leaf : m < l /\ HasRows(m) => m <= Max(LeavesBelow(l))
<1>1. Leaves \in Nat
  BY IndexAssumption
<1>2. LeavesAbove(l) \in SUBSET Nat /\ LeavesBelow(l) \in SUBSET Nat
      /\ \A m \in LeavesBelow(l) : m <= Leaves
  BY <1>1 DEF LeavesAbove, LeavesBelow, Leaf
<1>3. LeavesAbove(l) # {} => /\ Min(LeavesAbove(l)) \in LeavesAbove(l)
                             /\ \A m \in LeavesAbove(l) : Min(LeavesAbove(l)) <= m
  BY <1>2, MinOf
<1>4. LeavesBelow(l) # {} => /\ Max(LeavesBelow(l)) \in LeavesBelow(l)
                             /\ \A m \in LeavesBelow(l) : m <= Max(LeavesBelow(l))
  BY <1>1, <1>2, MaxOf
<1>. QED
  BY <1>3, <1>4 DEF LeavesAbove, LeavesBelow

\* The row and the indexes that stand for the neighbours exist.
LEMMA NeighbourFacts ==
  ASSUME Passed, NEW l \in Leaf
  PROVE  /\ LeavesAbove(l) # {} => NextRow(l) \in Rows
         /\ next_index(l) \in 0 .. NumRows
         /\ next_key(l) \in Key /\ prev_key(l) \in Key
<1>1. /\ NumRows \in Nat \ {0} /\ Rows = 1 .. NumRows
      /\ \A i \in Rows : rows[i] \in Key
      /\ MaxKey \in Nat
  BY InputFacts DEF Passed
<1>2. LeavesAbove(l) # {} => NextRow(l) \in Rows
  BY NeighbourLeaves, EndFacts DEF NextRow
<1>3. \A i \in Rows : Offset(i) \in 0 .. NumRows
  <2>. TAKE i \in Rows
  <2>1. Offset(i) \in Nat /\ Offset(i) < i
    BY OffsetFacts DEF Passed
  <2>. QED
    BY <1>1, <2>1
<1>4. next_index(l) \in 0 .. NumRows
  BY <1>1, <1>2, <1>3 DEF next_index
<1>5. MaxKey \in Key /\ 0 \in Key
  BY <1>1 DEF Key
<1>6. next_key(l) \in Key
  BY <1>1, <1>2, <1>5 DEF next_key
<1>7. prev_key(l) \in Key
  BY <1>1, <1>5, NeighbourLeaves, EndFacts DEF prev_key
<1>. QED
  BY <1>2, <1>4, <1>6, <1>7

\* Between two rows routed to either side of m, the next row of m is the second.
LEMMA NextRowIs ==
  ASSUME Passed, IsMonotone(top), NEW m \in Leaf, NEW j \in 0 .. NumRows - 1,
         LeafOf(rows[j + 1]) > m, j > 0 => LeafOf(rows[j]) <= m
  PROVE  LeavesAbove(m) # {} /\ NextRow(m) = j + 1
<1>. DEFINE n == LeafOf(rows[j + 1])
            a == Min(LeavesAbove(m))
            f == lb.first[a]
<1>1. /\ NumRows \in Nat \ {0} /\ Rows = 1 .. NumRows
      /\ \A i \in Rows : LeafOf(rows[i]) \in Leaf
      /\ \A i, k \in Rows : i <= k => LeafOf(rows[i]) <= LeafOf(rows[k])
      /\ Leaves \in Nat
  BY InputFacts, RoutingOrdered DEF Passed
<1>2. j + 1 \in Rows /\ j \in Nat /\ n \in Leaf
  BY <1>1
<1>3. HasRows(n) /\ lb.first[n] <= j + 1
  BY <1>2, EndFacts
<1>4. LeavesAbove(m) # {}
  BY <1>2, <1>3 DEF LeavesAbove
<1>5. a \in Leaf /\ a > m /\ HasRows(a) /\ a <= n
  BY <1>2, <1>3, <1>4, NeighbourLeaves
<1>6. f \in Rows /\ LeafOf(rows[f]) = a
  BY <1>5, EndFacts
<1>. HIDE DEF n, a, f
<1>7. a \in Int /\ n \in Int /\ m \in Int /\ f \in Nat
  BY <1>1, <1>2, <1>5, <1>6 DEF Leaf
<1>8. ~(f <= j)
  <2>. SUFFICES ASSUME f <= j PROVE FALSE
    OBVIOUS
  <2>1. j \in Rows /\ j > 0 /\ LeafOf(rows[f]) <= LeafOf(rows[j])
    BY <1>1, <1>2, <1>6
  <2>2. LeafOf(rows[j]) \in Int
    BY <1>1, <2>1 DEF Leaf
  <2>. QED
    BY <1>5, <1>6, <1>7, <2>1, <2>2
<1>9. n <= a
  BY <1>1, <1>2, <1>6, <1>7, <1>8 DEF n
<1>10. n = a
  BY <1>5, <1>7, <1>9
<1>11. f <= j + 1
  BY <1>3, <1>10 DEF f
<1>12. f = j + 1
  BY <1>2, <1>7, <1>8, <1>11
<1>. QED
  BY <1>4, <1>12 DEF NextRow, f, a

\* Between two rows routed to either side of l, the last row below l is the first.
LEMMA PrevRowIs ==
  ASSUME Passed, IsMonotone(top), NEW l \in Leaf, NEW j \in Rows,
         LeafOf(rows[j]) < l, j < NumRows => LeafOf(rows[j + 1]) >= l
  PROVE  prev_key(l) = rows[j]
<1>. DEFINE n == LeafOf(rows[j])
            a == Max(LeavesBelow(l))
            f == lb.last[a]
<1>1. /\ NumRows \in Nat \ {0} /\ Rows = 1 .. NumRows
      /\ \A i \in Rows : LeafOf(rows[i]) \in Leaf
      /\ \A i, k \in Rows : i <= k => LeafOf(rows[i]) <= LeafOf(rows[k])
      /\ Leaves \in Nat
  BY InputFacts, RoutingOrdered DEF Passed
<1>2. j \in Nat /\ n \in Leaf
  BY <1>1
<1>3. HasRows(n) /\ j <= lb.last[n]
  BY <1>2, EndFacts
<1>4. LeavesBelow(l) # {}
  BY <1>2, <1>3 DEF LeavesBelow
<1>5. a \in Leaf /\ a < l /\ HasRows(a) /\ n <= a
  BY <1>2, <1>3, <1>4, NeighbourLeaves
<1>6. f \in Rows /\ LeafOf(rows[f]) = a
  BY <1>5, EndFacts
<1>. HIDE DEF n, a, f
<1>7. a \in Int /\ n \in Int /\ l \in Int /\ f \in Nat
  BY <1>1, <1>2, <1>5, <1>6 DEF Leaf
<1>8. f <= j
  <2>. SUFFICES ASSUME ~(f <= j) PROVE FALSE
    OBVIOUS
  <2>1. j < NumRows /\ j + 1 \in Rows /\ j + 1 <= f
    BY <1>1, <1>2, <1>6, <1>7
  <2>2. LeafOf(rows[j + 1]) <= LeafOf(rows[f]) /\ LeafOf(rows[j + 1]) \in Leaf
    BY <1>1, <1>6, <2>1
  <2>3. LeafOf(rows[j + 1]) \in Int
    BY <1>1, <2>2 DEF Leaf
  <2>. QED
    BY <1>5, <1>6, <1>7, <2>1, <2>2, <2>3
<1>9. a <= n
  BY <1>1, <1>6, <1>8 DEF n
<1>10. n = a
  BY <1>5, <1>7, <1>9
<1>11. j <= f
  BY <1>3, <1>10 DEF f
<1>12. f = j
  BY <1>2, <1>7, <1>8, <1>11
<1>. QED
  BY <1>4, <1>12 DEF prev_key, f, a

\* The distance of two numbers that are both capped at the number of rows.
LEMMA ErrorFacts ==
  ASSUME IInput, NEW a \in Nat, NEW b \in Nat
  PROVE  /\ ErrorBetween(a, b) \in 0 .. NumRows
         /\ Lesser(a, NumRows) <= Lesser(b, NumRows) + ErrorBetween(a, b)
         /\ Lesser(b, NumRows) <= Lesser(a, NumRows) + ErrorBetween(a, b)
<1>1. NumRows \in Nat
  BY InputFacts
<1>. QED
  BY <1>1 DEF ErrorBetween, Distance, Lesser

\* The error of a leaf covers each of its terms, and the longest run with it.
LEMMA ErrorCovers ==
  ASSUME Passed, model \in LeafModels, NEW l \in Leaf
  PROVE  /\ LeafError(l) \in 0 .. 2 * NumRows
         /\ \A x \in {UpperError(l), LowerError(l)} \cup RowErrors(l) :
              x \in Nat /\ x + LongestRun(l) <= LeafError(l)
         /\ LongestRun(l) \in Nat
<1>. DEFINE S == {0, UpperError(l), LowerError(l)} \cup RowErrors(l)
<1>1. /\ IInput /\ NumRows \in Nat \ {0}
      /\ \A i \in Rows : rows[i] \in Key
      /\ MaxKey \in Nat /\ Leaves \in Nat
  BY InputFacts DEF Passed
<1>2. /\ \A k \in Key : model[k] \in Nat
      /\ \A k \in Key : minus_epsilon(k) \in Key /\ plus_epsilon(k) \in Key
  BY <1>1 DEF LeafModels, Key, minus_epsilon, plus_epsilon
<1>3. next_index(l) \in Nat /\ next_key(l) \in Key /\ prev_key(l) \in Key
  BY <1>1, NeighbourFacts
<1>4. next_index(IF l = 0 THEN 0 ELSE l - 1) \in Nat
  <2>1. (IF l = 0 THEN 0 ELSE l - 1) \in Leaf
    BY <1>1 DEF Leaf
  <2>. QED
    BY <1>1, <2>1, NeighbourFacts
<1>5. UpperError(l) \in 0 .. NumRows
  <2>1. model[minus_epsilon(next_key(l))] \in Nat /\ next_index(l) + 1 \in Nat
    BY <1>2, <1>3
  <2>. QED
    BY <1>1, <2>1, ErrorFacts DEF UpperError
<1>6. LowerError(l) \in 0 .. NumRows
  BY <1>1, <1>2, <1>3, <1>4, ErrorFacts DEF LowerError
<1>7. \A x \in RowErrors(l) : x \in 0 .. NumRows
  BY <1>1, <1>2, ErrorFacts, OffsetFacts DEF RowErrors, RowsOf
<1>8. S \in SUBSET Nat /\ S # {} /\ \A x \in S : x <= NumRows
  BY <1>1, <1>5, <1>6, <1>7
<1>9. Max(S) \in S /\ \A x \in S : x <= Max(S)
  BY <1>1, <1>8, MaxOf
<1>10. LongestRun(l) \in 0 .. NumRows
  BY EndFacts DEF LongestRun
<1>11. LeafError(l) = Max(S) + LongestRun(l)
  BY DEF LeafError
<1>12. \A x \in {UpperError(l), LowerError(l)} \cup RowErrors(l) : x \in S
  OBVIOUS
<1>. HIDE DEF S
<1>13. Max(S) \in 0 .. NumRows
  <2>1. Max(S) \in Nat /\ Max(S) <= NumRows
    BY <1>8, <1>9
  <2>. QED
    BY <1>1, <2>1
<1>14. LeafError(l) \in 0 .. 2 * NumRows
  BY <1>1, <1>10, <1>11, <1>13
<1>15. ASSUME NEW x \in S PROVE x \in Nat /\ x + LongestRun(l) <= LeafError(l)
  BY <1>8, <1>9, <1>10, <1>11, <1>13
<1>. QED
  BY <1>10, <1>12, <1>14, <1>15

\* What the error covers at the number of rows, it covers at the last row.
LEMMA Clipped ==
  ASSUME IInput, NEW m \in Nat, NEW b \in 0 .. NumRows - 1, NEW e \in Nat,
         Lesser(m, NumRows) <= b + e, b <= Lesser(m, NumRows) + e
  PROVE  Distance(Lesser(m, NumRows - 1), b) <= e
<1>1. NumRows \in Nat \ {0}
  BY InputFacts
<1>. QED
  BY <1>1 DEF Distance, Lesser

\* The key of a row, wherever it is routed.
LEMMA DataKeyBounded ==
  ASSUME Passed, model \in LeafModels, NEW l \in Leaf, error = LeafError(l),
         NEW i \in Rows, LeafOf(rows[i]) = l
  PROVE  Bounded(rows[i])
<1>. DEFINE q == rows[i]
            x == ErrorBetween(model[q], Offset(i))
<1>1. IInput /\ NumRows \in Nat \ {0} /\ Rows = 1 .. NumRows /\ q \in Key
  BY InputFacts DEF Passed
<1>2. model[q] \in Nat
  BY <1>1 DEF LeafModels
<1>3. Offset(i) \in Nat /\ Offset(i) < i /\ \A j \in Rows : j <= Offset(i) <=> rows[j] < q
  BY <1>1, OffsetFacts
<1>4. LowerBound(q) \in 0 .. NumRows /\ \A j \in Rows : j <= LowerBound(q) <=> rows[j] < q
  BY <1>1, LowerBoundFacts
<1>. HIDE DEF q
<1>5. LowerBound(q) = Offset(i)
  <2>1. i \in Nat /\ i <= NumRows
    BY <1>1
  <2>2. ~(LowerBound(q) < Offset(i))
    <3>. SUFFICES ASSUME LowerBound(q) < Offset(i) PROVE FALSE
      OBVIOUS
    <3>1. Offset(i) \in Rows
      BY <1>1, <1>3, <1>4, <2>1
    <3>. QED
      BY <1>3, <1>4, <3>1
  <2>3. ~(LowerBound(q) > Offset(i))
    <3>. SUFFICES ASSUME LowerBound(q) > Offset(i) PROVE FALSE
      OBVIOUS
    <3>1. LowerBound(q) \in Rows
      BY <1>1, <1>3, <1>4
    <3>. QED
      BY <1>3, <1>4, <3>1
  <2>. QED
    BY <1>3, <1>4, <2>2, <2>3
<1>6. Offset(i) \in 0 .. NumRows - 1
  BY <1>1, <1>3
<1>7. x \in RowErrors(l)
  BY DEF RowErrors, RowsOf, q
<1>. HIDE DEF x
<1>8. error \in Nat /\ x \in Nat /\ x <= error
  <2>1. error \in 0 .. 2 * NumRows /\ x \in Nat /\ LongestRun(l) \in Nat
        /\ x + LongestRun(l) <= error
    BY <1>7, ErrorCovers
  <2>. QED
    BY <1>1, <2>1
<1>9. /\ Lesser(model[q], NumRows) <= Lesser(Offset(i), NumRows) + x
      /\ Lesser(Offset(i), NumRows) <= Lesser(model[q], NumRows) + x
  BY <1>1, <1>2, <1>3, ErrorFacts DEF x
<1>10. Lesser(Offset(i), NumRows) = Offset(i) /\ Lesser(model[q], NumRows) \in Nat
  BY <1>1, <1>2, <1>6 DEF Lesser
<1>11. /\ Lesser(model[q], NumRows) <= Offset(i) + error
       /\ Offset(i) <= Lesser(model[q], NumRows) + error
  BY <1>3, <1>8, <1>9, <1>10
<1>. QED
  BY <1>1, <1>2, <1>5, <1>6, <1>8, <1>11, Clipped DEF Bounded, Prediction, q

-----------------------------------------------------------------------------
(* Keys that are not in the data: q lies between rows j and j + 1.         *)

\* A gap of the data, up to its last key.
Gap(q, j) ==
  /\ Passed /\ IsMonotone(top)
  /\ q \in Key /\ j \in 0 .. NumRows - 1
  /\ rows[j + 1] > q /\ (j > 0 => rows[j] < q)
  /\ LowerBound(q) = j

\* A key up to the last that no row has lies in the gap after the rows below it.
LEMMA InGap ==
  ASSUME Passed, IsMonotone(top), NEW q \in Key, q <= LastKey, \A i \in Rows : rows[i] # q
  PROVE  Gap(q, LowerBound(q))
<1>. DEFINE j == LowerBound(q)
<1>1. /\ NumRows \in Nat \ {0} /\ Rows = 1 .. NumRows /\ q \in Nat
      /\ \A i \in Rows : rows[i] \in Nat
  BY InputFacts DEF Passed
<1>2. j \in 0 .. NumRows - 1 /\ \A i \in Rows : i <= j <=> rows[i] < q
  BY <1>1, LowerBoundFacts DEF Passed
<1>. HIDE DEF j
<1>3. j + 1 \in Rows /\ ~(j + 1 <= j)
  BY <1>1, <1>2
<1>4. rows[j + 1] > q
  BY <1>1, <1>2, <1>3
<1>5. j > 0 => rows[j] < q
  BY <1>1, <1>2
<1>. QED
  BY <1>2, <1>4, <1>5 DEF Gap, j

\* Where the rows at the ends of the gap are routed, and what comes before them.
LEMMA GapFacts ==
  ASSUME NEW q, NEW j, Gap(q, j)
  PROVE  /\ IInput /\ NumRows \in Nat \ {0} /\ Rows = 1 .. NumRows
         /\ j \in Nat /\ j < NumRows /\ j + 1 \in Rows /\ Offset(j + 1) = j
         /\ rows[j + 1] \in Key /\ LeafOf(rows[j + 1]) \in Leaf
         /\ LeafOf(q) \in Leaf /\ LeafOf(q) <= LeafOf(rows[j + 1])
         /\ j > 0 => /\ j \in Rows /\ rows[j] \in Key /\ LeafOf(rows[j]) \in Leaf
                     /\ LeafOf(rows[j]) <= LeafOf(q)
<1>1. /\ IInput /\ NumRows \in Nat \ {0} /\ Rows = 1 .. NumRows
      /\ \A i \in Rows : rows[i] \in Key /\ rows[i] \in Nat
      /\ \A k \in Key : LeafOf(k) \in Leaf
      /\ \A a, b \in Rows : a <= b => rows[a] <= rows[b]
      /\ q \in Key /\ q \in Nat
  BY InputFacts DEF Gap, Passed
<1>2. /\ j \in Nat /\ j < NumRows /\ j + 1 \in Rows
      /\ rows[j + 1] > q /\ (j > 0 => rows[j] < q) /\ (j > 0 => j \in Rows)
  BY <1>1 DEF Gap
<1>3. q <= rows[j + 1] /\ (j > 0 => rows[j] <= q)
  BY <1>1, <1>2
<1>4. LeafOf(q) <= LeafOf(rows[j + 1]) /\ (j > 0 => LeafOf(rows[j]) <= LeafOf(q))
  BY <1>1, <1>2, <1>3, RoutingOrdered DEF Gap
<1>5. Offset(j + 1) = j
  <2>1. /\ Offset(j + 1) \in Nat /\ Offset(j + 1) < j + 1
        /\ \A i \in Rows : i <= Offset(j + 1) <=> rows[i] < rows[j + 1]
    BY <1>1, <1>2, OffsetFacts
  <2>2. j > 0 => rows[j] < rows[j + 1]
    BY <1>1, <1>2
  <2>3. j > 0 => j <= Offset(j + 1)
    BY <1>2, <2>1, <2>2
  <2>. QED
    BY <1>2, <2>1, <2>3
<1>. QED
  BY <1>1, <1>2, <1>4, <1>5

\* The number of rows before the gap is the next index of any leaf whose rows end there.
LEMMA GapNext ==
  ASSUME NEW q, NEW j, Gap(q, j), NEW m \in Leaf, LeafOf(rows[j + 1]) > m,
         j > 0 => LeafOf(rows[j]) <= m
  PROVE  next_index(m) = j /\ next_key(m) = rows[j + 1]
<1>1. LeavesAbove(m) # {} /\ NextRow(m) = j + 1
  BY NextRowIs DEF Gap
<1>2. Offset(j + 1) = j
  BY GapFacts
<1>. QED
  BY <1>1, <1>2 DEF next_index, next_key

\* The same for the index that the lower error of the leaf of q refers to.
LEMMA GapNextOfBelow ==
  ASSUME NEW q, NEW j, Gap(q, j), j > 0 => LeafOf(rows[j]) < LeafOf(q),
         LeafOf(q) = 0 => LeafOf(rows[j + 1]) > 0
  PROVE  next_index(IF LeafOf(q) = 0 THEN 0 ELSE LeafOf(q) - 1) = j
<1>. DEFINE l == LeafOf(q)
            m == IF l = 0 THEN 0 ELSE l - 1
            up == LeafOf(rows[j + 1])
            low == LeafOf(rows[j])
<1>1. l \in Leaf /\ up \in Leaf /\ l <= up /\ (j > 0 => low \in Leaf)
  BY GapFacts
<1>2. j > 0 => low < l
  OBVIOUS
<1>3. Leaf \subseteq Nat /\ \A a \in Leaf : a # 0 => a - 1 \in Leaf
  BY IndexAssumption DEF Leaf
<1>. HIDE DEF l, up, low
<1>4. l \in Nat /\ up \in Nat /\ (j > 0 => low \in Nat)
  BY <1>1, <1>3
<1>5. CASE l = 0
  <2>1. up > 0
    BY <1>5 DEF l, up
  <2>2. ~(j > 0)
    BY <1>2, <1>4, <1>5
  <2>3. next_index(l) = j
    BY <1>1, <1>5, <2>1, <2>2, GapNext DEF up
  <2>. QED
    BY <1>5, <2>3 DEF l
<1>6. CASE l # 0
  <2>1. l - 1 \in Leaf /\ up > l - 1 /\ (j > 0 => low <= l - 1)
    BY <1>1, <1>2, <1>3, <1>4, <1>6
  <2>2. next_index(l - 1) = j
    BY <2>1, GapNext DEF up, low
  <2>. QED
    BY <1>6, <2>2 DEF l
<1>. QED
  BY <1>5, <1>6

\* The leaf of a gap has no row when neither end is routed to it.
LEMMA GapEmpty ==
  ASSUME NEW q, NEW j, Gap(q, j), NEW l \in Leaf, LeafOf(q) = l, ~HasRows(l)
  PROVE  /\ LeafOf(rows[j + 1]) > l /\ (j > 0 => LeafOf(rows[j]) < l)
         /\ next_index(l) = j
<1>1. \A i \in Rows : LeafOf(rows[i]) # l
  BY EndFacts DEF Gap
<1>2. /\ j + 1 \in Rows /\ LeafOf(rows[j + 1]) \in Leaf /\ l <= LeafOf(rows[j + 1])
      /\ j > 0 => j \in Rows /\ LeafOf(rows[j]) \in Leaf /\ LeafOf(rows[j]) <= l
  BY GapFacts
<1>3. Leaf \subseteq Nat
  BY IndexAssumption DEF Leaf
<1>4. LeafOf(rows[j + 1]) > l /\ (j > 0 => LeafOf(rows[j]) < l /\ LeafOf(rows[j]) <= l)
  <2>1. LeafOf(rows[j + 1]) \in Nat /\ l \in Nat /\ LeafOf(rows[j + 1]) # l
    BY <1>1, <1>2, <1>3
  <2>2. LeafOf(rows[j + 1]) > l
    BY <1>2, <2>1
  <2>3. ASSUME j > 0 PROVE LeafOf(rows[j]) < l /\ LeafOf(rows[j]) <= l
    <3>1. LeafOf(rows[j]) \in Nat /\ LeafOf(rows[j]) # l /\ LeafOf(rows[j]) <= l
      BY <1>1, <1>2, <1>3, <2>3
    <3>. QED
      BY <2>1, <3>1
  <2>. QED
    BY <2>2, <2>3
<1>. QED
  BY <1>4, GapNext

\* The observed leaf: its error, and a constant model if it has no row.
Observed(l) ==
  /\ l \in Leaf /\ model \in LeafModels
  /\ error = LeafError(l)
  /\ ~HasRows(l) => \E c \in Nat : model = Constantly(c)

\* A prediction and a term of the error.
LEMMA Term ==
  ASSUME Passed, NEW l, Observed(l), NEW k \in Key, NEW b \in 0 .. NumRows,
         NEW x \in {UpperError(l), LowerError(l)} \cup RowErrors(l), x = ErrorBetween(model[k], b)
  PROVE  /\ Lesser(model[k], NumRows) \in Nat /\ LongestRun(l) \in Nat /\ error \in Nat
         /\ Lesser(model[k], NumRows) + LongestRun(l) <= b + error
         /\ b + LongestRun(l) <= Lesser(model[k], NumRows) + error
<1>1. IInput /\ NumRows \in Nat /\ model[k] \in Nat /\ b \in Nat /\ b <= NumRows
  BY InputFacts DEF Passed, Observed, LeafModels
<1>2. error \in 0 .. 2 * NumRows /\ x \in Nat /\ LongestRun(l) \in Nat
      /\ x + LongestRun(l) <= error
  BY ErrorCovers DEF Observed
<1>3. /\ Lesser(model[k], NumRows) <= Lesser(b, NumRows) + x
      /\ Lesser(b, NumRows) <= Lesser(model[k], NumRows) + x
  BY <1>1, ErrorFacts
<1>4. Lesser(b, NumRows) = b /\ Lesser(model[k], NumRows) \in Nat
  BY <1>1 DEF Lesser
<1>. QED
  BY <1>1, <1>2, <1>3, <1>4

\* The model is monotone, also after the cap.
LEMMA CappedMonotone ==
  ASSUME IInput, model \in LeafModels, NEW a \in Key, NEW b \in Key, a <= b
  PROVE  /\ Lesser(model[a], NumRows) \in Nat /\ Lesser(model[b], NumRows) \in Nat
         /\ Lesser(model[a], NumRows) <= Lesser(model[b], NumRows)
         /\ model[a] \in Nat
<1>1. NumRows \in Nat
  BY InputFacts
<1>2. model[a] \in Nat /\ model[b] \in Nat /\ model[a] <= model[b]
  BY <1>1 DEF LeafModels, IsMonotone
<1>. QED
  BY <1>1, <1>2 DEF Lesser

\* A run of leaf l that another row follows is part of its error.
LEMMA RunCounted ==
  ASSUME Passed, NEW i \in Rows, i < NumRows, rows[i] # rows[i + 1]
  PROVE  LongestRun(LeafOf(rows[i])) >= i - Offset(i)
BY DEF Passed, ICorrect, RunsRecorded, LongestRun

\* The prediction for a key of a gap is not too high.
LEMMA GapUpper ==
  ASSUME NEW q, NEW j, Gap(q, j), NEW l, Observed(l), LeafOf(q) = l, HasRows(l)
  PROVE  Lesser(model[q], NumRows) <= j + error
<1>1. /\ Passed /\ IInput /\ q \in Key /\ q \in Nat /\ MaxKey \in Nat
      /\ rows[j + 1] > q /\ rows[j + 1] \in Nat /\ model \in LeafModels
      /\ \A i \in Rows : LeafOf(rows[i]) \in Leaf
  BY InputFacts, GapFacts DEF Gap, Passed, Observed
<1>2. /\ NumRows \in Nat /\ Rows = 1 .. NumRows /\ l \in Leaf
      /\ j \in Nat /\ j < NumRows /\ j + 1 \in Rows /\ Offset(j + 1) = j
      /\ rows[j + 1] \in Key
      /\ LeafOf(rows[j + 1]) \in Leaf /\ l <= LeafOf(rows[j + 1])
      /\ j > 0 => LeafOf(rows[j]) <= l
  BY GapFacts
<1>3. Leaf \subseteq Nat
  BY IndexAssumption DEF Leaf
<1>4. j \in 0 .. NumRows /\ j + 1 \in 0 .. NumRows
  BY <1>2
<1>5. CASE LeafOf(rows[j + 1]) = l
  <2>. DEFINE k == rows[j + 1]
  <2>1. ErrorBetween(model[k], j) \in RowErrors(l)
    BY <1>2, <1>5 DEF RowErrors, RowsOf
  <2>2. /\ Lesser(model[k], NumRows) \in Nat /\ LongestRun(l) \in Nat /\ error \in Nat
        /\ Lesser(model[k], NumRows) + LongestRun(l) <= j + error
    BY <1>1, <1>2, <1>4, <2>1, Term
  <2>3. /\ Lesser(model[q], NumRows) \in Nat
        /\ Lesser(model[q], NumRows) <= Lesser(model[k], NumRows)
    BY <1>1, <1>2, CappedMonotone
  <2>. QED
    BY <1>2, <2>2, <2>3
<1>6. CASE LeafOf(rows[j + 1]) # l
  <2>. DEFINE k == minus_epsilon(rows[j + 1])
  <2>1. LeafOf(rows[j + 1]) > l
    <3>1. l \in Nat /\ LeafOf(rows[j + 1]) \in Nat
      BY <1>2, <1>3
    <3>. QED
      BY <1>2, <1>6, <3>1
  <2>2. next_index(l) = j /\ next_key(l) = rows[j + 1]
    BY <1>2, <2>1, GapNext
  <2>3. UpperError(l) = ErrorBetween(model[k], j + 1)
    BY <2>2 DEF UpperError
  <2>4. k \in Key /\ q <= k
    BY <1>1, <1>2 DEF Key, minus_epsilon
  <2>. HIDE DEF k
  <2>5. /\ Lesser(model[k], NumRows) \in Nat /\ LongestRun(l) \in Nat /\ error \in Nat
        /\ Lesser(model[k], NumRows) + LongestRun(l) <= j + 1 + error
    BY <1>1, <1>4, <2>3, <2>4, Term
  <2>6. /\ Lesser(model[q], NumRows) \in Nat
        /\ Lesser(model[q], NumRows) <= Lesser(model[k], NumRows)
    BY <1>1, <2>4, CappedMonotone
  <2>7. LongestRun(l) >= 1
    <3>. DEFINE i == lb.last[l]
    <3>1. i \in Rows /\ LeafOf(rows[i]) = l
      BY <1>1, <1>2, EndFacts
    <3>2. i # j + 1 /\ i \in Nat /\ i <= NumRows
      BY <1>2, <1>6, <3>1
    <3>. HIDE DEF i
    <3>3. i <= j
      <4>. SUFFICES ASSUME i > j + 1 PROVE FALSE
        BY <1>2, <3>2
      <4>1. LeafOf(rows[j + 1]) <= LeafOf(rows[i])
        BY <1>1, <1>2, <3>1, RoutingOrdered DEF Gap
      <4>2. l \in Nat /\ LeafOf(rows[j + 1]) \in Nat
        BY <1>2, <1>3
      <4>. QED
        BY <2>1, <3>1, <4>1, <4>2
    <3>4. i < NumRows /\ i + 1 \in Rows
      BY <1>2, <3>2, <3>3
    <3>5. LeafOf(rows[i]) # LeafOf(rows[i + 1])
      <4>. SUFFICES ASSUME LeafOf(rows[i + 1]) = l PROVE FALSE
        BY <3>1
      <4>1. i + 1 <= lb.last[l]
        BY <1>1, <3>4, EndFacts
      <4>. QED
        BY <3>2, <4>1 DEF i
    <3>6. LongestRun(l) >= i - Offset(i)
      BY <1>1, <3>1, <3>4, <3>5, RunCounted
    <3>7. Offset(i) \in Nat /\ Offset(i) < i
      BY <1>1, <3>1, OffsetFacts
    <3>. QED
      BY <2>5, <3>2, <3>6, <3>7
  <2>. QED
    BY <1>2, <2>5, <2>6, <2>7
<1>. QED
  BY <1>5, <1>6

\* The prediction for a key of a gap is not too low.
LEMMA GapLower ==
  ASSUME NEW q, NEW j, Gap(q, j), NEW l, Observed(l), LeafOf(q) = l
  PROVE  j <= Lesser(model[q], NumRows) + error
<1>1. /\ Passed /\ IInput /\ q \in Key /\ q \in Nat /\ MaxKey \in Nat /\ q <= MaxKey
      /\ rows[j + 1] > q /\ rows[j + 1] \in Nat /\ model \in LeafModels
      /\ j > 0 => rows[j] < q /\ rows[j] \in Nat
  BY InputFacts, GapFacts DEF Gap, Passed, Observed
<1>2. /\ NumRows \in Nat /\ Rows = 1 .. NumRows /\ l \in Leaf
      /\ j \in Nat /\ j < NumRows /\ j + 1 \in Rows
      /\ j > 0 => j \in Rows /\ rows[j] \in Key /\ LeafOf(rows[j]) \in Leaf /\ LeafOf(rows[j]) <= l
  BY GapFacts
<1>3. Leaf \subseteq Nat
  BY IndexAssumption DEF Leaf
<1>4. Lesser(model[q], NumRows) \in Nat /\ error \in Nat
  <2>1. Lesser(model[q], NumRows) \in Nat
    BY <1>1, CappedMonotone
  <2>2. error \in 0 .. 2 * NumRows
    BY <1>1, <1>2, ErrorCovers DEF Observed
  <2>. QED
    BY <1>2, <2>1, <2>2
<1>5. CASE j = 0
  BY <1>4, <1>5
<1>6. CASE j # 0 /\ LeafOf(rows[j]) = l
  <2>. DEFINE k == rows[j]
  <2>1. /\ j \in Rows /\ k \in Key /\ k <= q
        /\ Offset(j) \in Nat /\ Offset(j) < j
    BY <1>1, <1>2, <1>6, OffsetFacts
  <2>2. ErrorBetween(model[k], Offset(j)) \in RowErrors(l) /\ Offset(j) \in 0 .. NumRows
    BY <1>2, <1>6, <2>1 DEF RowErrors, RowsOf
  <2>3. LongestRun(l) >= j - Offset(j)
    BY <1>1, <1>2, <1>6, RunCounted
  <2>. HIDE DEF k
  <2>4. /\ Lesser(model[k], NumRows) \in Nat /\ LongestRun(l) \in Nat
        /\ Offset(j) + LongestRun(l) <= Lesser(model[k], NumRows) + error
    BY <1>1, <2>1, <2>2, Term
  <2>5. Lesser(model[k], NumRows) <= Lesser(model[q], NumRows)
    BY <1>1, <2>1, CappedMonotone
  <2>. QED
    BY <1>2, <1>4, <2>1, <2>3, <2>4, <2>5
<1>7. CASE j # 0 /\ LeafOf(rows[j]) # l
  <2>. DEFINE k == plus_epsilon(rows[j])
  <2>1. j > 0 /\ j \in Rows /\ rows[j] \in Key /\ LeafOf(rows[j]) < l /\ l # 0
    <3>0. j > 0
      BY <1>2, <1>7
    <3>1. /\ j > 0 /\ j \in Rows /\ rows[j] \in Key /\ LeafOf(rows[j]) <= l
          /\ LeafOf(rows[j]) \in Nat /\ l \in Nat
      BY <1>2, <1>3, <3>0
    <3>. QED
      BY <1>7, <3>1
  <2>2. k \in Key /\ k <= q
    BY <1>1, <2>1 DEF Key, plus_epsilon
  <2>3. next_index(IF l = 0 THEN 0 ELSE l - 1) = j
    BY <2>1, GapNextOfBelow
  <2>4. prev_key(l) = rows[j]
    <3>1. LeafOf(rows[j + 1]) >= l
      <4>1. l <= LeafOf(rows[j + 1]) /\ LeafOf(rows[j + 1]) \in Leaf
        BY GapFacts
      <4>. QED
        BY <1>2, <1>3, <4>1
    <3>. QED
      BY <1>2, <2>1, <3>1, PrevRowIs DEF Gap
  <2>5. LowerError(l) = ErrorBetween(model[k], j)
    BY <2>3, <2>4 DEF LowerError
  <2>. HIDE DEF k
  <2>6. /\ Lesser(model[k], NumRows) \in Nat /\ LongestRun(l) \in Nat
        /\ j + LongestRun(l) <= Lesser(model[k], NumRows) + error
    <3>1. j \in 0 .. NumRows
      BY <1>2
    <3>. QED
      BY <1>1, <2>2, <2>5, <3>1, Term
  <2>7. Lesser(model[k], NumRows) <= Lesser(model[q], NumRows)
    BY <1>1, <2>2, CappedMonotone
  <2>. QED
    BY <1>2, <1>4, <2>6, <2>7
<1>. QED
  BY <1>5, <1>6, <1>7

\* A leaf without rows: its constant is within the lower error of the gap.
LEMMA GapUpperEmpty ==
  ASSUME NEW q, NEW j, Gap(q, j), NEW l, Observed(l), LeafOf(q) = l, ~HasRows(l)
  PROVE  Lesser(model[q], NumRows) <= j + error
<1>1. /\ Passed /\ IInput /\ q \in Key /\ l \in Leaf
      /\ j \in 0 .. NumRows
      /\ \A i \in Rows : rows[i] \in Key
  BY InputFacts, GapFacts DEF Gap, Passed, Observed
<1>2. LeafOf(rows[j + 1]) > l /\ (j > 0 => LeafOf(rows[j]) < l)
  BY <1>1, GapEmpty
<1>3. next_index(IF l = 0 THEN 0 ELSE l - 1) = j
  BY <1>2, GapNextOfBelow
<1>. DEFINE k == plus_epsilon(prev_key(l))
<1>4. k \in Key
  <2>1. prev_key(l) \in Key /\ MaxKey \in Nat
    BY <1>1, NeighbourFacts, IndexAssumption
  <2>. QED
    BY <2>1 DEF Key, plus_epsilon
<1>5. LowerError(l) = ErrorBetween(model[k], j)
  BY <1>3 DEF LowerError
<1>. HIDE DEF k
<1>6. /\ Lesser(model[k], NumRows) \in Nat /\ LongestRun(l) \in Nat /\ error \in Nat
      /\ Lesser(model[k], NumRows) + LongestRun(l) <= j + error
  BY <1>1, <1>4, <1>5, Term
<1>7. model[q] = model[k]
  BY <1>1, <1>4 DEF Observed, Constantly
<1>. QED
  BY <1>1, <1>6, <1>7

\* The error of the observed leaf covers every key routed to it.
LEMMA LeafBounded ==
  ASSUME Passed, NEW l, Observed(l), NEW q \in Key, LeafOf(q) = l,
         (\E i \in Rows : rows[i] = q) \/ (IsMonotone(top) /\ q <= LastKey)
  PROVE  Bounded(q)
<1>1. CASE \E i \in Rows : rows[i] = q
  BY <1>1, DataKeyBounded DEF Observed
<1>2. CASE ~\E i \in Rows : rows[i] = q
  <2>. DEFINE j == LowerBound(q)
  <2>1. Gap(q, j)
    BY <1>2, InGap
  <2>2. Lesser(model[q], NumRows) <= j + error
    BY <2>1, GapUpper, GapUpperEmpty
  <2>3. j <= Lesser(model[q], NumRows) + error
    BY <2>1, GapLower
  <2>4. IInput /\ model[q] \in Nat /\ j \in 0 .. NumRows - 1
    BY <2>1, CappedMonotone, InputFacts DEF Gap, Passed, Observed, LeafModels
  <2>5. error \in Nat
    <3>1. error \in 0 .. 2 * NumRows /\ NumRows \in Nat
      BY <2>4, InputFacts, ErrorCovers DEF Observed
    <3>. QED
      BY <3>1
  <2>. QED
    BY <2>2, <2>3, <2>4, <2>5, Clipped DEF Bounded, Prediction
<1>. QED
  BY <1>1, <1>2

-----------------------------------------------------------------------------
(* The points of sorted data.                                              *)

Point == Key \X Nat

\* The points of the first i rows, for every i.
PointsTable(data) ==
  CHOOSE points : points = [i \in 0 .. Len(data) |->
    IF i = 0 THEN <<>> ELSE points[i - 1] \o PointsOfRow(data, i)]

\* Data to train on.
Data(data) == data \in Seq(Key) /\ data # <<>> /\ Ordered(data)

\* Data to train on is numbered, and its keys are ordered.
LEMMA DataFacts ==
  ASSUME NEW data, Data(data)
  PROVE  /\ Len(data) \in Nat \ {0} /\ DOMAIN data = 1 .. Len(data)
         /\ \A i \in 1 .. Len(data) : data[i] \in Key /\ data[i] \in Nat
         /\ \A i, j \in 1 .. Len(data) : i <= j => data[i] <= data[j]
<1>1. Len(data) \in Nat \ {0} /\ data \in [1 .. Len(data) -> Key]
  BY EmptySeq, LenProperties DEF Data
<1>2. Key \subseteq Nat
  BY IndexAssumption DEF Key
<1>3. \A i \in 1 .. Len(data) : data[i] \in Nat
  BY <1>1, <1>2
<1>4. \A i \in 2 .. Len(data) : data[i - 1] <= data[i]
  BY DEF Data, Ordered
<1>5. Len(data) \in Nat
  BY <1>1
<1>6. \A i, j \in 1 .. Len(data) : i <= j => data[i] <= data[j]
  BY <1>3, <1>4, <1>5, OrderedPairs
<1>. QED
  BY <1>1, <1>3, <1>6

\* What row i adds.
LEMMA PointsOfRowFacts ==
  ASSUME NEW data, Data(data), NEW i \in 1 .. Len(data)
  PROVE  LET d == data[i]
         IN \/ /\ i > 1 /\ data[i - 1] = d
               /\ PointsOfRow(data, i) = <<>>
            \/ /\ i > 1 => data[i - 1] < d
               /\ PointsOfRow(data, i) = << <<d, i - 1>> >>
            \/ /\ d > 0 /\ (i > 1 => data[i - 1] < d - 1)
               /\ PointsOfRow(data, i) = << <<d - 1, i - 1>>, <<d, i - 1>> >>
<1>1. /\ i \in Nat /\ data[i] \in Nat
      /\ i > 1 => data[i - 1] \in Nat /\ data[i - 1] <= data[i]
  <2>1. Len(data) \in Nat /\ \A j \in 1 .. Len(data) : data[j] \in Nat
    BY DataFacts
  <2>2. i > 1 => i - 1 \in 1 .. Len(data) /\ i - 1 <= i
    BY <2>1
  <2>. QED
    BY <2>1, <2>2, DataFacts
<1>2. CASE i > 1 /\ data[i] = data[i - 1]
  BY <1>1, <1>2 DEF PointsOfRow
<1>3. CASE i > 1 /\ data[i] # data[i - 1]
  <2>1. data[i - 1] < data[i] /\ data[i] > 0 /\ minus_epsilon(data[i]) = data[i] - 1
    BY <1>1, <1>3 DEF minus_epsilon
  <2>2. CASE data[i] - 1 = data[i - 1]
    <3>1. PointsOfRow(data, i) = << <<data[i], i - 1>> >>
      BY <1>1, <1>3, <2>1, <2>2 DEF PointsOfRow
    <3>. QED
      BY <2>1, <3>1
  <2>3. CASE data[i] - 1 # data[i - 1]
    <3>1. PointsOfRow(data, i) = << <<data[i] - 1, i - 1>>, <<data[i], i - 1>> >>
      BY <1>1, <1>3, <2>1, <2>3 DEF PointsOfRow
    <3>2. data[i - 1] < data[i] - 1
      BY <1>1, <1>3, <2>1, <2>3
    <3>. QED
      BY <2>1, <3>1, <3>2
  <2>. QED
    BY <2>2, <2>3
<1>4. CASE ~(i > 1)
  <2>1. i = 1
    BY <1>1, <1>4
  <2>2. CASE minus_epsilon(data[i]) = 0
    <3>1. PointsOfRow(data, i) = << <<data[i], i - 1>> >>
      BY <2>1, <2>2 DEF PointsOfRow
    <3>. QED
      BY <1>4, <3>1
  <2>3. CASE minus_epsilon(data[i]) # 0
    <3>1. data[i] > 0 /\ minus_epsilon(data[i]) = data[i] - 1
      BY <1>1, <2>3 DEF minus_epsilon
    <3>2. PointsOfRow(data, i) = << <<data[i] - 1, i - 1>>, <<data[i], i - 1>> >>
      BY <2>1, <2>3, <3>1 DEF PointsOfRow
    <3>. QED
      BY <1>4, <3>1, <3>2
  <2>. QED
    BY <2>2, <2>3
<1>. QED
  BY <1>2, <1>3, <1>4

\* The recursion of Points, unfolded.
LEMMA PointsUnfold ==
  ASSUME NEW data, Data(data)
  PROVE  /\ Points(data) = PointsTable(data)[Len(data)]
         /\ PointsTable(data)[0] = <<>>
         /\ \A i \in 1 .. Len(data) :
              PointsTable(data)[i] = PointsTable(data)[i - 1] \o PointsOfRow(data, i)
         /\ \A i \in 1 .. Len(data) : PointsOfRow(data, i) \in Seq(Point)
<1>. DEFINE n == Len(data)
            Row(i) == IF i \in 1 .. n THEN PointsOfRow(data, i) ELSE <<>>
            step == [p \in Seq(Point) \X Nat |-> p[1] \o Row(p[2])]
            F(g) == [i \in 0 .. n |-> IF i = 0 THEN <<>> ELSE g[i - 1] \o PointsOfRow(data, i)]
<1>1. n \in Nat /\ <<>> \in Seq(Point) /\ 0 <= n
  BY DataFacts, EmptySeq
<1>2. ASSUME NEW i \in 1 .. n PROVE PointsOfRow(data, i) \in Seq(Point)
  <2>1. data[i] \in Key /\ data[i] \in Nat /\ MaxKey \in Nat /\ i - 1 \in Nat
    BY <1>1, DataFacts, IndexAssumption
  <2>2. <<data[i], i - 1>> \in Point
    BY <2>1 DEF Point
  <2>3. data[i] > 0 => <<data[i] - 1, i - 1>> \in Point
    BY <2>1 DEF Point, Key
  <2>4. << <<data[i], i - 1>> >> \in Seq(Point)
    BY <2>2
  <2>5. data[i] > 0 => << <<data[i] - 1, i - 1>>, <<data[i], i - 1>> >> \in Seq(Point)
    BY <2>2, <2>3
  <2>. QED
    BY <1>1, <2>4, <2>5, PointsOfRowFacts
<1>3. \A i \in Nat : Row(i) \in Seq(Point)
  BY <1>1, <1>2
<1>. HIDE DEF n
<1>4. step \in [Seq(Point) \X Nat -> Seq(Point)]
  <2>. SUFFICES ASSUME NEW p \in Seq(Point) \X Nat PROVE p[1] \o Row(p[2]) \in Seq(Point)
    OBVIOUS
  <2>1. p[1] \in Seq(Point) /\ Row(p[2]) \in Seq(Point)
    BY <1>3
  <2>. HIDE DEF Row
  <2>. QED
    BY <2>1, ConcatProperties
<1>. HIDE DEF step
<1>5. PICK g \in [0 .. n -> Seq(Point)] : Iterates(step, <<>>, 0, n, g)
  BY <1>1, <1>4, Recursion
<1>6. ASSUME NEW i \in 1 .. n PROVE g[i] = g[i - 1] \o PointsOfRow(data, i)
  <2>1. i \in 0 + 1 .. n /\ i - 1 \in 0 .. n /\ i \in Nat
    BY <1>1
  <2>2. g[i] = step[<<g[i - 1], i>>] /\ <<g[i - 1], i>> \in Seq(Point) \X Nat
    BY <1>5, <2>1 DEF Iterates
  <2>. QED
    BY <2>2 DEF step
<1>7. g = F(g)
  <2>1. \A i \in 0 .. n : i # 0 => i \in 1 .. n
    BY <1>1
  <2>2. g[0] = <<>>
    BY <1>5 DEF Iterates
  <2>3. \A i \in 0 .. n : g[i] = F(g)[i]
    BY <1>6, <2>1, <2>2
  <2>. QED
    BY <1>5, <2>3
<1>8. PointsTable(data) = F(PointsTable(data))
  BY <1>7 DEF PointsTable, n
<1>9. Points(data) = PointsTable(data)[n]
  BY DEF Points, PointsTable, n
<1>10. 0 \in 0 .. n /\ \A i \in 1 .. n : i \in 0 .. n /\ i # 0
  BY <1>1
<1>11. \A i \in 0 .. n : PointsTable(data)[i] =
         IF i = 0 THEN <<>> ELSE PointsTable(data)[i - 1] \o PointsOfRow(data, i)
  BY <1>8
<1>. QED
  BY <1>2, <1>9, <1>10, <1>11 DEF n

\* The keys of a list of points increase strictly.
Increasing(P) == \A a, b \in 1 .. Len(P) : a < b => P[a][1] < P[b][1]

\* A point with a greater key keeps the keys increasing.
LEMMA AppendIncreasing ==
  ASSUME NEW P \in Seq(Point), Increasing(P), NEW p \in Point,
         Len(P) > 0 => P[Len(P)][1] < p[1]
  PROVE  Increasing(Append(P, p))
<1>. DEFINE Q == Append(P, p)
<1>1. /\ Len(P) \in Nat /\ Len(Q) = Len(P) + 1
      /\ \A a \in 1 .. Len(P) : Q[a] = P[a] /\ P[a] \in Point
      /\ Q[Len(P) + 1] = p
  BY AppendFacts
<1>. HIDE DEF Q
<1>2. Key \subseteq Nat
  BY IndexAssumption DEF Key
<1>. SUFFICES ASSUME NEW a \in 1 .. Len(Q), NEW b \in 1 .. Len(Q), a < b
              PROVE  Q[a][1] < Q[b][1]
  BY DEF Increasing, Q
<1>0. \A x \in Point : x[1] \in Nat
  BY <1>2 DEF Point
<1>3. a \in 1 .. Len(P) /\ Q[a] = P[a] /\ P[a][1] \in Nat
  <2>1. a \in 1 .. Len(P)
    BY <1>1
  <2>. QED
    BY <1>0, <1>1, <2>1
<1>4. CASE b \in 1 .. Len(P)
  BY <1>1, <1>3, <1>4 DEF Increasing
<1>5. CASE b \notin 1 .. Len(P)
  <2>1. b = Len(P) + 1 /\ Q[b] = p /\ p[1] \in Nat
    <3>1. b = Len(P) + 1
      BY <1>1, <1>5
    <3>. QED
      BY <1>0, <1>1, <3>1
  <2>2. Len(P) \in 1 .. Len(P) /\ Len(P) > 0 /\ P[Len(P)][1] \in Nat
    <3>1. Len(P) \in 1 .. Len(P) /\ Len(P) > 0
      BY <1>1, <1>3
    <3>. QED
      BY <1>0, <1>1, <3>1
  <2>3. P[a][1] <= P[Len(P)][1]
    <3>1. CASE a = Len(P)
      BY <1>3, <3>1
    <3>2. CASE a # Len(P)
      <4>1. a < Len(P)
        BY <1>1, <1>3, <3>2
      <4>. QED
        BY <1>3, <2>2, <4>1 DEF Increasing
    <3>. QED
      BY <3>1, <3>2
  <2>. QED
    BY <1>3, <2>1, <2>2, <2>3
<1>. QED
  BY <1>4, <1>5

\* The first row of its key.
FirstOfKey(data, k) == k = 1 \/ data[k - 1] < data[k]

\* The points of the first i rows.
PointsOk(P, data, i) ==
  /\ P \in Seq(Point) /\ Len(P) > 0
  /\ Increasing(P)
  /\ P[1][2] = 0 /\ P[1][1] <= data[1]
  /\ P[Len(P)][1] = data[i]
  /\ \A k \in 1 .. i : FirstOfKey(data, k) => \E a \in 1 .. Len(P) : P[a] = <<data[k], k - 1>>

\* The points below the key of row i, of the rows before it.
PointsBefore(P, data, i) ==
  /\ P \in Seq(Point) /\ Increasing(P)
  /\ Len(P) = 0 => i = 1
  /\ Len(P) > 0 => /\ P[1][2] = 0 /\ P[1][1] <= data[1]
                   /\ P[Len(P)][1] < data[i]
  /\ \A k \in 1 .. i - 1 : FirstOfKey(data, k) => \E a \in 1 .. Len(P) : P[a] = <<data[k], k - 1>>

\* The point of row i completes them.
LEMMA OnePoint ==
  ASSUME NEW data, Data(data), NEW i \in 1 .. Len(data), NEW P, PointsBefore(P, data, i)
  PROVE  PointsOk(P \o << <<data[i], i - 1>> >>, data, i)
<1>. DEFINE p == <<data[i], i - 1>>
            Q == Append(P, p)
<1>1. /\ Len(data) \in Nat /\ data[i] \in Nat /\ i \in Nat /\ i - 1 \in Nat /\ p \in Point
      /\ P \in Seq(Point)
  BY DataFacts DEF Point, PointsBefore
<1>2. /\ Q \in Seq(Point) /\ Len(P) \in Nat /\ Len(Q) = Len(P) + 1
      /\ \A a \in 1 .. Len(P) : Q[a] = P[a] /\ P[a] \in Point
      /\ Q[Len(P) + 1] = p
      /\ P \o <<p>> = Q
  BY <1>1, AppendFacts
<1>3. p[1] = data[i] /\ p[2] = i - 1
  OBVIOUS
<1>. HIDE DEF Q, p
<1>4. Len(P) > 0 => P[Len(P)][1] < p[1]
  BY <1>3 DEF PointsBefore
<1>6. Increasing(Q)
  BY <1>1, <1>4, AppendIncreasing DEF Q, PointsBefore
<1>7. Q[1][2] = 0 /\ Q[1][1] <= data[1]
  <2>1. CASE Len(P) = 0
    <3>1. i = 1 /\ Q[1] = p
      BY <1>2, <2>1 DEF PointsBefore
    <3>. QED
      BY <1>1, <1>3, <3>1
  <2>2. CASE Len(P) # 0
    <3>1. Len(P) > 0 /\ 1 \in 1 .. Len(P)
      BY <1>2, <2>2
    <3>. QED
      BY <1>2, <3>1 DEF PointsBefore
  <2>. QED
    BY <2>1, <2>2
<1>8. ASSUME NEW k \in 1 .. i, FirstOfKey(data, k)
      PROVE  \E a \in 1 .. Len(Q) : Q[a] = <<data[k], k - 1>>
  <2>1. CASE k = i
    <3>1. Len(P) + 1 \in 1 .. Len(Q)
      BY <1>2
    <3>. QED
      BY <1>2, <2>1, <3>1 DEF p
  <2>2. CASE k # i
    <3>1. k \in 1 .. i - 1
      BY <1>1, <2>2
    <3>2. PICK a \in 1 .. Len(P) : P[a] = <<data[k], k - 1>>
      BY <1>8, <3>1 DEF PointsBefore
    <3>3. a \in 1 .. Len(Q) /\ Q[a] = P[a]
      BY <1>2
    <3>. QED
      BY <3>2, <3>3
  <2>. QED
    BY <2>1, <2>2
<1>9. Len(Q) > 0 /\ Q[Len(Q)][1] = data[i]
  BY <1>2, <1>3
<1>10. PointsOk(Q, data, i)
  BY <1>2, <1>6, <1>7, <1>8, <1>9 DEF PointsOk
<1>. QED
  BY <1>2, <1>10 DEF p

\* The key just below may come first, with the same offset.
LEMMA TwoPoints ==
  ASSUME NEW data, Data(data), NEW i \in 1 .. Len(data), NEW P, PointsBefore(P, data, i),
         data[i] > 0, Len(P) > 0 => P[Len(P)][1] < data[i] - 1
  PROVE  PointsOk(P \o << <<data[i] - 1, i - 1>>, <<data[i], i - 1>> >>, data, i)
<1>. DEFINE r == <<data[i] - 1, i - 1>>
            p == <<data[i], i - 1>>
            Q == Append(P, r)
<1>1. /\ Len(data) \in Nat /\ data[i] \in Nat /\ data[i] \in Key /\ MaxKey \in Nat
      /\ i \in Nat /\ i - 1 \in Nat /\ P \in Seq(Point)
      /\ i = 1 => data[i] = data[1]
  BY DataFacts, IndexAssumption DEF PointsBefore
<1>2. r \in Point /\ p \in Point
  BY <1>1 DEF Point, Key
<1>3. /\ Q \in Seq(Point) /\ Len(P) \in Nat /\ Len(Q) = Len(P) + 1
      /\ \A a \in 1 .. Len(P) : Q[a] = P[a] /\ P[a] \in Point
      /\ Q[Len(P) + 1] = r
      /\ P \o <<r>> = Q
      /\ Q \o <<p>> = Append(Q, p)
  BY <1>1, <1>2, AppendFacts
<1>4. r[1] = data[i] - 1 /\ r[2] = i - 1
  OBVIOUS
<1>5. P \o <<r, p>> = Q \o <<p>>
  <2>1. <<r>> \in Seq(Point) /\ <<p>> \in Seq(Point) /\ <<r>> \o <<p>> = <<r, p>>
    <3>. DEFINE t == <<r>> \o <<p>>
    <3>1. /\ <<r>> \in Seq(Point) /\ <<p>> \in Seq(Point) /\ <<r, p>> \in Seq(Point)
          /\ Len(<<r>>) = 1 /\ Len(<<p>>) = 1 /\ Len(<<r, p>>) = 2
          /\ <<r, p>>[1] = r /\ <<r, p>>[2] = p /\ <<r>>[1] = r /\ <<p>>[1] = p
      BY <1>2
    <3>2. t \in Seq(Point) /\ Len(t) = 2 /\ t[1] = r /\ t[2] = p
      <4>1. /\ t \in Seq(Point) /\ Len(t) = 1 + 1
            /\ \A a \in 1 .. 1 + 1 : t[a] = IF a <= 1 THEN <<r>>[a] ELSE <<p>>[a - 1]
        BY <3>1, ConcatProperties
      <4>. QED
        BY <3>1, <4>1
    <3>3. \A a \in 1 .. Len(t) : t[a] = <<r, p>>[a]
      BY <3>1, <3>2
    <3>4. t = <<r, p>>
      BY <3>1, <3>2, <3>3, SeqEqual
    <3>. QED
      BY <3>1, <3>4
  <2>2. (P \o <<r>>) \o <<p>> = P \o (<<r>> \o <<p>>)
    BY <1>1, <2>1, ConcatAssociative
  <2>. QED
    BY <1>3, <2>1, <2>2
<1>. HIDE DEF Q, r, p
<1>6. Increasing(Q)
  BY <1>1, <1>2, <1>4, AppendIncreasing DEF Q, PointsBefore
<1>7. Q[1][2] = 0 /\ Q[1][1] <= data[1]
  <2>1. CASE Len(P) = 0
    <3>1. i = 1 /\ Q[1] = r
      BY <1>3, <2>1 DEF PointsBefore
    <3>. QED
      BY <1>1, <1>4, <3>1
  <2>2. CASE Len(P) # 0
    <3>1. Len(P) > 0 /\ 1 \in 1 .. Len(P)
      BY <1>3, <2>2
    <3>. QED
      BY <1>3, <3>1 DEF PointsBefore
  <2>. QED
    BY <2>1, <2>2
<1>8. ASSUME NEW k \in 1 .. i - 1, FirstOfKey(data, k)
      PROVE  \E a \in 1 .. Len(Q) : Q[a] = <<data[k], k - 1>>
  <2>1. PICK a \in 1 .. Len(P) : P[a] = <<data[k], k - 1>>
    BY <1>8 DEF PointsBefore
  <2>2. a \in 1 .. Len(Q) /\ Q[a] = P[a]
    BY <1>3
  <2>. QED
    BY <2>1, <2>2
<1>9. Len(Q) > 0 /\ Len(Q) # 0 /\ Q[Len(Q)][1] < data[i]
  BY <1>1, <1>3, <1>4
<1>10. PointsBefore(Q, data, i)
  BY <1>3, <1>6, <1>7, <1>8, <1>9 DEF PointsBefore
<1>11. PointsOk(Q \o <<p>>, data, i)
  BY <1>10, OnePoint DEF p
<1>. QED
  BY <1>5, <1>11 DEF r, p

\* The points of a data set.
LEMMA PointsFacts ==
  ASSUME NEW data, Data(data)
  PROVE  PointsOk(Points(data), data, Len(data))
<1>. DEFINE n == Len(data)
            P(i) == PointsTable(data)[i]
            U == {i \in 1 .. n : PointsOk(P(i), data, i)}
<1>1. /\ n \in Nat \ {0}
      /\ \A i \in 1 .. n : data[i] \in Nat
      /\ \A i, j \in 1 .. n : i <= j => data[i] <= data[j]
  BY DataFacts
<1>2. /\ Points(data) = P(n) /\ P(0) = <<>>
      /\ \A i \in 1 .. n : P(i) = P(i - 1) \o PointsOfRow(data, i)
      /\ \A i \in 1 .. n : PointsOfRow(data, i) \in Seq(Point)
  BY PointsUnfold
<1>. HIDE DEF n, P
<1>3. 1 \in 1 .. n /\ 1 - 1 = 0
  BY <1>1
<1>4. PointsBefore(<<>>, data, 1)
  <2>1. <<>> \in Seq(Point) /\ Len(<<>>) = 0 /\ Increasing(<<>>) /\ 1 .. 1 - 1 = {}
    BY EmptySeq DEF Increasing
  <2>. QED
    BY <2>1 DEF PointsBefore
<1>5. 1 \in U
  <2>1. P(1) = <<>> \o PointsOfRow(data, 1)
    BY <1>2, <1>3
  <2>2. \/ PointsOfRow(data, 1) = << <<data[1], 1 - 1>> >>
        \/ /\ data[1] > 0
           /\ PointsOfRow(data, 1) = << <<data[1] - 1, 1 - 1>>, <<data[1], 1 - 1>> >>
    BY <1>3, PointsOfRowFacts DEF n
  <2>3. ~(Len(<<>>) > 0)
    OBVIOUS
  <2>4. PointsOk(P(1), data, 1)
    <3>1. CASE PointsOfRow(data, 1) = << <<data[1], 1 - 1>> >>
      BY <1>3, <1>4, <2>1, <3>1, OnePoint DEF n
    <3>2. CASE /\ data[1] > 0
               /\ PointsOfRow(data, 1) = << <<data[1] - 1, 1 - 1>>, <<data[1], 1 - 1>> >>
      BY <1>3, <1>4, <2>1, <2>3, <3>2, TwoPoints DEF n
    <3>. QED
      BY <2>2, <3>1, <3>2
  <2>. QED
    BY <1>3, <2>4
<1>6. ASSUME NEW i \in 1 + 1 .. n, i - 1 \in U
      PROVE  i \in U
  <2>1. /\ i \in 1 .. n /\ i > 1 /\ i - 1 \in 1 .. n /\ i \in Nat
        /\ PointsOk(P(i - 1), data, i - 1)
    BY <1>1, <1>6
  <2>2. P(i) = P(i - 1) \o PointsOfRow(data, i)
    BY <1>2, <2>1
  <2>3. PointsOk(P(i - 1), data, i - 1) /\ P(i - 1) \in Seq(Point) /\ Len(P(i - 1)) > 0
        /\ P(i - 1)[Len(P(i - 1))][1] = data[i - 1]
    BY <2>1 DEF PointsOk
  <2>4. data[i - 1] \in Nat /\ data[i] \in Nat
    BY <1>1, <2>1
  <2>5. ASSUME data[i - 1] < data[i] PROVE PointsBefore(P(i - 1), data, i)
    <3>1. Len(P(i - 1)) # 0
      BY <2>3
    <3>. QED
      BY <2>3, <2>5, <3>1 DEF PointsOk, PointsBefore
  <2>6. CASE data[i - 1] = data[i] /\ PointsOfRow(data, i) = <<>>
    <3>1. P(i) = P(i - 1)
      BY <2>2, <2>3, <2>6, ConcatEmptySeq
    <3>2. \A k \in 1 .. i : FirstOfKey(data, k) => k \in 1 .. i - 1
      <4>. SUFFICES ASSUME FirstOfKey(data, i) PROVE FALSE
        BY <2>1
      <4>. QED
        BY <2>1, <2>4, <2>6 DEF FirstOfKey
    <3>3. PointsOk(P(i - 1), data, i)
      BY <2>3, <2>6, <3>2 DEF PointsOk
    <3>. QED
      BY <2>1, <3>1, <3>3
  <2>7. CASE data[i - 1] < data[i] /\ PointsOfRow(data, i) = << <<data[i], i - 1>> >>
    <3>1. PointsOk(P(i), data, i)
      BY <2>1, <2>2, <2>5, <2>7, OnePoint DEF n
    <3>. QED
      BY <2>1, <3>1
  <2>8. CASE /\ data[i] > 0 /\ data[i - 1] < data[i] - 1
             /\ PointsOfRow(data, i) = << <<data[i] - 1, i - 1>>, <<data[i], i - 1>> >>
    <3>1. data[i - 1] < data[i]
      BY <2>4, <2>8
    <3>2. P(i - 1)[Len(P(i - 1))][1] < data[i] - 1
      BY <2>3, <2>8
    <3>3. PointsOk(P(i), data, i)
      BY <2>1, <2>2, <2>5, <2>8, <3>1, <3>2, TwoPoints DEF n
    <3>. QED
      BY <2>1, <3>3
  <2>9. \/ /\ i > 1 /\ data[i - 1] = data[i]
           /\ PointsOfRow(data, i) = <<>>
        \/ /\ i > 1 => data[i - 1] < data[i]
           /\ PointsOfRow(data, i) = << <<data[i], i - 1>> >>
        \/ /\ data[i] > 0 /\ (i > 1 => data[i - 1] < data[i] - 1)
           /\ PointsOfRow(data, i) = << <<data[i] - 1, i - 1>>, <<data[i], i - 1>> >>
    BY <2>1, PointsOfRowFacts DEF n
  <2>. QED
    BY <2>1, <2>6, <2>7, <2>8, <2>9
<1>. HIDE DEF U
<1>7. \A i \in 1 .. n : i \in U
  BY <1>1, <1>5, <1>6, UpTo
<1>8. n \in U
  BY <1>1, <1>7
<1>. QED
  BY <1>2, <1>8 DEF U, n

-----------------------------------------------------------------------------
(* The fit: the interpolation of every point falls on its line.            *)

\* The interpolation is exact at both ends of a segment.
LEMMA PredictEnds ==
  ASSUME NEW from \in Point, NEW to \in Point, from[1] < to[1]
  PROVE  predict(from, to, to[1]) = to[2] /\ predict(from, to, from[1]) = from[2]
<1>1. /\ from[1] \in Nat /\ from[2] \in Nat /\ to[1] \in Nat /\ to[2] \in Nat
  BY IndexAssumption DEF Point, Key
<1>. DEFINE d == to[1] - from[1]
<1>2. d \in Nat \ {0} /\ to[1] - to[1] = 0 /\ from[1] - from[1] = 0
  BY <1>1
<1>. HIDE DEF d
<1>3. /\ from[2] * 0 + to[2] * d = to[2] * d
      /\ from[2] * d + to[2] * 0 = from[2] * d
  BY <1>1, <1>2
<1>4. /\ predict(from, to, to[1]) = (from[2] * 0 + to[2] * d) \div d
      /\ predict(from, to, from[1]) = (from[2] * d + to[2] * 0) \div d
  BY <1>2 DEF predict, d
<1>5. (to[2] * d) \div d = to[2] /\ (from[2] * d) \div d = from[2]
  BY <1>1, <1>2, DivExact
<1>. QED
  BY <1>3, <1>4, <1>5

\* A segment of spline s interpolates point p on its line of w rows.
Fitted(s, p, w) ==
  \E a \in 1 .. Len(s) - 1 : /\ s[a][1] < p[1] /\ p[1] <= s[a + 1][1]
                             /\ SameLine(s[a], s[a + 1], p, w)

\* A further segment keeps what is fitted, and fits the points that are on it.
LEMMA FittedAppend ==
  ASSUME NEW s \in Seq(Point), Len(s) > 0, NEW q \in Point, NEW p, NEW w,
         \/ Fitted(s, p, w)
         \/ /\ s[Len(s)][1] < p[1] /\ p[1] <= q[1]
            /\ SameLine(s[Len(s)], q, p, w)
  PROVE  Fitted(Append(s, q), p, w)
<1>. DEFINE t == Append(s, q)
<1>1. /\ Len(s) \in Nat /\ Len(t) = Len(s) + 1
      /\ \A a \in 1 .. Len(s) : t[a] = s[a]
      /\ t[Len(s) + 1] = q
  BY AppendFacts
<1>. HIDE DEF t
<1>2. CASE Fitted(s, p, w)
  <2>1. PICK a \in 1 .. Len(s) - 1 : /\ s[a][1] < p[1] /\ p[1] <= s[a + 1][1]
                                     /\ SameLine(s[a], s[a + 1], p, w)
    BY <1>2 DEF Fitted
  <2>2. a \in 1 .. Len(s) /\ a + 1 \in 1 .. Len(s) /\ a \in 1 .. Len(t) - 1
    BY <1>1
  <2>3. t[a] = s[a] /\ t[a + 1] = s[a + 1]
    BY <1>1, <2>2
  <2>. QED
    BY <2>1, <2>2, <2>3 DEF Fitted, t
<1>3. CASE /\ s[Len(s)][1] < p[1] /\ p[1] <= q[1]
           /\ SameLine(s[Len(s)], q, p, w)
  <2>1. Len(s) \in 1 .. Len(s) /\ Len(s) \in 1 .. Len(t) - 1
    BY <1>1
  <2>2. t[Len(s)] = s[Len(s)] /\ t[Len(s) + 1] = q
    BY <1>1, <2>1
  <2>. QED
    BY <1>3, <2>1, <2>2 DEF Fitted, t
<1>. QED
  BY <1>2, <1>3

Segments == [from : Point, to : Point, passed : SUBSET Point, spline : Seq(Point)]

\* A spline through some of the first i points P, with the segment in progress.
FitOk(f, P, i, w) ==
  /\ f \in Segments
  /\ f.to = P[i]
  /\ Len(f.spline) > 0 /\ Increasing(f.spline)
  /\ f.spline[Len(f.spline)] = f.from /\ f.spline[1] = P[1]
  /\ i = 1 => f.from = P[1] /\ f.passed = {}
  /\ i > 1 => f.from[1] < P[i][1]
  /\ \A k \in 1 .. i : P[k][1] > f.from[1] => k = i \/ P[k] \in f.passed
  /\ \A k \in 1 .. i : P[k][1] > P[1][1] =>
       \/ Fitted(f.spline, P[k], w)
       \/ P[k][1] > f.from[1] /\ SameLine(f.from, f.to, P[k], w)

\* The first point alone.
LEMMA FitStart ==
  ASSUME NEW P \in Seq(Point), Len(P) > 0, NEW w
  PROVE  FitOk(Segment(P[1], P[1], {}, <<P[1]>>), P, 1, w)
<1>. DEFINE f == Segment(P[1], P[1], {}, <<P[1]>>)
<1>1. P[1] \in Point /\ P[1][1] \in Nat
  <2>1. 1 \in 1 .. Len(P)
    BY LenProperties
  <2>2. P[1] \in Point
    BY <2>1, ElementOfSeq
  <2>. QED
    BY <2>2, IndexAssumption DEF Point, Key
<1>2. <<P[1]>> \in Seq(Point) /\ Len(<<P[1]>>) = 1 /\ <<P[1]>>[1] = P[1]
  BY <1>1
<1>3. f.from = P[1] /\ f.to = P[1] /\ f.passed = {} /\ f.spline = <<P[1]>> /\ f \in Segments
  BY <1>1, <1>2 DEF Segment, Segments
<1>. HIDE DEF f
<1>4. Increasing(<<P[1]>>)
  BY <1>2 DEF Increasing
<1>5. \A k \in 1 .. 1 : ~(P[k][1] > P[1][1])
  BY <1>1
<1>6. FitOk(f, P, 1, w)
  BY <1>1, <1>2, <1>3, <1>4, <1>5 DEF FitOk
<1>. QED
  BY <1>6 DEF f

\* The next point extends the segment in progress or starts one.
LEMMA FitStep ==
  ASSUME NEW P \in Seq(Point), Increasing(P), NEW i \in 1 .. Len(P), i > 1, NEW w \in Nat \ {0},
         NEW f, FitOk(f, P, i - 1, w)
  PROVE  FitOk(add_point(f, P[i], w), P, i, w)
<1>. DEFINE p == P[i]
            r == P[i - 1]
            passed == f.passed \cup {f.to}
            onward == Segment(f.from, p, passed, f.spline)
            broken == Segment(f.to, p, {p}, Append(f.spline, f.to))
<1>1. /\ Len(P) \in Nat /\ i \in Nat /\ i - 1 \in 1 .. Len(P)
      /\ \A k \in 1 .. Len(P) : P[k] \in Point
  BY LenProperties
<1>2. /\ \A k \in 1 .. Len(P) : P[k][1] \in Nat
      /\ \A x \in Point : x[1] \in Nat
  <2>1. \A x \in Point : x[1] \in Nat
    BY IndexAssumption DEF Point, Key
  <2>. QED
    BY <1>1, <2>1
<1>3. p \in Point /\ r \in Point /\ p[1] \in Nat /\ r[1] \in Nat /\ r[1] < p[1]
  BY <1>1, <1>2 DEF Increasing
<1>4. /\ f.from \in Point /\ f.to = r /\ f.passed \in SUBSET Point /\ f.spline \in Seq(Point)
      /\ Len(f.spline) > 0 /\ Increasing(f.spline)
      /\ f.spline[Len(f.spline)] = f.from /\ f.spline[1] = P[1]
      /\ i - 1 = 1 => f.from = P[1] /\ f.passed = {}
      /\ i - 1 > 1 => f.from[1] < r[1]
      /\ \A k \in 1 .. i - 1 : P[k][1] > f.from[1] => k = i - 1 \/ P[k] \in f.passed
      /\ \A k \in 1 .. i - 1 : P[k][1] > P[1][1] =>
           \/ Fitted(f.spline, P[k], w)
           \/ P[k][1] > f.from[1] /\ SameLine(f.from, r, P[k], w)
  BY DEF FitOk, Segments
<1>5. f.from[1] <= r[1] /\ f.from[1] \in Nat /\ f.from[1] < p[1]
  <2>1. f.from[1] \in Nat
    BY <1>2, <1>4
  <2>2. f.from[1] <= r[1]
    <3>1. CASE i - 1 = 1
      BY <1>3, <1>4, <3>1
    <3>2. CASE i - 1 > 1
      BY <1>3, <1>4, <2>1, <3>2
    <3>. QED
      BY <1>1, <3>1, <3>2
  <2>. QED
    BY <1>3, <2>1, <2>2
<1>6. \A k \in 1 .. i : k # i => k \in 1 .. i - 1 /\ k \in 1 .. Len(P)
  BY <1>1
<1>. HIDE DEF p, r
<1>7. CASE \A x \in passed : SameLine(f.from, p, x, w)
  <2>1. add_point(f, P[i], w) = onward
    BY <1>7 DEF add_point, p
  <2>2. /\ onward.from = f.from /\ onward.to = p /\ onward.passed = passed
        /\ onward.spline = f.spline
    BY DEF Segment
  <2>3. onward \in Segments
    BY <1>3, <1>4 DEF Segment, Segments
  <2>4. SameLine(f.from, p, p, w)
    BY <1>3, <1>4, <1>5, PredictEnds DEF SameLine
  <2>. HIDE DEF onward
  <2>5. ASSUME NEW k \in 1 .. i, P[k][1] > f.from[1] PROVE k = i \/ P[k] \in passed
    <3>1. CASE k = i
      BY <3>1
    <3>2. CASE k = i - 1
      BY <1>4, <3>2 DEF r
    <3>3. CASE k # i /\ k # i - 1
      BY <1>4, <1>6, <2>5, <3>3
    <3>. QED
      BY <3>1, <3>2, <3>3
  <2>6. ASSUME NEW k \in 1 .. i, P[k][1] > P[1][1]
        PROVE  \/ Fitted(f.spline, P[k], w)
               \/ P[k][1] > f.from[1] /\ SameLine(f.from, p, P[k], w)
    <3>1. CASE k = i
      BY <1>3, <1>5, <2>4, <3>1 DEF p
    <3>2. CASE k # i
      <4>1. \/ Fitted(f.spline, P[k], w)
            \/ P[k][1] > f.from[1]
        BY <1>4, <1>6, <2>6, <3>2
      <4>2. P[k][1] > f.from[1] => P[k] \in passed
        BY <2>5, <3>2
      <4>. QED
        BY <1>7, <4>1, <4>2
    <3>. QED
      BY <3>1, <3>2
  <2>. HIDE DEF passed
  <2>7. i # 1 /\ (i > 1 => f.from[1] < P[i][1])
    BY <1>1, <1>5 DEF p
  <2>8. FitOk(onward, P, i, w)
    BY <1>4, <2>2, <2>3, <2>5, <2>6, <2>7 DEF FitOk, p
  <2>. QED
    BY <2>1, <2>8
<1>8. CASE ~\A x \in passed : SameLine(f.from, p, x, w)
  <2>1. add_point(f, P[i], w) = broken
    BY <1>8 DEF add_point, p
  <2>2. i - 1 > 1
    <3>. SUFFICES ASSUME i - 1 = 1 PROVE FALSE
      BY <1>1
    <3>1. passed = {f.from} /\ f.from = r
      BY <1>4 DEF r
    <3>2. SameLine(f.from, p, f.from, w)
      BY <1>3, <1>4, <1>5, PredictEnds DEF SameLine
    <3>. QED
      BY <1>8, <3>1, <3>2
  <2>3. /\ broken.from = r /\ broken.to = p /\ broken.passed = {p}
        /\ broken.spline = Append(f.spline, r)
    BY <1>4 DEF Segment
  <2>. DEFINE s == Append(f.spline, r)
  <2>4. /\ s \in Seq(Point) /\ Len(f.spline) \in Nat /\ Len(s) = Len(f.spline) + 1
        /\ \A a \in 1 .. Len(f.spline) : s[a] = f.spline[a]
        /\ s[Len(f.spline) + 1] = r
    BY <1>3, <1>4, AppendFacts
  <2>5. broken \in Segments
    BY <1>3, <1>4, <2>4 DEF Segment, Segments
  <2>. HIDE DEF broken
  <2>6. Increasing(s)
    BY <1>3, <1>4, <2>2, AppendIncreasing
  <2>7. ASSUME NEW k \in 1 .. i, k # i PROVE ~(P[k][1] > r[1]) /\ P[k][1] <= r[1]
    <3>1. k \in 1 .. i - 1 /\ k \in 1 .. Len(P) /\ P[k][1] \in Nat
      BY <1>2, <1>6, <2>7
    <3>2. CASE k = i - 1
      BY <1>3, <3>2 DEF r
    <3>3. CASE k # i - 1
      <4>1. k < i - 1
        BY <1>1, <3>1, <3>3
      <4>2. P[k][1] < P[i - 1][1]
        BY <1>1, <3>1, <4>1 DEF Increasing
      <4>. QED
        BY <1>3, <3>1, <4>2 DEF r
    <3>. QED
      BY <3>2, <3>3
  <2>8. SameLine(r, p, p, w)
    BY <1>3, PredictEnds DEF SameLine
  <2>9. ASSUME NEW k \in 1 .. i, P[k][1] > P[1][1]
        PROVE  \/ Fitted(s, P[k], w)
               \/ P[k][1] > r[1] /\ SameLine(r, p, P[k], w)
    <3>1. CASE k = i
      BY <1>3, <2>8, <3>1 DEF p
    <3>2. CASE k # i
      <4>1. \/ Fitted(f.spline, P[k], w)
            \/ P[k][1] > f.from[1] /\ SameLine(f.from, r, P[k], w)
        BY <1>4, <1>6, <2>9, <3>2
      <4>2. P[k][1] \in Nat /\ P[k][1] <= r[1]
        BY <1>2, <1>6, <2>7, <3>2
      <4>3. \/ Fitted(f.spline, P[k], w)
            \/ /\ f.spline[Len(f.spline)][1] < P[k][1] /\ P[k][1] <= r[1]
               /\ SameLine(f.spline[Len(f.spline)], r, P[k], w)
        BY <1>4, <1>5, <4>1, <4>2
      <4>4. Fitted(s, P[k], w)
        BY <1>3, <1>4, <4>3, FittedAppend
      <4>. QED
        BY <4>4
    <3>. QED
      BY <3>1, <3>2
  <2>. HIDE DEF s
  <2>10. Len(s) > 0 /\ s[Len(s)] = r /\ s[1] = P[1]
    <3>1. 1 \in 1 .. Len(f.spline)
      BY <1>4, <2>4
    <3>2. s[1] = P[1]
      BY <1>4, <2>4, <3>1
    <3>3. Len(s) > 0 /\ s[Len(s)] = r
      BY <2>4
    <3>. QED
      BY <3>2, <3>3
  <2>11. /\ i # 1 /\ (i > 1 => r[1] < P[i][1])
         /\ \A k \in 1 .. i : P[k][1] > r[1] => k = i \/ P[k] \in {p}
    BY <1>1, <1>3, <2>7 DEF p
  <2>12. FitOk(broken, P, i, w)
    BY <2>3, <2>4, <2>5, <2>6, <2>9, <2>10, <2>11 DEF FitOk, p, s
  <2>. QED
    BY <2>1, <2>12
<1>. QED
  BY <1>7, <1>8

\* The fit of the first i points, for every i.
FitTable(P, w, n) ==
  CHOOSE fit : fit = [i \in 1 .. n |->
    IF i = 1 THEN Segment(P[1], P[1], {}, <<P[1]>>) ELSE add_point(fit[i - 1], P[i], w)]

\* The recursion of Fit, unfolded.
LEMMA FitUnfold ==
  ASSUME NEW P \in Seq(Point), Len(P) > 0, NEW w
  PROVE  /\ Fit(P, w, Len(P)) = FitTable(P, w, Len(P))[Len(P)]
         /\ FitTable(P, w, Len(P))[1] = Segment(P[1], P[1], {}, <<P[1]>>)
         /\ \A i \in 1 + 1 .. Len(P) :
              FitTable(P, w, Len(P))[i] = add_point(FitTable(P, w, Len(P))[i - 1], P[i], w)
<1>. DEFINE n == Len(P)
            start == Segment(P[1], P[1], {}, <<P[1]>>)
            After(f, i) == IF i \in 1 .. n THEN add_point(f, P[i], w) ELSE f
            step == [x \in Segments \X Nat |-> After(x[1], x[2])]
            F(g) == [i \in 1 .. n |-> IF i = 1 THEN start ELSE add_point(g[i - 1], P[i], w)]
<1>1. n \in Nat /\ 1 <= n /\ \A i \in 1 .. n : P[i] \in Point
  BY LenProperties
<1>2. start \in Segments
  <2>1. P[1] \in Point
    BY <1>1
  <2>2. <<P[1]>> \in Seq(Point)
    BY <2>1
  <2>. QED
    BY <2>1, <2>2 DEF Segment, Segments
<1>3. \A f \in Segments, i \in Nat : After(f, i) \in Segments
  <2>. SUFFICES ASSUME NEW f \in Segments, NEW i \in 1 .. n PROVE add_point(f, P[i], w) \in Segments
    OBVIOUS
  <2>1. /\ f.from \in Point /\ f.to \in Point /\ f.passed \in SUBSET Point
        /\ f.spline \in Seq(Point) /\ P[i] \in Point
    BY <1>1 DEF Segments
  <2>2. Append(f.spline, f.to) \in Seq(Point)
    BY <2>1, AppendFacts
  <2>3. Segment(f.from, P[i], f.passed \cup {f.to}, f.spline) \in Segments
    BY <2>1 DEF Segment, Segments
  <2>4. Segment(f.to, P[i], {P[i]}, Append(f.spline, f.to)) \in Segments
    BY <2>1, <2>2 DEF Segment, Segments
  <2>. QED
    BY <2>3, <2>4 DEF add_point
<1>. HIDE DEF n, start, After
<1>4. step \in [Segments \X Nat -> Segments]
  BY <1>3
<1>5. \A f \in Segments, i \in Nat : step[<<f, i>>] = After(f, i)
  OBVIOUS
<1>. HIDE DEF step
<1>6. PICK g \in [1 .. n -> Segments] : Iterates(step, start, 1, n, g)
  BY <1>1, <1>2, <1>4, Recursion
<1>7. ASSUME NEW i \in 1 + 1 .. n PROVE g[i] = add_point(g[i - 1], P[i], w)
  <2>1. i \in 1 .. n /\ i - 1 \in 1 .. n /\ i \in Nat
    BY <1>1
  <2>2. g[i] = step[<<g[i - 1], i>>] /\ g[i - 1] \in Segments
    BY <1>6, <2>1 DEF Iterates
  <2>3. g[i] = After(g[i - 1], i)
    BY <1>5, <2>1, <2>2
  <2>. QED
    BY <2>1, <2>3 DEF After
<1>8. g = F(g)
  <2>1. \A i \in 1 .. n : i # 1 => i \in 1 + 1 .. n
    BY <1>1
  <2>2. g[1] = start
    BY <1>6 DEF Iterates
  <2>3. \A i \in 1 .. n : g[i] = F(g)[i]
    BY <1>7, <2>1, <2>2
  <2>. QED
    BY <1>6, <2>3
<1>9. FitTable(P, w, n) = F(FitTable(P, w, n))
  BY <1>8 DEF FitTable, start
<1>10. Fit(P, w, n) = FitTable(P, w, n)[n]
  BY DEF Fit, FitTable
<1>11. 1 \in 1 .. n /\ \A i \in 1 + 1 .. n : i \in 1 .. n /\ i # 1
  BY <1>1
<1>12. \A i \in 1 .. n : FitTable(P, w, n)[i] =
         IF i = 1 THEN start ELSE add_point(FitTable(P, w, n)[i - 1], P[i], w)
  BY <1>9
<1>. QED
  BY <1>10, <1>11, <1>12 DEF n, start

\* The fit of all points.
LEMMA FitFacts ==
  ASSUME NEW P \in Seq(Point), Len(P) > 0, Increasing(P), NEW w \in Nat \ {0}
  PROVE  FitOk(Fit(P, w, Len(P)), P, Len(P), w)
<1>. DEFINE n == Len(P)
            f(i) == FitTable(P, w, n)[i]
            U == {i \in 1 .. n : FitOk(f(i), P, i, w)}
<1>1. n \in Nat /\ 1 \in 1 .. n /\ n \in 1 .. n
  BY LenProperties
<1>2. /\ Fit(P, w, n) = f(n)
      /\ f(1) = Segment(P[1], P[1], {}, <<P[1]>>)
      /\ \A i \in 1 + 1 .. n : f(i) = add_point(f(i - 1), P[i], w)
  BY FitUnfold
<1>. HIDE DEF f
<1>3. 1 \in U
  BY <1>1, <1>2, FitStart
<1>4. ASSUME NEW i \in 1 + 1 .. n, i - 1 \in U PROVE i \in U
  <2>1. i \in 1 .. Len(P) /\ i > 1
    BY <1>1
  <2>2. f(i) = add_point(f(i - 1), P[i], w) /\ FitOk(f(i - 1), P, i - 1, w)
    BY <1>2, <1>4
  <2>3. FitOk(f(i), P, i, w)
    BY <2>1, <2>2, FitStep
  <2>. QED
    BY <2>1, <2>3
<1>. HIDE DEF U
<1>5. \A i \in 1 .. n : i \in U
  BY <1>1, <1>3, <1>4, UpTo
<1>6. n \in U
  BY <1>1, <1>5
<1>. QED
  BY <1>2, <1>6 DEF U

\* The spline of a data set: points in order of their keys, from below the first
\* key to the last one, and the interpolation of every first row is on its line.
LEMMA SplineFacts ==
  ASSUME NEW data, Data(data), NEW w \in Nat \ {0}
  PROVE  LET s == cache_fix(data, w)
         IN /\ s \in Seq(Point) /\ Len(s) \in Nat \ {0}
            /\ \A a \in 2 .. Len(s) : s[a - 1][1] <= s[a][1]
            /\ s[1][2] = 0 /\ s[1][1] <= data[1]
            /\ s[Len(s)][1] = data[Len(data)]
            /\ \A k \in DOMAIN data : FirstOfKey(data, k) /\ data[k] > s[1][1] =>
                 Fitted(s, <<data[k], k - 1>>, w)
<1>. DEFINE P == Points(data)
            n == Len(P)
            f == Fit(P, w, n)
            s == Append(f.spline, f.to)
<1>1. PointsOk(P, data, Len(data))
  BY PointsFacts
<1>2. P \in Seq(Point) /\ n > 0 /\ Increasing(P)
  BY <1>1 DEF PointsOk
<1>3. n \in Nat /\ n \in 1 .. n /\ 1 \in 1 .. n
  BY <1>2, LenProperties
<1>4. FitOk(f, P, n, w)
  BY <1>2, FitFacts
<1>5. cache_fix(data, w) = s
  BY DEF cache_fix
<1>. HIDE DEF P, f
<1>6. /\ f.spline \in Seq(Point) /\ f.to = P[n] /\ f.to \in Point /\ f.from \in Point
      /\ Len(f.spline) > 0 /\ Increasing(f.spline)
      /\ f.spline[Len(f.spline)] = f.from /\ f.spline[1] = P[1]
      /\ n = 1 => f.from = P[1]
      /\ n > 1 => f.from[1] < P[n][1]
      /\ \A k \in 1 .. n : P[k][1] > P[1][1] =>
           \/ Fitted(f.spline, P[k], w)
           \/ P[k][1] > f.from[1] /\ SameLine(f.from, f.to, P[k], w)
  BY <1>4 DEF FitOk, Segments
<1>7. /\ s \in Seq(Point) /\ Len(f.spline) \in Nat /\ Len(s) = Len(f.spline) + 1
      /\ \A a \in 1 .. Len(f.spline) : s[a] = f.spline[a] /\ f.spline[a] \in Point
      /\ s[Len(f.spline) + 1] = f.to
  BY <1>6, AppendFacts
<1>. HIDE DEF s
<1>8. /\ \A x \in Point : x[1] \in Nat
      /\ \A k \in 1 .. n : P[k] \in Point
  BY <1>2, ElementOfSeq, IndexAssumption DEF Point, Key
<1>9. f.from[1] <= P[n][1] /\ P[n][1] \in Nat
  <2>1. f.from[1] \in Nat /\ P[n][1] \in Nat
    BY <1>3, <1>6, <1>8
  <2>2. CASE n = 1
    BY <1>6, <2>1, <2>2
  <2>3. CASE n > 1
    BY <1>6, <2>1, <2>3
  <2>4. n = 1 \/ n > 1
    BY <1>2, <1>3
  <2>. QED
    BY <2>1, <2>2, <2>3, <2>4
<1>10. ASSUME NEW a \in 2 .. Len(s) PROVE s[a - 1][1] <= s[a][1]
  <2>1. a - 1 \in 1 .. Len(f.spline) /\ s[a - 1] = f.spline[a - 1]
    BY <1>7
  <2>2. CASE a \in 1 .. Len(f.spline)
    <3>1. f.spline[a - 1][1] < f.spline[a][1] /\ s[a] = f.spline[a]
      BY <1>6, <1>7, <2>1, <2>2 DEF Increasing
    <3>2. f.spline[a - 1][1] \in Nat /\ f.spline[a][1] \in Nat
      BY <1>7, <1>8, <2>1, <2>2
    <3>. QED
      BY <2>1, <3>1, <3>2
  <2>3. CASE a \notin 1 .. Len(f.spline)
    <3>1. a = Len(f.spline) + 1 /\ a - 1 = Len(f.spline)
      BY <1>7, <2>3
    <3>. QED
      BY <1>6, <1>7, <1>9, <2>1, <3>1
  <2>. QED
    BY <2>2, <2>3
<1>11. 1 \in 1 .. Len(f.spline) /\ s[1] = P[1]
  <2>1. 1 \in 1 .. Len(f.spline)
    BY <1>6, <1>7
  <2>. QED
    BY <1>6, <1>7, <2>1
<1>12. s[1][2] = 0 /\ s[1][1] <= data[1]
  BY <1>1, <1>11 DEF PointsOk
<1>13. s[Len(s)][1] = data[Len(data)]
  BY <1>1, <1>6, <1>7 DEF PointsOk
<1>14. ASSUME NEW k \in DOMAIN data, FirstOfKey(data, k), data[k] > s[1][1]
       PROVE  Fitted(s, <<data[k], k - 1>>, w)
  <2>1. k \in 1 .. Len(data)
    BY DataFacts
  <2>2. PICK a \in 1 .. n : P[a] = <<data[k], k - 1>>
    BY <1>1, <1>14, <2>1 DEF PointsOk
  <2>3. P[a][1] = data[k] /\ P[a][1] > P[1][1]
    BY <1>11, <1>14, <2>2
  <2>4. P[a][1] <= f.to[1]
    <3>1. P[a][1] \in Nat
      BY <1>8
    <3>2. CASE a = n
      BY <1>6, <1>9, <3>2
    <3>3. CASE a # n
      <4>1. a < n
        BY <1>3, <3>3
      <4>2. P[a][1] < P[n][1]
        BY <1>2, <1>3, <4>1 DEF Increasing
      <4>. QED
        BY <1>6, <1>9, <3>1, <4>2
    <3>. QED
      BY <3>2, <3>3
  <2>5. \/ Fitted(f.spline, P[a], w)
        \/ /\ f.spline[Len(f.spline)][1] < P[a][1] /\ P[a][1] <= f.to[1]
           /\ SameLine(f.spline[Len(f.spline)], f.to, P[a], w)
    <3>1. f.from[1] \in Nat /\ P[a][1] \in Nat
      BY <1>6, <1>8
    <3>. QED
      BY <1>6, <2>3, <2>4, <3>1
  <2>6. Fitted(s, P[a], w)
    BY <1>6, <2>5, FittedAppend DEF s
  <2>. QED
    BY <2>2, <2>6
<1>15. Len(s) \in Nat \ {0}
  BY <1>7
<1>. QED
  BY <1>5, <1>7, <1>10, <1>12, <1>13, <1>14, <1>15

-----------------------------------------------------------------------------
(* The model over a spline.                                                *)

\* The keys of a spline are rows to train on.
LEMMA SplineRows ==
  ASSUME NEW data, Data(data), NEW w \in Nat \ {0}
  PROVE  /\ SplineKeys(data, w) \in Seq(Key) \ {<<>>}
         /\ Ordered(SplineKeys(data, w))
         /\ Len(SplineKeys(data, w)) = Len(cache_fix(data, w))
         /\ \A i \in 1 .. Len(cache_fix(data, w)) :
              SplineKeys(data, w)[i] = cache_fix(data, w)[i][1]
<1>. DEFINE s == cache_fix(data, w)
            r == SplineKeys(data, w)
            n == Len(s)
<1>1. s \in Seq(Point) /\ n \in Nat \ {0} /\ \A a \in 2 .. n : s[a - 1][1] <= s[a][1]
  BY SplineFacts
<1>2. DOMAIN s = 1 .. n /\ \A i \in 1 .. n : s[i] \in Point
  BY <1>1, LenProperties
<1>3. r = [i \in 1 .. n |-> s[i][1]]
  BY <1>2 DEF SplineKeys
<1>. HIDE DEF s, r, n
<1>4. \A i \in 1 .. n : s[i][1] \in Key
  BY <1>2 DEF Point
<1>5. r \in Seq(Key) /\ Len(r) = n
  BY <1>1, <1>3, <1>4
<1>6. \A i \in 1 .. n : r[i] = s[i][1]
  BY <1>3
<1>7. Ordered(r)
  <2>1. \A i \in 2 .. n : i \in 1 .. n /\ i - 1 \in 1 .. n
    BY <1>1
  <2>. QED
    BY <1>1, <1>5, <1>6, <2>1 DEF Ordered
<1>8. r # <<>>
  BY <1>1, <1>5
<1>. QED
  BY <1>5, <1>6, <1>7, <1>8 DEF r, s, n

\* The window of the error holds the lower bound, so the search finds it.
LEMMA SearchFinds ==
  ASSUME IInput, NEW q \in Key, q <= LastKey, model[q] \in Nat, error \in Nat, Bounded(q)
  PROVE  SplineSearch(q) = LowerBound(q)
<1>. DEFINE lower == IF error > Prediction(q) THEN 0 ELSE Prediction(q) - error
            upper == Lesser(Prediction(q) + error, NumRows)
            S == {i \in lower .. upper - 1 : rows[i + 1] >= q} \cup {upper}
            j == LowerBound(q)
<1>1. /\ NumRows \in Nat \ {0} /\ Rows = 1 .. NumRows /\ q \in Nat
      /\ \A i \in Rows : rows[i] \in Nat
  BY InputFacts
<1>2. j \in 0 .. NumRows - 1 /\ \A i \in Rows : i <= j <=> rows[i] < q
  BY <1>1, LowerBoundFacts
<1>3. Prediction(q) \in Nat /\ Distance(Prediction(q), j) <= error
  BY <1>1 DEF Prediction, Lesser, Bounded
<1>. HIDE DEF j
<1>4. /\ lower \in Nat /\ upper \in Nat /\ lower <= j /\ j <= upper /\ upper <= NumRows
  BY <1>1, <1>2, <1>3 DEF Distance, Lesser
<1>. HIDE DEF lower, upper
<1>5. j \in S
  <2>1. CASE j = upper
    BY <2>1
  <2>2. CASE j # upper
    <3>1. j \in lower .. upper - 1 /\ j + 1 \in Rows /\ ~(j + 1 <= j)
      BY <1>1, <1>2, <1>4, <2>2
    <3>2. ~(rows[j + 1] < q) /\ rows[j + 1] \in Nat
      BY <1>1, <1>2, <3>1
    <3>3. rows[j + 1] >= q
      BY <1>1, <3>2
    <3>. QED
      BY <3>1, <3>3
  <2>. QED
    BY <2>1, <2>2
<1>6. ASSUME NEW y \in S PROVE y \in Nat /\ j <= y
  <2>1. CASE y = upper
    BY <1>4, <2>1
  <2>2. CASE y \in lower .. upper - 1 /\ rows[y + 1] >= q
    <3>1. y \in Nat /\ y + 1 \in Rows
      BY <1>1, <1>4, <2>2
    <3>2. ~(y + 1 <= j)
      <4>1. rows[y + 1] \in Nat /\ ~(rows[y + 1] < q)
        BY <1>1, <2>2, <3>1
      <4>. QED
        BY <1>2, <3>1, <4>1
    <3>. QED
      BY <1>1, <1>2, <3>1, <3>2
  <2>. QED
    BY <2>1, <2>2
<1>7. S \in SUBSET Nat /\ S # {}
  BY <1>5, <1>6
<1>8. SplineSearch(q) = Min(S)
  BY DEF SplineSearch, lower, upper
<1>. HIDE DEF S
<1>9. Min(S) \in S /\ Min(S) <= j
  BY <1>5, <1>7, MinOf
<1>10. j <= Min(S) /\ Min(S) \in Nat
  BY <1>6, <1>9
<1>11. Min(S) = j
  BY <1>1, <1>2, <1>9, <1>10
<1>. QED
  BY <1>8, <1>11 DEF j

\* A lookup of the first row of a key ends on its line.
LEMMA LookupExact ==
  ASSUME Passed, mode = "bounded", IsMonotone(top), Observed(leaf),
         NEW k \in DOMAIN dataset, LeafOf(dataset[k]) = leaf, FirstOfKey(dataset, k)
  PROVE  lookup(dataset[k]) = line * ((k - 1) \div line)
<1>. DEFINE s == cache_fix(dataset, line)
            q == dataset[k]
            res == LowerBound(q)
<1>1. /\ IInput /\ Data(dataset) /\ rows = SplineKeys(dataset, line)
      /\ line \in Nat \ {0}
  BY IndexAssumption DEF Passed, IInput, Data
<1>2. /\ s \in Seq(Point) /\ Len(s) \in Nat \ {0}
      /\ s[1][2] = 0 /\ s[1][1] <= dataset[1]
      /\ s[Len(s)][1] = dataset[Len(dataset)]
      /\ q > s[1][1] => Fitted(s, <<q, k - 1>>, line)
  BY <1>1, SplineFacts
<1>3. NumRows = Len(s) /\ \A i \in 1 .. NumRows : rows[i] = s[i][1]
  BY <1>1, SplineRows DEF NumRows
<1>4. /\ Rows = 1 .. NumRows /\ NumRows \in Nat \ {0}
      /\ \A i \in Rows : rows[i] \in Key /\ rows[i] \in Nat
      /\ \A i, j \in Rows : i <= j => rows[i] <= rows[j]
      /\ \A x \in Key : x \in Nat
  BY <1>1, InputFacts
<1>5. /\ Len(dataset) \in Nat \ {0} /\ k \in 1 .. Len(dataset)
      /\ q \in Key /\ q \in Nat
      /\ 1 \in 1 .. Len(dataset) /\ dataset[1] \in Nat /\ dataset[1] <= q
      /\ q <= dataset[Len(dataset)]
  <2>1. /\ Len(dataset) \in Nat \ {0} /\ k \in 1 .. Len(dataset)
        /\ \A i \in 1 .. Len(dataset) : dataset[i] \in Key /\ dataset[i] \in Nat
        /\ \A i, j \in 1 .. Len(dataset) : i <= j => dataset[i] <= dataset[j]
    BY <1>1, DataFacts
  <2>2. 1 \in 1 .. Len(dataset) /\ Len(dataset) \in 1 .. Len(dataset) /\ 1 <= k /\ k <= Len(dataset)
    BY <2>1
  <2>. QED
    BY <2>1, <2>2
<1>. HIDE DEF s
<1>6. q <= LastKey
  <2>1. NumRows \in 1 .. NumRows
    BY <1>4
  <2>. QED
    BY <1>2, <1>3, <1>5, <2>1 DEF LastKey
<1>7. Bounded(q) /\ model[q] \in Nat /\ error \in Nat
  <2>1. Bounded(q)
    BY <1>5, <1>6, LeafBounded
  <2>2. model[q] \in Nat
    BY <1>1, <1>5, CappedMonotone DEF Observed
  <2>3. error \in 0 .. 2 * NumRows
    BY ErrorCovers DEF Observed
  <2>. QED
    BY <1>4, <2>1, <2>2, <2>3
<1>8. SplineSearch(q) = res
  BY <1>1, <1>5, <1>6, <1>7, SearchFinds
<1>9. res \in 0 .. NumRows - 1 /\ \A i \in Rows : i <= res <=> rows[i] < q
  BY <1>1, <1>4, <1>5, <1>6, LowerBoundFacts
<1>. DEFINE value == IF res = 0 THEN s[1][2] ELSE predict(s[res], s[res + 1], q)
<1>10. lookup(q) = line * (value \div line)
  <2>1. res # NumRows
    BY <1>4, <1>9
  <2>. QED
    BY <1>8, <2>1 DEF lookup, s
<1>11. value \div line = (k - 1) \div line
  <2>1. CASE res = 0
    <3>1. 1 \in Rows /\ ~(1 <= res)
      BY <1>4, <2>1
    <3>2. ~(rows[1] < q) /\ rows[1] = s[1][1]
      BY <1>3, <1>4, <1>9, <3>1
    <3>3. q <= dataset[1] /\ q = dataset[1]
      BY <1>2, <1>4, <1>5, <3>1, <3>2
    <3>4. k = 1
      <4>. SUFFICES ASSUME k # 1 PROVE FALSE
        OBVIOUS
      <4>1. dataset[k - 1] < q
        BY DEF FirstOfKey
      <4>2. k - 1 \in 1 .. Len(dataset) /\ 1 <= k - 1
        BY <1>5
      <4>3. dataset[1] <= dataset[k - 1] /\ dataset[k - 1] \in Nat
        BY <1>1, <1>5, <4>2, DataFacts
      <4>. QED
        BY <1>5, <3>3, <4>1, <4>3
    <3>5. value = 0 /\ k - 1 = 0
      BY <1>2, <2>1, <3>4
    <3>. QED
      BY <3>5
  <2>2. CASE res # 0
    <3>1. res \in Rows /\ res + 1 \in Rows /\ 1 \in Rows /\ 1 <= res
      BY <1>4, <1>9, <2>2
    <3>2. rows[1] < q /\ rows[1] = s[1][1]
      BY <1>3, <1>4, <1>9, <3>1
    <3>3. q > s[1][1]
      BY <1>4, <1>5, <3>1, <3>2
    <3>4. Fitted(s, <<q, k - 1>>, line)
      BY <1>2, <3>3
    <3>5. PICK a \in 1 .. Len(s) - 1 : /\ s[a][1] < q /\ q <= s[a + 1][1]
                                       /\ SameLine(s[a], s[a + 1], <<q, k - 1>>, line)
      BY <3>4 DEF Fitted
    <3>6. a \in Rows /\ a + 1 \in Rows /\ a \in Nat
      BY <1>3, <1>4
    <3>7. rows[a] = s[a][1] /\ rows[a + 1] = s[a + 1][1]
      BY <1>3, <1>4, <3>6
    <3>8. a <= res /\ ~(a + 1 <= res)
      <4>1. rows[a] < q
        BY <3>5, <3>7
      <4>2. ~(rows[a + 1] < q)
        BY <1>4, <1>5, <3>5, <3>6, <3>7
      <4>. QED
        BY <1>9, <3>6, <4>1, <4>2
    <3>9. a = res
      BY <1>4, <1>9, <3>6, <3>8
    <3>10. predict(s[res], s[res + 1], q) \div line = (k - 1) \div line
      BY <3>5, <3>9 DEF SameLine
    <3>. QED
      BY <2>2, <3>10
  <2>. QED
    BY <2>1, <2>2
<1>. HIDE DEF value
<1>. QED
  BY <1>10, <1>11

-----------------------------------------------------------------------------
(* The split.                                                              *)

\* The interval that is left, and what the probes have shown of the others.
ISearch ==
  /\ search \in [base : Nat, size : Nat]
  /\ search.size >= 1 /\ search.base + search.size <= NumRows
  /\ IsMonotone(top) => \A i \in Rows : /\ i <= search.base => Below(i)
                                        /\ i > search.base + search.size => ~Below(i)

\* With a monotone top model the rows below the middle leaf come first.
LEMMA BelowFirst ==
  ASSUME IInput, IsMonotone(top), NEW i \in Rows, NEW j \in Rows, i <= j, Below(j)
  PROVE  Below(i)
<1>1. LeafOf(rows[i]) <= LeafOf(rows[j]) /\ LeafOf(rows[j]) < Midpoint
  BY RoutingOrdered DEF Below
<1>2. LeafOf(rows[i]) \in Leaf /\ LeafOf(rows[j]) \in Leaf
  BY InputFacts
<1>3. Leaf \subseteq Nat /\ Midpoint \in Nat
  BY IndexAssumption DEF Leaf, Midpoint
<1>4. LeafOf(rows[i]) \in Nat /\ LeafOf(rows[j]) \in Nat
  BY <1>2, <1>3
<1>. QED
  BY <1>1, <1>3, <1>4 DEF Below

\* A probe halves the interval and keeps the middle leaf in it.
LEMMA ProbeStep ==
  ASSUME IInput, ISearch, Probe
  PROVE  ISearch'
<1>. DEFINE base == search.base
            size == search.size
            half == size \div 2
            mid == base + half
<1>1. NumRows \in Nat \ {0} /\ Rows = 1 .. NumRows
  BY InputFacts
<1>2. /\ base \in Nat /\ size \in Nat /\ size >= 1 /\ base + size <= NumRows
      /\ IsMonotone(top) => \A i \in Rows : /\ i <= base => Below(i)
                                            /\ i > base + size => ~Below(i)
  BY DEF ISearch
<1>3. /\ size > 1 /\ UNCHANGED input
      /\ search' = [base |-> IF Below(mid + 1) THEN mid ELSE base, size |-> size - half]
  BY DEF Probe
<1>4. /\ rows' = rows /\ top' = top /\ NumRows' = NumRows /\ Rows' = Rows
      /\ \A k : LeafOf(k)' = LeafOf(k)
  BY <1>3, SameInput
<1>. HIDE DEF base, size
<1>5. half \in Nat /\ half >= 1 /\ half + half <= size /\ half <= size - 1
  BY <1>2, <1>3
<1>. HIDE DEF half
<1>6. mid + 1 \in Rows /\ mid \in Nat
  BY <1>1, <1>2, <1>5
<1>7. CASE Below(mid + 1)
  <2>1. search'.base = mid /\ search'.size = size - half
        /\ search' \in [base : Nat, size : Nat]
    BY <1>2, <1>3, <1>5, <1>6, <1>7
  <2>2. ASSUME IsMonotone(top), NEW i \in Rows
        PROVE  /\ i <= mid => Below(i)
               /\ i > mid + (size - half) => ~Below(i)
    <3>1. i <= mid => i <= mid + 1
      BY <1>1, <1>6
    <3>2. i > mid + (size - half) => i > base + size
      BY <1>1, <1>2, <1>5
    <3>. QED
      BY <1>2, <1>6, <1>7, <2>2, <3>1, <3>2, BelowFirst
  <2>3. size - half >= 1 /\ mid + (size - half) <= NumRows
    BY <1>1, <1>2, <1>5
  <2>. QED
    BY <1>4, <2>1, <2>2, <2>3 DEF ISearch, IsMonotone, Below
<1>8. CASE ~Below(mid + 1)
  <2>1. search'.base = base /\ search'.size = size - half
        /\ search' \in [base : Nat, size : Nat]
    BY <1>2, <1>3, <1>5, <1>8
  <2>2. ASSUME IsMonotone(top), NEW i \in Rows
        PROVE  /\ i <= base => Below(i)
               /\ i > base + (size - half) => ~Below(i)
    <3>1. i > base + (size - half) => mid + 1 <= i
      BY <1>1, <1>2, <1>5, <1>6
    <3>. QED
      BY <1>2, <1>6, <1>8, <2>2, <3>1, BelowFirst
  <2>3. size - half >= 1 /\ base + (size - half) <= NumRows
    BY <1>1, <1>2, <1>5
  <2>. QED
    BY <1>4, <2>1, <2>2, <2>3 DEF ISearch, IsMonotone, Below
<1>. QED
  BY <1>7, <1>8

\* The split that the search ends on.
LEMMA SplitFacts ==
  ASSUME IInput, ISearch, search.size = 1
  PROVE  LET s == SplitIndex
         IN /\ s \in 0 .. NumRows
            /\ IsMonotone(top) /\ CanSplit(s) =>
                 /\ \A i \in 1 .. s : top[rows[i]] < LeafOf(rows[s + 1])
                 /\ \A i \in s + 1 .. NumRows : LeafOf(rows[i]) >= LeafOf(rows[s + 1])
<1>. DEFINE s == SplitIndex
            target == LeafOf(rows[s + 1])
<1>1. /\ NumRows \in Nat \ {0} /\ Rows = 1 .. NumRows
      /\ \A i \in Rows : rows[i] \in Key /\ LeafOf(rows[i]) \in Leaf /\ top[rows[i]] \in Nat
      /\ \A i, j \in Rows : i <= j => rows[i] <= rows[j]
      /\ Leaves \in Nat /\ Leaves >= 2
  BY InputFacts
<1>2. search.base \in Nat /\ search.base + 1 <= NumRows
  BY DEF ISearch
<1>3. s = IF Below(search.base + 1) THEN search.base + 1 ELSE search.base
  BY <1>2 DEF SplitIndex
<1>4. s \in 0 .. NumRows
  BY <1>1, <1>2, <1>3
<1>5. ASSUME IsMonotone(top), CanSplit(s)
      PROVE  /\ \A i \in 1 .. s : top[rows[i]] < target
             /\ \A i \in s + 1 .. NumRows : LeafOf(rows[i]) >= target
  <2>. HIDE DEF s
  <2>1. /\ s > 0 /\ s < NumRows /\ top[rows[s + 1]] > top[rows[s]]
        /\ s \in Rows /\ s + 1 \in Rows
    BY <1>1, <1>4, <1>5 DEF CanSplit
  <2>2. Below(s)
    <3>1. CASE Below(search.base + 1)
      BY <1>3, <3>1
    <3>2. CASE ~Below(search.base + 1)
      <4>1. s <= search.base
        BY <1>2, <1>3, <3>2
      <4>. QED
        BY <1>5, <2>1, <4>1 DEF ISearch
    <3>. QED
      BY <3>1, <3>2
  <2>3. top[rows[s]] < target
    <3>1. top[rows[s]] \in Nat /\ top[rows[s + 1]] \in Nat
      BY <1>1, <2>1
    <3>2. Lesser(Leaves - 1, top[rows[s]]) < Leaves \div 2
      BY <2>2 DEF Below, LeafOf, Midpoint
    <3>3. Leaves \div 2 <= Leaves - 1
      BY <1>1
    <3>4. top[rows[s]] < Leaves - 1
      BY <1>1, <3>1, <3>2, <3>3 DEF Lesser
    <3>. QED
      BY <1>1, <2>1, <3>1, <3>4 DEF LeafOf, Lesser
  <2>4. ASSUME NEW i \in 1 .. s PROVE top[rows[i]] < target
    <3>1. i \in Rows /\ i <= s
      BY <1>1, <2>1
    <3>2. rows[i] <= rows[s] /\ rows[i] \in Key /\ rows[s] \in Key
      BY <1>1, <2>1, <3>1
    <3>3. top[rows[i]] <= top[rows[s]]
      BY <1>5, <3>2 DEF IsMonotone
    <3>4. top[rows[i]] \in Nat /\ top[rows[s]] \in Nat /\ target \in Leaf
      BY <1>1, <2>1, <3>1
    <3>5. target \in Nat
      BY <1>1, <3>4 DEF Leaf
    <3>. HIDE DEF target
    <3>. QED
      BY <2>3, <3>3, <3>4, <3>5
  <2>5. ASSUME NEW i \in s + 1 .. NumRows PROVE LeafOf(rows[i]) >= target
    <3>1. i \in Rows /\ s + 1 <= i
      BY <1>1, <2>1
    <3>2. target <= LeafOf(rows[i])
      BY <1>5, <2>1, <3>1, RoutingOrdered
    <3>3. target \in Nat /\ LeafOf(rows[i]) \in Nat
      BY <1>1, <2>1, <3>1 DEF Leaf
    <3>. HIDE DEF target
    <3>. QED
      BY <3>2, <3>3
  <2>. QED
    BY <2>4, <2>5
<1>. QED
  BY <1>4, <1>5

-----------------------------------------------------------------------------
(* The observed leaf, in every phase.                                      *)

\* An empty leaf keeps a constant; one that was replaced predicts the next index.
IObserved ==
  /\ leaf \in Leaf /\ replaced \in BOOLEAN
  /\ model \in LeafModels /\ error \in 0 .. 2 * NumRows
  /\ phase \in {"errors", "trained"} =>
       /\ lb.pos = NumRows
       /\ ~HasRows(leaf) => \E c \in Nat : model = Constantly(c)
       /\ replaced => ~HasRows(leaf) /\ model = Constantly(next_index(leaf))
  /\ phase = "trained" => error = LeafError(leaf)

\* A constant within the bound is a leaf model.
LEMMA ConstantModel ==
  ASSUME IInput, NEW c \in 0 .. NumRows + 1
  PROVE  Constantly(c) \in LeafModels
<1>1. NumRows \in Nat
  BY InputFacts
<1>. QED
  BY <1>1 DEF Constantly, LeafModels, IsMonotone

\* Steps before the observation leave the observed leaf alone.
LEMMA ObservedLater ==
  ASSUME IInput, IObserved, UNCHANGED <<input, leaf, replaced, model, error>>,
         phase' \notin {"errors", "trained"}
  PROVE  IObserved'
<1>1. NumRows' = NumRows /\ LeafModels' = LeafModels
  BY SameInput
<1>2. Leaf' = Leaf
  BY DEF Leaf
<1>. QED
  BY <1>1, <1>2 DEF IObserved

\* A step that observes a leaf.
LEMMA ObserveStep ==
  ASSUME IInput, ICorrect, IObserved, Observe
  PROVE  IObserved'
<1>1. PICK l \in Leaf : ObserveTrained(l) \/ ObserveReplaced(l) \/ ObserveEmpty(l)
  BY DEF Observe
<1>2. /\ UNCHANGED <<input, lb>> /\ UNCHANGED error
      /\ phase' = "errors" /\ leaf' = l /\ lb.pos = NumRows
  BY <1>1 DEF ObserveTrained, ObserveReplaced, ObserveEmpty
<1>3. NumRows' = NumRows /\ LeafModels' = LeafModels /\ Leaf' = Leaf
  BY <1>2, SameInput DEF Leaf
<1>6. HasRows(leaf)' = HasRows(l) /\ next_index(leaf)' = next_index(l)
  BY <1>2 DEF HasRows, NoRow, next_index, LeavesAbove, NumRows, Offset, Rows, NextRow, input
<1>7. Passed /\ NumRows \in Nat
  BY <1>2, InputFacts DEF Passed
<1>8. next_index(l) \in 0 .. NumRows
  BY <1>7, NeighbourFacts
<1>9. /\ model' \in LeafModels /\ replaced' \in BOOLEAN
      /\ ~HasRows(l) => \E c \in Nat : model' = Constantly(c)
      /\ replaced' => ~HasRows(l) /\ model' = Constantly(next_index(l))
  <2>1. CASE ObserveTrained(l)
    <3>1. model' \in LeafModels /\ replaced' = FALSE /\ HasRows(l)
      BY <2>1 DEF ObserveTrained
    <3>. QED
      BY <3>1
  <2>2. CASE ObserveReplaced(l)
    <3>1. model' = Constantly(next_index(l)) /\ replaced' = TRUE /\ ~HasRows(l)
      BY <2>2 DEF ObserveReplaced
    <3>2. next_index(l) \in 0 .. NumRows + 1 /\ next_index(l) \in Nat
      BY <1>7, <1>8
    <3>3. model' \in LeafModels
      BY <1>7, <3>1, <3>2, ConstantModel DEF Passed
    <3>. QED
      BY <3>1, <3>2, <3>3
  <2>3. CASE ObserveEmpty(l)
    <3>1. PICK c \in 0 .. NumRows + 1 : model' = Constantly(c)
      BY <2>3 DEF ObserveEmpty
    <3>2. replaced' = FALSE
      BY <2>3 DEF ObserveEmpty
    <3>3. c \in Nat
      BY <1>7
    <3>4. model' \in LeafModels
      BY <3>1, ConstantModel
    <3>. QED
      BY <3>1, <3>2, <3>3, <3>4
  <2>. QED
    BY <1>1, <2>1, <2>2, <2>3
<1>10. lb'.pos = NumRows'
  BY <1>2, <1>3
<1>11. error' \in 0 .. 2 * NumRows' /\ leaf' \in Leaf'
  BY <1>2, <1>3 DEF IObserved
<1>13. phase' \in {"errors", "trained"} /\ phase' # "trained"
  BY <1>2
<1>14. replaced' => (~HasRows(leaf))' /\ (model = Constantly(next_index(leaf)))'
  <2>1. (model = Constantly(next_index(leaf)))' <=> model' = Constantly(next_index(l))
    BY <1>6 DEF Constantly
  <2>. QED
    BY <1>6, <1>9, <2>1
<1>15. (~HasRows(leaf))' => (\E c \in Nat : model = Constantly(c))'
  BY <1>6, <1>9 DEF Constantly
<1>. QED
  BY <1>3, <1>9, <1>10, <1>11, <1>13, <1>14, <1>15 DEF IObserved

\* The error is computed from what was recorded.
LEMMA ErrorStep ==
  ASSUME IInput, ICorrect, IObserved, ComputeError
  PROVE  IObserved'
<1>1. /\ phase = "errors" /\ phase' = "trained" /\ error' = LeafError(leaf)
      /\ UNCHANGED <<input, lb>> /\ UNCHANGED <<leaf, replaced, model>>
  BY DEF ComputeError
<1>2. NumRows' = NumRows /\ LeafModels' = LeafModels /\ Leaf' = Leaf
  BY <1>1, SameInput DEF Leaf
<1>3. /\ leaf \in Leaf /\ replaced \in BOOLEAN /\ model \in LeafModels /\ lb.pos = NumRows
      /\ ~HasRows(leaf) => \E c \in Nat : model = Constantly(c)
      /\ replaced => ~HasRows(leaf) /\ model = Constantly(next_index(leaf))
  BY <1>1 DEF IObserved
<1>4. HasRows(leaf)' = HasRows(leaf) /\ next_index(leaf)' = next_index(leaf)
  BY <1>1 DEF HasRows, NoRow, next_index, LeavesAbove, NumRows, Offset, Rows, NextRow, input
<1>5. LeafError(leaf)' = LeafError(leaf)
  <2>1. UpperError(leaf)' = UpperError(leaf)
    BY <1>1, <1>2 DEF input, UpperError, ErrorBetween, Distance, Lesser, minus_epsilon, next_key,
      next_index, LeavesAbove, HasRows, NoRow, NextRow, Offset, Rows
  <2>2. LowerError(leaf)' = LowerError(leaf)
    BY <1>1, <1>2 DEF input, LowerError, ErrorBetween, Distance, Lesser, plus_epsilon, prev_key,
      LeavesBelow, next_index, LeavesAbove, HasRows, NoRow, NextRow, Offset, Rows
  <2>3. RowErrors(leaf)' = RowErrors(leaf)
    BY <1>1, <1>2 DEF input, RowErrors, RowsOf, LeafOf, ErrorBetween, Distance, Lesser, Offset, Rows
  <2>4. LongestRun(leaf)' = LongestRun(leaf)
    BY <1>1 DEF LongestRun
  <2>. QED
    BY <2>1, <2>2, <2>3, <2>4 DEF LeafError
<1>6. LeafError(leaf) \in 0 .. 2 * NumRows
  BY <1>3, ErrorCovers DEF Passed
<1>7. (\E c \in Nat : model = Constantly(c))' <=> \E c \in Nat : model = Constantly(c)
  BY <1>1 DEF Constantly
<1>8. (model = Constantly(next_index(leaf)))' <=> model = Constantly(next_index(leaf))
  BY <1>1, <1>4 DEF Constantly
<1>9. phase' = "trained" /\ error' = LeafError(leaf)' /\ error' \in 0 .. 2 * NumRows'
  BY <1>1, <1>2, <1>5, <1>6
<1>10. lb'.pos = NumRows' /\ leaf' \in Leaf' /\ replaced' \in BOOLEAN /\ model' \in LeafModels'
  BY <1>1, <1>2, <1>3
<1>11. /\ (~HasRows(leaf) => \E c \in Nat : model = Constantly(c))'
       /\ (replaced => ~HasRows(leaf) /\ model = Constantly(next_index(leaf)))'
  BY <1>1, <1>3, <1>4, <1>7, <1>8
<1>. QED
  BY <1>9, <1>10, <1>11 DEF IObserved

-----------------------------------------------------------------------------
(* Several layers.  The rows in hand are those that lookups route to their *)
(* models (Here), and the rows passed are in the buckets that lookups      *)
(* route them to next (There).                                             *)

\* The models of an upper layer, and the buckets of the layer after it.
Models(layer) == IF layer = 1 THEN {0} ELSE Branches
Buckets(layer) == 0 .. next_layer_size(layer) - 1

\* The model that a lookup of row i uses in a layer, and where it goes on.
Here(layer, i) == IF layer = 1 THEN 0 ELSE clamp_index(layers[1][0], rows[i], Branch)
There(layer, i) == clamp_index(layers[layer][Here(layer, i)], rows[i], next_layer_size(layer))

\* Every row is in the partition of its model, and only in that one.
InModels(layer, partitions) ==
  /\ \A i \in Rows : Here(layer, i) \in Models(layer) /\ Holds(partitions[Here(layer, i)], i)
  /\ \A g \in Models(layer) : \A j \in DOMAIN partitions[g] : Here(layer, partitions[g][j]) = g

\* The first pos rows of partition index, and all of those before it, are dealt
\* out to the next layer.
Dealt(layer, partitions, next, index, pos) ==
  /\ \A b \in Buckets(layer) : \A j \in DOMAIN next[b] : There(layer, next[b][j]) = b
  /\ \A g \in Models(layer) : \A j \in DOMAIN partitions[g] :
       g < index \/ (g = index /\ j <= pos) =>
         /\ There(layer, partitions[g][j]) \in Buckets(layer)
         /\ Holds(next[There(layer, partitions[g][j])], partitions[g][j])

PartitionRecord(layer) ==
  [layer : {layer}, index : Models(layer), pos : Nat,
   data_partitions : [Models(layer) -> Seq(Rows)],
   next_layer_data : [Buckets(layer) -> Seq(Rows)]]

\* The layer in hand, whose training got as far as row pos of partition index.
LayerOk(p) ==
  /\ p.layer \in {1, 2} /\ p \in PartitionRecord(p.layer)
  /\ p.pos <= Len(p.data_partitions[p.index])
  /\ InModels(p.layer, p.data_partitions)
  /\ Dealt(p.layer, p.data_partitions, p.next_layer_data, p.index, p.pos)

IPartition == LayerOk(partition)

\* A prediction in bounds is the same in training and in lookups.
LEMMA RoutingsAgree ==
  ASSUME NEW m \in UpperModel, NEW k \in Key, NEW size \in Nat, size >= 1,
         ~OutOfBounds(m, k, size)
  PROVE  /\ clamp_index(m, k, size) = BucketOf(m, k, size)
         /\ clamp_index(m, k, size) \in 0 .. size - 1
<1>. DEFINE h == m.half[k]
<1>1. h \in Int /\ m.checked \in BOOLEAN /\ (m.checked \/ h >= 0)
  BY DEF UpperModel
<1>2. /\ ~m.checked => predict_to_int(m, k) < size
      /\ predict_to_int(m, k) = Greater(0, h \div 2)
      /\ BucketOf(m, k, size) = Lesser(size - 1, predict_to_int(m, k))
      /\ clamp_index(m, k, size) =
           IF ~m.checked THEN h \div 2
           ELSE IF h < 0 THEN 0
           ELSE IF h > 2 * (size - 1) THEN size - 1
           ELSE h \div 2
  <2>1. predict_to_int(m, k) \in Int
    BY <1>1 DEF predict_to_int, Greater
  <2>. QED
    BY <2>1 DEF OutOfBounds, BucketOf, clamp_index, predict_to_int
<1>. HIDE DEF h
<1>3. CASE ~m.checked
  BY <1>1, <1>2, <1>3 DEF Greater, Lesser
<1>4. CASE m.checked /\ h < 0
  BY <1>1, <1>2, <1>4 DEF Greater, Lesser
<1>5. CASE m.checked /\ h >= 0 /\ h > 2 * (size - 1)
  BY <1>1, <1>2, <1>5 DEF Greater, Lesser
<1>6. CASE m.checked /\ h >= 0 /\ ~(h > 2 * (size - 1))
  BY <1>1, <1>2, <1>6 DEF Greater, Lesser
<1>. QED
  BY <1>1, <1>3, <1>4, <1>5, <1>6

\* A lookup gets an index, in bounds or not.
LEMMA ClampedIndex ==
  ASSUME NEW m \in UpperModel, NEW k \in Key, NEW bound \in Nat, bound >= 1
  PROVE  clamp_index(m, k, bound) \in Nat
<1>1. m.half[k] \in Int /\ m.checked \in BOOLEAN /\ (m.checked \/ m.half[k] >= 0)
  BY DEF UpperModel
<1>. QED
  BY <1>1 DEF clamp_index

\* ... also from several layers.
LEMMA LeafIndex ==
  ASSUME NEW upper \in Uppers, NEW k \in Key
  PROVE  predict_leaf_index(upper, k) \in Nat
<1>1. /\ upper \in [{0} -> UpperModel] \X [Branches -> UpperModel]
      /\ Branch \in Nat /\ Branch >= 1 /\ Leaves \in Nat /\ Leaves >= 1
  BY UpperAssumption, IndexAssumption
<1>2. upper[1][0] \in UpperModel /\ \A g \in Branches : upper[2][g] \in UpperModel
  BY <1>1
<1>. DEFINE g == clamp_index(upper[1][0], k, Branch)
<1>3. g \in Branches => clamp_index(upper[2][g], k, Leaves) \in Nat
  BY <1>1, <1>2, ClampedIndex
<1>. QED
  BY <1>1, <1>3 DEF predict_leaf_index

-----------------------------------------------------------------------------
(* The initial states, and what every step keeps.                          *)

\* A training starts on ordered rows, with nothing recorded.
LEMMA InitInput ==
  ASSUME IndexInit
  PROVE  IInput
<1>1. MaxKey \in Nat /\ MaxRows \in Nat /\ MaxData \in Nat /\ LineSizes \subseteq Nat \ {0}
  BY IndexAssumption
<1>2. ASSUME NEW m \in Nat, NEW s \in Sorted(m) PROVE s \in Seq(Key) \ {<<>>} /\ Ordered(s)
  <2>1. PICK n \in 1 .. m : s \in [1 .. n -> Key]
    BY <1>2 DEF Sorted
  <2>2. n \in Nat /\ n >= 1
    BY <2>1
  <2>3. s \in Seq(Key) /\ Len(s) = n
    BY <2>1, <2>2
  <2>4. s # <<>>
    BY <2>2, <2>3
  <2>. QED
    BY <1>2, <2>3, <2>4 DEF Sorted
<1>3. Tops \cup BoundedTops \subseteq [Key -> Nat]
  BY IndexAssumption DEF Key
<1>4. CASE /\ mode = "two_layer"
           /\ dataset \in SortedRows
           /\ line = 0
           /\ rows = dataset
           /\ layers = <<>>
           /\ top \in Tops
  <2>1. top \in [Key -> Nat]
    BY <1>3, <1>4
  <2>2. dataset \in Seq(Key) \ {<<>>} /\ Ordered(dataset) /\ rows = dataset
    BY <1>1, <1>2, <1>4 DEF SortedRows
  <2>. QED
    BY <1>4, <2>1, <2>2 DEF IInput
<1>6. CASE /\ mode = "multi_layer"
           /\ dataset \in SortedRows
           /\ line = 0
           /\ rows = dataset
           /\ layers \in Uppers
           /\ top = [k \in Key |-> predict_leaf_index(layers, k)]
  <2>1. top \in [Key -> Nat]
    BY <1>6, LeafIndex
  <2>2. dataset \in Seq(Key) \ {<<>>} /\ Ordered(dataset) /\ rows = dataset
    BY <1>1, <1>2, <1>6 DEF SortedRows
  <2>. QED
    BY <1>6, <2>1, <2>2 DEF IInput
<1>5. CASE /\ mode = "bounded"
           /\ line \in LineSizes
           /\ dataset \in SortedData /\ Len(dataset) > line
           /\ rows = SplineKeys(dataset, line)
           /\ layers = <<>>
           /\ top \in BoundedTops
  <2>1. top \in [Key -> Nat] /\ line \in Nat \ {0}
    BY <1>1, <1>3, <1>5
  <2>2. dataset \in Seq(Key) \ {<<>>} /\ Ordered(dataset)
    BY <1>1, <1>2, <1>5 DEF SortedData
  <2>3. SplineKeys(dataset, line) \in Seq(Key) \ {<<>>} /\ Ordered(SplineKeys(dataset, line))
    BY <2>1, <2>2, SplineRows DEF Data
  <2>. QED
    BY <1>5, <2>1, <2>2, <2>3 DEF IInput
<1>. QED
  BY <1>4, <1>5, <1>6 DEF IndexInit

\* No row is passed, no probe made and no leaf observed.
LEMMA InitRecords ==
  ASSUME IndexInit
  PROVE  ISearch /\ ICorrect /\ IObserved
<1>1. IInput
  BY InitInput
<1>2. /\ NumRows \in Nat \ {0} /\ Rows = 1 .. NumRows /\ Leaves \in Nat /\ Leaves >= 2
      /\ \A i \in Rows : rows[i] \in Key
  BY <1>1, InputFacts
<1>3. /\ search = [base |-> 0, size |-> NumRows]
      /\ lb = [pos |-> 0, target |-> 0, key |-> rows[1], run |-> 0,
               longest |-> [l \in Leaf |-> 0],
               first |-> [l \in Leaf |-> NoRow],
               last |-> [l \in Leaf |-> NoRow]]
      /\ leaf = 0 /\ replaced = FALSE /\ model = Constantly(0) /\ error = 0
      /\ phase \in {"partition", "search"}
  BY DEF IndexInit, NumRows
<1>4. 0 \in Leaf /\ 1 \in Rows /\ 0 \in 0 .. NumRows /\ 0 \in 0 .. NumRows + 1
      /\ 0 \in 0 .. 2 * NumRows
  BY <1>2 DEF Leaf
<1>5. ISearch
  <2>1. search \in [base : Nat, size : Nat] /\ search.base = 0 /\ search.size = NumRows
    BY <1>2, <1>3
  <2>2. \A i \in Rows : ~(i <= 0) /\ ~(i > 0 + NumRows)
    BY <1>2
  <2>. QED
    BY <1>2, <2>1, <2>2 DEF ISearch
<1>6. ICorrect
  <2>1. lb \in [pos : 0 .. NumRows, target : Leaf, key : Key, run : 0 .. NumRows,
                longest : [Leaf -> 0 .. NumRows],
                first : [Leaf -> 0 .. NumRows], last : [Leaf -> 0 .. NumRows]]
    BY <1>2, <1>3, <1>4 DEF NoRow
  <2>2. RunInProgress
    BY <1>3 DEF RunInProgress
  <2>3. \A i \in Rows : ~(i <= 0) /\ ~(i < 0)
    BY <1>2
  <2>4. RunsRecorded
    BY <1>3, <2>3 DEF RunsRecorded
  <2>5. \A l \in Leaf : ~HasRows(l)
    BY <1>3 DEF HasRows
  <2>6. EndsRecorded
    BY <1>3, <2>3, <2>5 DEF EndsRecorded
  <2>. QED
    BY <2>1, <2>2, <2>4, <2>6 DEF ICorrect
<1>7. IObserved
  BY <1>1, <1>3, <1>4, ConstantModel DEF IObserved
<1>. QED
  BY <1>5, <1>6, <1>7

\* Dealing out rows changes the layer in hand, in the end the leaves, and no more.
LEMMA PartitionKeeps ==
  ASSUME Partition
  PROVE  /\ UNCHANGED <<input, search, build, lb, leaf, replaced, model, error>>
         /\ phase = "partition" /\ phase' \in {"partition", "correct", "thrown"}
<1>1. CASE PartitionRow
  BY <1>1 DEF PartitionRow
<1>2. CASE NextPartition
  BY <1>2 DEF NextPartition
<1>3. CASE NextLayer
  BY <1>3 DEF NextLayer, LayerDone
<1>4. CASE TrainLeaves
  BY <1>4 DEF TrainLeaves, LayerDone
<1>5. CASE PartitionThrows
  BY <1>5 DEF PartitionThrows
<1>. QED
  BY <1>1, <1>2, <1>3, <1>4, <1>5 DEF Partition

\* No step changes what the training was given.
LEMMA InputKept ==
  ASSUME IInput, [IndexNext]_indexVars
  PROVE  UNCHANGED input /\ IInput'
<1>1. UNCHANGED input
  BY PartitionKeeps
     DEF IndexNext, indexVars, Probe, Split, Build, BuildRow, BuildEnd, BuildThrows, JoinHalves,
         CorrectRow, Observe, ObserveTrained, ObserveReplaced, ObserveEmpty,
         ComputeError, Finished
<1>2. /\ rows' = rows /\ top' = top /\ mode' = mode /\ dataset' = dataset /\ line' = line
      /\ layers' = layers
  BY <1>1 DEF input
<1>3. Key' = Key /\ \A s : Ordered(s)' = Ordered(s)
  BY DEF Key, Ordered
<1>4. SplineKeys(dataset, line)' = SplineKeys(dataset, line)
  BY <1>2 DEF SplineKeys
<1>5. \A k : predict_leaf_index(layers, k)' = predict_leaf_index(layers, k)
  BY <1>2 DEF predict_leaf_index
<1>6. (top = [k \in Key |-> predict_leaf_index(layers, k)])' <=>
        top = [k \in Key |-> predict_leaf_index(layers, k)]
  BY <1>2, <1>3, <1>5
<1>. QED
  BY <1>1, <1>2, <1>3, <1>4, <1>6 DEF IInput, Ordered

\* Only CorrectRow changes the records of the pass.
LEMMA CorrectKept ==
  ASSUME IInput, ICorrect, [IndexNext]_indexVars
  PROVE  ICorrect'
<1>1. CASE CorrectRow
  BY <1>1, CorrectRowStep
<1>2. CASE ~CorrectRow
  <2>1. UNCHANGED lb
    BY <1>2, PartitionKeeps
    DEF IndexNext, indexVars, Probe, Split, Build, BuildRow, BuildEnd, BuildThrows, JoinHalves,
      Observe, ObserveTrained, ObserveReplaced, ObserveEmpty,
      ComputeError, Finished
  <2>2. /\ rows' = rows /\ top' = top
    BY InputKept DEF input
  <2>3. NumRows' = NumRows /\ Rows' = Rows /\ Leaf' = Leaf /\ Key' = Key
    BY <2>2 DEF NumRows, Rows, Leaf, Key
  <2>4. RunInProgress'
    BY <2>1, <2>2 DEF ICorrect, RunInProgress, LeafOf, Lesser, Offset, Rows
  <2>5. RunsRecorded'
    BY <2>1, <2>2 DEF ICorrect, RunsRecorded, LeafOf, Lesser, Offset, Rows
  <2>6. EndsRecorded'
    BY <2>1, <2>2 DEF ICorrect, EndsRecorded, LeafOf, Lesser, Rows, HasRows, NoRow, Leaf
  <2>. QED
    BY <2>1, <2>3, <2>4, <2>5, <2>6 DEF ICorrect
<1>. QED
  BY <1>1, <1>2

\* Only Probe changes the interval of the search.
LEMMA SearchKept ==
  ASSUME IInput, ISearch, [IndexNext]_indexVars
  PROVE  ISearch'
<1>1. CASE Probe
  BY <1>1, ProbeStep
<1>2. CASE ~Probe
  <2>1. UNCHANGED search
    BY <1>2, PartitionKeeps
    DEF IndexNext, indexVars, CorrectRow, Split, Build, BuildRow, BuildEnd, BuildThrows, JoinHalves,
      Observe, ObserveTrained, ObserveReplaced, ObserveEmpty,
      ComputeError, Finished
  <2>2. /\ rows' = rows /\ top' = top
    BY InputKept DEF input
  <2>. QED
    BY <2>1, <2>2 DEF ISearch, NumRows, Rows, IsMonotone, Key, Below, LeafOf, Lesser, Midpoint
<1>. QED
  BY <1>1, <1>2

\* Only the last steps of a training change the observed leaf.
LEMMA ObservedKept ==
  ASSUME IInput, ICorrect, IObserved, [IndexNext]_indexVars
  PROVE  IObserved'
<1>1. CASE Observe
  BY <1>1, ObserveStep
<1>2. CASE ComputeError
  BY <1>2, ErrorStep
<1>3. CASE Probe \/ Split \/ Build \/ JoinHalves \/ Partition \/ CorrectRow
  <2>1. /\ UNCHANGED <<leaf, replaced, model, error>>
        /\ phase' \notin {"errors", "trained"}
    BY <1>3, PartitionKeeps
    DEF Probe, Split, Build, BuildRow, BuildEnd, BuildThrows, JoinHalves, CorrectRow
  <2>2. UNCHANGED <<input, leaf, replaced, model, error>>
    BY <2>1, InputKept
  <2>. QED
    BY <2>1, <2>2, ObservedLater
<1>4. CASE Finished \/ UNCHANGED indexVars
  <2>1. UNCHANGED <<rows, top, phase, lb, leaf, replaced, model, error>>
    BY <1>4 DEF Finished, indexVars, input
  <2>2. LeafError(leaf)' = LeafError(leaf)
    BY <2>1 DEF LeafError, NumRows, UpperError, LowerError, RowErrors, RowsOf, LeafOf, LongestRun,
      ErrorBetween, Distance, Lesser, plus_epsilon, minus_epsilon, prev_key, next_key, LeavesBelow,
      next_index, LeavesAbove, HasRows, NoRow, NextRow, Offset, Rows
  <2>3. next_index(leaf)' = next_index(leaf) /\ HasRows(leaf)' = HasRows(leaf)
    BY <2>1 DEF next_index, LeavesAbove, HasRows, NoRow, NextRow, Offset, Rows, NumRows
  <2>4. NumRows' = NumRows /\ LeafModels' = LeafModels /\ Leaf' = Leaf
    BY <2>1 DEF NumRows, LeafModels, Leaf
  <2>5. (model = Constantly(next_index(leaf)))' <=> model = Constantly(next_index(leaf))
    BY <2>1, <2>3 DEF Constantly
  <2>6. (\E c \in Nat : model = Constantly(c))' <=> \E c \in Nat : model = Constantly(c)
    BY <2>1 DEF Constantly
  <2>. QED
    BY <2>1, <2>2, <2>3, <2>4, <2>5, <2>6 DEF IObserved
<1>. QED
  BY <1>1, <1>2, <1>3, <1>4 DEF IndexNext

-----------------------------------------------------------------------------
(* The layers in hand.                                                     *)

\* The next state's layer, if it is as this state's would be.
LEMMA LayerNext ==
  ASSUME UNCHANGED input, LayerOk(partition')
  PROVE  IPartition'
<1>1. rows' = rows /\ layers' = layers
  BY DEF input
<1>2. Rows' = Rows
  BY <1>1 DEF Rows
<1>3. \A l, i : Here(l, i)' = Here(l, i)
  BY <1>1 DEF Here, clamp_index
<1>4. \A l, i : There(l, i)' = There(l, i)
  BY <1>1, <1>3 DEF There, clamp_index, next_layer_size
<1>5. /\ \A l : Models(l)' = Models(l) /\ Buckets(l)' = Buckets(l)
      /\ \A l : PartitionRecord(l)' = PartitionRecord(l)
  BY <1>2 DEF Models, Branches, Buckets, next_layer_size, PartitionRecord
<1>6. InModels(partition.layer, partition.data_partitions)'
  BY <1>2, <1>3, <1>5 DEF LayerOk, InModels, Holds
<1>7. Dealt(partition.layer, partition.data_partitions, partition.next_layer_data,
            partition.index, partition.pos)'
  BY <1>4, <1>5 DEF LayerOk, Dealt, Holds
<1>. QED
  BY <1>5, <1>6, <1>7 DEF IPartition, LayerOk

\* The parts of the layer in hand.
LEMMA LayerFacts ==
  ASSUME IInput, NEW p, LayerOk(p)
  PROVE  /\ p.layer \in {1, 2} /\ p.index \in Models(p.layer) /\ p.index \in Nat /\ p.pos \in Nat
         /\ p.data_partitions \in [Models(p.layer) -> Seq(Rows)]
         /\ p.next_layer_data \in [Buckets(p.layer) -> Seq(Rows)]
         /\ next_layer_size(p.layer) \in Nat /\ next_layer_size(p.layer) >= 1
         /\ p = [layer |-> p.layer, index |-> p.index, pos |-> p.pos,
                 data_partitions |-> p.data_partitions, next_layer_data |-> p.next_layer_data]
<1>1. /\ p.layer \in {1, 2} /\ p.index \in Models(p.layer) /\ p.pos \in Nat
      /\ p.data_partitions \in [Models(p.layer) -> Seq(Rows)]
      /\ p.next_layer_data \in [Buckets(p.layer) -> Seq(Rows)]
  BY DEF LayerOk, PartitionRecord
<1>2. p = [layer |-> p.layer, index |-> p.index, pos |-> p.pos,
           data_partitions |-> p.data_partitions, next_layer_data |-> p.next_layer_data]
  BY DEF LayerOk, PartitionRecord
<1>3. Branch \in Nat /\ Branch >= 1 /\ Leaves \in Nat /\ Leaves >= 1
  BY IndexAssumption
<1>4. p.index \in Nat
  BY <1>1, <1>3 DEF Models, Branches
<1>5. next_layer_size(p.layer) \in Nat /\ next_layer_size(p.layer) >= 1
  BY <1>3 DEF next_layer_size
<1>. QED
  BY <1>1, <1>2, <1>4, <1>5

\* The models of the upper layers.
LEMMA LayerModel ==
  ASSUME IInput, mode = "multi_layer", NEW l \in {1, 2}, NEW g \in Models(l)
  PROVE  layers[l][g] \in UpperModel
<1>1. layers \in [{0} -> UpperModel] \X [Branches -> UpperModel]
  BY UpperAssumption DEF IInput
<1>. QED
  BY <1>1 DEF Models

\* The layer in hand at the start: all rows are for the root.
LEMMA InitPartition ==
  ASSUME IndexInit
  PROVE  IPartition
<1>. DEFINE p == partition
            all == [i \in Rows |-> i]
<1>1. IInput
  BY InitInput
<1>2. /\ p = [layer |-> 1, index |-> 0, pos |-> 0,
              data_partitions |-> [q \in {0} |-> all],
              next_layer_data |-> [g \in Branches |-> <<>>]]
  BY DEF IndexInit
<1>3. NumRows \in Nat /\ Rows = 1 .. NumRows
  BY <1>1, InputFacts
<1>4. all \in Seq(Rows) /\ Len(all) = NumRows /\ DOMAIN all = Rows /\ \A i \in Rows : all[i] = i
  BY <1>3
<1>. HIDE DEF all
<1>5. /\ p.layer = 1 /\ p.index = 0 /\ p.pos = 0 /\ p.data_partitions = [q \in {0} |-> all]
      /\ p.next_layer_data = [g \in Branches |-> <<>>]
  BY <1>2
<1>. HIDE DEF p
<1>6. Models(1) = {0} /\ Buckets(1) = Branches /\ \A i : Here(1, i) = 0
  BY DEF Models, Buckets, next_layer_size, Branches, Here
<1>7. <<>> \in Seq(Rows) /\ DOMAIN <<>> = {}
  BY EmptySeq
<1>8. /\ [q \in {0} |-> all] \in [{0} -> Seq(Rows)]
      /\ [g \in Branches |-> <<>>] \in [Branches -> Seq(Rows)]
  BY <1>4, <1>7
<1>9. p \in PartitionRecord(1)
  BY <1>2, <1>6, <1>8 DEF PartitionRecord, p
<1>10. InModels(1, p.data_partitions)
  BY <1>4, <1>5, <1>6 DEF InModels, Holds
<1>11. \A j \in DOMAIN all : ~(j <= 0)
  BY <1>3, <1>4
<1>12. Dealt(1, p.data_partitions, p.next_layer_data, 0, 0)
  BY <1>5, <1>6, <1>7, <1>11 DEF Dealt
<1>13. p.pos <= Len(p.data_partitions[p.index])
  BY <1>3, <1>4, <1>5
<1>. QED
  BY <1>5, <1>9, <1>10, <1>12, <1>13 DEF IPartition, LayerOk, p

\* A row is dealt out to the bucket that lookups route it to.
LEMMA RowDealt ==
  ASSUME IInput, mode = "multi_layer", IPartition, PartitionRow
  PROVE  IPartition'
<1>. DEFINE p == partition
            l == p.layer
            i == InHand[p.pos + 1]
            m == layers[l][p.index]
            size == next_layer_size(l)
            b == BucketOf(m, rows[i], size)
            next == [p.next_layer_data EXCEPT ![b] = Append(@, i)]
<1>1. /\ p.pos < Len(InHand) /\ ~OutOfBounds(m, rows[i], size) /\ UNCHANGED input
      /\ partition' = [p EXCEPT !.pos = @ + 1, !.next_layer_data[b] = Append(@, i)]
  BY DEF PartitionRow
<1>2. LayerOk(p)
  BY DEF IPartition
<1>3. /\ l \in {1, 2} /\ p.index \in Models(l) /\ p.index \in Nat /\ p.pos \in Nat
      /\ p.data_partitions \in [Models(l) -> Seq(Rows)]
      /\ p.next_layer_data \in [Buckets(l) -> Seq(Rows)]
      /\ size \in Nat /\ size >= 1
      /\ p = [layer |-> l, index |-> p.index, pos |-> p.pos,
              data_partitions |-> p.data_partitions, next_layer_data |-> p.next_layer_data]
  BY <1>2, LayerFacts
<1>4. partition' = [layer |-> l, index |-> p.index, pos |-> p.pos + 1,
                    data_partitions |-> p.data_partitions, next_layer_data |-> next]
  BY <1>1, <1>3
<1>5. InHand \in Seq(Rows) /\ InHand = p.data_partitions[p.index]
  BY <1>3 DEF InHand
<1>6. p.pos + 1 \in 1 .. Len(InHand) /\ DOMAIN InHand = 1 .. Len(InHand) /\ Len(InHand) \in Nat
  BY <1>1, <1>3, <1>5, LenProperties
<1>7. i \in Rows /\ Rows \subseteq Nat
  <2>1. InHand[p.pos + 1] \in Rows
    BY <1>5, <1>6, Elements
  <2>. QED
    BY <2>1, InputFacts
<1>8. Here(l, i) = p.index
  BY <1>2, <1>3, <1>5, <1>6 DEF LayerOk, InModels
<1>9. m \in UpperModel /\ rows[i] \in Key
  BY <1>3, <1>7, InputFacts, LayerModel
<1>10. There(l, i) = b /\ b \in Buckets(l)
  <2>1. There(l, i) = clamp_index(m, rows[i], size)
    BY <1>8 DEF There
  <2>2. clamp_index(m, rows[i], size) = b /\ clamp_index(m, rows[i], size) \in 0 .. size - 1
    BY <1>1, <1>3, <1>9, RoutingsAgree
  <2>. QED
    BY <2>1, <2>2 DEF Buckets
<1>. HIDE DEF b, m, size, i, l, p
<1>11. /\ Append(p.next_layer_data[b], i) \in Seq(Rows)
       /\ p.next_layer_data[b] \in Seq(Rows)
       /\ \A j \in DOMAIN Append(p.next_layer_data[b], i) :
            \/ Append(p.next_layer_data[b], i)[j] = i
            \/ /\ j \in DOMAIN p.next_layer_data[b]
               /\ Append(p.next_layer_data[b], i)[j] = p.next_layer_data[b][j]
       /\ Holds(Append(p.next_layer_data[b], i), i)
       /\ \A k : Holds(p.next_layer_data[b], k) => Holds(Append(p.next_layer_data[b], i), k)
  BY <1>3, <1>7, <1>10, ListGrows
<1>12. /\ next \in [Buckets(l) -> Seq(Rows)] /\ next[b] = Append(p.next_layer_data[b], i)
       /\ \A c \in Buckets(l) : c # b => next[c] = p.next_layer_data[c]
  BY <1>3, <1>10, <1>11
<1>. HIDE DEF next
<1>13. \A k : \A c \in Buckets(l) : Holds(p.next_layer_data[c], k) => Holds(next[c], k)
  BY <1>11, <1>12
<1>14. Dealt(l, p.data_partitions, p.next_layer_data, p.index, p.pos)
  BY <1>2 DEF LayerOk, l
<1>15. Dealt(l, p.data_partitions, next, p.index, p.pos + 1)
  <2>1. ASSUME NEW c \in Buckets(l), NEW j \in DOMAIN next[c] PROVE There(l, next[c][j]) = c
    <3>1. CASE c = b
      <4>1. \/ next[c][j] = i
            \/ j \in DOMAIN p.next_layer_data[c] /\ next[c][j] = p.next_layer_data[c][j]
        BY <1>11, <1>12, <2>1, <3>1
      <4>. QED
        BY <1>10, <1>14, <2>1, <3>1, <4>1 DEF Dealt
    <3>2. CASE c # b
      BY <1>12, <1>14, <2>1, <3>2 DEF Dealt
    <3>. QED
      BY <3>1, <3>2
  <2>2. ASSUME NEW g \in Models(l), NEW j \in DOMAIN p.data_partitions[g],
               g < p.index \/ (g = p.index /\ j <= p.pos + 1)
        PROVE  /\ There(l, p.data_partitions[g][j]) \in Buckets(l)
               /\ Holds(next[There(l, p.data_partitions[g][j])], p.data_partitions[g][j])
    <3>1. CASE g < p.index \/ (g = p.index /\ j <= p.pos)
      BY <1>13, <1>14, <2>2, <3>1 DEF Dealt
    <3>2. CASE g = p.index /\ j = p.pos + 1
      <4>1. p.data_partitions[g][j] = i
        BY <1>5, <3>2 DEF i
      <4>. QED
        BY <1>10, <1>11, <1>12, <4>1
    <3>3. g < p.index \/ (g = p.index /\ j <= p.pos) \/ (g = p.index /\ j = p.pos + 1)
      <4>1. CASE g < p.index
        BY <4>1
      <4>2. CASE g = p.index
        <5>1. j \in 1 .. Len(InHand)
          BY <1>5, <1>6, <2>2, <4>2
        <5>2. j \in Nat /\ j <= p.pos + 1
          BY <1>3, <2>2, <4>2, <5>1
        <5>. QED
          BY <1>3, <4>2, <5>2
      <4>. QED
        BY <2>2, <4>1, <4>2
    <3>. QED
      BY <3>1, <3>2, <3>3
  <2>. QED
    BY <2>1, <2>2 DEF Dealt
<1>16. /\ partition'.layer = l /\ partition'.index = p.index /\ partition'.pos = p.pos + 1
       /\ partition'.data_partitions = p.data_partitions /\ partition'.next_layer_data = next
  BY <1>4
<1>17. partition' \in PartitionRecord(l)
  <2>1. p.pos + 1 \in Nat
    BY <1>3
  <2>. QED
    BY <1>3, <1>4, <1>12, <2>1 DEF PartitionRecord
<1>18. p.pos + 1 <= Len(p.data_partitions[p.index])
  BY <1>3, <1>5, <1>6
<1>19. InModels(l, p.data_partitions)
  BY <1>2 DEF LayerOk, l
<1>20. LayerOk(partition')
  BY <1>3, <1>15, <1>16, <1>17, <1>18, <1>19 DEF LayerOk
<1>. QED
  BY <1>1, <1>20, LayerNext

\* The next partition is in hand: all rows of the ones before it are passed.
LEMMA PartitionNext ==
  ASSUME IInput, IPartition, NextPartition
  PROVE  IPartition'
<1>. DEFINE p == partition
            l == p.layer
<1>1. /\ p.pos = Len(InHand) /\ p.index + 1 \in DOMAIN p.data_partitions /\ UNCHANGED input
      /\ partition' = [p EXCEPT !.index = @ + 1, !.pos = 0]
  BY DEF NextPartition, IsLast
<1>2. LayerOk(p)
  BY DEF IPartition
<1>3. /\ l \in {1, 2} /\ p.index \in Models(l) /\ p.index \in Nat /\ p.pos \in Nat
      /\ p.data_partitions \in [Models(l) -> Seq(Rows)]
      /\ p.next_layer_data \in [Buckets(l) -> Seq(Rows)]
      /\ p = [layer |-> l, index |-> p.index, pos |-> p.pos,
              data_partitions |-> p.data_partitions, next_layer_data |-> p.next_layer_data]
  BY <1>2, LayerFacts
<1>4. /\ partition' = [layer |-> l, index |-> p.index + 1, pos |-> 0,
                       data_partitions |-> p.data_partitions,
                       next_layer_data |-> p.next_layer_data]
      /\ p.index + 1 \in Models(l)
  BY <1>1, <1>3
<1>5. InHand = p.data_partitions[p.index]
  BY DEF InHand
<1>6. /\ Dealt(l, p.data_partitions, p.next_layer_data, p.index, p.pos)
      /\ InModels(l, p.data_partitions)
  BY <1>2 DEF LayerOk
<1>7. \A g \in Models(l) : g \in Nat
  BY IndexAssumption DEF Models, Branches
<1>. HIDE DEF p, l
<1>8. ASSUME NEW g \in Models(l), NEW j \in DOMAIN p.data_partitions[g]
      PROVE  /\ j \in 1 .. Len(p.data_partitions[g]) /\ Len(p.data_partitions[g]) \in Nat
  BY <1>3, <1>8, LenProperties
<1>9. ASSUME NEW g \in Models(l), NEW j \in DOMAIN p.data_partitions[g],
             g < p.index + 1 \/ (g = p.index + 1 /\ j <= 0)
      PROVE  g < p.index \/ (g = p.index /\ j <= p.pos)
  <2>1. j \in 1 .. Len(p.data_partitions[g]) /\ g \in Nat /\ Len(p.data_partitions[g]) \in Nat
    BY <1>7, <1>8, <1>9
  <2>2. j >= 1 /\ j <= Len(p.data_partitions[g]) /\ j \in Nat
    BY <2>1
  <2>3. g < p.index \/ g = p.index
    BY <1>3, <1>9, <2>1, <2>2
  <2>4. g = p.index => j <= p.pos
    BY <1>1, <1>5, <2>2 DEF p
  <2>. QED
    BY <2>3, <2>4
<1>10. Dealt(l, p.data_partitions, p.next_layer_data, p.index + 1, 0)
  BY <1>6, <1>9 DEF Dealt
<1>11. /\ partition'.layer = l /\ partition'.index = p.index + 1 /\ partition'.pos = 0
       /\ partition'.data_partitions = p.data_partitions
       /\ partition'.next_layer_data = p.next_layer_data
  BY <1>4
<1>12. partition' \in PartitionRecord(l) /\ 0 <= Len(p.data_partitions[p.index + 1])
  <2>1. p.data_partitions[p.index + 1] \in Seq(Rows)
    BY <1>3, <1>4
  <2>2. Len(p.data_partitions[p.index + 1]) \in Nat
    BY <2>1, LenProperties
  <2>. QED
    BY <1>3, <1>4, <2>2 DEF PartitionRecord
<1>13. LayerOk(partition')
  BY <1>3, <1>6, <1>10, <1>11, <1>12 DEF LayerOk
<1>. QED
  BY <1>1, <1>13, LayerNext

\* A layer is done: every row is in the bucket that lookups route it to, alone.
LEMMA LayerDealt ==
  ASSUME IInput, IPartition, LayerDone
  PROVE  /\ \A i \in Rows : /\ There(partition.layer, i) \in Buckets(partition.layer)
                            /\ Holds(partition.next_layer_data[There(partition.layer, i)], i)
         /\ \A b \in Buckets(partition.layer) : \A j \in DOMAIN partition.next_layer_data[b] :
              There(partition.layer, partition.next_layer_data[b][j]) = b
<1>. DEFINE p == partition
            l == p.layer
<1>1. p.pos = Len(InHand) /\ p.index + 1 \notin DOMAIN p.data_partitions
  BY DEF LayerDone, IsLast
<1>2. /\ LayerOk(p) /\ InHand = p.data_partitions[p.index]
      /\ Dealt(l, p.data_partitions, p.next_layer_data, p.index, p.pos)
      /\ InModels(l, p.data_partitions)
  BY DEF IPartition, LayerOk, InHand
<1>3. /\ l \in {1, 2} /\ p.index \in Models(l) /\ p.index \in Nat /\ p.pos \in Nat
      /\ p.data_partitions \in [Models(l) -> Seq(Rows)]
  BY <1>2, LayerFacts
<1>4. ASSUME NEW g \in Models(l) PROVE g < p.index \/ g = p.index
  <2>1. p.index + 1 \notin Models(l) /\ Branch \in Nat
    BY <1>1, <1>3, IndexAssumption
  <2>2. CASE l = 1
    BY <1>3, <1>4, <2>2 DEF Models
  <2>3. CASE l = 2
    <3>1. Models(l) = 0 .. Branch - 1
      BY <2>3 DEF Models, Branches
    <3>. QED
      BY <1>3, <1>4, <2>1, <3>1
  <2>. QED
    BY <1>3, <2>2, <2>3
<1>. HIDE DEF l
<1>5. ASSUME NEW i \in Rows
      PROVE  /\ There(l, i) \in Buckets(l) /\ Holds(p.next_layer_data[There(l, i)], i)
  <2>. DEFINE g == Here(l, i)
  <2>1. g \in Models(l) /\ Holds(p.data_partitions[g], i)
    BY <1>2, <1>5 DEF InModels
  <2>2. PICK j \in DOMAIN p.data_partitions[g] : p.data_partitions[g][j] = i
    BY <2>1 DEF Holds
  <2>3. p.data_partitions[g] \in Seq(Rows)
    BY <1>3, <2>1
  <2>4. j \in 1 .. Len(p.data_partitions[g]) /\ Len(p.data_partitions[g]) \in Nat
    BY <2>2, <2>3, LenProperties
  <2>5. g < p.index \/ (g = p.index /\ j <= p.pos)
    BY <1>1, <1>2, <1>4, <2>1, <2>4
  <2>. HIDE DEF g
  <2>. QED
    BY <1>2, <2>1, <2>2, <2>5 DEF Dealt
<1>6. \A b \in Buckets(l) : \A j \in DOMAIN p.next_layer_data[b] :
        There(l, p.next_layer_data[b][j]) = b
  BY <1>2 DEF Dealt
<1>. QED
  BY <1>5, <1>6 DEF l

\* The layer below the root is in hand.
LEMMA SecondLayer ==
  ASSUME IInput, IPartition, NextLayer
  PROVE  IPartition'
<1>. DEFINE p == partition
            next == [l \in Leaf |-> <<>>]
<1>1. /\ LayerDone /\ p.layer = 1 /\ UNCHANGED input
      /\ partition' = [layer |-> 2, index |-> 0, pos |-> 0,
                       data_partitions |-> p.next_layer_data, next_layer_data |-> next]
  BY DEF NextLayer
<1>2. LayerOk(p)
  BY DEF IPartition
<1>3. /\ Buckets(1) = Branches /\ Models(2) = Branches /\ Buckets(2) = Leaf
      /\ \A i : Here(2, i) = There(1, i)
  BY DEF Buckets, Branches, Models, Leaf, Here, There, next_layer_size
<1>4. p.next_layer_data \in [Branches -> Seq(Rows)]
  BY <1>1, <1>2, <1>3, LayerFacts
<1>5. InModels(2, p.next_layer_data)
  BY <1>1, <1>3, LayerDealt DEF InModels
<1>6. Branch \in Nat /\ Branch >= 1 /\ 0 \in Branches /\ \A g \in Branches : g \in Nat
  BY IndexAssumption DEF Branches
<1>7. <<>> \in Seq(Rows) /\ DOMAIN <<>> = {}
  BY EmptySeq
<1>8. next \in [Leaf -> Seq(Rows)] /\ \A b \in Leaf : DOMAIN next[b] = {}
  BY <1>7
<1>. HIDE DEF next
<1>9. ASSUME NEW g \in Branches, NEW j \in DOMAIN p.next_layer_data[g]
      PROVE  ~(g < 0 \/ (g = 0 /\ j <= 0))
  <2>1. p.next_layer_data[g] \in Seq(Rows)
    BY <1>4
  <2>2. j \in 1 .. Len(p.next_layer_data[g]) /\ Len(p.next_layer_data[g]) \in Nat
    BY <1>9, <2>1, LenProperties
  <2>. QED
    BY <1>6, <2>2
<1>10. Dealt(2, p.next_layer_data, next, 0, 0)
  BY <1>3, <1>8, <1>9 DEF Dealt
<1>11. /\ partition'.layer = 2 /\ partition'.index = 0 /\ partition'.pos = 0
       /\ partition'.data_partitions = p.next_layer_data /\ partition'.next_layer_data = next
  BY <1>1
<1>12. partition' \in PartitionRecord(2)
  BY <1>1, <1>3, <1>4, <1>6, <1>8 DEF PartitionRecord
<1>13. 0 <= Len(p.next_layer_data[0])
  <2>1. p.next_layer_data[0] \in Seq(Rows)
    BY <1>4, <1>6
  <2>. QED
    BY <2>1, LenProperties
<1>14. LayerOk(partition')
  BY <1>5, <1>10, <1>11, <1>12, <1>13 DEF LayerOk
<1>. QED
  BY <1>1, <1>14, LayerNext

-----------------------------------------------------------------------------
(* The build_models_from calls.                                            *)

CallRecord == [from : Nat, to : Nat, first : Nat, count : Nat, pos : Nat, target : Nat,
               data : Seq(Nat), done : BOOLEAN]

\* The leaves and the rows that a call is responsible for.
LeavesOf(b) == b.first .. LastSlot(b)
RowsFor(b) == b.from + 1 .. b.to

\* Row i is in the data that its leaf was trained on, of the slots s.
InSlot(i, s) == LET l == LeafOf(rows[i]) IN Len(s[l]) = 1 /\ Holds(s[l][1], i)

\* ... or in the data of the leaf that the call is at.
Placed(b, i, s) ==
  InSlot(i, s) \/ (~b.done /\ LeafOf(rows[i]) = b.target /\ Holds(b.data, i))

\* A call has trained its leaves up to the one it is at.
CallOk(b, s) ==
  /\ b \in CallRecord
  /\ b.from < b.to /\ b.to <= NumRows /\ b.pos \in b.from .. b.to
  /\ b.count >= 1 /\ b.first + b.count <= Leaves
  /\ b.target \in LeavesOf(b)
  /\ b.pos > b.from => b.data # <<>>
  /\ b.done => b.pos = b.to
  /\ \A l \in LeavesOf(b) : Len(s[l]) = IF b.done \/ l < b.target THEN 1 ELSE 0

\* Its rows go to the leaves that lookups use, and none was left behind.
CallRouted(b, s) ==
  \A i \in RowsFor(b) :
    /\ Target(b, rows[i]) = LeafOf(rows[i])
    /\ NeedsBoundsCheck \/ top[rows[i]] < b.first + b.count
    /\ i > b.pos => b.target <= LeafOf(rows[i])
    /\ i <= b.pos => Placed(b, i, s)

\* The calls share out the leaves and the rows.
Tiled(calls) ==
  /\ \A l \in Leaf : \E p \in DOMAIN calls : l \in LeavesOf(calls[p])
  /\ \A i \in Rows : \E p \in DOMAIN calls : i \in RowsFor(calls[p])
  /\ \A p, q \in DOMAIN calls : p # q => LeavesOf(calls[p]) \cap LeavesOf(calls[q]) = {}

CallsOk(calls, s) ==
  /\ Tiled(calls)
  /\ \A p \in DOMAIN calls : CallOk(calls[p], s)
  /\ IsMonotone(top) => \A p \in DOMAIN calls : CallRouted(calls[p], s)

\* No leaf is trained twice, in any phase; when all are trained, every row is
\* in the data of its leaf unless rows may be out of order.
IBuild ==
  /\ phase \in {"search", "build", "partition", "correct", "errors", "trained", "thrown"}
  /\ mode = "multi_layer" => phase \notin {"search", "build"}
  /\ mode # "multi_layer" => phase # "partition"
  /\ DOMAIN build \subseteq Part
  /\ \A p \in DOMAIN build : build[p].pos \in build[p].from .. build[p].to
  /\ slots \in [Leaf -> Seq(Seq(Nat))] /\ \A l \in Leaf : Len(slots[l]) <= 1
  /\ phase \in {"search", "partition"} => \A l \in Leaf : slots[l] = <<>>
  /\ phase = "build" => CallsOk(build, slots)
  /\ phase = "thrown" => ~IsMonotone(top) \/ mode = "multi_layer"
  /\ phase \in {"correct", "errors", "trained"} =>
       /\ \A l \in Leaf : Len(slots[l]) = 1
       /\ IsMonotone(top) \/ mode = "multi_layer" => \A i \in Rows : InSlot(i, slots)
       /\ mode = "multi_layer" => \A i \in Rows : top[rows[i]] \in Leaf

\* A call is a record, for leaves that exist.
LEMMA CallFacts ==
  ASSUME IInput, NEW b, NEW s, CallOk(b, s)
  PROVE  /\ b.from \in Nat /\ b.to \in Nat /\ b.first \in Nat /\ b.count \in Nat /\ b.pos \in Nat
         /\ b.target \in Nat /\ b.data \in Seq(Nat) /\ b.done \in BOOLEAN
         /\ LastSlot(b) \in Nat /\ LastSlot(b) = b.first + b.count - 1 /\ LastSlot(b) < Leaves
         /\ LeavesOf(b) \subseteq Leaf
         /\ b.target >= b.first /\ b.target <= LastSlot(b)
         /\ b.pos >= b.from /\ b.pos <= b.to
         /\ RowsFor(b) \subseteq Rows
<1>1. /\ b.from \in Nat /\ b.to \in Nat /\ b.first \in Nat /\ b.count \in Nat /\ b.pos \in Nat
      /\ b.target \in Nat /\ b.data \in Seq(Nat) /\ b.done \in BOOLEAN
  BY DEF CallOk, CallRecord
<1>2. /\ b.count >= 1 /\ b.first + b.count <= Leaves /\ b.pos \in b.from .. b.to
      /\ b.target \in LeavesOf(b) /\ b.to <= NumRows
  BY DEF CallOk
<1>3. Leaves \in Nat /\ NumRows \in Nat /\ Rows = 1 .. NumRows
  BY InputFacts
<1>4. LastSlot(b) \in Nat /\ LastSlot(b) = b.first + b.count - 1 /\ LastSlot(b) < Leaves
  BY <1>1, <1>2, <1>3 DEF LastSlot
<1>5. LeavesOf(b) \subseteq Leaf
  BY <1>1, <1>3, <1>4 DEF LeavesOf, Leaf
<1>6. b.target >= b.first /\ b.target <= LastSlot(b)
  BY <1>1, <1>2, <1>4 DEF LeavesOf
<1>7. RowsFor(b) \subseteq Rows
  BY <1>1, <1>2, <1>3 DEF RowsFor
<1>. QED
  BY <1>1, <1>2, <1>4, <1>5, <1>6, <1>7

\* No leaf from first up to until is trained, of the slots s.
Untrained(s, first, until) == \A l \in first .. until - 1 : s[l] = <<>>

\* Rows from + 1 to to are for the count leaves from first up to until.
Share(from, to, first, count, until) ==
  /\ from \in Nat /\ to \in Nat /\ first \in Nat /\ count \in Nat /\ until \in Nat
  /\ from < to /\ to <= NumRows /\ count >= 1 /\ until <= Leaves /\ until = first + count

\* A call before its first row.
LEMMA NewCall ==
  ASSUME IInput, NEW s, NEW from, NEW to, NEW first, NEW count, NEW until,
         Share(from, to, first, count, until), Untrained(s, first, until),
         NEW b, b = Call(from, to, first, count)
  PROVE  /\ CallOk(b, s)
         /\ LeavesOf(b) = first .. until - 1 /\ RowsFor(b) = from + 1 .. to
<1>1. /\ from \in Nat /\ to \in Nat /\ first \in Nat /\ count \in Nat /\ until \in Nat
      /\ from < to /\ to <= NumRows /\ count >= 1 /\ until <= Leaves /\ until = first + count
  BY DEF Share
<1>2. /\ b.from = from /\ b.to = to /\ b.first = first /\ b.count = count /\ b.pos = from
      /\ b.target = first /\ b.data = <<>> /\ b.done = FALSE
      /\ b = [from |-> from, to |-> to, first |-> first, count |-> count,
              pos |-> from, target |-> first, data |-> <<>>, done |-> FALSE]
  BY DEF Call
<1>3. b \in CallRecord
  BY <1>2, <1>1, EmptySeq DEF CallRecord
<1>4. LastSlot(b) = until - 1 /\ until - 1 \in Nat
  BY <1>2, <1>1 DEF LastSlot
<1>5. /\ LastSlot(b) = until - 1 /\ LeavesOf(b) = first .. until - 1
      /\ RowsFor(b) = from + 1 .. to /\ LastSlot(b) \in Nat
  BY <1>4, <1>2, <1>1 DEF LeavesOf, RowsFor
<1>6. \A l \in first .. until - 1 : Len(s[l]) = 0 /\ ~(l < first)
  BY <1>1, EmptySeq DEF Untrained
<1>7. from \in from .. to /\ first \in first .. until - 1
  BY <1>1
<1>8. CallOk(b, s)
  <2>1. b.from < b.to /\ b.to <= NumRows /\ b.pos \in b.from .. b.to
    BY <1>2, <1>7, <1>1
  <2>2. b.count >= 1 /\ b.first + b.count <= Leaves /\ b.target \in LeavesOf(b)
    BY <1>2, <1>5, <1>7, <1>1
  <2>3. b.pos = b.from /\ ~(b.pos > b.from)
    BY <1>2, <1>1
  <2>4. \A l \in LeavesOf(b) : Len(s[l]) = IF b.done \/ l < b.target THEN 1 ELSE 0
    BY <1>2, <1>5, <1>6
  <2>. QED
    BY <1>2, <1>3, <2>1, <2>2, <2>3, <2>4 DEF CallOk
<1>. QED
  BY <1>5, <1>8

\* ... whose rows are routed to its leaves.
LEMMA NewCallRouted ==
  ASSUME IInput, NEW s, NEW from, NEW to, NEW first, NEW count, NEW until,
         Share(from, to, first, count, until), NEW b, b = Call(from, to, first, count),
         \A i \in from + 1 .. to : LeafOf(rows[i]) >= first,
         until < Leaves => \A i \in from + 1 .. to : top[rows[i]] < until
  PROVE  CallRouted(b, s)
<1>1. /\ from \in Nat /\ to \in Nat /\ first \in Nat /\ count \in Nat /\ until \in Nat
      /\ from < to /\ to <= NumRows /\ count >= 1 /\ until <= Leaves /\ until = first + count
  BY DEF Share
<1>2. /\ b.from = from /\ b.to = to /\ b.first = first /\ b.count = count /\ b.pos = from
      /\ b.target = first /\ b.data = <<>> /\ b.done = FALSE
  BY DEF Call
<1>3. /\ LastSlot(b) = until - 1 /\ LastSlot(b) \in Nat
      /\ RowsFor(b) = from + 1 .. to
  <2>1. until - 1 \in Nat
    BY <1>1
  <2>. QED
    BY <1>2, <1>1, <2>1 DEF LastSlot, RowsFor
<1>4. Leaves \in Nat
  BY InputFacts
<1>5. ASSUME NEW i \in from + 1 .. to
      PROVE  /\ Target(b, rows[i]) = LeafOf(rows[i])
             /\ NeedsBoundsCheck \/ top[rows[i]] < b.first + b.count
             /\ i > b.pos => b.target <= LeafOf(rows[i])
             /\ i <= b.pos => Placed(b, i, s)
  <2>1. i \in Rows /\ i \in Nat /\ ~(i <= from)
    BY <1>1, InputFacts
  <2>2. rows[i] \in Key /\ top[rows[i]] \in Nat /\ LeafOf(rows[i]) \in Leaf /\ Leaves \in Nat
    BY <2>1, InputFacts
  <2>3. LeafOf(rows[i]) >= first /\ (until = Leaves \/ top[rows[i]] < until)
    BY <1>4, <1>1
  <2>4. LeafOf(rows[i]) \in Nat
    BY <2>2 DEF Leaf
  <2>5. Target(b, rows[i]) = LeafOf(rows[i])
    <3>1. LastSlot(b) = Leaves - 1 \/ top[rows[i]] <= LastSlot(b)
      BY <1>3, <1>1, <2>3, <2>2
    <3>2. LastSlot(b) <= Leaves - 1
      BY <1>3, <1>1, <2>2
    <3>3. CASE LastSlot(b) = Leaves - 1
      BY <3>3 DEF Target, LeafOf
    <3>4. CASE top[rows[i]] <= LastSlot(b)
      BY <1>3, <2>2, <3>2, <3>4 DEF Target, LeafOf, Lesser
    <3>. QED
      BY <3>1, <3>3, <3>4
  <2>6. NeedsBoundsCheck \/ top[rows[i]] < until
    BY <2>3, <2>2 DEF NeedsBoundsCheck
  <2>. QED
    BY <1>1, <1>2, <2>1, <2>3, <2>4, <2>5, <2>6
<1>. QED
  BY <1>3, <1>5 DEF CallRouted

\* The calls of a split share out the leaves and the rows.
LEMMA SplitCalls ==
  ASSUME IInput, ISearch, search.size = 1, NEW s, \A l \in Leaf : s[l] = <<>>
  PROVE  CallsOk(Calls(SplitIndex), s) /\ DOMAIN Calls(SplitIndex) \subseteq Part
<1>. DEFINE m == SplitIndex
            target == LeafOf(rows[m + 1])
            calls == Calls(m)
<1>1. /\ NumRows \in Nat /\ NumRows > 0 /\ Rows = 1 .. NumRows
      /\ Leaves \in Nat /\ Leaves >= 2 /\ Leaf = 0 .. Leaves - 1
      /\ \A i \in Rows : LeafOf(rows[i]) \in Nat /\ LeafOf(rows[i]) < Leaves
  <2>1. Leaves \in Nat /\ Leaves >= 2 /\ \A i \in Rows : LeafOf(rows[i]) \in Leaf
    BY InputFacts
  <2>. QED
    BY <2>1, InputFacts DEF Leaf
<1>2. /\ m \in 0 .. NumRows
      /\ IsMonotone(top) /\ CanSplit(m) =>
           /\ \A i \in 1 .. m : top[rows[i]] < target
           /\ \A i \in m + 1 .. NumRows : LeafOf(rows[i]) >= target
  BY SplitFacts
<1>3. m \in Nat
  BY <1>1, <1>2
<1>. HIDE DEF m
<1>4. CASE CanSplit(m) /\ target # 0
  <2>. DEFINE b == Call(0, m, 0, target)
              c == Call(m, NumRows, target, Leaves - target)
  <2>1. m > 0 /\ m < NumRows /\ m + 1 \in Rows
    BY <1>1, <1>3, <1>4 DEF CanSplit
  <2>2. target \in Nat /\ target >= 1 /\ target < Leaves
    BY <1>1, <1>4, <2>1
  <2>3. calls = <<b, c>>
    BY <1>4 DEF Calls
  <2>4. IsMonotone(top) => /\ \A i \in 1 .. m : top[rows[i]] < target
                           /\ \A i \in m + 1 .. NumRows : LeafOf(rows[i]) >= target
    BY <1>2, <1>4
  <2>. HIDE DEF target
  <2>5. /\ target + (Leaves - target) = Leaves /\ Leaves - target \in Nat /\ Leaves - target >= 1
        /\ \A l \in target .. Leaves - 1 : l \in Leaf
        /\ \A l \in 0 .. target - 1 : l \in Leaf
        /\ 0 + target = target
    BY <1>1, <2>2
  <2>6. /\ CallOk(b, s) /\ LeavesOf(b) = 0 .. target - 1 /\ RowsFor(b) = 1 .. m
        /\ IsMonotone(top) => CallRouted(b, s)
    <3>1. /\ Untrained(s, 0, target) /\ Share(0, m, 0, target, target)
          /\ b = Call(0, m, 0, target)
      BY <1>1, <1>3, <2>1, <2>2, <2>5 DEF Untrained, Share
    <3>2. \A i \in 0 + 1 .. m : i \in Rows /\ i \in 1 .. m
      BY <1>1, <1>3, <2>1
    <3>3. \A i \in 0 + 1 .. m : LeafOf(rows[i]) >= 0
      BY <1>1, <3>2
    <3>4. IsMonotone(top) => \A i \in 0 + 1 .. m : top[rows[i]] < target
      BY <2>4, <3>2
    <3>. HIDE DEF b
    <3>5. CallOk(b, s) /\ LeavesOf(b) = 0 .. target - 1 /\ RowsFor(b) = 0 + 1 .. m
      BY <3>1, NewCall
    <3>6. IsMonotone(top) => CallRouted(b, s)
      BY <3>1, <3>3, <3>4, NewCallRouted
    <3>. QED
      BY <3>5, <3>6
  <2>7. /\ CallOk(c, s) /\ LeavesOf(c) = target .. Leaves - 1 /\ RowsFor(c) = m + 1 .. NumRows
        /\ IsMonotone(top) => CallRouted(c, s)
    <3>. DEFINE count == Leaves - target
    <3>1. /\ Untrained(s, target, Leaves) /\ Share(m, NumRows, target, count, Leaves)
          /\ c = Call(m, NumRows, target, count) /\ ~(Leaves < Leaves)
      BY <1>1, <1>3, <2>1, <2>2, <2>5 DEF Untrained, Share
    <3>. HIDE DEF c, count
    <3>2. CallOk(c, s) /\ LeavesOf(c) = target .. Leaves - 1 /\ RowsFor(c) = m + 1 .. NumRows
      BY <3>1, NewCall
    <3>3. IsMonotone(top) => CallRouted(c, s)
      BY <2>4, <3>1, NewCallRouted
    <3>. QED
      BY <3>2, <3>3
  <2>. HIDE DEF b, c
  <2>8. DOMAIN <<b, c>> = Part /\ <<b, c>>[1] = b /\ <<b, c>>[2] = c
    BY DEF Part
  <2>9. /\ \A l \in Leaf : l \in LeavesOf(b) \/ l \in LeavesOf(c)
        /\ \A i \in Rows : i \in RowsFor(b) \/ i \in RowsFor(c)
        /\ LeavesOf(b) \cap LeavesOf(c) = {}
    BY <1>1, <1>3, <2>2, <2>6, <2>7
  <2>10. Tiled(<<b, c>>)
    BY <2>8, <2>9 DEF Tiled, Part
  <2>11. \A p \in Part : CallOk(<<b, c>>[p], s)
    BY <2>6, <2>7, <2>8 DEF Part
  <2>12. IsMonotone(top) => \A p \in Part : CallRouted(<<b, c>>[p], s)
    BY <2>6, <2>7, <2>8 DEF Part
  <2>. HIDE DEF calls
  <2>. QED
    BY <2>3, <2>8, <2>10, <2>11, <2>12 DEF CallsOk, calls, m
<1>5. CASE ~(CanSplit(m) /\ target # 0)
  <2>. DEFINE b == Call(0, NumRows, 0, Leaves)
  <2>1. calls = <<b>>
    BY <1>5 DEF Calls
  <2>2. /\ Untrained(s, 0, Leaves) /\ Share(0, NumRows, 0, Leaves, Leaves)
        /\ b = Call(0, NumRows, 0, Leaves) /\ ~(Leaves < Leaves)
    BY <1>1 DEF Untrained, Share
  <2>. HIDE DEF b
  <2>3. \A i \in 0 + 1 .. NumRows : LeafOf(rows[i]) >= 0
    BY <1>1
  <2>4. CallOk(b, s) /\ LeavesOf(b) = 0 .. Leaves - 1 /\ RowsFor(b) = 0 + 1 .. NumRows
    BY <2>2, NewCall
  <2>5. CallRouted(b, s)
    BY <2>2, <2>3, NewCallRouted
  <2>6. DOMAIN <<b>> = {1} /\ <<b>>[1] = b /\ DOMAIN <<b>> \subseteq Part
    BY DEF Part
  <2>7. Tiled(<<b>>)
    <3>1. /\ \A l \in Leaf : l \in LeavesOf(b)
          /\ \A i \in Rows : i \in RowsFor(b)
      BY <1>1, <2>4
    <3>. QED
      BY <2>6, <3>1 DEF Tiled
  <2>. HIDE DEF calls
  <2>. QED
    BY <2>1, <2>4, <2>5, <2>6, <2>7 DEF CallsOk, calls, m
<1>. QED
  BY <1>4, <1>5

\* s is slots, with the leaf of call b trained on data and those up to until on nothing.
FilledFrom(s, b, data, until) ==
  /\ s \in [Leaf -> Seq(Seq(Nat))]
  /\ \A l \in Leaf : l \notin LeavesOf(b) => s[l] = slots[l]
  /\ \A l \in LeavesOf(b) : Len(s[l]) = IF l < until THEN 1 ELSE 0
  /\ \A l \in Leaf : Len(slots[l]) = 1 => s[l] = slots[l]
  /\ s[b.target] = <<data>>

Unfinished(b) == CallOk(b, slots) /\ b.done = FALSE

\* The slots that are filled when a call leaves a leaf.
LEMMA FillFacts ==
  ASSUME IInput, slots \in [Leaf -> Seq(Seq(Nat))],
         NEW b, Unfinished(b), NEW data \in Seq(Nat),
         NEW until \in Nat, until > b.target, until <= b.first + b.count
  PROVE  FilledFrom(Filled(b.target, data, until), b, data, until)
<1>. DEFINE s == Filled(b.target, data, until)
<1>14. CallOk(b, slots) /\ b.done = FALSE
  BY DEF Unfinished
<1>1. /\ b.first \in Nat /\ b.count \in Nat /\ b.target \in Nat
      /\ LastSlot(b) \in Nat /\ LastSlot(b) = b.first + b.count - 1
      /\ LeavesOf(b) \subseteq Leaf /\ b.target >= b.first /\ b.target <= LastSlot(b)
  BY <1>14, CallFacts
<1>2. \A l \in LeavesOf(b) : l \in Nat /\ Len(slots[l]) = IF l < b.target THEN 1 ELSE 0
  BY <1>14, <1>1 DEF CallOk, LeavesOf
<1>3. until \in Nat /\ until > b.target /\ until <= LastSlot(b) + 1
  BY <1>1
<1>4. ASSUME NEW l \in Leaf
      PROVE  /\ slots[l] \in Seq(Seq(Nat)) /\ l \in Nat
             /\ Len(slots[l]) = 0 => slots[l] = <<>>
  <2>1. slots[l] \in Seq(Seq(Nat))
    OBVIOUS
  <2>2. l \in Nat
    BY InputFacts DEF Leaf
  <2>. QED
    BY <2>1, <2>2, EmptySeq
<1>5. \A l \in b.target .. until - 1 : l \in LeavesOf(b) /\ ~(l < b.target)
  BY <1>1, <1>3 DEF LeavesOf
<1>6. \A l \in b.target .. until - 1 : slots[l] = <<>>
  BY <1>1, <1>2, <1>4, <1>5
<1>7. /\ <<>> \in Seq(Nat) /\ Append(<<>>, data) = <<data>> /\ Append(<<>>, <<>>) = << <<>> >>
      /\ <<data>> \in Seq(Seq(Nat)) /\ << <<>> >> \in Seq(Seq(Nat))
      /\ Len(<<data>>) = 1 /\ Len(<< <<>> >>) = 1
  BY EmptySeq
<1>8. ASSUME NEW l \in Leaf
      PROVE  s[l] = IF l = b.target THEN <<data>>
                    ELSE IF l \in b.target + 1 .. until - 1 THEN << <<>> >> ELSE slots[l]
  <2>1. CASE l = b.target
    <3>1. b.target \in b.target .. until - 1
      BY <1>1, <1>3
    <3>2. slots[l] = <<>>
      BY <1>6, <2>1, <3>1
    <3>. QED
      BY <1>7, <2>1, <3>2 DEF Filled
  <2>2. CASE l # b.target /\ l \in b.target + 1 .. until - 1
    <3>1. l \in b.target .. until - 1
      BY <1>1, <2>2
    <3>. QED
      BY <1>6, <1>7, <2>2, <3>1 DEF Filled
  <2>3. CASE l # b.target /\ l \notin b.target + 1 .. until - 1
    BY <2>3 DEF Filled
  <2>. QED
    BY <2>1, <2>2, <2>3
<1>9. s \in [Leaf -> Seq(Seq(Nat))]
  <2>1. s = [l \in Leaf |-> s[l]]
    BY DEF Filled
  <2>2. \A l \in Leaf : s[l] \in Seq(Seq(Nat))
    BY <1>4, <1>7, <1>8
  <2>. HIDE DEF s
  <2>. QED
    BY <2>1, <2>2
<1>. HIDE DEF s
<1>10. ASSUME NEW l \in Leaf, l \notin LeavesOf(b) PROVE s[l] = slots[l]
  <2>1. l # b.target /\ l \notin b.target + 1 .. until - 1
    BY <1>1, <1>3, <1>5, <1>10
  <2>. QED
    BY <1>8, <2>1
<1>11. ASSUME NEW l \in Leaf, Len(slots[l]) = 1 PROVE s[l] = slots[l]
  <2>0. ASSUME slots[l] = <<>> PROVE FALSE
    <3>1. Len(slots[l]) = Len(<<>>)
      BY <2>0
    <3>. QED
      BY <1>11, <3>1
  <2>1. slots[l] # <<>> /\ l \in Nat
    BY <1>4, <2>0
  <2>2. l \notin b.target .. until - 1
    BY <1>6, <2>1
  <2>3. l # b.target /\ l \notin b.target + 1 .. until - 1
    <3>1. b.target \in b.target .. until - 1
      BY <1>1, <1>3
    <3>2. \A m \in b.target + 1 .. until - 1 : m \in b.target .. until - 1
      BY <1>1
    <3>. QED
      BY <2>2, <3>1, <3>2
  <2>. QED
    BY <1>8, <2>3
<1>12. ASSUME NEW l \in LeavesOf(b) PROVE Len(s[l]) = IF l < until THEN 1 ELSE 0
  <2>1. l \in Leaf /\ l \in Nat /\ Len(slots[l]) = IF l < b.target THEN 1 ELSE 0
    BY <1>1, <1>2
  <2>2. CASE l < b.target
    <3>1. l < until
      BY <1>1, <1>3, <2>1, <2>2
    <3>2. s[l] = slots[l] /\ Len(slots[l]) = 1
      BY <1>11, <2>1, <2>2
    <3>. QED
      BY <3>1, <3>2
  <2>3. CASE l = b.target
    BY <1>3, <1>7, <1>8, <2>1, <2>3
  <2>4. CASE l > b.target /\ l < until
    <3>1. l # b.target /\ l \in b.target + 1 .. until - 1
      BY <1>1, <1>3, <2>1, <2>4
    <3>. QED
      BY <1>7, <1>8, <2>1, <2>4, <3>1
  <2>5. CASE l > b.target /\ ~(l < until)
    <3>1. l # b.target /\ l \notin b.target + 1 .. until - 1 /\ ~(l < b.target)
      BY <1>1, <1>3, <2>1, <2>5
    <3>. QED
      BY <1>8, <2>1, <2>5, <3>1
  <2>. QED
    BY <1>1, <2>1, <2>2, <2>3, <2>4, <2>5
<1>13. s[b.target] = <<data>>
  <2>1. b.target \in Leaf
    BY <1>14, <1>1 DEF CallOk
  <2>. QED
    BY <1>8, <2>1
<1>. QED
  BY <1>9, <1>10, <1>11, <1>12, <1>13 DEF FilledFrom, s

\* A row that its leaf was trained on stays so.
LEMMA SlotKept ==
  ASSUME IInput, NEW s, NEW i \in Rows, InSlot(i, slots),
         \A l \in Leaf : Len(slots[l]) = 1 => s[l] = slots[l]
  PROVE  InSlot(i, s)
<1>1. LeafOf(rows[i]) \in Leaf
  BY InputFacts
<1>. QED
  BY <1>1 DEF InSlot

\* The call that does not move keeps what it has done.
LEMMA OtherCall ==
  ASSUME IInput, NEW s, NEW c, CallOk(c, slots),
         \A l \in LeavesOf(c) : s[l] = slots[l],
         \A l \in Leaf : Len(slots[l]) = 1 => s[l] = slots[l]
  PROVE  CallOk(c, s) /\ (CallRouted(c, slots) => CallRouted(c, s))
<1>1. CallOk(c, s)
  BY DEF CallOk
<1>2. RowsFor(c) \subseteq Rows
  BY CallFacts
<1>3. ASSUME NEW i \in RowsFor(c), Placed(c, i, slots) PROVE Placed(c, i, s)
  BY <1>2, <1>3, SlotKept DEF Placed
<1>. QED
  BY <1>1, <1>3 DEF CallRouted

\* One call moves: all calls keep what they have done.
LEMMA OneCallMoves ==
  ASSUME IInput, CallsOk(build, slots), NEW p \in DOMAIN build, NEW calls, NEW s,
         DOMAIN calls = DOMAIN build, \A q \in DOMAIN build : q # p => calls[q] = build[q],
         LeavesOf(calls[p]) = LeavesOf(build[p]), RowsFor(calls[p]) = RowsFor(build[p]),
         CallOk(calls[p], s), IsMonotone(top) => CallRouted(calls[p], s),
         \A l \in Leaf : l \notin LeavesOf(build[p]) => s[l] = slots[l],
         \A l \in Leaf : Len(slots[l]) = 1 => s[l] = slots[l]
  PROVE  CallsOk(calls, s)
<1>1. \A q \in DOMAIN build : /\ LeavesOf(calls[q]) = LeavesOf(build[q])
                              /\ RowsFor(calls[q]) = RowsFor(build[q])
  OBVIOUS
<1>2. Tiled(calls)
  BY <1>1 DEF CallsOk, Tiled
<1>3. ASSUME NEW q \in DOMAIN build, q # p
      PROVE  CallOk(calls[q], s) /\ (IsMonotone(top) => CallRouted(calls[q], s))
  <2>1. CallOk(build[q], slots) /\ (IsMonotone(top) => CallRouted(build[q], slots))
    BY DEF CallsOk
  <2>2. LeavesOf(build[q]) \subseteq Leaf
    BY <2>1, CallFacts
  <2>3. LeavesOf(build[q]) \cap LeavesOf(build[p]) = {}
    BY <1>3 DEF CallsOk, Tiled
  <2>4. \A l \in LeavesOf(build[q]) : s[l] = slots[l]
    BY <2>2, <2>3
  <2>5. CallOk(build[q], s) /\ (CallRouted(build[q], slots) => CallRouted(build[q], s))
    BY <2>1, <2>4, OtherCall
  <2>. QED
    BY <1>3, <2>1, <2>5
<1>4. \A q \in DOMAIN calls : CallOk(calls[q], s) /\ (IsMonotone(top) => CallRouted(calls[q], s))
  BY <1>3
<1>. QED
  BY <1>2, <1>4 DEF CallsOk

\* A row is taken: the call at its leaf, or at the next one, holds it.
LEMMA RowTaken ==
  ASSUME IInput, slots \in [Leaf -> Seq(Seq(Nat))], CallsOk(build, slots),
         NEW p \in DOMAIN build, BuildRow(p)
  PROVE  /\ CallsOk(build', slots') /\ slots' \in [Leaf -> Seq(Seq(Nat))]
         /\ DOMAIN build' = DOMAIN build
<1>. DEFINE b == build[p]
            c == build'[p]
            i == b.pos + 1
            t == Target(b, rows[i])
            moves == t > b.target
            grown == Append(b.data, i)
<1>1. CallOk(b, slots) /\ (IsMonotone(top) => CallRouted(b, slots))
  BY DEF CallsOk
<1>2. /\ b.pos < b.to /\ ~RowRefused(b, rows[i])
      /\ slots' = IF moves THEN Filled(b.target, grown, t) ELSE slots
      /\ build' = [build EXCEPT
           ![p].data = Append(IF moves THEN Carried(@) ELSE @, i),
           ![p].target = t,
           ![p].pos = @ + 1]
  BY DEF BuildRow
<1>3. /\ b.from \in Nat /\ b.to \in Nat /\ b.first \in Nat /\ b.count \in Nat /\ b.pos \in Nat
      /\ b.target \in Nat /\ b.data \in Seq(Nat) /\ b.done \in BOOLEAN
      /\ LastSlot(b) \in Nat /\ LastSlot(b) = b.first + b.count - 1 /\ LastSlot(b) < Leaves
      /\ LeavesOf(b) \subseteq Leaf
      /\ b.target >= b.first /\ b.target <= LastSlot(b)
      /\ b.pos >= b.from /\ b.pos <= b.to
      /\ RowsFor(b) \subseteq Rows
  BY <1>1, CallFacts
<1>4. b.done = FALSE
  BY <1>1, <1>2, <1>3 DEF CallOk
<1>5. i \in Nat /\ i \in RowsFor(b) /\ i <= b.to /\ i > b.from /\ i > b.pos
  <2>. HIDE DEF b
  <2>. QED
    BY <1>2, <1>3 DEF RowsFor
<1>6. /\ i \in Rows /\ rows[i] \in Key /\ top[rows[i]] \in Nat /\ LeafOf(rows[i]) \in Nat
      /\ Leaves \in Nat /\ NumRows \in Nat
  <2>1. i \in Rows
    BY <1>3, <1>5
  <2>. QED
    BY <2>1, InputFacts DEF Leaf
<1>7. DOMAIN build' = DOMAIN build /\ \A q \in DOMAIN build : q # p => build'[q] = build[q]
  BY <1>2
<1>8. c = [b EXCEPT !.data = Append(IF moves THEN Carried(b.data) ELSE b.data, i),
                    !.target = t, !.pos = b.pos + 1]
  BY <1>2
<1>9. /\ t \in Nat /\ t >= b.target /\ t <= LastSlot(b)
  <2>1. t \in Nat /\ t <= LastSlot(b)
    BY <1>3, <1>6 DEF Target, Lesser
  <2>2. ~(t < b.target)
    BY <1>2 DEF RowRefused
  <2>. HIDE DEF t
  <2>. QED
    BY <1>3, <2>1, <2>2
<1>10. /\ grown \in Seq(Nat) /\ grown # <<>> /\ Holds(grown, i)
       /\ \A j : Holds(b.data, j) => Holds(grown, j)
  BY <1>3, <1>5, AppendHolds
<1>11. Carried(b.data) \in Seq(Nat)
  <2>1. CASE b.data = <<>>
    BY <2>1, EmptySeq DEF Carried
  <2>2. CASE b.data # <<>>
    <3>1. Len(b.data) \in DOMAIN b.data /\ b.data \in [DOMAIN b.data -> Nat]
      BY <1>3, <2>2, EmptySeq, LenProperties
    <3>2. b.data[Len(b.data)] \in Nat
      BY <3>1
    <3>. HIDE DEF b
    <3>. QED
      BY <2>2, <3>2 DEF Carried
  <2>. QED
    BY <2>1, <2>2
<1>12. /\ Append(Carried(b.data), i) \in Seq(Nat) /\ Append(Carried(b.data), i) # <<>>
       /\ Holds(Append(Carried(b.data), i), i)
  BY <1>5, <1>11, AppendHolds
<1>. HIDE DEF t
<1>13. /\ b \in CallRecord
       /\ b.from < b.to /\ b.to <= NumRows
       /\ b.count >= 1 /\ b.first + b.count <= Leaves
       /\ \A l \in LeavesOf(b) : Len(slots[l]) = IF l < b.target THEN 1 ELSE 0
  BY <1>1, <1>4 DEF CallOk
<1>14. /\ c \in CallRecord /\ c.from = b.from /\ c.to = b.to /\ c.first = b.first
       /\ c.count = b.count /\ c.done = FALSE /\ c.target = t /\ c.pos = i
       /\ c.data = IF moves THEN Append(Carried(b.data), i) ELSE grown
       /\ c.data # <<>>
  <2>1. Append(IF moves THEN Carried(b.data) ELSE b.data, i)
          = IF moves THEN Append(Carried(b.data), i) ELSE grown
    OBVIOUS
  <2>. HIDE DEF b, c, grown, moves
  <2>. QED
    BY <1>4, <1>5, <1>8, <1>9, <1>10, <1>12, <1>13, <2>1 DEF CallRecord, i
<1>15. LastSlot(c) = LastSlot(b) /\ LeavesOf(c) = LeavesOf(b) /\ RowsFor(c) = RowsFor(b)
  BY <1>14 DEF LastSlot, LeavesOf, RowsFor
<1>16. /\ slots' \in [Leaf -> Seq(Seq(Nat))]
       /\ \A l \in Leaf : l \notin LeavesOf(b) => slots'[l] = slots[l]
       /\ \A l \in LeavesOf(b) : Len(slots'[l]) = IF l < t THEN 1 ELSE 0
       /\ \A l \in Leaf : Len(slots[l]) = 1 => slots'[l] = slots[l]
       /\ moves => slots'[b.target] = <<grown>>
  <2>1. CASE moves
    <3>1. t \in Nat /\ t > b.target /\ t <= b.first + b.count
      BY <1>3, <1>9, <2>1
    <3>. DEFINE s == Filled(b.target, grown, t)
    <3>2. slots' = s
      BY <1>2, <2>1
    <3>3. Unfinished(b) /\ grown \in Seq(Nat)
      BY <1>1, <1>4, <1>10 DEF Unfinished
    <3>. HIDE DEF b, grown, moves
    <3>4. FilledFrom(s, b, grown, t)
      BY <3>1, <3>3, FillFacts
    <3>. HIDE DEF s
    <3>. QED
      BY <3>2, <3>4 DEF FilledFrom
  <2>2. CASE ~moves
    <3>1. t = b.target /\ slots' = slots
      BY <1>2, <1>3, <1>9, <2>2
    <3>. QED
      BY <1>13, <2>2, <3>1
  <2>. QED
    BY <2>1, <2>2
<1>. HIDE DEF b, c, grown, moves, i
<1>17. CallOk(c, slots')
  <2>1. c.pos \in c.from .. c.to
    BY <1>3, <1>5, <1>14
  <2>2. t \in b.first .. LastSlot(b)
    BY <1>3, <1>9
  <2>3. c.target \in LeavesOf(c)
    BY <1>14, <1>15, <2>2 DEF LeavesOf
  <2>. QED
    BY <1>13, <1>14, <1>15, <1>16, <2>1, <2>3 DEF CallOk
<1>18. ASSUME IsMonotone(top) PROVE CallRouted(c, slots')
  <2>. SUFFICES ASSUME NEW j \in RowsFor(b)
       PROVE  /\ Target(c, rows[j]) = LeafOf(rows[j])
              /\ NeedsBoundsCheck \/ top[rows[j]] < c.first + c.count
              /\ j > c.pos => c.target <= LeafOf(rows[j])
              /\ j <= c.pos => Placed(c, j, slots')
    BY <1>15 DEF CallRouted
  <2>1. /\ Target(b, rows[j]) = LeafOf(rows[j])
        /\ NeedsBoundsCheck \/ top[rows[j]] < b.first + b.count
        /\ j <= b.pos => Placed(b, j, slots)
    BY <1>1, <1>18 DEF CallRouted
  <2>2. Target(c, rows[j]) = LeafOf(rows[j])
    BY <1>15, <2>1 DEF Target
  <2>3. LeafOf(rows[i]) = t
    BY <1>1, <1>5, <1>18 DEF CallRouted, t
  <2>4. j \in Rows /\ j \in Nat
    BY <1>3 DEF Rows
  <2>5. ASSUME j > c.pos PROVE c.target <= LeafOf(rows[j])
    <3>1. i <= j
      BY <1>5, <1>14, <2>4, <2>5
    <3>. QED
      BY <1>6, <1>14, <1>18, <2>3, <2>4, <3>1, RoutingOrdered
  <2>6. ASSUME j <= c.pos PROVE Placed(c, j, slots')
    <3>1. CASE j = i
      BY <1>10, <1>12, <1>14, <2>3, <3>1 DEF Placed
    <3>2. CASE j # i
      <4>1. j <= b.pos
        BY <1>3, <1>14, <2>4, <2>6, <3>2 DEF i
      <4>2. CASE InSlot(j, slots)
        BY <1>16, <2>4, <4>2, SlotKept DEF Placed
      <4>3. CASE ~InSlot(j, slots)
        <5>1. LeafOf(rows[j]) = b.target /\ Holds(b.data, j)
          BY <2>1, <4>1, <4>3 DEF Placed
        <5>2. Holds(grown, j)
          BY <1>10, <5>1
        <5>3. CASE moves
          <6>1. slots'[b.target] = <<grown>>
            BY <1>16, <5>3
          <6>2. Len(<<grown>>) = 1 /\ <<grown>>[1] = grown
            OBVIOUS
          <6>. QED
            BY <5>1, <5>2, <6>1, <6>2 DEF InSlot, Placed
        <5>4. CASE ~moves
          <6>1. t = b.target /\ c.data = grown
            BY <1>3, <1>9, <1>14, <5>4 DEF moves
          <6>. QED
            BY <1>14, <5>1, <5>2, <6>1 DEF Placed
        <5>. QED
          BY <5>3, <5>4
      <4>. QED
        BY <4>2, <4>3
    <3>. QED
      BY <3>1, <3>2
  <2>. QED
    BY <1>14, <2>1, <2>2, <2>5, <2>6
<1>19. CallsOk(build', slots')
  BY <1>7, <1>15, <1>16, <1>17, <1>18, OneCallMoves DEF b, c
<1>. QED
  BY <1>7, <1>16, <1>19

\* The end of a range: the last leaf of the call and those after it are trained.
LEMMA EndTaken ==
  ASSUME IInput, slots \in [Leaf -> Seq(Seq(Nat))], CallsOk(build, slots),
         NEW p \in DOMAIN build, BuildEnd(p)
  PROVE  /\ CallsOk(build', slots') /\ slots' \in [Leaf -> Seq(Seq(Nat))]
         /\ DOMAIN build' = DOMAIN build
<1>. DEFINE b == build[p]
            c == build'[p]
            until == b.first + b.count
            s == Filled(b.target, b.data, until)
<1>1. CallOk(b, slots) /\ (IsMonotone(top) => CallRouted(b, slots))
  BY DEF CallsOk
<1>2. /\ b.pos = b.to /\ ~b.done
      /\ slots' = s
      /\ build' = [build EXCEPT ![p].done = TRUE]
  BY DEF BuildEnd
<1>3. /\ b.from \in Nat /\ b.to \in Nat /\ b.first \in Nat /\ b.count \in Nat /\ b.pos \in Nat
      /\ b.target \in Nat /\ b.data \in Seq(Nat) /\ b.done \in BOOLEAN
      /\ LastSlot(b) \in Nat /\ LastSlot(b) = b.first + b.count - 1 /\ LastSlot(b) < Leaves
      /\ LeavesOf(b) \subseteq Leaf
      /\ b.target >= b.first /\ b.target <= LastSlot(b)
      /\ b.pos >= b.from /\ b.pos <= b.to
      /\ RowsFor(b) \subseteq Rows
  BY <1>1, CallFacts
<1>4. b.done = FALSE
  BY <1>2, <1>3
<1>5. DOMAIN build' = DOMAIN build /\ \A q \in DOMAIN build : q # p => build'[q] = build[q]
  BY <1>2
<1>6. c = [b EXCEPT !.done = TRUE]
  BY <1>2
<1>7. Unfinished(b) /\ until \in Nat /\ until > b.target /\ until <= b.first + b.count
  <2>1. Unfinished(b)
    BY <1>1, <1>4 DEF Unfinished
  <2>. HIDE DEF b
  <2>. QED
    BY <1>3, <2>1
<1>8. /\ b \in CallRecord
      /\ b.from < b.to /\ b.to <= NumRows
      /\ b.count >= 1 /\ b.first + b.count <= Leaves
      /\ b.target \in LeavesOf(b)
      /\ b.pos > b.from => b.data # <<>>
  BY <1>1 DEF CallOk
<1>. HIDE DEF b, c, s, until
<1>9. FilledFrom(s, b, b.data, until)
  BY <1>3, <1>7, FillFacts DEF s, until
<1>10. /\ c \in CallRecord /\ c.from = b.from /\ c.to = b.to /\ c.first = b.first
       /\ c.count = b.count /\ c.done = TRUE /\ c.target = b.target /\ c.pos = b.pos
       /\ c.data = b.data
  BY <1>6, <1>8 DEF CallRecord
<1>11. LastSlot(c) = LastSlot(b) /\ LeavesOf(c) = LeavesOf(b) /\ RowsFor(c) = RowsFor(b)
  BY <1>10 DEF LastSlot, LeavesOf, RowsFor
<1>12. /\ slots' \in [Leaf -> Seq(Seq(Nat))]
       /\ \A l \in Leaf : l \notin LeavesOf(b) => slots'[l] = slots[l]
       /\ \A l \in LeavesOf(b) : Len(slots'[l]) = IF l < until THEN 1 ELSE 0
       /\ \A l \in Leaf : Len(slots[l]) = 1 => slots'[l] = slots[l]
       /\ slots'[b.target] = <<b.data>>
  BY <1>2, <1>9 DEF FilledFrom
<1>13. \A l \in LeavesOf(b) : Len(slots'[l]) = 1
  <2>. TAKE l \in LeavesOf(b)
  <2>1. l < until
    BY <1>3 DEF LeavesOf, until
  <2>. QED
    BY <1>12, <2>1
<1>14. CallOk(c, slots')
  <2>1. c.pos \in c.from .. c.to
    BY <1>2, <1>3, <1>10
  <2>2. c.pos = c.to
    BY <1>2, <1>10
  <2>. QED
    BY <1>8, <1>10, <1>11, <1>13, <2>1, <2>2 DEF CallOk
<1>15. ASSUME IsMonotone(top) PROVE CallRouted(c, slots')
  <2>. SUFFICES ASSUME NEW j \in RowsFor(b)
       PROVE  /\ Target(c, rows[j]) = LeafOf(rows[j])
              /\ NeedsBoundsCheck \/ top[rows[j]] < c.first + c.count
              /\ j > c.pos => c.target <= LeafOf(rows[j])
              /\ j <= c.pos => Placed(c, j, slots')
    BY <1>11 DEF CallRouted
  <2>1. /\ Target(b, rows[j]) = LeafOf(rows[j])
        /\ NeedsBoundsCheck \/ top[rows[j]] < b.first + b.count
        /\ j > b.pos => b.target <= LeafOf(rows[j])
        /\ j <= b.pos => Placed(b, j, slots)
    BY <1>1, <1>15 DEF CallRouted
  <2>2. Target(c, rows[j]) = LeafOf(rows[j])
    BY <1>11, <2>1 DEF Target
  <2>3. j \in Rows
    BY <1>3
  <2>4. ASSUME j <= b.pos PROVE InSlot(j, slots')
    <3>1. CASE InSlot(j, slots)
      BY <1>12, <2>3, <3>1, SlotKept
    <3>2. CASE ~InSlot(j, slots)
      <4>1. LeafOf(rows[j]) = b.target /\ Holds(b.data, j)
        BY <2>1, <2>4, <3>2 DEF Placed
      <4>2. Len(<<b.data>>) = 1 /\ <<b.data>>[1] = b.data
        OBVIOUS
      <4>. QED
        BY <1>12, <4>1, <4>2 DEF InSlot
    <3>. QED
      BY <3>1, <3>2
  <2>. QED
    BY <1>10, <2>1, <2>2, <2>4 DEF Placed
<1>16. CallsOk(build', slots')
  BY <1>5, <1>11, <1>12, <1>14, <1>15, OneCallMoves DEF b, c
<1>. QED
  BY <1>5, <1>12, <1>16

\* A monotone top model: no call meets a row it refuses, or has nothing at its end.
LEMMA NoCallThrows ==
  ASSUME IInput, IsMonotone(top), CallsOk(build, slots), NEW p \in DOMAIN build
  PROVE  ~CallThrows(build[p])
<1>. DEFINE b == build[p]
            i == b.pos + 1
<1>1. CallOk(b, slots) /\ CallRouted(b, slots)
  BY DEF CallsOk
<1>2. /\ b.from \in Nat /\ b.to \in Nat /\ b.first \in Nat /\ b.count \in Nat /\ b.pos \in Nat
      /\ b.target \in Nat /\ b.pos >= b.from /\ b.pos <= b.to /\ RowsFor(b) \subseteq Rows
  BY <1>1, CallFacts
<1>3. b.from < b.to /\ (b.pos > b.from => b.data # <<>>)
  BY <1>1 DEF CallOk
<1>. HIDE DEF b
<1>4. ASSUME b.pos < b.to PROVE ~RowRefused(b, rows[i])
  <2>1. i \in RowsFor(b) /\ i > b.pos
    BY <1>2, <1>4 DEF RowsFor
  <2>2. i \in Rows
    BY <1>2, <2>1
  <2>3. rows[i] \in Key
    BY <2>2, InputFacts
  <2>4. LeafOf(rows[i]) \in Nat /\ top[rows[i]] \in Nat
    BY <2>3, InputFacts DEF Leaf
  <2>5. /\ Target(b, rows[i]) = LeafOf(rows[i])
        /\ NeedsBoundsCheck \/ top[rows[i]] < b.first + b.count
        /\ b.target <= LeafOf(rows[i])
    BY <1>1, <2>1 DEF CallRouted
  <2>. QED
    BY <1>2, <2>4, <2>5 DEF RowRefused
<1>5. b.pos = b.to => b.data # <<>>
  BY <1>2, <1>3
<1>. QED
  BY <1>4, <1>5 DEF CallThrows, b, i

\* Every leaf is trained at most once, and every call is in its range.
LEMMA CallsWithin ==
  ASSUME IInput, NEW calls, NEW s, CallsOk(calls, s)
  PROVE  /\ \A l \in Leaf : Len(s[l]) <= 1
         /\ \A p \in DOMAIN calls : calls[p].pos \in calls[p].from .. calls[p].to
<1>1. ASSUME NEW l \in Leaf PROVE Len(s[l]) <= 1
  <2>1. PICK p \in DOMAIN calls : l \in LeavesOf(calls[p])
    BY DEF CallsOk, Tiled
  <2>2. CallOk(calls[p], s)
    BY DEF CallsOk
  <2>3. Len(s[l]) \in {0, 1}
    BY <2>1, <2>2 DEF CallOk
  <2>4. \A x \in {0, 1} : x <= 1
    OBVIOUS
  <2>. QED
    BY <2>3, <2>4
<1>2. \A p \in DOMAIN calls : calls[p].pos \in calls[p].from .. calls[p].to
  BY DEF CallsOk, CallOk
<1>. QED
  BY <1>1, <1>2

\* When all calls are done every leaf is trained.
LEMMA AllTrained ==
  ASSUME IInput, CallsOk(build, slots), \A p \in DOMAIN build : build[p].done
  PROVE  /\ \A l \in Leaf : Len(slots[l]) = 1
         /\ IsMonotone(top) => \A i \in Rows : InSlot(i, slots)
<1>1. ASSUME NEW l \in Leaf PROVE Len(slots[l]) = 1
  <2>1. PICK p \in DOMAIN build : l \in LeavesOf(build[p])
    BY DEF CallsOk, Tiled
  <2>2. CallOk(build[p], slots)
    BY DEF CallsOk
  <2>3. build[p].done \/ l < build[p].target
    OBVIOUS
  <2>. QED
    BY <2>1, <2>2, <2>3 DEF CallOk
<1>2. ASSUME IsMonotone(top), NEW i \in Rows PROVE InSlot(i, slots)
  <2>1. PICK p \in DOMAIN build : i \in RowsFor(build[p])
    BY DEF CallsOk, Tiled
  <2>2. CallOk(build[p], slots) /\ CallRouted(build[p], slots) /\ build[p].done
    BY <1>2 DEF CallsOk
  <2>3. build[p].pos = build[p].to
    BY <2>2 DEF CallOk
  <2>4. build[p].from \in Nat /\ build[p].to \in Nat
    BY <2>2, CallFacts
  <2>5. i <= build[p].pos
    BY <2>1, <2>3, <2>4 DEF RowsFor
  <2>6. Placed(build[p], i, slots)
    BY <2>1, <2>2, <2>5 DEF CallRouted
  <2>. QED
    BY <2>2, <2>6 DEF Placed
<1>. QED
  BY <1>1, <1>2

-----------------------------------------------------------------------------
(* The leaves are trained once.                                            *)

\* No other step changes the layer in hand.
LEMMA PartitionKept ==
  ASSUME IInput, IBuild, IPartition, [IndexNext]_indexVars
  PROVE  IPartition'
<1>1. CASE PartitionRow
  <2>1. mode = "multi_layer"
    BY <1>1 DEF PartitionRow, IBuild
  <2>. QED
    BY <1>1, <2>1, RowDealt
<1>2. CASE NextPartition
  BY <1>2, PartitionNext
<1>3. CASE NextLayer
  BY <1>3, SecondLayer
<1>4. CASE ~(PartitionRow \/ NextPartition \/ NextLayer)
  <2>1. partition' = partition
    BY <1>4 DEF IndexNext, indexVars, Probe, Split, Build, BuildRow, BuildEnd, BuildThrows,
      JoinHalves, Partition, TrainLeaves, PartitionThrows, CorrectRow, Observe, ObserveTrained,
      ObserveReplaced, ObserveEmpty, ComputeError, Finished
  <2>2. LayerOk(partition')
    BY <2>1 DEF IPartition
  <2>. QED
    BY <2>2, InputKept, LayerNext
<1>. QED
  BY <1>1, <1>2, <1>3, <1>4

\* The leaves are trained on the buckets that lookups route to them.
LEMMA LeavesDealt ==
  ASSUME IInput, mode = "multi_layer", IPartition, TrainLeaves
  PROVE  /\ slots' \in [Leaf -> Seq(Seq(Nat))] /\ \A l \in Leaf : Len(slots'[l]) = 1
         /\ \A i \in Rows : top[rows[i]] \in Leaf /\ InSlot(i, slots')
<1>. DEFINE next == partition.next_layer_data
<1>1. /\ LayerDone /\ partition.layer = 2 /\ slots' = [l \in Leaf |-> <<next[l]>>]
  BY DEF TrainLeaves
<1>2. LayerOk(partition) /\ Buckets(2) = Leaf
  BY DEF IPartition, Buckets, Leaf, next_layer_size
<1>3. next \in [Leaf -> Seq(Rows)]
  BY <1>1, <1>2, LayerFacts
<1>4. Rows \subseteq Nat
  BY InputFacts
<1>5. ASSUME NEW l \in Leaf PROVE next[l] \in Seq(Nat)
  <2>1. next[l] \in Seq(Rows)
    BY <1>3
  <2>2. Len(next[l]) \in Nat /\ next[l] \in [1 .. Len(next[l]) -> Rows]
    BY <2>1, LenProperties
  <2>3. next[l] \in [1 .. Len(next[l]) -> Nat]
    BY <1>4, <2>2
  <2>. QED
    BY <2>2, <2>3
<1>6. \A s \in Seq(Nat) : <<s>> \in Seq(Seq(Nat)) /\ Len(<<s>>) = 1 /\ <<s>>[1] = s
  OBVIOUS
<1>7. ASSUME NEW i \in Rows PROVE top[rows[i]] \in Leaf /\ InSlot(i, slots')
  <2>1. There(2, i) \in Leaf /\ Holds(next[There(2, i)], i)
    BY <1>1, <1>2, LayerDealt
  <2>2. Here(2, i) \in Branches
    BY <1>1, <1>2 DEF LayerOk, InModels, Models
  <2>3. rows[i] \in Key
    BY InputFacts
  <2>4. top[rows[i]] = predict_leaf_index(layers, rows[i])
    BY <2>3 DEF IInput
  <2>5. predict_leaf_index(layers, rows[i]) = There(2, i)
    BY <2>2 DEF predict_leaf_index, Here, There, next_layer_size
  <2>6. LeafOf(rows[i]) = top[rows[i]]
    <3>1. top[rows[i]] \in 0 .. Leaves - 1 /\ Leaves \in Nat
      BY <2>1, <2>4, <2>5, InputFacts DEF Leaf
    <3>. QED
      BY <3>1 DEF LeafOf, Lesser
  <2>7. slots'[LeafOf(rows[i])] = <<next[LeafOf(rows[i])]>>
    BY <1>1, <2>1, <2>4, <2>5, <2>6
  <2>. QED
    BY <1>5, <1>6, <2>1, <2>4, <2>5, <2>6, <2>7 DEF InSlot
<1>. QED
  BY <1>1, <1>5, <1>6, <1>7

\* What the next calls and slots satisfy, in the next state.
LEMMA CallsNext ==
  ASSUME UNCHANGED input, CallsOk(build', slots')
  PROVE  CallsOk(build, slots)'
<1>1. rows' = rows /\ top' = top
  BY DEF input
<1>2. Leaf' = Leaf /\ Rows' = Rows /\ NumRows' = NumRows
  BY <1>1 DEF Leaf, Rows, NumRows
<1>3. Tiled(build)'
  BY <1>2 DEF CallsOk, Tiled, LeavesOf, LastSlot, RowsFor
<1>4. (\A p \in DOMAIN build : CallOk(build[p], slots))'
  BY <1>2 DEF CallsOk, CallOk, LeavesOf, LastSlot, CallRecord
<1>5. IsMonotone(top)' <=> IsMonotone(top)
  BY <1>1 DEF IsMonotone, Key
<1>6. NeedsBoundsCheck' <=> NeedsBoundsCheck
  BY <1>1 DEF NeedsBoundsCheck, Key
<1>7. ASSUME IsMonotone(top), NEW p \in DOMAIN build' PROVE CallRouted(build[p], slots)'
  BY <1>1, <1>2, <1>6, <1>7 DEF CallsOk, CallRouted, RowsFor, Target, LastSlot, Lesser, LeafOf,
    Placed, InSlot, Holds
<1>. QED
  BY <1>3, <1>4, <1>5, <1>7 DEF CallsOk

\* A step of the calls.
LEMMA BuildStep ==
  ASSUME IInput, IBuild, Build
  PROVE  IBuild'
<1>1. PICK p \in Part : BuildRow(p) \/ BuildEnd(p) \/ BuildThrows(p)
  BY DEF Build
<1>2. /\ phase = "build" /\ p \in DOMAIN build /\ UNCHANGED input
      /\ mode' = mode /\ rows' = rows /\ top' = top
  BY <1>1 DEF BuildRow, BuildEnd, BuildThrows, input
<1>3. /\ CallsOk(build, slots) /\ slots \in [Leaf -> Seq(Seq(Nat))] /\ DOMAIN build \subseteq Part
      /\ mode # "multi_layer" /\ \A l \in Leaf : Len(slots[l]) <= 1
      /\ \A q \in DOMAIN build : build[q].pos \in build[q].from .. build[q].to
  BY <1>2 DEF IBuild
<1>4. Leaf' = Leaf
  BY DEF Leaf
<1>5. CASE BuildRow(p) \/ BuildEnd(p)
  <2>1. /\ CallsOk(build', slots') /\ slots' \in [Leaf -> Seq(Seq(Nat))]
        /\ DOMAIN build' = DOMAIN build
    BY <1>2, <1>3, <1>5, RowTaken, EndTaken
  <2>2. phase' = "build"
    BY <1>2, <1>5 DEF BuildRow, BuildEnd
  <2>3. CallsOk(build, slots)'
    BY <1>2, <2>1, CallsNext
  <2>4. /\ \A l \in Leaf : Len(slots'[l]) <= 1
        /\ \A q \in DOMAIN build' : build'[q].pos \in build'[q].from .. build'[q].to
    BY <2>1, CallsWithin
  <2>. QED
    BY <1>2, <1>3, <1>4, <2>1, <2>2, <2>3, <2>4 DEF IBuild
<1>6. CASE BuildThrows(p)
  <2>1. CallThrows(build[p]) /\ phase' = "thrown" /\ UNCHANGED <<build, slots>>
    BY <1>6 DEF BuildThrows
  <2>2. ~IsMonotone(top)
    BY <1>2, <1>3, <2>1, NoCallThrows
  <2>3. ~IsMonotone(top)'
    BY <1>2, <2>2 DEF IsMonotone, Key
  <2>. QED
    BY <1>2, <1>3, <1>4, <2>1, <2>3 DEF IBuild
<1>. QED
  BY <1>1, <1>5, <1>6

\* The calls start.
LEMMA SplitStep ==
  ASSUME IInput, ISearch, IBuild, Split
  PROVE  IBuild'
<1>1. /\ phase = "search" /\ search.size = 1 /\ build' = Calls(SplitIndex) /\ phase' = "build"
      /\ UNCHANGED input /\ slots' = slots /\ mode' = mode
  BY DEF Split, input
<1>2. /\ slots \in [Leaf -> Seq(Seq(Nat))] /\ mode # "multi_layer"
      /\ \A l \in Leaf : slots[l] = <<>> /\ Len(slots[l]) <= 1
  BY <1>1 DEF IBuild
<1>3. CallsOk(build', slots') /\ DOMAIN build' \subseteq Part
  BY <1>1, <1>2, SplitCalls
<1>4. CallsOk(build, slots)'
  BY <1>1, <1>3, CallsNext
<1>5. \A q \in DOMAIN build' : build'[q].pos \in build'[q].from .. build'[q].to
  BY <1>3, CallsWithin
<1>6. Leaf' = Leaf
  BY DEF Leaf
<1>. QED
  BY <1>1, <1>2, <1>3, <1>4, <1>5, <1>6 DEF IBuild

\* All leaves are trained: by the calls, or on their buckets.
LEMMA TrainedStep ==
  ASSUME IInput, IBuild, IPartition, JoinHalves \/ TrainLeaves
  PROVE  IBuild'
<1>1. /\ UNCHANGED <<input, build>> /\ phase' = "correct"
      /\ mode' = mode /\ rows' = rows /\ top' = top
  BY DEF JoinHalves, TrainLeaves, input
<1>2. /\ DOMAIN build \subseteq Part
      /\ \A p \in DOMAIN build : build[p].pos \in build[p].from .. build[p].to
  BY DEF IBuild
<1>3. /\ slots' \in [Leaf -> Seq(Seq(Nat))]
      /\ \A l \in Leaf : Len(slots'[l]) = 1
      /\ IsMonotone(top) \/ mode = "multi_layer" => \A i \in Rows : InSlot(i, slots')
      /\ mode = "multi_layer" => \A i \in Rows : top[rows[i]] \in Leaf
  <2>1. CASE JoinHalves
    <3>1. phase = "build" /\ slots' = slots /\ \A p \in DOMAIN build : build[p].done
      BY <2>1 DEF JoinHalves
    <3>2. CallsOk(build, slots) /\ slots \in [Leaf -> Seq(Seq(Nat))] /\ mode # "multi_layer"
      BY <3>1 DEF IBuild
    <3>3. /\ \A l \in Leaf : Len(slots[l]) = 1
          /\ IsMonotone(top) => \A i \in Rows : InSlot(i, slots)
      BY <3>1, <3>2, AllTrained
    <3>. QED
      BY <3>1, <3>2, <3>3
  <2>2. CASE TrainLeaves
    <3>1. phase = "partition"
      BY <2>2 DEF TrainLeaves, LayerDone
    <3>2. mode = "multi_layer"
      BY <3>1 DEF IBuild
    <3>. QED
      BY <2>2, <3>2, LeavesDealt
  <2>. QED
    BY <2>1, <2>2
<1>4. Leaf' = Leaf /\ Rows' = Rows
  BY <1>1 DEF Leaf, Rows
<1>5. IsMonotone(top)' <=> IsMonotone(top)
  BY <1>1 DEF IsMonotone, Key
<1>6. (\A i \in Rows : InSlot(i, slots))' <=> \A i \in Rows : InSlot(i, slots')
  BY <1>1, <1>4 DEF InSlot, Holds, LeafOf, Lesser
<1>7. (IsMonotone(top) \/ mode = "multi_layer" => \A i \in Rows : InSlot(i, slots))'
  BY <1>1, <1>3, <1>5, <1>6
<1>8. /\ slots' \in [Leaf' -> Seq(Seq(Nat))] /\ \A l \in Leaf' : Len(slots'[l]) = 1
      /\ mode' = "multi_layer" => \A i \in Rows' : top'[rows'[i]] \in Leaf'
  BY <1>1, <1>3, <1>4
<1>11. ASSUME NEW l \in Leaf' PROVE Len(slots'[l]) <= 1
  <2>1. Len(slots'[l]) = 1
    BY <1>8
  <2>. QED
    BY <2>1
<1>9. /\ DOMAIN build' \subseteq Part
      /\ \A p \in DOMAIN build' : build'[p].pos \in build'[p].from .. build'[p].to
  BY <1>1, <1>2
<1>10. /\ phase' \in {"correct", "errors", "trained"}
       /\ phase' \notin {"search", "build"} /\ phase' # "partition"
       /\ phase' \notin {"search", "partition"} /\ phase' # "build" /\ phase' # "thrown"
  BY <1>1
<1>. QED
  BY <1>7, <1>8, <1>9, <1>10, <1>11 DEF IBuild

\* The rows that are dealt out, or refused, leave the leaves alone.
LEMMA DealtStep ==
  ASSUME IInput, IBuild, PartitionRow \/ NextPartition \/ NextLayer \/ PartitionThrows
  PROVE  IBuild'
<1>1. /\ UNCHANGED <<input, build, slots>> /\ phase = "partition"
      /\ phase' \in {"partition", "thrown"}
  BY DEF PartitionRow, NextPartition, NextLayer, LayerDone, PartitionThrows
<1>2. mode = "multi_layer" /\ mode' = mode /\ Leaf' = Leaf
  BY <1>1 DEF IBuild, input, Leaf
<1>. QED
  BY <1>1, <1>2 DEF IBuild

\* No other step changes the leaves.
LEMMA BuildKept ==
  ASSUME IInput, ISearch, IBuild, IPartition, [IndexNext]_indexVars
  PROVE  IBuild'
<1>1. CASE Build
  BY <1>1, BuildStep
<1>2. CASE Split
  BY <1>2, SplitStep
<1>3. CASE JoinHalves \/ TrainLeaves
  BY <1>3, TrainedStep
<1>5. CASE PartitionRow \/ NextPartition \/ NextLayer \/ PartitionThrows
  BY <1>5, DealtStep
<1>4. CASE Probe \/ CorrectRow \/ Observe \/ ComputeError \/ Finished \/ UNCHANGED indexVars
  <2>1. /\ UNCHANGED <<build, slots>> /\ mode' = mode /\ rows' = rows /\ top' = top
        /\ \/ phase' = phase /\ phase # "build"
           \/ phase' = phase /\ UNCHANGED <<build, slots>>
           \/ phase \in {"correct", "errors"} /\ phase' \in {"errors", "trained"}
    BY <1>4 DEF Probe, CorrectRow, Observe, ObserveTrained, ObserveReplaced, ObserveEmpty,
      ComputeError, Finished, indexVars, input
  <2>2. Leaf' = Leaf /\ Rows' = Rows /\ UNCHANGED input
    BY <2>1, InputKept DEF Leaf, Rows
  <2>3. IsMonotone(top)' <=> IsMonotone(top)
    BY <2>1 DEF IsMonotone, Key
  <2>4. (\A i \in Rows : InSlot(i, slots))' <=> \A i \in Rows : InSlot(i, slots)
    BY <2>1, <2>2 DEF InSlot, Holds, LeafOf, Lesser
  <2>5. CallsOk(build, slots) => CallsOk(build, slots)'
    BY <2>1, <2>2, CallsNext
  <2>. QED
    BY <2>1, <2>2, <2>3, <2>4, <2>5 DEF IBuild
<1>. QED
  BY <1>1, <1>2, <1>3, <1>4, <1>5 DEF IndexNext, Partition

\* No leaf is trained before the first step.
LEMMA InitBuild ==
  ASSUME IndexInit
  PROVE  IBuild
<1>1. /\ phase = IF mode = "multi_layer" THEN "partition" ELSE "search"
      /\ build = <<>> /\ slots = [l \in Leaf |-> <<>>]
  BY DEF IndexInit
<1>2. DOMAIN build = {}
  BY <1>1
<1>3. <<>> \in Seq(Seq(Nat)) /\ Len(<<>>) = 0
  OBVIOUS
<1>4. slots \in [Leaf -> Seq(Seq(Nat))] /\ \A l \in Leaf : slots[l] = <<>> /\ Len(slots[l]) <= 1
  BY <1>1, <1>3
<1>. QED
  BY <1>1, <1>2, <1>4 DEF IBuild

-----------------------------------------------------------------------------
(* The theorems about the trained model.                                   *)

\* The observed leaf satisfies what the lemmas about errors ask for.
LEMMA TrainedFacts ==
  ASSUME IInput, ICorrect, IObserved, phase = "trained"
  PROVE  Passed /\ Observed(leaf)
BY DEF IObserved, Passed, Observed

\* The inductive invariant.
IIndex == IInput /\ ISearch /\ IBuild /\ IPartition /\ ICorrect /\ IObserved

\* Every reachable state has the input, the split, the calls, the records and
\* the observed leaf as the invariant says.
LEMMA IndexInvariant == IndexSpec => []IIndex
<1>1. IndexInit => IIndex
  BY InitInput, InitBuild, InitPartition, InitRecords DEF IIndex
<1>2. IIndex /\ [IndexNext]_indexVars => IIndex'
  BY InputKept, SearchKept, BuildKept, PartitionKept, CorrectKept, ObservedKept DEF IIndex
<1>. QED
  BY <1>1, <1>2, PTL DEF IndexSpec

\* The error of a leaf covers the search for every key of the data routed to
\* it and, with a monotone routing, for every key up to the last.
THEOREM LeafErrorCoversLookups == IndexSpec => []ErrorsBound
<1>1. IIndex => ErrorsBound
  BY TrainedFacts, LeafBounded DEF IIndex, ErrorsBound
<1>. QED
  BY <1>1, IndexInvariant, PTL

\* The lookup of a key over a spline ends on the line of its first row.
THEOREM SplineLookupsFindLine == IndexSpec => []LookupFindsLine
<1>1. IIndex => LookupFindsLine
  BY TrainedFacts, LookupExact DEF IIndex, LookupFindsLine, FirstOfKey
<1>. QED
  BY <1>1, IndexInvariant, PTL

\* A replaced empty leaf predicts the lower bound of every key it is asked for.
THEOREM ReplacedLeavesAreExact == IndexSpec => []EmptyLeavesExact
<1>1. ASSUME IInput, ICorrect, IObserved, phase = "trained", replaced, IsMonotone(top),
             NEW q \in Key, q <= LastKey, LeafOf(q) = leaf
      PROVE  model[q] = LowerBound(q)
  <2>1. Passed /\ ~HasRows(leaf) /\ model = Constantly(next_index(leaf)) /\ leaf \in Leaf
    BY <1>1, TrainedFacts DEF IObserved
  <2>2. ~\E i \in Rows : rows[i] = q
    BY <1>1, <2>1, EndFacts
  <2>3. Gap(q, LowerBound(q))
    BY <1>1, <2>1, <2>2, InGap
  <2>4. next_index(leaf) = LowerBound(q)
    BY <1>1, <2>1, <2>3, GapEmpty
  <2>. QED
    BY <2>1, <2>4 DEF Constantly
<1>2. IIndex => EmptyLeavesExact
  BY <1>1 DEF IIndex, EmptyLeavesExact
<1>. QED
  BY <1>2, IndexInvariant, PTL

\* Keys, rows, indexes and predictions stay in range.
THEOREM IndexTypeCorrect == IndexSpec => []IndexTypeOK
<1>1. ASSUME IIndex PROVE IndexTypeOK
  <2>1. IInput /\ ISearch /\ IBuild /\ IPartition /\ ICorrect /\ IObserved
    BY <1>1 DEF IIndex
  <2>2. NumRows \in Nat
    BY <2>1, InputFacts
  <2>3. /\ search.base \in 0 .. NumRows - 1 /\ search.size \in 1 .. NumRows
        /\ search.base + search.size <= NumRows
    BY <2>1, <2>2 DEF ISearch
  <2>4. lb.pos \in 0 .. NumRows /\ lb.target \in Leaf
    BY <2>1 DEF ICorrect
  <2>5. partition.layer \in {1, 2} /\ partition.pos \in 0 .. Len(InHand)
    <3>1. /\ partition.layer \in {1, 2} /\ partition.pos \in Nat /\ partition.pos <= Len(InHand)
          /\ InHand \in Seq(Rows)
      BY <2>1, LayerFacts DEF IPartition, LayerOk, InHand
    <3>2. Len(InHand) \in Nat
      BY <3>1, LenProperties
    <3>. QED
      BY <3>1, <3>2
  <2>. QED
    BY <2>1, <2>3, <2>4, <2>5 DEF IndexTypeOK, IInput, IBuild, IObserved
<1>. QED
  BY <1>1, IndexInvariant, PTL

\* No leaf is trained twice and none is left out, and every row is in the data
\* of the leaf that lookups of its key use: always over several layers, where
\* the layers never route a lookup of a row past the last leaf, and with a
\* monotone top model over two, whose training then throws nothing.
THEOREM RowsAreTrainedByTheirLeaf == IndexSpec => []RowsReachTheirLeaf
<1>1. ASSUME IIndex, IndexTypeOK PROVE RowsReachTheirLeaf
  <2>1. IInput /\ IBuild
    BY <1>1 DEF IIndex
  <2>2. \A l \in Leaf : Len(slots[l]) <= 1
    BY <2>1 DEF IBuild
  <2>3. ASSUME phase \in {"correct", "errors", "trained"}, NEW l \in Leaf PROVE slots[l] # <<>>
    <3>1. Len(slots[l]) = 1 /\ Len(<<>>) = 0
      BY <2>1, <2>3 DEF IBuild
    <3>. QED
      BY <3>1
  <2>4. ASSUME IsMonotone(top) \/ mode = "multi_layer"
        PROVE  phase \in {"correct", "errors", "trained"} =>
                    \A i \in Rows : \E j \in DOMAIN slots[LeafOf(rows[i])][1] :
                       slots[LeafOf(rows[i])][1][j] = i
    BY <2>1, <2>4 DEF IBuild, InSlot, Holds
  <2>5. IsMonotone(top) /\ mode # "multi_layer" => phase # "thrown"
    BY <2>1 DEF IBuild
  <2>6. phase \in {"correct", "errors", "trained"} /\ mode = "multi_layer" =>
          \A i \in Rows : top[rows[i]] \in Leaf
    BY <2>1 DEF IBuild
  <2>. QED
    BY <1>1, <2>2, <2>3, <2>4, <2>5, <2>6 DEF RowsReachTheirLeaf
<1>. QED
  BY <1>1, IndexInvariant, IndexTypeCorrect, PTL

=============================================================================
