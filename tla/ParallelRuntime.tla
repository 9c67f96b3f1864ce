--------------------------- MODULE ParallelRuntime ---------------------------
(***************************************************************************)
(* rm_model's thread pool and the three ways to use it: TaskGroup (leaf    *)
(* training and model selection), parallel_for, and join, which runs two   *)
(* halves of a training on two threads that share the pool.                *)
(*                                                                         *)
(* A critical section of a mutex is one action; a thread that waits on a   *)
(* condition variable is asleep until a notification, and then tests its   *)
(* predicate again.  Tasks do not throw: an exception in a pool thread     *)
(* terminates the process.                                                 *)
(***************************************************************************)
EXTENDS Naturals, Sequences, FiniteSets

CONSTANTS
  Main,        \* the training thread
  Helper,      \* the thread join() starts for the right half
  Worker,      \* pool threads
  MaxTasks,    \* bound on the tasks of one operation
  MaxInflight, \* TaskGroup::max_inflight_
  NoTask

Thread == {Main, Helper} \cup Worker
TaskId == 1 .. MaxTasks
Task   == [owner : Thread, id : TaskId]

ASSUME ConstantsAssumption ==
  /\ Main # Helper
  /\ {Main, Helper} \cap Worker = {}
  /\ Worker # {} /\ IsFiniteSet(Worker)
  /\ MaxTasks \in Nat \ {0, 1}
  /\ MaxInflight \in Nat \ {0}
  /\ NoTask \notin Task

VARIABLES
  op,         \* op[t]: the operation t is in
  stage,      \* stage[t]: where it is in it
  planned,    \* how many tasks it will fork
  inflight,   \* TaskGroup::inflight_
  remaining,  \* TaskGroup::remaining_, or remaining of parallel_for
  active,     \* g_active_tasks
  queue,      \* ThreadPool::tasks_
  stop,       \* ThreadPool::stop_
  work,       \* what each pool thread does
  job,        \* the task it took
  forked,     \* forked[t]: the tasks enqueued by t's operation (history)
  runs        \* runs[t][i]: how often task i of it ran (history)

callers == <<op, stage, planned, inflight, remaining, active>>
pool    == <<queue, stop, work, job>>
vars    == <<callers, pool, forked, runs>>

Operation == {"none", "leaf", "measure", "for"}
Group     == {"leaf", "measure"}

TypeOK ==
  /\ op \in [Thread -> Operation]
  /\ stage \in [Thread -> {"idle", "fork", "full", "enqueue", "notify", "join",
                           "asleep", "resize"}]
  /\ planned \in [Thread -> 0 .. MaxTasks]
  /\ inflight \in [Thread -> 0 .. MaxInflight]
  /\ remaining \in [Thread -> 0 .. MaxTasks]
  /\ active \in 0 .. Cardinality(Thread)
  /\ queue \in Seq(Task)
  /\ stop \in BOOLEAN
  /\ work \in [Worker -> {"poll", "asleep", "run", "ran", "exited"}]
  /\ job \in [Worker -> Task \cup {NoTask}]
  /\ forked \in [Thread -> SUBSET TaskId]
  /\ runs \in [Thread -> [TaskId -> Nat]]

Init ==
  /\ op = [t \in Thread |-> "none"]
  /\ stage = [t \in Thread |-> "idle"]
  /\ planned = [t \in Thread |-> 0]
  /\ inflight = [t \in Thread |-> 0]
  /\ remaining = [t \in Thread |-> 0]
  /\ active = 0
  /\ queue = <<>>
  /\ stop = FALSE
  /\ work = [w \in Worker |-> "poll"]
  /\ job = [w \in Worker |-> NoTask]
  /\ forked = [t \in Thread |-> {}]
  /\ runs = [t \in Thread |-> [i \in TaskId |-> 0]]

Goto(t, s) == stage' = [stage EXCEPT ![t] = s]

-----------------------------------------------------------------------------
(* Opening an operation.                                                   *)

(* Variant: the region marker of the selector's and parallel_for's tasks   *)
(* is missing.                                                             *)
InRegionNever(w) == FALSE

(* g_in_parallel: ScopedParallelRegion in the task of the owner. *)
InRegion(w) == op[job[w].owner] \in {"measure", "for"}

(* Who may find itself in code that forks: the training thread outside any *)
(* operation, and a pool thread that trains a model for the selector.      *)
MayFork(t) ==
  IF t \in Worker
  THEN work[t] = "run" /\ op[t] = "none" /\ op[job[t].owner] = "measure"
       /\ ~InRegion(t)
  ELSE t = Main /\ stage[Main] = "idle" /\ stage[Helper] = "idle"

Open(T, kind, n) ==
  /\ op' = [t \in Thread |-> IF t \in T THEN kind ELSE op[t]]
  /\ stage' = [t \in Thread |-> IF t \in T THEN "fork" ELSE stage[t]]
  /\ planned' = [t \in Thread |-> IF t \in T THEN n ELSE planned[t]]
  /\ inflight' = [t \in Thread |-> IF t \in T THEN 0 ELSE inflight[t]]
  /\ remaining' = [t \in Thread |->
       IF t \notin T THEN remaining[t] ELSE IF kind = "for" THEN n ELSE 0]
  /\ active' = active + Cardinality(T)
  /\ forked' = [t \in Thread |-> IF t \in T THEN {} ELSE forked[t]]
  /\ runs' = [t \in Thread |-> IF t \in T THEN [i \in TaskId |-> 0] ELSE runs[t]]
  /\ UNCHANGED pool

(* A TaskGroup of n tasks: fewer than intended when the code that schedules *)
(* them throws, for the destructor waits like wait() does.                 *)
OpenGroup(t, kind, n) ==
  /\ MayFork(t)
  /\ Open({t}, kind, n)

(* join(): both halves train leaves. *)
OpenJoin(n) ==
  /\ MayFork(Main)
  /\ Open({Main, Helper}, "leaf", n)

(* parallel_for with one task runs inline. *)
OpenFor(n) ==
  /\ MayFork(Main)
  /\ n > 1
  /\ Open({Main}, "for", n)

-----------------------------------------------------------------------------
(* Forking: TaskGroup::schedule, the loop of parallel_for_impl, enqueue.   *)

HasMore(t) == stage[t] = "fork" /\ Cardinality(forked[t]) < planned[t]

Reserve(t) ==
  /\ HasMore(t)
  /\ op[t] \in Group
  /\ inflight[t] < MaxInflight
  /\ inflight' = [inflight EXCEPT ![t] = @ + 1]
  /\ remaining' = [remaining EXCEPT ![t] = @ + 1]
  /\ Goto(t, "enqueue")
  /\ UNCHANGED <<op, planned, active, pool, forked, runs>>

WaitForSlot(t) ==
  /\ HasMore(t)
  /\ op[t] \in Group
  /\ inflight[t] = MaxInflight
  /\ Goto(t, "full")
  /\ UNCHANGED <<op, planned, inflight, remaining, active, pool, forked, runs>>

(* enqueue() throws on a stopped pool. *)
Enqueue(t) ==
  /\ stage[t] = "enqueue" \/ (HasMore(t) /\ op[t] = "for")
  /\ ~stop
  /\ LET id == Cardinality(forked[t]) + 1
     IN  /\ queue' = Append(queue, [owner |-> t, id |-> id])
         /\ forked' = [forked EXCEPT ![t] = @ \cup {id}]
  /\ Goto(t, "notify")
  /\ UNCHANGED <<op, planned, inflight, remaining, active, stop, work, job, runs>>

(* cv_.notify_one(), after the pool's mutex is released. *)
NotifyOne(t) ==
  /\ stage[t] = "notify"
  /\ LET sleeping == {w \in Worker : work[w] = "asleep"}
     IN  IF sleeping = {} THEN UNCHANGED work
         ELSE \E w \in sleeping : work' = [work EXCEPT ![w] = "poll"]
  /\ Goto(t, "fork")
  /\ UNCHANGED <<op, planned, inflight, remaining, active, queue, stop, job,
                 forked, runs>>

-----------------------------------------------------------------------------
(* Joining: TaskGroup::wait, the end of parallel_for_impl.                 *)

AllForked(t) ==
  /\ stage[t] = "fork"
  /\ Cardinality(forked[t]) = planned[t]
  /\ Goto(t, "join")
  /\ UNCHANGED <<op, planned, inflight, remaining, active, pool, forked, runs>>

WaitForTasks(t) ==
  /\ stage[t] = "join"
  /\ remaining[t] > 0
  /\ Goto(t, "asleep")
  /\ UNCHANGED <<op, planned, inflight, remaining, active, pool, forked, runs>>

(* Variant: the caller returns once its tasks have left the queue. *)
CloseWhenTaken(t) ==
  /\ stage[t] = "join"
  /\ \A i \in DOMAIN queue : queue[i].owner # t
  /\ op' = [op EXCEPT ![t] = "none"]
  /\ Goto(t, "idle")
  /\ active' = active - 1
  /\ UNCHANGED <<planned, inflight, remaining, pool, forked, runs>>

Close(t) ==
  /\ stage[t] = "join"
  /\ remaining[t] = 0
  /\ op' = [op EXCEPT ![t] = "none"]
  /\ Goto(t, "idle")
  /\ active' = active - 1
  /\ UNCHANGED <<planned, inflight, remaining, pool, forked, runs>>

-----------------------------------------------------------------------------
(* Pool threads: worker_loop and the wrapped tasks.                        *)

(* Variant: the front task is copied, and popped by whoever runs it last. *)
TakeCopy(w) ==
  /\ work[w] = "poll"
  /\ queue # <<>>
  /\ job' = [job EXCEPT ![w] = Head(queue)]
  /\ work' = [work EXCEPT ![w] = "run"]
  /\ \E q \in {queue, Tail(queue)} : queue' = q
  /\ UNCHANGED <<callers, stop, forked, runs>>

Take(w) ==
  /\ work[w] = "poll"
  /\ queue # <<>>
  /\ job' = [job EXCEPT ![w] = Head(queue)]
  /\ work' = [work EXCEPT ![w] = "run"]
  /\ queue' = Tail(queue)
  /\ UNCHANGED <<callers, stop, forked, runs>>

Sleep(w) ==
  /\ work[w] = "poll"
  /\ queue = <<>>
  /\ ~stop
  /\ work' = [work EXCEPT ![w] = "asleep"]
  /\ UNCHANGED <<callers, queue, stop, job, forked, runs>>

Exit(w) ==
  /\ work[w] = "poll"
  /\ queue = <<>>
  /\ stop
  /\ work' = [work EXCEPT ![w] = "exited"]
  /\ UNCHANGED <<callers, queue, stop, job, forked, runs>>

Run(w) ==
  /\ work[w] = "run"
  /\ op[w] = "none"
  /\ runs' = [runs EXCEPT ![job[w].owner][job[w].id] = @ + 1]
  /\ work' = [work EXCEPT ![w] = "ran"]
  /\ UNCHANGED <<callers, queue, stop, job, forked>>

(* notify_all of a group, or notify_one of a parallel_for that is complete. *)
Wake(t, notified) ==
  stage' = [stage EXCEPT ![t] =
    CASE notified /\ @ = "full"   -> "fork"
      [] notified /\ @ = "asleep" -> "join"
      [] OTHER -> @]

Finish(w) ==
  LET t == job[w].owner
  IN  /\ work[w] = "ran"
      /\ remaining' = [remaining EXCEPT ![t] = @ - 1]
      /\ inflight' = [inflight EXCEPT ![t] = IF op[t] \in Group THEN @ - 1 ELSE @]
      /\ Wake(t, op[t] \in Group \/ remaining[t] = 1)
      /\ work' = [work EXCEPT ![w] = "poll"]
      /\ job' = [job EXCEPT ![w] = NoTask]
      /\ UNCHANGED <<op, planned, active, queue, stop, forked, runs>>

-----------------------------------------------------------------------------
(* set_thread_count, called by the training thread between trainings: the  *)
(* old pool is stopped and joined, and one of another size takes its place. *)

ResetPool ==
  /\ MayFork(Main)
  /\ active = 0
  /\ stop' = TRUE
  /\ work' = [w \in Worker |-> IF work[w] = "asleep" THEN "poll" ELSE work[w]]
  /\ Goto(Main, "resize")
  /\ UNCHANGED <<op, planned, inflight, remaining, active, queue, job, forked, runs>>

PoolReplaced(W) ==
  /\ stage[Main] = "resize"
  /\ \A w \in Worker : work[w] = "exited"
  /\ stop' = FALSE
  /\ work' = [w \in Worker |-> IF w \in W THEN "poll" ELSE "exited"]
  /\ Goto(Main, "idle")
  /\ UNCHANGED <<op, planned, inflight, remaining, active, queue, job, forked, runs>>

-----------------------------------------------------------------------------
CallerStep(t) ==
  \/ Reserve(t) \/ WaitForSlot(t) \/ Enqueue(t) \/ NotifyOne(t)
  \/ AllForked(t) \/ WaitForTasks(t) \/ Close(t)

WorkerStep(w) == Take(w) \/ Sleep(w) \/ Exit(w) \/ Run(w) \/ Finish(w)

Replace == \E W \in (SUBSET Worker) \ {{}} : PoolReplaced(W)

Next ==
  \/ \E t \in Thread, kind \in Group, n \in 0 .. MaxTasks : OpenGroup(t, kind, n)
  \/ \E n \in 0 .. MaxTasks : OpenJoin(n) \/ OpenFor(n)
  \/ \E t \in Thread : CallerStep(t)
  \/ \E w \in Worker : WorkerStep(w)
  \/ ResetPool
  \/ Replace

(* Threads that are not asleep run; no operation need be started. *)
Fairness ==
  /\ \A t \in Thread : WF_vars(CallerStep(t))
  /\ \A w \in Worker : WF_vars(WorkerStep(w))
  /\ WF_vars(Replace)

Spec == Init /\ [][Next]_vars /\ Fairness

-----------------------------------------------------------------------------
(* Correctness.                                                            *)

Queued(t) == {queue[i].id : i \in {j \in DOMAIN queue : queue[j].owner = t}}
Held(t)   == {job[w].id : w \in {v \in Worker : job[v] # NoTask /\ job[v].owner = t}}

(* The counters a caller waits on equal the tasks that are still to come,  *)
(* queued or running; g_active_tasks counts the open operations, so a pool *)
(* is stopped only when nothing can enqueue on it any more.                *)
CountersExact ==
  /\ TypeOK
  /\ \A t \in Thread :
       LET outstanding == Cardinality(Queued(t)) + Cardinality(Held(t))
       IN  IF op[t] = "for"
           THEN remaining[t] = outstanding + planned[t] - Cardinality(forked[t])
           ELSE /\ remaining[t] =
                     outstanding + IF stage[t] = "enqueue" THEN 1 ELSE 0
                /\ inflight[t] = remaining[t]
  /\ active = Cardinality({t \in Thread : op[t] # "none"})
  /\ stop => (active = 0 /\ queue = <<>>)

(* Tasks hold references to their caller's stack (the group, its mutex, the *)
(* leaf array): none is queued or held after its operation has returned.   *)
NoTaskOutlivesItsOperation ==
  \A t \in Thread : op[t] = "none" => Queued(t) = {} /\ Held(t) = {}

(* No lost wake-up and no deadlock: every operation returns, with two      *)
(* callers sharing the pool, any pool size, and models trained by the      *)
(* pool's own threads.                                                     *)
OperationsReturn == \A t \in Thread : op[t] # "none" ~> op[t] = "none"

(* Each task runs exactly once, and before its operation returns. *)
Join == INSTANCE ForkJoin
          WITH Caller <- Thread, open <- {t \in Thread : op[t] # "none"}

ForkJoinImplemented == Join!JoinSpec

=============================================================================
