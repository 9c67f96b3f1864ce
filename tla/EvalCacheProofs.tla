------------------------- MODULE EvalCacheProofs -------------------------
(***************************************************************************)
(* What the evaluation caches promise for any number of workers, keys and  *)
(* bytes, whatever the workers are interrupted by.                         *)
(*                                                                         *)
(* That no waiter is orphaned is not inductive.  A waiter holds the future *)
(* that was in the table when it looked, and the table forgets: so the     *)
(* invariant says of whom every future is (IBehind: a builder's while the  *)
(* entry is in flight, its builder's until set_value and a value from then *)
(* on), that a worker which builds an entry, or builds the nearest entry   *)
(* nested in it, has its promise in the table (IBuilders), and how the two *)
(* levels nest (IFlow): a thread that leaves a nearest entry comes back to *)
(* the rank entry whose promise it still owes.                             *)
(*                                                                         *)
(* The byte counters need IBuilders too: an entry is accounted once, by    *)
(* the one worker that builds it, in the tier it was inserted with, and an *)
(* eviction subtracts what was added.  The budget rests on the counters:   *)
(* an enforcement that stops early has met it, and one that evicts all it  *)
(* may leaves the protected entry alone, or nothing and then no bytes.     *)
(***************************************************************************)
EXTENDS EvalCache, SetsAndLists

\* The variables but memory: workers wait exactly while they hold a future.
IType ==
  /\ phase \in Tier
  /\ slot \in [Entry -> {"missing", "in_flight", "ready"}]
  /\ tier \in [Entry -> Tier]
  /\ behind \in [Entry -> Worker \cup {"none", "value"}]
  /\ pc \in [Worker -> Stage]
  /\ at \in [Worker -> Entry \cup {NoEntry}]
  /\ req \in [Worker -> RankKey \cup {NoEntry}]
  /\ future \in [Worker -> Worker \cup {"none", "value", "error"}]
  /\ \A w \in Worker : pc[w] = "wait" <=> future[w] # "none"

\* A worker at a rank entry evaluates that one; at a nearest entry it may be nested in
\* the build of the rank entry it evaluates.
IFlow ==
  \A w \in Worker :
    /\ pc[w] = "idle" => at[w] = NoEntry /\ req[w] = NoEntry
    /\ pc[w] # "idle" => at[w] \in Entry
    /\ at[w] \in RankKey => req[w] = at[w]
    /\ pc[w] = "rank_build" => at[w] \in RankKey

\* w builds e, or handles the failure, and the table has not heard of it yet.
Building(w, e) ==
  \/ at[w] = e /\ pc[w] \in {"build", "unwind"}
  \/ req[w] = e /\ (pc[w] = "rank_build" \/ at[w] \in NearestKey)

\* What is being built is in flight, with the promise of the one who builds it.
IBuilders ==
  \A w \in Worker, e \in Entry :
    Building(w, e) => slot[e] = "in_flight" /\ behind[e] = w

\* The future in the table is that of the builder, until it has a value.
BehindOf(e) ==
  /\ slot[e] = "missing" => behind[e] = "none"
  /\ slot[e] = "in_flight" => behind[e] \in Worker /\ Building(behind[e], e)
  /\ slot[e] = "ready" => \/ behind[e] = "value"
                          \/ /\ behind[e] \in Worker
                             /\ pc[behind[e]] = "set_value"
                             /\ at[behind[e]] = e
IBehind == \A e \in Entry : BehindOf(e)

\* The promise that somebody waits for is still to be resolved.
IWaiters ==
  \A w \in Worker : pc[w] = "wait" /\ future[w] \in Worker => Owes(future[w], at[w])

IInv == IType /\ IFlow /\ IBuilders /\ IBehind /\ IWaiters
-----------------------------------------------------------------------------
\* Empty tables and idle workers owe nothing.
LEMMA InitIInv == Init => IInv
  BY ConstantsAssumption
     DEF Init, IInv, IType, IFlow, IBuilders, Building, IBehind, BehindOf,
     IWaiters, Tier, Stage, Entry

-----------------------------------------------------------------------------
\* Where a worker goes when it is done with an entry: back to the rank build the entry
\* was nested in, or out of the cache.
LEMMA LeaveFacts ==
  ASSUME IType, IFlow, NEW w \in Worker, NEW rankStage \in {"build", "unwind"},
         pc[w] # "idle", Leave(w, rankStage)
  PROVE  /\ pc' \in [Worker -> Stage]
         /\ at' \in [Worker -> Entry \cup {NoEntry}]
         /\ req' \in [Worker -> RankKey \cup {NoEntry}]
         /\ \A v \in Worker : v # w => pc'[v] = pc[v] /\ at'[v] = at[v]
           /\ req'[v] = req[v]
         /\ \/ /\ at[w] \in NearestKey /\ req[w] \in RankKey
               /\ pc'[w] = rankStage /\ at'[w] = req[w] /\ req'[w] = req[w]
            \/ /\ at[w] \notin NearestKey \/ req[w] = NoEntry
               /\ pc'[w] = "idle" /\ at'[w] = NoEntry /\ req'[w] = NoEntry
<1>1. Worker # {} /\ RankKey \subseteq Entry /\ NearestKey \subseteq Entry
  BY DEF Entry
<1>2. CASE at[w] \in NearestKey /\ req[w] # NoEntry
  BY <1>1, <1>2 DEF Leave, Goto, IType, Stage
<1>3. CASE ~(at[w] \in NearestKey /\ req[w] # NoEntry)
  BY <1>1, <1>3 DEF Leave, Goto, IType, Stage
<1>. QED
  BY <1>2, <1>3

-----------------------------------------------------------------------------
\* Nobody but w moves.
Same(w) == \A v \in Worker : v # w =>
             /\ pc'[v] = pc[v] /\ at'[v] = at[v] /\ req'[v] = req[v]

\* Starting an evaluation, looking up, and failing leave the tables alone.
LEMMA CallerIInv ==
  ASSUME IInv, NEW w \in Worker,
         \/ \E n \in NearestKey : Prewarm(w, n)
         \/ \E k \in RankKey : Request(w, k)
         \/ HashDirectly(w) \/ UseNearest(w) \/ BuildFails(w)
  PROVE  IInv'
<1>1. IType /\ IFlow /\ IBuilders /\ IBehind /\ IWaiters
  BY DEF IInv
<1>2. UNCHANGED <<slot, tier, behind, future>> /\ phase' = phase
  BY DEF Prewarm, Request, HashDirectly, UseNearest, BuildFails, entries
<1>3. /\ pc' \in [Worker -> Stage] /\ at' \in [Worker -> Entry \cup {NoEntry}]
      /\ req' \in [Worker -> RankKey \cup {NoEntry}]
      /\ pc[w] # "wait" /\ pc'[w] # "wait"
      /\ Same(w)
      /\ \/ /\ pc[w] = "idle" /\ pc'[w] = "lookup" /\ req'[w] = req[w]
            /\ at'[w] \in NearestKey
         \/ /\ pc[w] = "idle" /\ pc'[w] = "lookup" /\ req'[w] = at'[w]
           /\ at'[w] \in RankKey
         \/ pc[w] = "rank_build" /\ pc'[w] = "build" /\ at'[w] = at[w] /\ req'[w] = req[w]
         \/ /\ pc[w] = "rank_build" /\ pc'[w] = "lookup" /\ req'[w] = req[w]
            /\ at'[w] \in NearestKey
         \/ pc[w] = "build" /\ pc'[w] = "unwind" /\ at'[w] = at[w] /\ req'[w] = req[w]
  <2>1. NearestKey \subseteq Entry /\ RankKey \subseteq Entry
    BY DEF Entry
  <2>2. CASE \E n \in NearestKey : Prewarm(w, n)
    BY <1>1, <2>1, <2>2 DEF Prewarm, AllIdle, IType, Stage, Same
  <2>3. CASE \E k \in RankKey : Request(w, k)
    BY <1>1, <2>1, <2>3 DEF Request, Goto, IType, Stage, Same
  <2>4. CASE HashDirectly(w)
    BY <1>1, <2>1, <2>4 DEF HashDirectly, Goto, IType, Stage, Same
  <2>5. CASE UseNearest(w)
    <3>1. req[w] \in RankKey /\ NearestOf[req[w]] \in NearestKey
      BY <1>1, <2>5, ConstantsAssumption DEF UseNearest, IFlow
    <3>. QED
      BY <1>1, <2>1, <2>5, <3>1 DEF UseNearest, Goto, IType, Stage, Same
  <2>6. CASE BuildFails(w)
    BY <1>1, <2>1, <2>6 DEF BuildFails, Goto, IType, Stage, Same
  <2>. QED
    BY <2>2, <2>3, <2>4, <2>5, <2>6
<1>4. IType'
  BY <1>1, <1>2, <1>3 DEF IType, Same
<1>5. IFlow'
  BY <1>1, <1>3, ConstantsAssumption DEF IFlow, Same, Entry
<1>6. \A v \in Worker, e \in Entry : Building(v, e)' <=> Building(v, e)
  BY <1>1, <1>3, ConstantsAssumption DEF Building, IFlow, Same, Entry
<1>7. IBuilders'
  BY <1>1, <1>2, <1>6 DEF IBuilders
<1>8. IBehind'
  BY <1>1, <1>2, <1>3, <1>6 DEF IBehind, BehindOf, Same, IType
<1>9. IWaiters'
  BY <1>1, <1>2, <1>3, ConstantsAssumption DEF IWaiters, Owes, IFlow, IType, Same, Entry
<1>. QED
  BY <1>4, <1>5, <1>7, <1>8, <1>9 DEF IInv

-----------------------------------------------------------------------------
\* A waiter takes the future of the builder, or of a value.
LEMMA HitIInv == ASSUME IInv, NEW w \in Worker, LookupHit(w) PROVE IInv'
<1>1. IType /\ IFlow /\ IBuilders /\ IBehind /\ IWaiters
  BY DEF IInv
<1>2. /\ pc[w] = "lookup" /\ pc'[w] = "wait" /\ at[w] \in Entry
      /\ future'[w] = behind[at[w]] /\ slot[at[w]] # "missing"
      /\ pc' \in [Worker -> Stage]
      /\ future' \in [Worker -> Worker \cup {"none", "value", "error"}]
      /\ UNCHANGED <<phase, slot, tier, behind, at, req>>
      /\ \A v \in Worker : v # w => pc'[v] = pc[v] /\ future'[v] = future[v]
  BY <1>1 DEF LookupHit, Goto, entries, IType, IFlow, Stage
<1>3. behind[at[w]] # "none"
  BY <1>1, <1>2, ConstantsAssumption DEF IBehind, BehindOf, IType
<1>4. IType' /\ IFlow'
  BY <1>1, <1>2, <1>3 DEF IType, IFlow
<1>5. \A v \in Worker, e \in Entry : Building(v, e)' <=> Building(v, e)
  BY <1>2 DEF Building
<1>6. IBuilders'
  BY <1>1, <1>2, <1>5 DEF IBuilders
<1>7. IBehind'
  BY <1>1, <1>2, <1>5 DEF IBehind, BehindOf, IType
<1>8. \A v \in Worker, e \in Entry : Owes(v, e)' <=> Owes(v, e)
  BY <1>2 DEF Owes
<1>9. IWaiters'
  <2>1. ASSUME NEW v \in Worker, pc'[v] = "wait", future'[v] \in Worker
        PROVE  at[v] \in Entry /\ Owes(future'[v], at[v])
    <3>1. CASE v = w
      BY <1>1, <1>2, <2>1, <3>1, ConstantsAssumption
         DEF IBehind, BehindOf, IType, Building, Owes
    <3>2. CASE v # w
      BY <1>1, <1>2, <2>1, <3>2 DEF IWaiters, IFlow
    <3>. QED
      BY <3>1, <3>2
  <2>. QED
    BY <1>2, <1>8, <2>1 DEF IWaiters
<1>. QED
  BY <1>4, <1>6, <1>7, <1>9 DEF IInv

\* A builder puts its promise in the table.
LEMMA MissIInv == ASSUME IInv, NEW w \in Worker, LookupMiss(w) PROVE IInv'
<1>1. IType /\ IFlow /\ IBuilders /\ IBehind /\ IWaiters
  BY DEF IInv
<1>2. PICK k \in Entry : k = at[w]
  BY <1>1 DEF LookupMiss, IFlow
<1>3. /\ pc[w] = "lookup" /\ slot[k] = "missing"
      /\ slot' = [slot EXCEPT ![k] = "in_flight"]
      /\ tier' = [tier EXCEPT ![k] = phase]
      /\ behind' = [behind EXCEPT ![k] = w]
      /\ pc' = [pc EXCEPT ![w] = IF k \in RankKey THEN "rank_build" ELSE "build"]
      /\ UNCHANGED <<phase, at, req, future>>
  BY <1>2 DEF LookupMiss, Goto
<1>4. /\ pc'[w] = IF k \in RankKey THEN "rank_build" ELSE "build"
      /\ pc' \in [Worker -> Stage]
      /\ slot'[k] = "in_flight" /\ behind'[k] = w
      /\ \A v \in Worker : v # w => pc'[v] = pc[v]
      /\ \A e \in Entry : e # k => slot'[e] = slot[e] /\ behind'[e] = behind[e]
  BY <1>1, <1>3 DEF IType, Stage
<1>5. IType' /\ IFlow'
  BY <1>1, <1>2, <1>3, <1>4 DEF IType, IFlow
<1>6. \A v \in Worker, e \in Entry :
        Building(v, e)' <=> Building(v, e) \/ (v = w /\ e = k)
  BY <1>1, <1>2, <1>3, <1>4, ConstantsAssumption DEF Building, IFlow, Entry
<1>7. \A v \in Worker : ~Building(v, k)
  BY <1>1, <1>3 DEF IBuilders
<1>8. IBuilders'
  BY <1>1, <1>4, <1>6, <1>7 DEF IBuilders
<1>9. IBehind'
  <2>1. ASSUME NEW e \in Entry PROVE BehindOf(e)'
    <3>1. CASE e = k
      BY <1>4, <1>6, <3>1 DEF BehindOf
    <3>2. CASE e # k
      BY <1>1, <1>3, <1>4, <1>6, <3>2 DEF IBehind, BehindOf, IType
    <3>. QED
      BY <3>1, <3>2
  <2>. QED
    BY <2>1 DEF IBehind
<1>10. IWaiters'
  BY <1>1, <1>2, <1>3, <1>4 DEF IWaiters, Owes, IType
<1>. QED
  BY <1>5, <1>8, <1>9, <1>10 DEF IInv

\* The builder's own entry is still in flight, and becomes ready.
LEMMA AccountIInv == ASSUME IInv, NEW w \in Worker, Account(w) PROVE IInv'
<1>1. IType /\ IFlow /\ IBuilders /\ IBehind /\ IWaiters
  BY DEF IInv
<1>2. PICK k \in Entry : k = at[w]
  BY <1>1 DEF Account, IFlow
<1>3. pc[w] = "build" /\ slot[k] = "in_flight" /\ behind[k] = w
  BY <1>1, <1>2 DEF Account, IBuilders, Building
<1>4. /\ slot' = [slot EXCEPT ![k] = "ready"]
      /\ tier' = [tier EXCEPT ![k] = phase]
      /\ pc' = [pc EXCEPT ![w] = "set_value"]
      /\ UNCHANGED <<phase, behind, at, req, future>>
  BY <1>2, <1>3 DEF Account, Goto
<1>5. /\ pc'[w] = "set_value" /\ pc' \in [Worker -> Stage]
      /\ slot'[k] = "ready"
      /\ \A v \in Worker : v # w => pc'[v] = pc[v]
      /\ \A e \in Entry : e # k => slot'[e] = slot[e]
  BY <1>1, <1>4 DEF IType, Stage
<1>6. IType' /\ IFlow'
  BY <1>1, <1>2, <1>3, <1>4, <1>5 DEF IType, IFlow
<1>7. \A v \in Worker, e \in Entry :
        Building(v, e)' <=> Building(v, e) /\ ~(v = w /\ e = k)
  <2>1. req[w] = k => at[w] \notin NearestKey
    BY <1>1, <1>2, ConstantsAssumption DEF IType
  <2>2. \A e \in Entry : Building(w, e)' <=> Building(w, e) /\ e # k
    BY <1>2, <1>3, <1>4, <1>5, <2>1 DEF Building
  <2>3. \A v \in Worker, e \in Entry : v # w => (Building(v, e)' <=> Building(v, e))
    BY <1>4, <1>5 DEF Building
  <2>. QED
    BY <2>2, <2>3
<1>8. IBuilders'
  BY <1>1, <1>3, <1>4, <1>5, <1>7 DEF IBuilders
<1>9. IBehind'
  <2>1. ASSUME NEW e \in Entry PROVE BehindOf(e)'
    <3>1. CASE e = k
      BY <1>2, <1>3, <1>4, <1>5, <3>1 DEF BehindOf
    <3>2. CASE e # k
      BY <1>1, <1>3, <1>4, <1>5, <1>7, <3>2 DEF IBehind, BehindOf, IType
    <3>. QED
      BY <3>1, <3>2
  <2>. QED
    BY <2>1 DEF IBehind
<1>10. IWaiters'
  BY <1>1, <1>2, <1>3, <1>4, <1>5 DEF IWaiters, Owes, IType
<1>. QED
  BY <1>6, <1>8, <1>9, <1>10 DEF IInv

\* A failed entry leaves the table; the promise is still owed to its waiters.
LEMMA UnwindIInv == ASSUME IInv, NEW w \in Worker, Unwind(w) PROVE IInv'
<1>1. IType /\ IFlow /\ IBuilders /\ IBehind /\ IWaiters
  BY DEF IInv
<1>2. PICK k \in Entry : k = at[w]
  BY <1>1 DEF Unwind, IFlow
<1>3. /\ pc[w] = "unwind" /\ slot[k] = "in_flight" /\ behind[k] = w
  BY <1>1, <1>2 DEF Unwind, IBuilders, Building
<1>4. /\ slot' = [slot EXCEPT ![k] = "missing"]
      /\ behind' = [behind EXCEPT ![k] = "none"]
      /\ pc' = [pc EXCEPT ![w] = "set_exception"]
      /\ UNCHANGED <<phase, tier, at, req, future>>
  BY <1>2 DEF Unwind, Goto
<1>5. /\ pc'[w] = "set_exception" /\ pc' \in [Worker -> Stage]
      /\ slot'[k] = "missing" /\ behind'[k] = "none"
      /\ \A v \in Worker : v # w => pc'[v] = pc[v]
      /\ \A e \in Entry : e # k => slot'[e] = slot[e] /\ behind'[e] = behind[e]
  BY <1>1, <1>4 DEF IType, Stage
<1>6. IType' /\ IFlow'
  BY <1>1, <1>2, <1>3, <1>4, <1>5 DEF IType, IFlow
<1>7. \A v \in Worker, e \in Entry :
        Building(v, e)' <=> Building(v, e) /\ ~(v = w /\ e = k)
  <2>1. req[w] = k => at[w] \notin NearestKey
    BY <1>1, <1>2, ConstantsAssumption DEF IType
  <2>2. \A e \in Entry : Building(w, e)' <=> Building(w, e) /\ e # k
    BY <1>2, <1>3, <1>4, <1>5, <2>1 DEF Building
  <2>3. \A v \in Worker, e \in Entry : v # w => (Building(v, e)' <=> Building(v, e))
    BY <1>4, <1>5 DEF Building
  <2>. QED
    BY <2>2, <2>3
<1>8. IBuilders'
  BY <1>1, <1>3, <1>4, <1>5, <1>7 DEF IBuilders
<1>9. IBehind'
  <2>1. ASSUME NEW e \in Entry PROVE BehindOf(e)'
    <3>1. CASE e = k
      BY <1>5, <3>1 DEF BehindOf
    <3>2. CASE e # k
      BY <1>1, <1>3, <1>4, <1>5, <1>7, <3>2 DEF IBehind, BehindOf, IType
    <3>. QED
      BY <3>1, <3>2
  <2>. QED
    BY <2>1 DEF IBehind
<1>10. IWaiters'
  BY <1>1, <1>2, <1>3, <1>4, <1>5 DEF IWaiters, Owes, IType
<1>. QED
  BY <1>6, <1>8, <1>9, <1>10 DEF IInv

-----------------------------------------------------------------------------
\* Delivering a promise frees those who wait for it at this entry, and only those.
LEMMA DeliverFacts ==
  ASSUME IType, NEW w \in Worker, NEW outcome \in {"value", "error"}, Deliver(w, outcome),
         pc[w] # "wait"
  PROVE  /\ future' \in [Worker -> Worker \cup {"none", "value", "error"}]
         /\ \A v \in Worker :
              IF pc[v] = "wait" /\ at[v] = at[w] /\ future[v] = w
              THEN future'[v] = outcome ELSE future'[v] = future[v]
  BY DEF Deliver, IType

\* The waiters of the entry get the value, and the table keeps it.
LEMMA SetValueIInv == ASSUME IInv, NEW w \in Worker, SetValue(w) PROVE IInv'
<1>1. IType /\ IFlow /\ IBuilders /\ IBehind /\ IWaiters
  BY DEF IInv
<1>2. PICK k \in Entry : k = at[w]
  BY <1>1 DEF SetValue, IFlow
<1>3. /\ pc[w] = "set_value"
      /\ behind' = [behind EXCEPT ![k] = IF @ = w THEN "value" ELSE @]
      /\ UNCHANGED <<phase, slot, tier>>
  BY <1>2 DEF SetValue
<1>4. /\ future' \in [Worker -> Worker \cup {"none", "value", "error"}]
      /\ \A v \in Worker :
           IF pc[v] = "wait" /\ at[v] = k /\ future[v] = w
           THEN future'[v] = "value" ELSE future'[v] = future[v]
  BY <1>1, <1>2, <1>3, DeliverFacts DEF SetValue
<1>5. /\ pc' \in [Worker -> Stage]
      /\ at' \in [Worker -> Entry \cup {NoEntry}]
      /\ req' \in [Worker -> RankKey \cup {NoEntry}]
      /\ Same(w)
      /\ \/ pc'[w] = "enforce" /\ at'[w] = k /\ req'[w] = req[w]
         \/ /\ k \in NearestKey /\ req[w] \in RankKey
            /\ pc'[w] = "build" /\ at'[w] = req[w] /\ req'[w] = req[w]
         \/ /\ k \notin NearestKey \/ req[w] = NoEntry
            /\ pc'[w] = "idle" /\ at'[w] = NoEntry /\ req'[w] = NoEntry
  <2>1. CASE phase = "sampled"
    BY <1>1, <1>2, <2>1 DEF SetValue, Goto, Same, IType, Stage
  <2>2. CASE phase # "sampled"
    BY <1>1, <1>2, <1>3, <2>2, LeaveFacts DEF SetValue, Same
  <2>. QED
    BY <2>1, <2>2
<1>6. /\ behind' \in [Entry -> Worker \cup {"none", "value"}]
      /\ behind'[k] = IF behind[k] = w THEN "value" ELSE behind[k]
      /\ \A e \in Entry : e # k => behind'[e] = behind[e]
  BY <1>1, <1>3 DEF IType
<1>7. IType'
  <2>1. \A v \in Worker : pc'[v] = "wait" <=> future'[v] # "none"
    BY <1>1, <1>3, <1>4, <1>5 DEF IType, Same
  <2>. QED
    BY <1>1, <1>3, <1>4, <1>5, <1>6, <2>1 DEF IType
<1>8. IFlow'
  <2>1. ASSUME NEW v \in Worker
        PROVE  /\ pc'[v] = "idle" => at'[v] = NoEntry /\ req'[v] = NoEntry
               /\ pc'[v] # "idle" => at'[v] \in Entry
               /\ at'[v] \in RankKey => req'[v] = at'[v]
               /\ pc'[v] = "rank_build" => at'[v] \in RankKey
    BY <1>1, <1>2, <1>3, <1>5, ConstantsAssumption DEF IFlow, Same, Entry
  <2>. QED
    BY <2>1 DEF IFlow
<1>9. \A v \in Worker, e \in Entry : Building(v, e)' <=> Building(v, e)
  <2>1. \A e \in Entry : Building(w, e)' <=> Building(w, e)
    BY <1>1, <1>2, <1>3, <1>5, ConstantsAssumption DEF Building, IFlow, Entry, IType
  <2>2. \A v \in Worker, e \in Entry : v # w => (Building(v, e)' <=> Building(v, e))
    BY <1>5 DEF Building, Same
  <2>. QED
    BY <2>1, <2>2
<1>10. ~Building(w, k)
  BY <1>1, <1>2, <1>3, ConstantsAssumption DEF Building, IType
<1>11. slot[k] = "in_flight" => behind[k] # w
  BY <1>1, <1>10 DEF IBehind, BehindOf
<1>12. IBuilders'
  BY <1>1, <1>3, <1>6, <1>9, <1>11 DEF IBuilders
<1>13. IBehind'
  <2>1. ASSUME NEW e \in Entry PROVE BehindOf(e)'
    <3>1. BehindOf(e)
      BY <1>1 DEF IBehind
    <3>2. CASE e = k
      BY <1>3, <1>5, <1>6, <1>9, <1>11, <3>1, <3>2, ConstantsAssumption DEF BehindOf, Same
    <3>3. CASE e # k
      BY <1>2, <1>3, <1>5, <1>6, <1>9, <3>1, <3>3 DEF BehindOf, Same
    <3>. QED
      BY <3>2, <3>3
  <2>. QED
    BY <2>1 DEF IBehind
<1>14. IWaiters'
  <2>1. ASSUME NEW v \in Worker, pc'[v] = "wait", future'[v] \in Worker
        PROVE  Owes(future[v], at[v])'
    <3>1. /\ v # w /\ pc[v] = "wait" /\ at'[v] = at[v] /\ at[v] \in Entry
          /\ future'[v] = future[v] /\ future[v] \in Worker
          /\ (future[v] = w => at[v] # k)
      BY <1>1, <1>3, <1>4, <1>5, <2>1, ConstantsAssumption DEF Same, IFlow
    <3>2. Owes(future[v], at[v])
      BY <1>1, <3>1 DEF IWaiters
    <3>3. CASE future[v] = w
      BY <1>2, <1>3, <1>5, <3>1, <3>2, <3>3, ConstantsAssumption DEF Owes
    <3>4. CASE future[v] # w
      BY <1>5, <3>1, <3>2, <3>4 DEF Owes, Same
    <3>. QED
      BY <3>3, <3>4
  <2>. QED
    BY <2>1 DEF IWaiters
<1>. QED
  BY <1>7, <1>8, <1>12, <1>13, <1>14 DEF IInv

-----------------------------------------------------------------------------
\* A worker that leaves an entry: its evaluation is over, or it goes on with the rank
\* build the entry was for. What it builds it goes on building.
Leaves(w) ==
  /\ pc' \in [Worker -> Stage]
  /\ at' \in [Worker -> Entry \cup {NoEntry}]
  /\ req' \in [Worker -> RankKey \cup {NoEntry}]
  /\ Same(w)
  /\ \/ /\ at[w] \in NearestKey /\ req[w] \in RankKey
        /\ pc'[w] \in {"build", "unwind"} /\ at'[w] = req[w] /\ req'[w] = req[w]
     \/ /\ at[w] \notin NearestKey \/ req[w] = NoEntry
        /\ pc'[w] = "idle" /\ at'[w] = NoEntry /\ req'[w] = NoEntry

\* Leaving an entry that is settled changes nobody's builds: the rank entry that w goes
\* back to it was building all along.
LEMMA LeavesBuilding ==
  ASSUME IType, IFlow, NEW w \in Worker, pc[w] \in {"set_exception", "wait", "enforce"},
         Leaves(w)
  PROVE  /\ IFlow'
         /\ \A v \in Worker, e \in Entry : Building(v, e)' <=> Building(v, e)
<1>1. \A e \in Entry : Building(w, e)' <=> Building(w, e)
  BY ConstantsAssumption DEF Leaves, Building, IFlow, Entry, IType
<1>2. \A v \in Worker, e \in Entry : v # w => (Building(v, e)' <=> Building(v, e))
  BY DEF Leaves, Building, Same
<1>3. ASSUME NEW v \in Worker
      PROVE  /\ pc'[v] = "idle" => at'[v] = NoEntry /\ req'[v] = NoEntry
             /\ pc'[v] # "idle" => at'[v] \in Entry
             /\ at'[v] \in RankKey => req'[v] = at'[v]
             /\ pc'[v] = "rank_build" => at'[v] \in RankKey
  BY ConstantsAssumption DEF Leaves, IFlow, Same, Entry
<1>. QED
  BY <1>1, <1>2, <1>3 DEF IFlow

\* The waiters of the entry get the exception, and so does the builder.
LEMMA SetExceptionIInv == ASSUME IInv, NEW w \in Worker, SetException(w) PROVE IInv'
<1>1. IType /\ IFlow /\ IBuilders /\ IBehind /\ IWaiters
  BY DEF IInv
<1>2. PICK k \in Entry : k = at[w]
  BY <1>1 DEF SetException, IFlow
<1>3. pc[w] = "set_exception" /\ UNCHANGED <<phase, slot, tier, behind>>
  BY DEF SetException, entries
<1>4. /\ future' \in [Worker -> Worker \cup {"none", "value", "error"}]
      /\ \A v \in Worker :
           IF pc[v] = "wait" /\ at[v] = k /\ future[v] = w
           THEN future'[v] = "error" ELSE future'[v] = future[v]
  BY <1>1, <1>2, <1>3, DeliverFacts DEF SetException
<1>5. Leaves(w)
  BY <1>1, <1>3, LeaveFacts DEF SetException, Same, Leaves
<1>6. IFlow' /\ \A v \in Worker, e \in Entry : Building(v, e)' <=> Building(v, e)
  BY <1>1, <1>3, <1>5, LeavesBuilding
<1>7. IType'
  <2>1. \A v \in Worker : pc'[v] = "wait" <=> future'[v] # "none"
    BY <1>1, <1>3, <1>4, <1>5 DEF IType, Leaves, Same
  <2>. QED
    BY <1>1, <1>3, <1>4, <1>5, <2>1 DEF IType, Leaves
<1>8. IBuilders'
  BY <1>1, <1>3, <1>6 DEF IBuilders
<1>9. IBehind'
  BY <1>1, <1>3, <1>5, <1>6 DEF IBehind, BehindOf, Leaves, Same, IType
<1>10. IWaiters'
  <2>1. ASSUME NEW v \in Worker, pc'[v] = "wait", future'[v] \in Worker
        PROVE  Owes(future[v], at[v])'
    <3>1. /\ v # w /\ pc[v] = "wait" /\ at'[v] = at[v] /\ at[v] \in Entry
          /\ future'[v] = future[v] /\ future[v] \in Worker
          /\ (future[v] = w => at[v] # k)
      BY <1>1, <1>3, <1>4, <1>5, <2>1, ConstantsAssumption DEF Leaves, Same, IFlow
    <3>2. Owes(future[v], at[v])
      BY <1>1, <3>1 DEF IWaiters
    <3>3. CASE future[v] = w
      BY <1>2, <1>3, <1>5, <3>1, <3>2, <3>3, ConstantsAssumption DEF Owes, Leaves
    <3>4. CASE future[v] # w
      BY <1>5, <3>1, <3>2, <3>4 DEF Owes, Leaves, Same
    <3>. QED
      BY <3>3, <3>4
  <2>. QED
    BY <2>1 DEF IWaiters
<1>. QED
  BY <1>6, <1>7, <1>8, <1>9, <1>10 DEF IInv

\* A waiter goes on with what it got; whoever waits for it waits on.
LEMMA GetFutureIInv == ASSUME IInv, NEW w \in Worker, GetFuture(w) PROVE IInv'
<1>1. IType /\ IFlow /\ IBuilders /\ IBehind /\ IWaiters
  BY DEF IInv
<1>2. /\ pc[w] = "wait" /\ UNCHANGED <<phase, slot, tier, behind>>
      /\ future' = [future EXCEPT ![w] = "none"]
  BY DEF GetFuture, entries
<1>3. Leaves(w)
  BY <1>1, <1>2, LeaveFacts DEF GetFuture, Same, Leaves
<1>4. IFlow' /\ \A v \in Worker, e \in Entry : Building(v, e)' <=> Building(v, e)
  BY <1>1, <1>2, <1>3, LeavesBuilding
<1>5. IType'
  BY <1>1, <1>2, <1>3 DEF IType, Leaves, Same
<1>6. IBuilders'
  BY <1>1, <1>2, <1>4 DEF IBuilders
<1>7. IBehind'
  BY <1>1, <1>2, <1>3, <1>4 DEF IBehind, BehindOf, Leaves, Same, IType
<1>8. IWaiters'
  <2>1. ASSUME NEW v \in Worker, pc'[v] = "wait", future'[v] \in Worker
        PROVE  Owes(future[v], at[v])'
    <3>1. /\ v # w /\ pc[v] = "wait" /\ at'[v] = at[v] /\ at[v] \in Entry
          /\ future'[v] = future[v] /\ future[v] \in Worker
      BY <1>1, <1>2, <1>3, <2>1 DEF Leaves, Same, IFlow, IType
    <3>2. Owes(future[v], at[v])
      BY <1>1, <3>1 DEF IWaiters
    <3>3. CASE future[v] = w
      BY <1>2, <1>3, <3>1, <3>2, <3>3, ConstantsAssumption DEF Owes, Leaves
    <3>4. CASE future[v] # w
      BY <1>3, <3>1, <3>2, <3>4 DEF Owes, Leaves, Same
    <3>. QED
      BY <3>3, <3>4
  <2>. QED
    BY <2>1 DEF IWaiters
<1>. QED
  BY <1>4, <1>5, <1>6, <1>7, <1>8 DEF IInv

-----------------------------------------------------------------------------
\* Evicting ready entries takes nothing from a builder, and no waiter its promise.
LEMMA EvictIInv ==
  ASSUME IType, IBuilders, IBehind,
         NEW V \in SUBSET Entry, \A e \in V : slot[e] = "ready", Evict(V),
         \A v \in Worker, e \in Entry : Building(v, e)' <=> Building(v, e),
         \A v \in Worker : pc[v] = "set_value" => pc'[v] = "set_value" /\ at'[v] = at[v]
  PROVE  /\ slot' \in [Entry -> {"missing", "in_flight", "ready"}]
         /\ behind' \in [Entry -> Worker \cup {"none", "value"}]
         /\ tier' = tier
         /\ IBuilders' /\ IBehind'
<1>1. /\ slot' = [e \in Entry |-> IF e \in V THEN "missing" ELSE slot[e]]
      /\ behind' = [e \in Entry |-> IF e \in V THEN "none" ELSE behind[e]]
      /\ tier' = tier
  BY DEF Evict
<1>2. IBuilders'
  BY <1>1 DEF IBuilders
<1>3. IBehind'
  <2>1. ASSUME NEW e \in Entry PROVE BehindOf(e)'
    BY <1>1 DEF IBehind, BehindOf, IType
  <2>. QED
    BY <2>1 DEF IBehind
<1>. QED
  BY <1>1, <1>2, <1>3 DEF IType

\* Enforcing the budget evicts ready entries only: no build in flight loses its promise.
LEMMA EnforceIInv == ASSUME IInv, NEW w \in Worker, Enforce(w) PROVE IInv'
<1>1. IType /\ IFlow /\ IBuilders /\ IBehind /\ IWaiters
  BY DEF IInv
<1>2. pc[w] = "enforce" /\ UNCHANGED <<phase, future>>
  BY DEF Enforce
<1>3. PICK V : V \in VictimSets(TableOf(at[w]), {at[w]}) /\ Evict(V)
  BY DEF Enforce
<1>4. V \in SUBSET Entry /\ \A e \in V : slot[e] = "ready"
  BY <1>3 DEF VictimSets, EvictableIn
<1>5. Leaves(w)
  BY <1>1, <1>2, LeaveFacts DEF Enforce, Same, Leaves
<1>6. IFlow' /\ \A v \in Worker, e \in Entry : Building(v, e)' <=> Building(v, e)
  BY <1>1, <1>2, <1>5, LeavesBuilding
<1>7. \A v \in Worker : pc[v] = "set_value" => pc'[v] = "set_value" /\ at'[v] = at[v]
  BY <1>2, <1>5 DEF Leaves, Same
<1>8. /\ slot' \in [Entry -> {"missing", "in_flight", "ready"}]
      /\ behind' \in [Entry -> Worker \cup {"none", "value"}]
      /\ tier' = tier
      /\ IBuilders' /\ IBehind'
  BY <1>1, <1>3, <1>4, <1>6, <1>7, EvictIInv
<1>9. IType'
  BY <1>1, <1>2, <1>5, <1>8 DEF IType, Leaves, Same
<1>10. IWaiters'
  <2>1. ASSUME NEW v \in Worker, pc'[v] = "wait", future'[v] \in Worker
        PROVE  Owes(future[v], at[v])'
    <3>1. /\ v # w /\ pc[v] = "wait" /\ at'[v] = at[v] /\ at[v] \in Entry
          /\ future'[v] = future[v] /\ future[v] \in Worker
      BY <1>1, <1>2, <1>5, <2>1 DEF Leaves, Same, IFlow, IType
    <3>2. Owes(future[v], at[v])
      BY <1>1, <3>1 DEF IWaiters
    <3>3. CASE future[v] = w
      BY <1>2, <1>5, <3>1, <3>2, <3>3, ConstantsAssumption DEF Owes, Leaves
    <3>4. CASE future[v] # w
      BY <1>5, <3>1, <3>2, <3>4 DEF Owes, Leaves, Same
    <3>. QED
      BY <3>3, <3>4
  <2>. QED
    BY <2>1 DEF IWaiters
<1>. QED
  BY <1>6, <1>8, <1>9, <1>10 DEF IInv

\* Nor does the start of a phase, which evicts when no worker runs.
LEMMA PrepareIInv == ASSUME IInv, NEW p \in Tier, PreparePhase(p) PROVE IInv'
<1>1. IType /\ IFlow /\ IBuilders /\ IBehind /\ IWaiters
  BY DEF IInv
<1>2. phase' = p /\ UNCHANGED <<pc, at, req, future>>
  BY DEF PreparePhase
<1>3. PICK V \in SUBSET Entry : Evict(V) /\ \A e \in V : slot[e] = "ready"
  <2>1. CASE p = "calibration"
    BY <2>1 DEF PreparePhase, EvictableIn
  <2>2. CASE p # "calibration"
    <3>1. PICK N \in VictimSets("nearest", {}), R \in VictimSets("rank", {}) :
            Evict(N \cup R)
      BY <2>2 DEF PreparePhase
    <3>2. N \cup R \in SUBSET Entry /\ \A e \in N \cup R : slot[e] = "ready"
      BY <3>1 DEF VictimSets, EvictableIn
    <3>. QED
      BY <3>1, <3>2
  <2>. QED
    BY <2>1, <2>2
<1>4. \A v \in Worker, e \in Entry : Building(v, e)' <=> Building(v, e)
  BY <1>2 DEF Building
<1>5. /\ slot' \in [Entry -> {"missing", "in_flight", "ready"}]
      /\ behind' \in [Entry -> Worker \cup {"none", "value"}]
      /\ tier' = tier
      /\ IBuilders' /\ IBehind'
  BY <1>1, <1>2, <1>3, <1>4, EvictIInv
<1>6. IType' /\ IFlow' /\ IWaiters'
  BY <1>1, <1>2, <1>5 DEF IType, IFlow, IWaiters, Owes
<1>. QED
  BY <1>5, <1>6 DEF IInv

-----------------------------------------------------------------------------
\* Every step of every worker, and every start of a phase, preserves the invariant.
LEMMA NextIInv == IInv /\ [Next]_vars => IInv'
<1>. SUFFICES ASSUME IInv, [Next]_vars PROVE IInv'
  OBVIOUS
<1>1. ASSUME NEW w \in Worker, Step(w) PROVE IInv'
  BY <1>1, HitIInv, MissIInv, CallerIInv, AccountIInv, UnwindIInv, SetValueIInv,
     EnforceIInv, SetExceptionIInv, GetFutureIInv
     DEF Step
<1>2. CASE UNCHANGED vars
  BY <1>2 DEF vars, entries, IInv, IType, IFlow, IBuilders, Building, IBehind, BehindOf,
     IWaiters, Owes
<1>. QED
  BY <1>1, <1>2, CallerIInv, PrepareIInv DEF Next

\* It holds of every reachable state.
LEMMA Invariance == Spec => []IInv
  BY InitIInv, NextIInv, PTL DEF Spec

\* Whoever waits, waits for a builder that still has its promise to resolve: failures,
\* evictions between accounting and set_value, and a second builder of the key orphan
\* no waiter (get_or_build_eval_base_rank_cache, get_or_build_eval_nearest_cache).
THEOREM WaitersAreServed == Spec => []WaitersNotOrphaned
<1>1. IInv => WaitersNotOrphaned
  BY ConstantsAssumption
     DEF IInv, IWaiters, IBehind, BehindOf, Building, Owes, WaitersNotOrphaned
<1>. QED
  BY <1>1, Invariance, PTL

-----------------------------------------------------------------------------
(* The bytes.                                                              *)

\* The entries that the counter of table t and tier c is to cover.
Ready(t, c) == {e \in Entry : TableOf(e) = t /\ slot[e] = "ready" /\ tier[e] = c}

\* The counters cover the ready entries, exactly.
IAccount ==
  /\ memory \in [Table -> [Tier -> Nat]]
  /\ \A t \in Table, c \in Tier : memory[t][c] = BytesOf(Ready(t, c))

\* Somebody will still enforce the budget of t: never in the calibration phase.
Enforcing(t) ==
  /\ phase = "sampled"
  /\ \E w \in Worker :
       pc[w] \in {"set_value", "enforce"} /\ at[w] \in Entry /\ TableOf(at[w]) = t

\* A sampled tier over its budget is down to one entry, or will still be enforced.
IBudget ==
  \A t \in Table :
    \/ memory[t]["sampled"] <= Budget[t]
    \/ Cardinality(EvictableIn(t)) = 1
    \/ Enforcing(t)

\* The bytes of a set of entries: those of a part and of the rest, and one entry's more.
LEMMA BytesFacts ==
  /\ BytesOf({}) = 0
  /\ \A S \in SUBSET Entry : BytesOf(S) \in Nat
  /\ \A S \in SUBSET Entry, e \in Entry : e \notin S =>
       BytesOf(S \cup {e}) = BytesOf(S) + Bytes[e]
  /\ \A S \in SUBSET Entry : \A V \in SUBSET S : BytesOf(S) = BytesOf(V) + BytesOf(S \ V)
<1>1. \A S \in SUBSET Entry : IsFiniteSet(S)
  BY ConstantsAssumption, FS_Subset
<1>2. \A e \in Entry : Bytes[e] \in Nat
  BY ConstantsAssumption
<1>3. \A S : BytesOf(S) = SumOf(Bytes, S)
  BY DEF BytesOf, SumOf
<1>4. BytesOf({}) = 0
  BY <1>3, SumEmpty
<1>5. \A S \in SUBSET Entry : BytesOf(S) \in Nat
  BY <1>1, <1>2, <1>3, SumNat
<1>6. ASSUME NEW S \in SUBSET Entry, NEW e \in Entry, e \notin S
      PROVE  BytesOf(S \cup {e}) = BytesOf(S) + Bytes[e]
  <2>1. S \cup {e} \in SUBSET Entry /\ (S \cup {e}) \ {e} = S
    BY <1>6
  <2>2. SumOf(Bytes, S \cup {e}) = Bytes[e] + SumOf(Bytes, (S \cup {e}) \ {e})
    BY <1>1, <1>2, <2>1, SumRemove
  <2>3. BytesOf(S \cup {e}) = Bytes[e] + BytesOf(S)
    BY <1>3, <2>1, <2>2
  <2>. QED
    BY <1>2, <1>5, <2>3
<1>7. ASSUME NEW S \in SUBSET Entry, NEW V \in SUBSET S
      PROVE  BytesOf(S) = BytesOf(V) + BytesOf(S \ V)
  <2>1. V \in SUBSET Entry /\ S \ V \in SUBSET Entry /\ V \cap (S \ V) = {}
    /\ V \cup (S \ V) = S
    OBVIOUS
  <2>2. \A x \in V \cup (S \ V) : Bytes[x] \in Nat
    BY <1>2, <2>1
  <2>3. SumOf(Bytes, V \cup (S \ V)) = SumOf(Bytes, V) + SumOf(Bytes, S \ V)
    BY <1>1, <2>1, <2>2, SumUnion
  <2>. QED
    BY <1>3, <2>1, <2>3
<1>. QED
  BY <1>4, <1>5, <1>6, <1>7

\* The accounting of a build adds the entry to one counter, and it was in none.
LEMMA AccountBytes == ASSUME IInv, IAccount, NEW w \in Worker, Account(w) PROVE IAccount'
<1>1. IType /\ IFlow /\ IBuilders
  BY DEF IInv
<1>2. PICK k \in Entry : k = at[w]
  BY <1>1 DEF Account, IFlow
<1>3. pc[w] = "build" /\ slot[k] = "in_flight"
  BY <1>1, <1>2 DEF Account, IBuilders, Building
<1>4. PICK u \in Table : u = TableOf(k)
  BY DEF TableOf, Table
<1>5. /\ slot' = [slot EXCEPT ![k] = "ready"] /\ tier' = [tier EXCEPT ![k] = phase]
      /\ memory' = [memory EXCEPT ![u][phase] = @ + Bytes[k]]
      /\ phase \in Tier
  BY <1>1, <1>2, <1>3, <1>4 DEF Account, IType
<1>6. Bytes[k] \in Nat
  BY ConstantsAssumption
<1>7. /\ memory' \in [Table -> [Tier -> Nat]]
      /\ memory'[u][phase] = memory[u][phase] + Bytes[k]
      /\ \A t \in Table, c \in Tier : t # u \/ c # phase => memory'[t][c] = memory[t][c]
  BY <1>5, <1>6 DEF IAccount
<1>8. ASSUME NEW t \in Table, NEW c \in Tier
      PROVE  Ready(t, c)' = Ready(t, c) \cup (IF t = u /\ c = phase THEN {k} ELSE {})
  BY <1>1, <1>3, <1>4, <1>5 DEF Ready, TableOf, IType
<1>9. k \notin Ready(u, phase) /\ Ready(u, phase) \in SUBSET Entry
  BY <1>3 DEF Ready
<1>10. ASSUME NEW t \in Table, NEW c \in Tier PROVE memory'[t][c] = BytesOf(Ready(t, c)')
  <2>1. memory[t][c] = BytesOf(Ready(t, c))
    BY DEF IAccount
  <2>2. CASE t = u /\ c = phase
    <3>1. Ready(t, c)' = Ready(u, phase) \cup {k}
      BY <1>8, <2>2
    <3>2. BytesOf(Ready(u, phase) \cup {k}) = BytesOf(Ready(u, phase)) + Bytes[k]
      BY <1>9, BytesFacts
    <3>. QED
      BY <1>7, <2>1, <2>2, <3>1, <3>2
  <2>3. CASE ~(t = u /\ c = phase)
    <3>1. Ready(t, c)' = Ready(t, c)
      BY <1>8, <2>3
    <3>. QED
      BY <1>7, <2>1, <2>3, <3>1
  <2>. QED
    BY <2>2, <2>3
<1>. QED
  BY <1>7, <1>10 DEF IAccount

\* Evicting ready sampled entries subtracts from each table what its victims weigh, and
\* the saturating subtraction never saturates.
LEMMA EvictBytes ==
  ASSUME IType, IAccount, NEW V \in SUBSET Entry,
         \A e \in V : slot[e] = "ready" /\ tier[e] = "sampled", Evict(V)
  PROVE  /\ IAccount'
         /\ \A t \in Table : EvictableIn(t)' = EvictableIn(t) \ V
         /\ \A t \in Table : V \cap EvictableIn(t) = {} => memory'[t] = memory[t]
         /\ \A t \in Table : V \subseteq EvictableIn(t) =>
              memory'[t]["sampled"] = Minus(memory[t]["sampled"], BytesOf(V))
<1>1. /\ slot' = [e \in Entry |-> IF e \in V THEN "missing" ELSE slot[e]]
      /\ tier' = tier
      /\ memory' = [t \in Table |-> [memory[t] EXCEPT !["sampled"] =
                      Minus(@, BytesOf({e \in V : TableOf(e) = t}))]]
  BY DEF Evict
<1>2. ASSUME NEW t \in Table
      PROVE  /\ Ready(t, "sampled")' = Ready(t, "sampled") \ {e \in V : TableOf(e) = t}
             /\ Ready(t, "calibration")' = Ready(t, "calibration")
             /\ {e \in V : TableOf(e) = t} \in SUBSET Ready(t, "sampled")
             /\ Ready(t, "sampled") \in SUBSET Entry
             /\ Ready(t, "sampled") = EvictableIn(t)
             /\ EvictableIn(t)' = EvictableIn(t) \ V
  BY <1>1 DEF Ready, IType, TableOf, EvictableIn
<1>3. ASSUME NEW t \in Table
      PROVE  /\ memory'[t]["sampled"] =
                  Minus(memory[t]["sampled"], BytesOf({e \in V : TableOf(e) = t}))
             /\ memory'[t]["calibration"] = memory[t]["calibration"]
             /\ DOMAIN memory'[t] = Tier
             /\ memory'[t] = [c \in Tier |-> memory'[t][c]]
  BY <1>1 DEF IAccount, Tier
<1>4. ASSUME NEW t \in Table
      PROVE  memory'[t]["sampled"] = BytesOf(Ready(t, "sampled")')
  <2>. DEFINE R == Ready(t, "sampled")
              U == {e \in V : TableOf(e) = t}
  <2>1. memory[t]["sampled"] = BytesOf(R)
    BY DEF IAccount, Tier
  <2>2. BytesOf(R) = BytesOf(U) + BytesOf(R \ U)
    BY <1>2, BytesFacts
  <2>3. BytesOf(U) \in Nat /\ BytesOf(R \ U) \in Nat
    BY <1>2, BytesFacts
  <2>4. PICK a \in Nat, b \in Nat : a = BytesOf(U) /\ b = BytesOf(R \ U)
    BY <2>3
  <2>5. memory[t]["sampled"] = a + b
    BY <2>1, <2>2, <2>4
  <2>6. memory'[t]["sampled"] = Minus(a + b, a)
    BY <1>3, <2>4, <2>5
  <2>7. Minus(a + b, a) = b
    BY DEF Minus
  <2>. QED
    BY <1>2, <2>4, <2>6, <2>7
<1>5. ASSUME NEW t \in Table
      PROVE  memory'[t]["calibration"] = BytesOf(Ready(t, "calibration")')
  BY <1>2, <1>3 DEF IAccount, Tier
<1>6. \A t \in Table : /\ Ready(t, "sampled")' \in SUBSET Entry
                     /\ Ready(t, "calibration")' \in SUBSET Entry
  BY DEF Ready
<1>7. \A t \in Table : memory'[t]["sampled"] \in Nat /\ memory'[t]["calibration"] \in Nat
  BY <1>4, <1>5, <1>6, BytesFacts
<1>8. IAccount'
  <2>1. \A t \in Table : memory'[t] \in [Tier -> Nat]
    BY <1>3, <1>7 DEF Tier
  <2>2. memory' \in [Table -> [Tier -> Nat]]
    BY <1>1, <2>1
  <2>3. ASSUME NEW t \in Table, NEW c \in Tier PROVE memory'[t][c] = BytesOf(Ready(t, c)')
    BY <1>4, <1>5 DEF Tier
  <2>. QED
    BY <2>2, <2>3 DEF IAccount
<1>9. ASSUME NEW t \in Table, V \subseteq EvictableIn(t)
      PROVE  memory'[t]["sampled"] = Minus(memory[t]["sampled"], BytesOf(V))
  <2>1. {e \in V : TableOf(e) = t} = V
    BY <1>9 DEF EvictableIn
  <2>. QED
    BY <1>3, <2>1
<1>10. ASSUME NEW t \in Table, V \cap EvictableIn(t) = {}
       PROVE  memory'[t] = memory[t]
  <2>1. {e \in V : TableOf(e) = t} = {}
    BY <1>10 DEF EvictableIn
  <2>2. memory'[t]["sampled"] = Minus(memory[t]["sampled"], 0)
    BY <1>3, <2>1, BytesFacts
  <2>3. memory[t]["sampled"] \in Nat
    BY DEF IAccount, Tier
  <2>4. memory'[t]["sampled"] = memory[t]["sampled"]
    BY <2>2, <2>3 DEF Minus
  <2>5. memory[t] = [c \in Tier |-> memory[t][c]]
    BY DEF IAccount
  <2>6. \A c \in Tier : memory'[t][c] = memory[t][c]
    BY <1>3, <2>4 DEF Tier
  <2>7. memory'[t] = [c \in Tier |-> memory'[t][c]]
    BY <1>3
  <2>. QED
    BY <2>5, <2>6, <2>7
<1>. QED
  BY <1>2, <1>8, <1>9, <1>10

\* What PreparePhase evicts.
LEMMA VictimsOfPhase ==
  ASSUME NEW p \in Tier, PreparePhase(p)
  PROVE  \E V \in SUBSET Entry :
           /\ Evict(V) /\ \A e \in V : slot[e] = "ready" /\ tier[e] = "sampled"
           /\ \A t \in Table :
                \/ EvictableIn(t) \subseteq V
                \/ Minus(memory[t]["sampled"], BytesOf({e \in V : TableOf(e) = t}))
                     <= Budget[t]
<1>1. CASE p = "calibration"
  <2>1. PICK V : V = EvictableIn("nearest") \cup EvictableIn("rank")
    OBVIOUS
  <2>2. Evict(V)
    BY <1>1, <2>1 DEF PreparePhase
  <2>3. /\ V \in SUBSET Entry /\ \A e \in V : slot[e] = "ready" /\ tier[e] = "sampled"
        /\ \A t \in Table : EvictableIn(t) \subseteq V
    BY <2>1 DEF EvictableIn, Table
  <2>. QED
    BY <2>2, <2>3
<1>2. CASE p # "calibration"
  <2>1. PICK N \in VictimSets("nearest", {}), R \in VictimSets("rank", {}) :
          Evict(N \cup R)
    BY <1>2 DEF PreparePhase
  <2>2. /\ N \subseteq EvictableIn("nearest") /\ R \subseteq EvictableIn("rank")
        /\ \/ EvictableIn("nearest") \subseteq N
           \/ Minus(memory["nearest"]["sampled"], BytesOf(N)) <= Budget["nearest"]
        /\ \/ EvictableIn("rank") \subseteq R
           \/ Minus(memory["rank"]["sampled"], BytesOf(R)) <= Budget["rank"]
    BY <2>1 DEF VictimSets
  <2>3. /\ {e \in N \cup R : TableOf(e) = "nearest"} = N
        /\ {e \in N \cup R : TableOf(e) = "rank"} = R
    BY <2>2 DEF EvictableIn
  <2>4. N \cup R \in SUBSET Entry /\ \A e \in N \cup R : slot[e] = "ready"
    /\ tier[e] = "sampled"
    BY <2>2 DEF EvictableIn
  <2>5. ASSUME NEW t \in Table
        PROVE  \/ EvictableIn(t) \subseteq N \cup R
               \/ Minus(memory[t]["sampled"], BytesOf({e \in N \cup R : TableOf(e) = t}))
                    <= Budget[t]
    BY <2>2, <2>3 DEF Table
  <2>. QED
    BY <2>1, <2>4, <2>5
<1>. QED
  BY <1>1, <1>2

\* Lookups, failures and answers leave the ready entries and the counters alone, and
\* take nobody off the way to the enforcement of the budget.
LEMMA Elsewhere ==
  ASSUME IInv, NEW w \in Worker,
         \/ \E n \in NearestKey : Prewarm(w, n)
         \/ \E k \in RankKey : Request(w, k)
         \/ LookupHit(w) \/ LookupMiss(w) \/ HashDirectly(w) \/ UseNearest(w)
         \/ BuildFails(w) \/ Unwind(w) \/ SetValue(w) \/ SetException(w) \/ GetFuture(w)
  PROVE  /\ UNCHANGED <<phase, memory>>
         /\ \A t \in Table, c \in Tier : Ready(t, c)' = Ready(t, c)
         /\ \A t \in Table : EvictableIn(t)' = EvictableIn(t)
         /\ \A t \in Table : Enforcing(t) => Enforcing(t)'
<1>1. IType /\ IFlow /\ IBuilders
  BY DEF IInv
<1>2. CASE LookupMiss(w) \/ Unwind(w)
  <2>1. PICK k \in Entry : k = at[w]
    BY <1>1, <1>2 DEF LookupMiss, Unwind, IFlow
  <2>2. /\ slot[k] # "ready" /\ slot'[k] # "ready" /\ UNCHANGED <<phase, memory, at>>
        /\ \A e \in Entry : e # k => slot'[e] = slot[e] /\ tier'[e] = tier[e]
        /\ pc[w] \notin {"set_value", "enforce"}
        /\ \A v \in Worker : v # w => pc'[v] = pc[v]
    <3>1. CASE LookupMiss(w)
      BY <1>1, <2>1, <3>1 DEF LookupMiss, Goto, IType
    <3>2. CASE Unwind(w)
      <4>1. slot[k] = "in_flight"
        BY <1>1, <2>1, <3>2 DEF Unwind, IBuilders, Building
      <4>. QED
        BY <1>1, <2>1, <3>2, <4>1 DEF Unwind, Goto, IType
    <3>. QED
      BY <1>2, <3>1, <3>2
  <2>. QED
    BY <2>2 DEF Ready, EvictableIn, Enforcing
<1>3. CASE ~(LookupMiss(w) \/ Unwind(w))
  <2>1. UNCHANGED <<phase, memory, slot, tier>>
    BY <1>3
       DEF Prewarm, Request, LookupHit, HashDirectly, UseNearest, BuildFails, SetValue,
       SetException, GetFuture, entries
  <2>2. \A v \in Worker : v # w => pc'[v] = pc[v] /\ at'[v] = at[v]
    <3>1. CASE \E n \in NearestKey : Prewarm(w, n)
      BY <1>1, <3>1 DEF Prewarm, IType
    <3>2. CASE \E k \in RankKey : Request(w, k)
      BY <1>1, <3>2 DEF Request, Goto, IType
    <3>3. CASE LookupHit(w) \/ HashDirectly(w) \/ UseNearest(w) \/ BuildFails(w)
      BY <1>1, <3>3 DEF LookupHit, HashDirectly, UseNearest, BuildFails, Goto, IType
    <3>4. CASE SetValue(w) \/ SetException(w) \/ GetFuture(w)
      BY <1>1, <3>4 DEF SetValue, SetException, GetFuture, Leave, Goto, IType
    <3>. QED
      BY <1>3, <3>1, <3>2, <3>3, <3>4
  <2>3. ASSUME pc[w] \in {"set_value", "enforce"}, phase = "sampled"
        PROVE  pc'[w] = "enforce" /\ at'[w] = at[w]
    <3>1. SetValue(w)
      BY <1>3, <2>3 DEF Prewarm, AllIdle, Request, LookupHit, HashDirectly, UseNearest,
         BuildFails, SetException, GetFuture
    <3>. QED
      BY <1>1, <2>3, <3>1 DEF SetValue, Goto, IType
  <2>4. \A t \in Table : Enforcing(t) => Enforcing(t)'
    <3>. SUFFICES ASSUME NEW t \in Table, Enforcing(t) PROVE Enforcing(t)'
      OBVIOUS
    <3>1. PICK v \in Worker :
            pc[v] \in {"set_value", "enforce"} /\ at[v] \in Entry /\ TableOf(at[v]) = t
      BY DEF Enforcing
    <3>2. pc'[v] \in {"set_value", "enforce"} /\ at'[v] = at[v]
      BY <2>2, <2>3, <3>1 DEF Enforcing
    <3>. QED
      BY <2>1, <3>1, <3>2 DEF Enforcing, TableOf
  <2>. QED
    BY <2>1, <2>4 DEF Ready, EvictableIn
<1>. QED
  BY <1>2, <1>3

\* The counters stay exact: only an accounting and an eviction touch the ready entries.
LEMMA BytesStep == IInv /\ IAccount /\ [Next]_vars => IAccount'
<1>. SUFFICES ASSUME IInv, IAccount, [Next]_vars PROVE IAccount'
  OBVIOUS
<1>1. IType
  BY DEF IInv
<1>2. ASSUME UNCHANGED memory, \A t \in Table, c \in Tier : Ready(t, c)' = Ready(t, c)
      PROVE  IAccount'
  BY <1>2 DEF IAccount
<1>3. ASSUME NEW w \in Worker, Enforce(w) PROVE IAccount'
  <2>1. PICK V : V \in VictimSets(TableOf(at[w]), {at[w]}) /\ Evict(V)
    BY <1>3 DEF Enforce
  <2>2. V \in SUBSET Entry /\ \A e \in V : slot[e] = "ready" /\ tier[e] = "sampled"
    BY <2>1 DEF VictimSets, EvictableIn
  <2>. QED
    BY <1>1, <2>1, <2>2, EvictBytes
<1>4. ASSUME NEW p \in Tier, PreparePhase(p) PROVE IAccount'
  <2>1. PICK V \in SUBSET Entry :
          Evict(V) /\ \A e \in V : slot[e] = "ready" /\ tier[e] = "sampled"
    BY <1>4, VictimsOfPhase
  <2>. QED
    BY <1>1, <2>1, EvictBytes
<1>5. CASE UNCHANGED vars
  BY <1>2, <1>5 DEF vars, entries, Ready
<1>6. ASSUME NEW w \in Worker, Step(w) PROVE IAccount'
  BY <1>2, <1>3, <1>6, Elsewhere, AccountBytes DEF Step
<1>7. ASSUME NEW w \in Worker,
             (\E n \in NearestKey : Prewarm(w, n)) \/ (\E k \in RankKey : Request(w, k))
      PROVE  IAccount'
  BY <1>2, <1>7, Elsewhere
<1>. QED
  BY <1>4, <1>5, <1>6, <1>7 DEF Next

\* A build that takes a tier over its budget has its enforcement before it, and an
\* enforcement leaves the tier within the budget or one entry in it.
LEMMA BudgetStep == IInv /\ IAccount /\ IBudget /\ [Next]_vars => IBudget'
<1>. SUFFICES ASSUME IInv, IAccount, IBudget, [Next]_vars PROVE IBudget'
  OBVIOUS
<1>. DEFINE Within(t) == \/ memory[t]["sampled"] <= Budget[t]
                         \/ Cardinality(EvictableIn(t)) = 1
                         \/ Enforcing(t)
<1>1. IType /\ IFlow /\ IBuilders
  BY DEF IInv
<1>2. ASSUME UNCHANGED memory, \A t \in Table : EvictableIn(t)' = EvictableIn(t),
             \A t \in Table : Enforcing(t) => Enforcing(t)'
      PROVE  IBudget'
  BY <1>2 DEF IBudget
<1>3. ASSUME NEW w \in Worker, Account(w) PROVE IBudget'
  <2>1. PICK k \in Entry : k = at[w]
    BY <1>1, <1>3 DEF Account, IFlow
  <2>2. pc[w] = "build" /\ slot[k] = "in_flight"
    BY <1>1, <1>3, <2>1 DEF Account, IBuilders, Building
  <2>3. PICK u \in Table : u = TableOf(k)
    BY DEF TableOf, Table
  <2>4. /\ slot' = [slot EXCEPT ![k] = "ready"] /\ tier' = [tier EXCEPT ![k] = phase]
        /\ memory' = [memory EXCEPT ![u][phase] = @ + Bytes[k]]
        /\ pc' = [pc EXCEPT ![w] = "set_value"]
        /\ phase \in Tier /\ UNCHANGED <<phase, at>>
    BY <1>1, <1>3, <2>1, <2>2, <2>3 DEF Account, Goto, IType
  <2>5. pc'[w] = "set_value" /\ \A v \in Worker : v # w => pc'[v] = pc[v]
    BY <1>1, <2>4 DEF IType
  <2>6. \A t \in Table : Enforcing(t) => Enforcing(t)'
    BY <2>4, <2>5 DEF Enforcing, TableOf
  <2>7. phase = "sampled" => Enforcing(u)'
    BY <2>1, <2>3, <2>4, <2>5 DEF Enforcing, TableOf
  <2>8. ASSUME NEW t \in Table, t # u \/ phase = "calibration"
        PROVE  memory'[t]["sampled"] = memory[t]["sampled"]
          /\ EvictableIn(t)' = EvictableIn(t)
    <3>1. memory'[t]["sampled"] = memory[t]["sampled"]
      BY <2>4, <2>8 DEF IAccount, Tier
    <3>2. EvictableIn(t)' = EvictableIn(t)
      BY <1>1, <2>2, <2>3, <2>4, <2>8 DEF EvictableIn, TableOf, IType
    <3>. QED
      BY <3>1, <3>2
  <2>. QED
    BY <2>4, <2>6, <2>7, <2>8 DEF IBudget, Tier
<1>4. ASSUME NEW w \in Worker, Enforce(w) PROVE IBudget'
  <2>1. PICK k \in Entry : k = at[w]
    BY <1>1, <1>4 DEF Enforce, IFlow
  <2>2. PICK u \in Table : u = TableOf(k)
    BY DEF TableOf, Table
  <2>3. PICK V : V \in VictimSets(u, {k}) /\ Evict(V)
    BY <1>4, <2>1, <2>2 DEF Enforce
  <2>4. /\ V \in SUBSET Entry /\ V \subseteq EvictableIn(u) \ {k}
        /\ \/ Minus(memory[u]["sampled"], BytesOf(V)) <= Budget[u]
           \/ V = EvictableIn(u) \ {k}
        /\ \A e \in V : slot[e] = "ready" /\ tier[e] = "sampled"
    BY <2>3 DEF VictimSets, EvictableIn
  <2>5. /\ IAccount'
        /\ \A t \in Table : EvictableIn(t)' = EvictableIn(t) \ V
        /\ \A t \in Table : V \cap EvictableIn(t) = {} => memory'[t] = memory[t]
        /\ memory'[u]["sampled"] = Minus(memory[u]["sampled"], BytesOf(V))
    BY <1>1, <2>3, <2>4, EvictBytes
  <2>6. \/ memory'[u]["sampled"] <= Budget[u]
        \/ Cardinality(EvictableIn(u)') = 1
    <3>1. CASE V # EvictableIn(u) \ {k}
      BY <2>4, <2>5, <3>1
    <3>2. CASE V = EvictableIn(u) \ {k} /\ k \in EvictableIn(u)
      <4>1. EvictableIn(u)' = {k}
        BY <2>5, <3>2
      <4>. QED
        BY <4>1, FS_Singleton
    <3>3. CASE V = EvictableIn(u) \ {k} /\ k \notin EvictableIn(u)
      <4>1. EvictableIn(u)' = {}
        BY <2>5, <3>3
      <4>2. Ready(u, "sampled")' = EvictableIn(u)'
        BY DEF Ready, EvictableIn
      <4>3. memory'[u]["sampled"] = BytesOf(Ready(u, "sampled")')
        BY <2>5 DEF IAccount, Tier
      <4>4. memory'[u]["sampled"] = 0
        BY <4>1, <4>2, <4>3, BytesFacts
      <4>. QED
        BY <4>4, ConstantsAssumption
    <3>. QED
      BY <3>1, <3>2, <3>3
  <2>7. ASSUME NEW t \in Table, t # u
        PROVE  /\ memory'[t] = memory[t]
               /\ EvictableIn(t)' = EvictableIn(t)
    <3>1. V \cap EvictableIn(t) = {}
      BY <2>4, <2>7 DEF EvictableIn
    <3>. QED
      BY <2>5, <3>1
  <2>8. phase' = phase /\ \A v \in Worker : v # w => pc'[v] = pc[v] /\ at'[v] = at[v]
    BY <1>1, <1>4 DEF Enforce, Leave, Goto, IType
  <2>9. \A t \in Table : t # u /\ Enforcing(t) => Enforcing(t)'
    <3>. SUFFICES ASSUME NEW t \in Table, t # u, Enforcing(t) PROVE Enforcing(t)'
      OBVIOUS
    <3>1. PICK v \in Worker :
            pc[v] \in {"set_value", "enforce"} /\ at[v] \in Entry /\ TableOf(at[v]) = t
      BY DEF Enforcing
    <3>2. v # w
      BY <2>1, <2>2, <3>1
    <3>. QED
      BY <2>8, <3>1, <3>2 DEF Enforcing, TableOf
  <2>. QED
    BY <2>6, <2>7, <2>9 DEF IBudget
<1>5. ASSUME NEW p \in Tier, PreparePhase(p) PROVE IBudget'
  <2>1. PICK V \in SUBSET Entry :
          /\ Evict(V) /\ \A e \in V : slot[e] = "ready" /\ tier[e] = "sampled"
          /\ \A t \in Table :
               \/ EvictableIn(t) \subseteq V
               \/ Minus(memory[t]["sampled"],
                 BytesOf({e \in V : TableOf(e) = t})) <= Budget[t]
    BY <1>5, VictimsOfPhase
  <2>2. /\ IAccount'
        /\ \A t \in Table : EvictableIn(t)' = EvictableIn(t) \ V
    BY <1>1, <2>1, EvictBytes
  <2>3. \A t \in Table : memory'[t]["sampled"] =
                           Minus(memory[t]["sampled"],
                             BytesOf({e \in V : TableOf(e) = t}))
    BY <2>1 DEF Evict, IAccount, Tier
  <2>4. ASSUME NEW t \in Table, EvictableIn(t) \subseteq V
        PROVE  memory'[t]["sampled"] <= Budget[t]
    <3>1. EvictableIn(t)' = {}
      BY <2>2, <2>4
    <3>2. Ready(t, "sampled")' = EvictableIn(t)'
      BY DEF Ready, EvictableIn
    <3>3. memory'[t]["sampled"] = BytesOf(Ready(t, "sampled")')
      BY <2>2 DEF IAccount, Tier
    <3>4. memory'[t]["sampled"] = 0
      BY <3>1, <3>2, <3>3, BytesFacts
    <3>. QED
      BY <3>4, ConstantsAssumption
  <2>. QED
    BY <2>1, <2>3, <2>4 DEF IBudget
<1>6. CASE UNCHANGED vars
  BY <1>2, <1>6 DEF vars, entries, EvictableIn, Enforcing
<1>7. ASSUME NEW w \in Worker, Step(w) PROVE IBudget'
  BY <1>2, <1>3, <1>4, <1>7, Elsewhere DEF Step
<1>8. ASSUME NEW w \in Worker,
             (\E n \in NearestKey : Prewarm(w, n)) \/ (\E k \in RankKey : Request(w, k))
      PROVE  IBudget'
  BY <1>2, <1>8, Elsewhere
<1>. QED
  BY <1>5, <1>6, <1>7, <1>8 DEF Next

-----------------------------------------------------------------------------
\* Nothing is cached and nothing counted.
LEMMA InitBytes == Init => IAccount /\ IBudget
<1>. SUFFICES ASSUME Init PROVE IAccount /\ IBudget
  OBVIOUS
<1>1. \A t \in Table, c \in Tier : Ready(t, c) = {} /\ memory[t][c] = 0
  BY DEF Init, Ready
<1>2. IAccount
  <2>1. memory \in [Table -> [Tier -> Nat]]
    BY DEF Init
  <2>2. ASSUME NEW t \in Table, NEW c \in Tier PROVE memory[t][c] = BytesOf(Ready(t, c))
    BY <1>1, BytesFacts
  <2>. QED
    BY <2>1, <2>2 DEF IAccount
<1>3. IBudget
  BY <1>1, ConstantsAssumption DEF IBudget, Tier
<1>. QED
  BY <1>2, <1>3

\* Both invariants of the bytes hold of every reachable state.
LEMMA BytesInvariance == Spec => [](IInv /\ IAccount /\ IBudget)
  BY InitIInv, InitBytes, NextIInv, BytesStep, BudgetStep, PTL DEF Spec

\* At every unlock the byte counters are the sizes of the ready entries, by table and
\* tier: accounting, eviction and failure never drift apart (get_or_build_eval_...,
\* erase_eval_..._cache_entry_locked).
THEOREM BytesAreExact == Spec => []AccountingExact
<1>1. IInv /\ IAccount => AccountingExact
  <2>. SUFFICES ASSUME IInv, IAccount PROVE AccountingExact
    OBVIOUS
  <2>1. TypeOK
    BY DEF IInv, IType, IAccount, TypeOK
  <2>2. ASSUME NEW t \in Table, NEW c \in Tier
        PROVE  memory[t][c] =
                 BytesOf({e \in Entry : TableOf(e) = t /\ slot[e] = "ready"
                   /\ tier[e] = c})
    BY DEF IAccount, Ready
  <2>. QED
    BY <2>1, <2>2 DEF AccountingExact
<1>. QED
  BY <1>1, BytesInvariance, PTL

\* The sampled tier of each table is within its budget, or down to the one entry that
\* its builder protected, once no builder has its enforcement still to do
\* (enforce_eval_..._sampled_cache_budget_locked).
THEOREM BudgetIsKept == Spec => []SampledWithinBudget
<1>1. IBudget => SampledWithinBudget
  BY DEF IBudget, Enforcing, SampledWithinBudget
<1>. QED
  BY <1>1, BytesInvariance, PTL
-----------------------------------------------------------------------------
(* The tables as single-flight tables.                                     *)

\* What a step can do to an entry: claim it, resolve it, or forget some that are ready.
EntryStep ==
  \/ \E e \in Entry :
       \/ slot[e] = "missing" /\ slot' = [slot EXCEPT ![e] = "in_flight"]
       \/ /\ slot[e] = "in_flight"
          /\ \E r \in {"ready", "missing"} : slot' = [slot EXCEPT ![e] = r]
  \/ \E V \in SUBSET Entry :
       /\ \A e \in V : slot[e] = "ready"
       /\ slot' = [e \in Entry |-> IF e \in V THEN "missing" ELSE slot[e]]
  \/ slot' = slot

\* Accounting and failure find the entry in flight, and evictions find it ready.
LEMMA EntriesStep == ASSUME IInv, [Next]_vars PROVE EntryStep
<1>1. IType /\ IFlow /\ IBuilders
  BY DEF IInv
<1>2. ASSUME NEW w \in Worker, LookupMiss(w) PROVE EntryStep
  BY <1>1, <1>2 DEF LookupMiss, EntryStep, IFlow
<1>3. ASSUME NEW w \in Worker, Account(w) \/ Unwind(w) PROVE EntryStep
  <2>1. PICK e \in Entry : e = at[w]
    BY <1>1, <1>3 DEF Account, Unwind, IFlow
  <2>2. slot[e] = "in_flight"
    BY <1>1, <1>3, <2>1 DEF Account, Unwind, IBuilders, Building
  <2>3. \E r \in {"ready", "missing"} : slot' = [slot EXCEPT ![e] = r]
    BY <1>3, <2>1, <2>2 DEF Account, Unwind
  <2>. QED
    BY <2>2, <2>3 DEF EntryStep
<1>4. ASSUME NEW w \in Worker, Enforce(w) PROVE EntryStep
  <2>1. PICK V : V \in VictimSets(TableOf(at[w]), {at[w]}) /\ Evict(V)
    BY <1>4 DEF Enforce
  <2>2. V \in SUBSET Entry /\ \A e \in V : slot[e] = "ready"
    BY <2>1 DEF VictimSets, EvictableIn
  <2>. QED
    BY <2>1, <2>2 DEF Evict, EntryStep
<1>5. ASSUME NEW p \in Tier, PreparePhase(p) PROVE EntryStep
  <2>1. PICK V \in SUBSET Entry : Evict(V) /\ \A e \in V : slot[e] = "ready"
    BY <1>5, VictimsOfPhase
  <2>. QED
    BY <2>1 DEF Evict, EntryStep
<1>6. ASSUME NEW w \in Worker, Step(w) PROVE EntryStep
  <2>1. CASE slot' = slot
    BY <2>1 DEF EntryStep
  <2>. QED
    BY <1>2, <1>3, <1>4, <1>6, <2>1
    DEF Step, LookupHit, HashDirectly, UseNearest, BuildFails, SetValue, SetException,
        GetFuture, entries
<1>7. CASE \/ \E w \in Worker, n \in NearestKey : Prewarm(w, n)
           \/ \E w \in Worker, k \in RankKey : Request(w, k)
           \/ UNCHANGED vars
  BY <1>7 DEF Prewarm, Request, vars, entries, EntryStep
<1>. QED
  BY <1>5, <1>6, <1>7 DEF Next

\* Such a step is one of each table, or leaves the table as it is.
LEMMA TablesStep ==
  ASSUME slot \in [Entry -> {"missing", "in_flight", "ready"}], EntryStep
  PROVE  /\ [Nearest!SlotNext]_(Restriction(NearestKey))
         /\ [Rank!SlotNext]_(Restriction(RankKey))
<1>. DEFINE near == Restriction(NearestKey)
            rank == Restriction(RankKey)
<1>1. NearestKey \in SUBSET Entry /\ RankKey \in SUBSET Entry
  BY DEF Entry
<1>2. ASSUME NEW e \in Entry, NEW r, slot' = [slot EXCEPT ![e] = r], NEW K \in SUBSET Entry
      PROVE  Restriction(K)' = IF e \in K THEN [Restriction(K) EXCEPT ![e] = r]
                               ELSE Restriction(K)
  BY <1>2 DEF Restriction
<1>3. ASSUME NEW e \in Entry, slot[e] = "missing", slot' = [slot EXCEPT ![e] = "in_flight"]
      PROVE  [Nearest!SlotNext]_near /\ [Rank!SlotNext]_rank
  <2>1. e \in NearestKey => Nearest!Claim(e)
    BY <1>1, <1>2, <1>3 DEF Nearest!Claim, Restriction
  <2>2. e \in RankKey => Rank!Claim(e)
    BY <1>1, <1>2, <1>3 DEF Rank!Claim, Restriction
  <2>. QED
    BY <1>1, <1>2, <1>3, <2>1, <2>2 DEF Nearest!SlotNext, Rank!SlotNext
<1>4. ASSUME NEW e \in Entry, NEW r \in {"ready", "missing"},
             slot[e] = "in_flight", slot' = [slot EXCEPT ![e] = r]
      PROVE  [Nearest!SlotNext]_near /\ [Rank!SlotNext]_rank
  <2>1. e \in NearestKey => Nearest!Resolve(e)
    BY <1>1, <1>2, <1>4 DEF Nearest!Resolve, Restriction
  <2>2. e \in RankKey => Rank!Resolve(e)
    BY <1>1, <1>2, <1>4 DEF Rank!Resolve, Restriction
  <2>. QED
    BY <1>1, <1>2, <1>4, <2>1, <2>2 DEF Nearest!SlotNext, Rank!SlotNext
<1>5. ASSUME NEW V \in SUBSET Entry, \A e \in V : slot[e] = "ready",
             slot' = [e \in Entry |-> IF e \in V THEN "missing" ELSE slot[e]]
      PROVE  [Nearest!SlotNext]_near /\ [Rank!SlotNext]_rank
  <2>1. Nearest!Forget(V \cap NearestKey)
    BY <1>1, <1>5 DEF Nearest!Forget, Restriction
  <2>2. Rank!Forget(V \cap RankKey)
    BY <1>1, <1>5 DEF Rank!Forget, Restriction
  <2>. QED
    BY <2>1, <2>2 DEF Nearest!SlotNext, Rank!SlotNext
<1>6. CASE slot' = slot
  BY <1>6 DEF Restriction
<1>. QED
  BY <1>3, <1>4, <1>5, <1>6 DEF EntryStep

\* The safety of the refinement: in both tables an entry is built by one worker at a
\* time, a failed one can be retried, and only ready ones are forgotten. That each claim
\* is resolved is liveness, and checked by the run.
\* (get_or_build_eval_base_rank_cache, get_or_build_eval_nearest_cache)
THEOREM SingleFlightSafety ==
  Spec => /\ Nearest!SlotInit /\ [][Nearest!SlotNext]_(Restriction(NearestKey))
          /\ Rank!SlotInit /\ [][Rank!SlotNext]_(Restriction(RankKey))
<1>1. Init => Nearest!SlotInit /\ Rank!SlotInit
  BY DEF Init, Nearest!SlotInit, Rank!SlotInit, Restriction, Entry
<1>2. IInv /\ [Next]_vars => /\ [Nearest!SlotNext]_(Restriction(NearestKey))
                            /\ [Rank!SlotNext]_(Restriction(RankKey))
  BY EntriesStep, TablesStep DEF IInv, IType
<1>. QED
  BY <1>1, <1>2, Invariance, PTL DEF Spec
=============================================================================
