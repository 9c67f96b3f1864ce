-------------------------- MODULE TrainCacheProofs --------------------------
(***************************************************************************)
(* Safety of the training cache for any number of workers, any finite set  *)
(* of training keys, and any limits.                                       *)
(*                                                                         *)
(* The checked invariants are not inductive by themselves: that a fit in   *)
(* flight belongs to the holder of the lane, that a worker is idle exactly *)
(* when it asks for nothing, and that a component was built exactly when   *)
(* it is present, or about to be entered by the lane's holder, have to be  *)
(* carried along.                                                          *)
(***************************************************************************)
EXTENDS TrainCache, FiniteSetTheorems, TLAPS

Charged == {k \in Key : future[k] # "missing"}

IType ==
  /\ future \in [Key -> FutureState]
  /\ component \subseteq Component
  /\ built \in [Component -> Nat]
  /\ cdf \in [CdfKey -> FutureState]
  /\ lane \in Worker \cup {NoWorker}
  /\ started \in Nat
  /\ ctxOpen \in BOOLEAN
  /\ ctxStart \in Nat
  /\ ctxLimit \in ContextLimit \cup {0}
  /\ budgetHit \in BOOLEAN
  /\ ctxBudgetHit \in BOOLEAN
  /\ expired \in BOOLEAN
  /\ timeHit \in BOOLEAN
  /\ pc \in [Worker -> Stage]
  /\ req \in [Worker -> Key \cup {NoKey}]

IReq == \A w \in Worker : pc[w] = "idle" <=> req[w] = NoKey

ILane == \A w \in Worker : pc[w] \in TrainStage <=> lane = w

IFit ==
  /\ \A c \in CdfKey : cdf[c] = "in_flight" =>
       /\ lane \in Worker
       /\ pc[lane] = "cdf_build"
       /\ CdfOf[req[lane]] = c
  /\ \A w \in Worker : pc[w] = "cdf_build" => cdf[CdfOf[req[w]]] = "in_flight"

(* A component is built once when it is present, or its builder, who holds *)
(* the lane, is about to enter it; nobody builds one that is present.      *)
Inserting(w) == pc[w] \in {"base_insert", "order_insert"}
Building(w)  == pc[w] \in {"base_build", "order_build"} \/ Inserting(w)

BeingInserted(c) == \E w \in Worker : Inserting(w) /\ ComponentAt(w) = c

IBuilt ==
  /\ \A c \in Component :
       built[c] = IF c \in component \/ BeingInserted(c) THEN 1 ELSE 0
  /\ \A w \in Worker : Building(w) => ComponentAt(w) \notin component

ICharge == started = Cardinality(Charged)

ILimit ==
  /\ MaxModelTrains > 0 => started <= MaxModelTrains
  /\ ctxStart <= started
  /\ ctxLimit > 0 => started - ctxStart <= ctxLimit

IInv == IType /\ IReq /\ ILane /\ IFit /\ IBuilt /\ ICharge /\ ILimit /\ PromiseOwned

-----------------------------------------------------------------------------
(* The initial states.                                                     *)
LEMMA InitIInv == Init => IInv
<1>. SUFFICES ASSUME Init PROVE IInv
  OBVIOUS
<1>1. IType /\ IReq
  BY ConstantsAssumption DEF Init, IType, IReq, FutureState, Stage
<1>2. ILane /\ IFit /\ IBuilt /\ PromiseOwned
  BY ConstantsAssumption
  DEF Init, ILane, IFit, IBuilt, PromiseOwned, Owes, TrainStage, OwnerStage,
      BaseStage, OrderStage, BeingInserted, Inserting, Building
<1>3. Charged = {}
  BY DEF Init, Charged
<1>4. ICharge /\ ILimit
  BY <1>3, FS_EmptySet, ConstantsAssumption DEF Init, ICharge, ILimit
<1>. QED
  BY <1>1, <1>2, <1>4 DEF IInv

-----------------------------------------------------------------------------
(* Types, requests, the lane and the shared fits: one lemma, one step per  *)
(* action.                                                                 *)
Flow == IType /\ IReq /\ ILane /\ IFit

LEMMA FlowStep == Flow /\ [Next]_vars => Flow'
<1>. SUFFICES ASSUME Flow, [Next]_vars PROVE Flow'
  OBVIOUS
<1>. USE ConstantsAssumption DEF Flow, IType, IReq, ILane, IFit,
       FutureState, Stage, OwnerStage, TrainStage, BaseStage, OrderStage,
       tables, budgets, clock
<1>1. CASE UNCHANGED vars
  BY <1>1 DEF vars
<1>2. CASE DeadlinePasses
  BY <1>2 DEF DeadlinePasses
<1>3. ASSUME NEW limit \in ContextLimit, BeginContext(limit) PROVE Flow'
  BY <1>3 DEF BeginContext
<1>4. CASE EndContext
  BY <1>4 DEF EndContext
<1>5. ASSUME NEW w \in Worker, NEW k \in Key, Request(w, k) PROVE Flow'
  BY <1>5 DEF Request, Goto
<1>6. ASSUME NEW w \in Worker, RequestTooLate(w) PROVE Flow'
  BY <1>6 DEF RequestTooLate
<1>7. ASSUME NEW w \in Worker, Lookup(w) PROVE Flow'
  <2>1. CASE Hit(w)
    BY <2>1 DEF Hit, Goto
  <2>2. CASE RefuseBudget(w)
    BY <2>2 DEF RefuseBudget, Return, Goto
  <2>3. CASE RefuseContext(w)
    BY <2>3 DEF RefuseContext, Return, Goto
  <2>4. CASE RefuseTime(w)
    BY <2>4 DEF RefuseTime, Return, Goto
  <2>5. CASE Admit(w)
    BY <2>5 DEF Admit, Goto
  <2>. QED
    BY <1>7, <2>1, <2>2, <2>3, <2>4, <2>5 DEF Lookup
<1>8. ASSUME NEW w \in Worker, AcquireLane(w) PROVE Flow'
  BY <1>8 DEF AcquireLane, Goto
<1>9. ASSUME NEW w \in Worker, Train(w) PROVE Flow'
  <2>1. CASE ComponentHit(w)
    BY <2>1 DEF ComponentHit, AfterComponent, Goto
  <2>2. CASE ComponentMiss(w)
    BY <2>2 DEF ComponentMiss, ComponentAt, Goto
  <2>3. CASE ComponentBuilt(w)
    BY <2>3 DEF ComponentBuilt, ComponentAt, Goto
  <2>4. CASE ComponentInsert(w)
    BY <2>4 DEF ComponentInsert, ComponentAt, AfterComponent, Goto
  <2>5. CASE ComponentFails(w)
    BY <2>5 DEF ComponentFails, Throw, Goto
  <2>6. CASE CdfClaim(w)
    BY <2>6 DEF CdfClaim, Goto
  <2>7. CASE CdfHit(w)
    BY <2>7 DEF CdfHit, Goto
  <2>8. CASE CdfHitFailed(w)
    BY <2>8 DEF CdfHitFailed, Throw, Goto
  <2>9. CASE CdfBuilt(w)
    BY <2>9 DEF CdfBuilt, Goto
  <2>10. CASE CdfFails(w)
    BY <2>10 DEF CdfFails, Throw, Goto
  <2>11. CASE SetValue(w)
    BY <2>11 DEF SetValue, Goto
  <2>12. CASE AssemblyFails(w)
    BY <2>12 DEF AssemblyFails, Throw, Goto
  <2>. QED
    BY <1>9, <2>1, <2>2, <2>3, <2>4, <2>5, <2>6, <2>7, <2>8, <2>9, <2>10, <2>11,
       <2>12 DEF Train
<1>10. ASSUME NEW w \in Worker, SetException(w) PROVE Flow'
  BY <1>10 DEF SetException, Goto
<1>11. ASSUME NEW w \in Worker, GetValue(w) PROVE Flow'
  BY <1>11 DEF GetValue, Return, Goto
<1>. QED
  BY <1>1, <1>2, <1>3, <1>4, <1>5, <1>6, <1>7, <1>8, <1>9, <1>10, <1>11
  DEF Next, Step

-----------------------------------------------------------------------------
(* Components.  The holder of the lane is the only builder, so between its *)
(* lookup and its insertion nobody else builds or enters a component.      *)

(* An action of one worker that neither builds nor enters anything, and    *)
(* after which it is not building, preserves the count.                    *)
LEMMA BuildsUntouched ==
  ASSUME Flow, IBuilt, UNCHANGED <<component, built>>,
         NEW w \in Worker, ~Inserting(w), ~Building(w)',
         \A v \in Worker \ {w} : pc'[v] = pc[v] /\ req'[v] = req[v]
  PROVE  IBuilt'
<1>1. \A v \in Worker : Inserting(v)' <=> Inserting(v)
  BY DEF Inserting, Building
<1>2. \A v \in Worker : Building(v)' => Building(v)
  BY DEF Inserting, Building
<1>3. \A v \in Worker : Building(v)' => ComponentAt(v)' = ComponentAt(v)
  BY DEF Building, Inserting, ComponentAt
<1>4. \A c \in Component : BeingInserted(c)' <=> BeingInserted(c)
  <2>1. \A v \in Worker : Inserting(v) => ComponentAt(v)' = ComponentAt(v)
    BY DEF Inserting, ComponentAt
  <2>. QED
    BY <1>1, <2>1 DEF BeingInserted
<1>. QED
  BY <1>2, <1>3, <1>4 DEF IBuilt

(* A step of w at a training stage: no other worker is building.           *)
LEMMA OnlyBuilder ==
  ASSUME Flow, NEW w \in Worker, pc[w] \in TrainStage
  PROVE  \A v \in Worker : Building(v) => v = w
BY DEF Flow, ILane, Building, Inserting, TrainStage, BaseStage, OrderStage

LEMMA BuildsStep == Flow /\ IBuilt /\ [Next]_vars => IBuilt'
<1>. SUFFICES ASSUME Flow, IBuilt, [Next]_vars PROVE IBuilt'
  OBVIOUS
<1>. USE DEF tables
<1>0. pc \in [Worker -> Stage] /\ req \in [Worker -> Key \cup {NoKey}]
  BY DEF Flow, IType
<1>1. CASE UNCHANGED <<component, built, pc, req>>
  BY <1>1 DEF IBuilt, BeingInserted, Inserting, Building, ComponentAt
<1>2. ASSUME NEW w \in Worker, NEW k \in Key, Request(w, k) PROVE IBuilt'
  BY <1>0, <1>2, BuildsUntouched DEF Request, Goto, Inserting, Building
<1>3. ASSUME NEW w \in Worker, Lookup(w) PROVE IBuilt'
  BY <1>0, <1>3, BuildsUntouched
  DEF Lookup, Hit, RefuseBudget, RefuseContext, RefuseTime, Admit, Return, Goto,
      Inserting, Building
<1>4. ASSUME NEW w \in Worker, AcquireLane(w) PROVE IBuilt'
  BY <1>0, <1>4, BuildsUntouched DEF AcquireLane, Goto, Inserting, Building
<1>5. ASSUME NEW w \in Worker, SetException(w) \/ GetValue(w) PROVE IBuilt'
  BY <1>0, <1>5, BuildsUntouched
  DEF SetException, GetValue, Return, Goto, Inserting, Building
<1>6. ASSUME NEW w \in Worker, Train(w) PROVE IBuilt'
  <2>1. CASE \/ ComponentHit(w) \/ ComponentFails(w) \/ CdfClaim(w) \/ CdfHit(w)
             \/ CdfHitFailed(w) \/ CdfBuilt(w) \/ CdfFails(w)
    BY <1>0, <2>1, BuildsUntouched
    DEF ComponentHit, ComponentFails, CdfClaim, CdfHit, CdfHitFailed, CdfBuilt,
        CdfFails, AfterComponent, Throw, Goto, Inserting, Building
  <2>2. CASE SetValue(w) \/ AssemblyFails(w)
    BY <1>0, <2>2, BuildsUntouched
    DEF SetValue, AssemblyFails, Throw, Goto, Inserting, Building
  <2>. DEFINE c == ComponentAt(w)
  <2>3. CASE ComponentMiss(w)
    <3>1. c \notin component /\ c' = c
      BY <1>0, <2>3 DEF ComponentMiss, ComponentAt, Goto, BaseStage
    <3>2. \A v \in Worker : ~Inserting(v) /\ ~Inserting(v)'
      <4>1. \A v \in Worker : ~Building(v)
        BY <2>3, OnlyBuilder
        DEF ComponentMiss, Building, Inserting, TrainStage, BaseStage, OrderStage
      <4>. QED
        BY <1>0, <2>3, <4>1 DEF ComponentMiss, Goto, Building, Inserting
    <3>3. \A v \in Worker : Building(v)' => v = w
      <4>1. \A v \in Worker : Building(v) => v = w
        BY <2>3, OnlyBuilder DEF ComponentMiss, TrainStage, BaseStage, OrderStage
      <4>. QED
        BY <1>0, <2>3, <4>1 DEF ComponentMiss, Goto, Building, Inserting
    <3>. QED
      BY <2>3, <3>1, <3>2, <3>3 DEF ComponentMiss, IBuilt, BeingInserted
  <2>4. CASE ComponentBuilt(w)
    <3>1. c \in Component /\ c' = c
      BY <1>0, <2>4, ConstantsAssumption
      DEF ComponentBuilt, ComponentAt, Goto, BaseStage, Flow, IReq
    <3>2. c \notin component
      BY <2>4 DEF ComponentBuilt, IBuilt, Building
    <3>3. \A v \in Worker : ~Inserting(v)
      <4>1. \A v \in Worker : Building(v) => v = w
        BY <2>4, OnlyBuilder DEF ComponentBuilt, TrainStage, BaseStage, OrderStage
      <4>. QED
        BY <2>4, <4>1 DEF ComponentBuilt, Building, Inserting
    <3>4. \A v \in Worker : Building(v)' => v = w
      <4>1. \A v \in Worker : Building(v) => v = w
        BY <2>4, OnlyBuilder DEF ComponentBuilt, TrainStage, BaseStage, OrderStage
      <4>. QED
        BY <1>0, <2>4, <4>1 DEF ComponentBuilt, Goto, Building, Inserting
    <3>5. Inserting(w)'
      BY <1>0, <2>4 DEF ComponentBuilt, Goto, Inserting
    <3>6. \A d \in Component : BeingInserted(d)' <=> d = c
      BY <3>1, <3>4, <3>5 DEF BeingInserted, Building
    <3>7. \A d \in Component : ~BeingInserted(d)
      BY <3>3 DEF BeingInserted
    <3>8. built \in [Component -> Nat] /\ component' = component
          /\ built' = [built EXCEPT ![c] = built[c] + 1]
      BY <2>4 DEF ComponentBuilt, Flow, IType
    <3>9. \A d \in Component : built[d] = IF d \in component THEN 1 ELSE 0
      BY <3>7 DEF IBuilt
    <3>10. \A d \in Component :
             built'[d] = IF d \in component' \/ BeingInserted(d)' THEN 1 ELSE 0
      <4>. HIDE DEF c
      <4>. QED
        BY <3>1, <3>2, <3>6, <3>8, <3>9
    <3>11. \A v \in Worker : Building(v)' => ComponentAt(v)' \notin component'
      BY <3>1, <3>2, <3>4, <3>8
    <3>. QED
      BY <3>10, <3>11 DEF IBuilt
  <2>5. CASE ComponentInsert(w)
    <3>1. \A v \in Worker : Building(v) => v = w
      BY <2>5, OnlyBuilder DEF ComponentInsert, TrainStage, BaseStage, OrderStage
    <3>2. \A v \in Worker : ~Building(v)'
      BY <1>0, <2>5, <3>1
      DEF ComponentInsert, AfterComponent, Goto, Building, Inserting
    <3>3. \A d \in Component : BeingInserted(d) <=> d = c
      BY <2>5, <3>1 DEF ComponentInsert, BeingInserted, Building, Inserting
    <3>4. \A d \in Component : ~BeingInserted(d)'
      BY <3>2 DEF BeingInserted, Building
    <3>. QED
      BY <2>5, <3>2, <3>3, <3>4 DEF ComponentInsert, IBuilt
  <2>. QED
    BY <1>6, <2>1, <2>2, <2>3, <2>4, <2>5 DEF Train
<1>7. CASE UNCHANGED vars \/ DeadlinePasses \/ EndContext
  BY <1>1, <1>7 DEF vars, DeadlinePasses, EndContext
<1>8. ASSUME NEW limit \in ContextLimit, BeginContext(limit) PROVE IBuilt'
  BY <1>1, <1>8 DEF BeginContext
<1>9. ASSUME NEW w \in Worker, RequestTooLate(w) PROVE IBuilt'
  BY <1>1, <1>9 DEF RequestTooLate
<1>. QED
  BY <1>2, <1>3, <1>4, <1>5, <1>6, <1>7, <1>8, <1>9 DEF Next, Step

-----------------------------------------------------------------------------
(* Every unresolved future has one owner.  Three actions move a key or its *)
(* owner: Admit, SetValue and SetException; an exception only moves the    *)
(* owner from a training stage to "fail".                                  *)
LEMMA OwnershipStep == Flow /\ PromiseOwned /\ [Next]_vars => PromiseOwned'
<1>. SUFFICES ASSUME Flow, PromiseOwned, [Next]_vars PROVE PromiseOwned'
  OBVIOUS
<1>. USE ConstantsAssumption DEF Flow, IType, IReq, FutureState, Stage,
       OwnerStage, TrainStage, BaseStage, OrderStage, tables, budgets, clock,
       PromiseOwned, Owes
<1>1. CASE UNCHANGED vars
  BY <1>1 DEF vars
<1>2. CASE DeadlinePasses
  BY <1>2 DEF DeadlinePasses
<1>3. ASSUME NEW limit \in ContextLimit, BeginContext(limit) PROVE PromiseOwned'
  BY <1>3 DEF BeginContext
<1>4. CASE EndContext
  BY <1>4 DEF EndContext
<1>5. ASSUME NEW w \in Worker, NEW k \in Key, Request(w, k) PROVE PromiseOwned'
  BY <1>5 DEF Request, Goto
<1>6. ASSUME NEW w \in Worker, RequestTooLate(w) PROVE PromiseOwned'
  BY <1>6 DEF RequestTooLate
<1>7. ASSUME NEW w \in Worker, Lookup(w) PROVE PromiseOwned'
  <2>1. CASE Hit(w)
    BY <2>1 DEF Hit, Goto
  <2>2. CASE RefuseBudget(w)
    BY <2>2 DEF RefuseBudget, Return, Goto
  <2>3. CASE RefuseContext(w)
    BY <2>3 DEF RefuseContext, Return, Goto
  <2>4. CASE RefuseTime(w)
    BY <2>4 DEF RefuseTime, Return, Goto
  <2>5. CASE Admit(w)
    BY <2>5 DEF Admit, Goto
  <2>. QED
    BY <1>7, <2>1, <2>2, <2>3, <2>4, <2>5 DEF Lookup
<1>8. ASSUME NEW w \in Worker, AcquireLane(w) PROVE PromiseOwned'
  BY <1>8 DEF AcquireLane, Goto
<1>9. ASSUME NEW w \in Worker, Train(w) PROVE PromiseOwned'
  <2>1. CASE ComponentHit(w)
    BY <2>1 DEF ComponentHit, AfterComponent, Goto
  <2>2. CASE ComponentMiss(w)
    BY <2>2 DEF ComponentMiss, Goto
  <2>3. CASE ComponentBuilt(w)
    BY <2>3 DEF ComponentBuilt, Goto
  <2>4. CASE ComponentInsert(w)
    BY <2>4 DEF ComponentInsert, AfterComponent, Goto
  <2>5. CASE ComponentFails(w)
    BY <2>5 DEF ComponentFails, Throw, Goto
  <2>6. CASE CdfClaim(w)
    BY <2>6 DEF CdfClaim, Goto
  <2>7. CASE CdfHit(w)
    BY <2>7 DEF CdfHit, Goto
  <2>8. CASE CdfHitFailed(w)
    BY <2>8 DEF CdfHitFailed, Throw, Goto
  <2>9. CASE CdfBuilt(w)
    BY <2>9 DEF CdfBuilt, Goto
  <2>10. CASE CdfFails(w)
    BY <2>10 DEF CdfFails, Throw, Goto
  <2>11. CASE SetValue(w)
    BY <2>11 DEF SetValue, Goto
  <2>12. CASE AssemblyFails(w)
    BY <2>12 DEF AssemblyFails, Throw, Goto
  <2>. QED
    BY <1>9, <2>1, <2>2, <2>3, <2>4, <2>5, <2>6, <2>7, <2>8, <2>9, <2>10, <2>11,
       <2>12 DEF Train
<1>10. ASSUME NEW w \in Worker, SetException(w) PROVE PromiseOwned'
  BY <1>10 DEF SetException, Goto
<1>11. ASSUME NEW w \in Worker, GetValue(w) PROVE PromiseOwned'
  BY <1>11 DEF GetValue, Return, Goto
<1>. QED
  BY <1>1, <1>2, <1>3, <1>4, <1>5, <1>6, <1>7, <1>8, <1>9, <1>10, <1>11
  DEF Next, Step

-----------------------------------------------------------------------------
(* Budgets.  Only Admit charges, and it inserts the key it charges for.    *)
Budgets == ICharge /\ ILimit

(* An action that leaves the counters alone and makes no key present or    *)
(* absent preserves the budget invariant.                                  *)
LEMMA BudgetsUntouched ==
  ASSUME Budgets, Charged' = Charged, UNCHANGED <<started, ctxStart, ctxLimit>>
  PROVE  Budgets'
BY DEF Budgets, ICharge, ILimit

LEMMA AdmitBudgets ==
  ASSUME Flow, Budgets, NEW w \in Worker, Admit(w)
  PROVE  Budgets'
<1>1. req[w] \in Key /\ req[w] \notin Charged
  BY DEF Admit, Flow, IType, IReq, Charged, Stage
<1>2. Charged' = Charged \cup {req[w]}
  BY <1>1 DEF Admit, Charged, Flow, IType
<1>3. IsFiniteSet(Charged)
  BY ConstantsAssumption, FS_Subset DEF Charged
<1>4. Cardinality(Charged') = Cardinality(Charged) + 1
  BY <1>1, <1>2, <1>3, FS_AddElement
<1>5. ICharge'
  BY <1>4 DEF Admit, Budgets, ICharge
<1>6. ILimit'
  BY ConstantsAssumption
  DEF Admit, Budgets, ILimit, BudgetSpent, ContextSpent, ContextStarted, Flow, IType
<1>. QED
  BY <1>5, <1>6 DEF Budgets

LEMMA BudgetsStep ==
  Flow /\ PromiseOwned /\ Budgets /\ [Next]_vars => Budgets'
<1>. SUFFICES ASSUME Flow, PromiseOwned, Budgets, [Next]_vars PROVE Budgets'
  OBVIOUS
<1>1. CASE UNCHANGED vars
  BY <1>1, BudgetsUntouched DEF vars, tables, budgets, Charged
<1>2. CASE DeadlinePasses
  BY <1>2, BudgetsUntouched DEF DeadlinePasses, tables, budgets, Charged
<1>3. ASSUME NEW limit \in ContextLimit, BeginContext(limit) PROVE Budgets'
  BY <1>3, ConstantsAssumption
  DEF BeginContext, tables, Budgets, ICharge, ILimit, Charged, Flow, IType
<1>4. CASE EndContext
  BY <1>4 DEF EndContext, tables, Budgets, ICharge, ILimit, Charged
<1>5. ASSUME NEW w \in Worker, NEW k \in Key, Request(w, k) PROVE Budgets'
  BY <1>5, BudgetsUntouched DEF Request, tables, budgets, Charged
<1>6. ASSUME NEW w \in Worker, RequestTooLate(w) PROVE Budgets'
  BY <1>6, BudgetsUntouched DEF RequestTooLate, tables, budgets, Charged
<1>7. ASSUME NEW w \in Worker, Lookup(w) PROVE Budgets'
  <2>1. CASE Hit(w)
    BY <2>1, BudgetsUntouched DEF Hit, tables, budgets, Charged
  <2>2. CASE RefuseBudget(w)
    BY <2>2, BudgetsUntouched DEF RefuseBudget, tables, Charged
  <2>3. CASE RefuseContext(w)
    BY <2>3, BudgetsUntouched DEF RefuseContext, tables, Charged
  <2>4. CASE RefuseTime(w)
    BY <2>4, BudgetsUntouched DEF RefuseTime, tables, budgets, Charged
  <2>5. CASE Admit(w)
    BY <2>5, AdmitBudgets
  <2>. QED
    BY <1>7, <2>1, <2>2, <2>3, <2>4, <2>5 DEF Lookup
<1>8. ASSUME NEW w \in Worker, AcquireLane(w) PROVE Budgets'
  BY <1>8, BudgetsUntouched DEF AcquireLane, tables, budgets, Charged
<1>9. ASSUME NEW w \in Worker, Train(w) PROVE Budgets'
  <2>1. CASE SetValue(w)
    <3>1. future[req[w]] = "in_flight" /\ req[w] \in Key
      BY <2>1 DEF SetValue, PromiseOwned, Owes, OwnerStage, TrainStage, Flow,
                  IType, IReq, Stage
    <3>2. Charged' = Charged
      BY <2>1, <3>1 DEF SetValue, Charged, Flow, IType
    <3>. QED
      BY <2>1, <3>2, BudgetsUntouched DEF SetValue, budgets
  <2>2. CASE future' = future /\ UNCHANGED budgets
    BY <2>2, BudgetsUntouched DEF Charged, budgets
  <2>. QED
    BY <1>9, <2>1, <2>2
    DEF Train, ComponentHit, ComponentMiss, ComponentBuilt, ComponentInsert,
        ComponentFails, CdfClaim, CdfHit,
        CdfHitFailed, CdfBuilt, CdfFails, AssemblyFails, tables
<1>10. ASSUME NEW w \in Worker, SetException(w) PROVE Budgets'
  <2>1. future[req[w]] = "in_flight" /\ req[w] \in Key
    BY <1>10 DEF SetException, PromiseOwned, Owes, OwnerStage, Flow, IType,
                 IReq, Stage
  <2>2. Charged' = Charged
    BY <1>10, <2>1 DEF SetException, Charged, Flow, IType
  <2>. QED
    BY <1>10, <2>2, BudgetsUntouched DEF SetException, budgets
<1>11. ASSUME NEW w \in Worker, GetValue(w) PROVE Budgets'
  BY <1>11, BudgetsUntouched DEF GetValue, tables, budgets, Charged
<1>. QED
  BY <1>1, <1>2, <1>3, <1>4, <1>5, <1>6, <1>7, <1>8, <1>9, <1>10, <1>11
  DEF Next, Step

-----------------------------------------------------------------------------
(* The results.                                                            *)
LEMMA Invariance == Spec => []IInv
<1>1. IInv /\ [Next]_vars => IInv'
  BY FlowStep, BuildsStep, OwnershipStep, BudgetsStep DEF IInv, Flow, Budgets
<1>. QED
  BY InitIInv, <1>1, PTL DEF Spec

LEMMA ChargedAtMostAll == ASSUME IInv PROVE TypeOK
<1>1. Charged \subseteq Key
  BY DEF Charged
<1>2. Cardinality(Charged) <= Cardinality(Key) /\ Cardinality(Key) \in Nat
  BY <1>1, ConstantsAssumption, FS_Subset, FS_CardinalityType
<1>. QED
  BY <1>2 DEF IInv, IType, IReq, ICharge, TypeOK

(* Types: in particular no more trainings than keys are ever started.      *)
THEOREM TypeCorrect == Spec => []TypeOK
BY Invariance, ChargedAtMostAll, PTL

(* Each key is charged once, and the global and the context limits hold,   *)
(* whatever the number of workers that race for the last slot.             *)
THEOREM BudgetSafety == Spec => []BudgetsRespected
<1>1. IInv => BudgetsRespected
  BY DEF IInv, ICharge, ILimit, Charged, BudgetsRespected
<1>. QED
  BY Invariance, <1>1, PTL

(* No promise is orphaned and none is resolved twice.                      *)
THEOREM PromiseSafety == Spec => []PromiseOwned
<1>1. IInv => PromiseOwned
  BY DEF IInv
<1>. QED
  BY Invariance, <1>1, PTL

(* The lane is exclusive, and its holder never waits for another's fit.    *)
THEOREM LaneSafety == Spec => []LaneNeverBlocks
<1>1. IInv => LaneNeverBlocks
  <2>. SUFFICES ASSUME IInv, NEW w \in Worker, pc[w] = "cdf"
                PROVE  cdf[CdfOf[req[w]]] # "in_flight"
    BY DEF IInv, ILane, LaneNeverBlocks
  <2>1. lane = w
    BY DEF IInv, ILane, TrainStage
  <2>2. CdfOf[req[w]] \in CdfKey
    BY ConstantsAssumption DEF IInv, IType, IReq, Stage
  <2>. QED
    BY <2>1, <2>2 DEF IInv, IFit
<1>. QED
  BY Invariance, <1>1, PTL

(* Shared components are built once, although nothing but the lane keeps   *)
(* two builders of the same one apart.                                     *)
THEOREM ComponentSafety == Spec => []ComponentsBuiltOnce
<1>1. IInv => ComponentsBuiltOnce
  BY DEF IInv, IBuilt, ComponentsBuiltOnce
<1>. QED
  BY Invariance, <1>1, PTL

-----------------------------------------------------------------------------
(* The tables as single-flight tables.                                     *)

(* A worker claims a key that is missing and resolves one that it owes: no *)
(* step of a table is any other.                                           *)
LEMMA TablesStep ==
  ASSUME IInv, [Next]_vars
  PROVE  /\ [Models!SlotNext]_future
         /\ [Fits!SlotNext]_cdf
<1>. DEFINE Quiet == UNCHANGED <<future, cdf>>
            Goal  == [Models!SlotNext]_future /\ [Fits!SlotNext]_cdf
<1>1. ASSUME NEW w \in Worker, Admit(w) PROVE Goal
  <2>1. req[w] \in Key
    BY <1>1 DEF Admit, IInv, IType, IReq
  <2>2. Models!Claim(req[w]) /\ UNCHANGED cdf
    BY <1>1 DEF Admit, Models!Claim
  <2>. QED
    BY <2>1, <2>2 DEF Models!SlotNext
<1>2. ASSUME NEW w \in Worker, SetValue(w) \/ SetException(w) PROVE Goal
  <2>1. req[w] \in Key /\ future[req[w]] = "in_flight"
    BY <1>2 DEF SetValue, SetException, IInv, IType, IReq, PromiseOwned, Owes,
                OwnerStage, TrainStage
  <2>2. Models!Resolve(req[w]) /\ UNCHANGED cdf
    BY <1>2, <2>1 DEF SetValue, SetException, Models!Resolve
  <2>. QED
    BY <2>1, <2>2 DEF Models!SlotNext
<1>3. ASSUME NEW w \in Worker, CdfClaim(w) \/ CdfBuilt(w) \/ CdfFails(w) PROVE Goal
  <2>1. CdfOf[req[w]] \in CdfKey
    BY <1>3, ConstantsAssumption DEF CdfClaim, CdfBuilt, CdfFails, IInv, IType, IReq
  <2>2. CASE CdfClaim(w)
    BY <2>1, <2>2 DEF CdfClaim, Fits!Claim, Fits!SlotNext
  <2>3. CASE CdfBuilt(w) \/ CdfFails(w)
    <3>1. cdf[CdfOf[req[w]]] = "in_flight"
      BY <2>3 DEF CdfBuilt, CdfFails, IInv, IFit
    <3>. QED
      BY <2>1, <2>3, <3>1 DEF CdfBuilt, CdfFails, Fits!Resolve, Fits!SlotNext
  <2>. QED
    BY <1>3, <2>2, <2>3
<1>4. ASSUME NEW w \in Worker, Step(w) PROVE Goal
  <2>1. CASE Quiet
    BY <2>1
  <2>. QED
    BY <1>1, <1>2, <1>3, <1>4, <2>1
    DEF Step, Lookup, Hit, RefuseBudget, RefuseContext, RefuseTime, AcquireLane,
        Train, ComponentHit, ComponentMiss, ComponentBuilt, ComponentInsert,
        ComponentFails, CdfHit, CdfHitFailed,
        AssemblyFails, GetValue, tables
<1>5. CASE \/ DeadlinePasses \/ EndContext \/ UNCHANGED vars
           \/ \E limit \in ContextLimit : BeginContext(limit)
           \/ \E w \in Worker, k \in Key : Request(w, k)
           \/ \E w \in Worker : RequestTooLate(w)
  BY <1>5 DEF DeadlinePasses, EndContext, BeginContext, Request, RequestTooLate, vars,
              tables
<1>. QED
  BY <1>4, <1>5 DEF Next

(* The safety of the refinement: a key is trained and a CDF fitted at most *)
(* once in a search, a failure included.  That each claim is resolved is   *)
(* liveness, and checked by the run.                                       *)
THEOREM SingleFlightSafety ==
  Spec => /\ Models!SlotInit /\ [][Models!SlotNext]_future
          /\ Fits!SlotInit /\ [][Fits!SlotNext]_cdf
<1>1. Init => Models!SlotInit /\ Fits!SlotInit
  BY DEF Init, Models!SlotInit, Fits!SlotInit
<1>2. IInv /\ [Next]_vars => [Models!SlotNext]_future /\ [Fits!SlotNext]_cdf
  BY TablesStep
<1>. QED
  BY <1>1, <1>2, Invariance, PTL DEF Spec

=============================================================================
