--------------------------- MODULE SelectorProofs ---------------------------
(***************************************************************************)
(* The selector: the coordinator's safety for every number of contexts and *)
(* every budget, and the candidate scheduler's for every batch and pool.   *)
(*                                                                         *)
(* Coordinator.  Type correctness needs the loop's counters related to     *)
(* each other and to the place in the loop (ILoop).  That later contexts   *)
(* keep a slot needs, inside a context, what its limit leaves to the       *)
(* others and that the trainings since it began stay within that limit     *)
(* (IShare).  That the reported reason is honest needs what each way out   *)
(* of the loop leaves behind (IReason).                                    *)
(*                                                                         *)
(* Scheduler.  Every candidate is in one place until it has its verdict:   *)
(* to be handed out by Main or by Fresh, kept for later, or with a thread  *)
(* (Shared, IShared).  That no candidate is forgotten when the pool is     *)
(* joined needs why its workers stopped (IPool); that fresh trainings run  *)
(* alone needs what the lists hold by the state of the cache (IStreams).   *)
(***************************************************************************)
EXTENDS SelectorCoordinator, CandidateScheduler, SetsAndLists

-----------------------------------------------------------------------------
(* The coordinator.                                                        *)

IType ==
  /\ max \in Nat
  /\ hits.trains => max > 0
  /\ TypeOK

ILoop ==
  /\ pc \in {"probe", "loop"} => evaluated = offset
  /\ pc \in InContext => offset < contexts /\ evaluated = offset + 1
  /\ recorded = IF pc \in InContext THEN evaluated - 1 ELSE evaluated
  /\ stagnant <= IF pc = "finish" THEN recorded + 1 ELSE recorded
  /\ pc \notin InContext => ctx.limit = 0
  /\ ctx.stats_recorded <=> pc \notin InContext

\* The context search began with a training for every context.
Ample == max > 0 /\ max - opening >= contexts

Others == contexts - offset

IShare ==
  Ample =>
    /\ pc = "loop" => max - started >= Others
    /\ pc \in InContext =>
         /\ ctx.limit >= 1
         /\ max - ctx.start >= Others
         /\ ctx.limit <= max - ctx.start - (Others - 1)
         /\ ctx.start <= started
         /\ started - ctx.start <= ctx.limit

StopDecision == "promoted_phase2_then_plateau_stop"

Plateau ==
  /\ stagnant >= Stagnation /\ Stagnation > 0
  /\ options.target => best.met

IReason ==
  /\ pc \in {"probe", "loop"} \cup InContext => reason = "completed_all_contexts"
  /\ reason = "time_budget" => hits.time
  /\ reason \in {"quality_plateau", "recall_target_quality_plateau"} => Plateau
  /\ pc = "finish" /\ found.decision = StopDecision => Plateau
  /\ pc \in {"post", "screen", "calibrate", "rank"} =>
       /\ reason \notin {"model_train_budget", "remaining_time_guard"}
       /\ reason = "completed_all_contexts" => evaluated = contexts
  /\ ReasonIsHonest

IInv == IType /\ ILoop

-----------------------------------------------------------------------------
LEMMA InitIInv == Init => IInv /\ IShare /\ IReason
<1>. SUFFICES ASSUME Init PROVE IInv /\ IShare /\ IReason
  OBVIOUS
<1>1. IType
  <2>1. contexts \in 1 .. MaxContexts /\ probes \in Nat
    <3>1. PICK all \in 1 .. MaxContexts : \E keep \in 1 .. all :
            contexts = keep /\ probes = Probes(all, keep)
      BY DEF Init
    <3>2. PICK keep \in 1 .. all : contexts = keep /\ probes = Probes(all, keep)
      BY <3>1
    <3>. QED
      BY <3>2, CoordinatorAssumption DEF Probes, Least, Greatest
  <2>2. max \in Nat
    BY CoordinatorAssumption DEF Init
  <2>3. found \in [phase1 : Score, phase2 : Score, met : BOOLEAN,
                   decision : Decision \cup {"none"}]
    BY DEF Init, Nothing, Score
  <2>4. valid \in [phase1 : BOOLEAN, phase2 : BOOLEAN, post : BOOLEAN,
                   calibration : BOOLEAN]
    BY DEF Init
  <2>5. /\ hits \in [time : BOOLEAN, guard : BOOLEAN, trains : BOOLEAN]
        /\ ctx \in [start : Nat, limit : Nat, stats_recorded : BOOLEAN]
        /\ best \in [quality : Score, met : BOOLEAN]
    BY DEF Init, Score
  <2>6. /\ offset \in 0 .. contexts /\ stagnant \in 0 .. contexts
        /\ recorded \in 0 .. contexts /\ evaluated \in 0 .. contexts
        /\ started \in Nat /\ opening \in Nat
    BY <2>1 DEF Init
  <2>7. reason \in Reason /\ pc \in Stage /\ expired \in BOOLEAN
    BY DEF Init, Reason, Stage
  <2>8. rounds \in 0 .. Rounds
    BY CoordinatorAssumption DEF Init
  <2>. QED
    BY <2>1, <2>2, <2>3, <2>4, <2>5, <2>6, <2>7, <2>8 DEF Init, IType, TypeOK
<1>2. ILoop
  BY DEF Init, ILoop, InContext
<1>3. IShare
  BY DEF Init, IShare, InContext
<1>4. IReason
  BY DEF Init, IReason, ReasonIsHonest
<1>. QED
  BY <1>1, <1>2, <1>3, <1>4 DEF IInv

\* What evaluating candidates does to the variables it changes.
Evaluated ==
  /\ started' \in Nat
  /\ started <= started'
  /\ expired' \in BOOLEAN
  /\ hits' \in [time : BOOLEAN, guard : BOOLEAN, trains : BOOLEAN]
  /\ hits.time => hits'.time
  /\ hits'.trains => max > 0
  /\ ctx.limit > 0 /\ ctx.start <= started /\ started - ctx.start <= ctx.limit
       => started' - ctx.start <= ctx.limit

LEMMA EvaluateTyped ==
  ASSUME IType, NEW n \in Nat, NEW hit, hit => max > 0, Evaluate(n, hit)
  PROVE  Evaluated
<1>. USE DEF IType, TypeOK
<1>1. started' \in Nat /\ started <= started'
  BY DEF Evaluate
<1>2. expired' \in BOOLEAN
  BY CoordinatorAssumption DEF Evaluate
<1>3. hits' \in [time : BOOLEAN, guard : BOOLEAN, trains : BOOLEAN]
  BY DEF Evaluate
<1>4. ASSUME ctx.limit > 0, ctx.start <= started,
             started - ctx.start <= ctx.limit
      PROVE  started' - ctx.start <= ctx.limit
  BY <1>4 DEF Evaluate, Allows, ContextLeft, Greatest
<1>5. (hits.time => hits'.time) /\ (hits'.trains => max > 0)
  BY DEF Evaluate
<1>. QED
  BY <1>1, <1>2, <1>3, <1>4, <1>5 DEF Evaluated

LEMMA FittedTyped ==
  ASSUME IType, NEW cached \in Nat, NEW missing \in Nat, NEW n \in 0 .. missing,
         FitAndEvaluateAny(cached, missing, n)
  PROVE  Evaluated
<1>1. Pruned(missing, n) => max > 0
  BY DEF Pruned
<1>2. CASE cached + n > 0
  <2>1. Evaluate(n, Pruned(missing, n))
    BY <1>2 DEF FitAndEvaluateAny, FitAndEvaluate
  <2>. QED
    BY <1>1, <2>1, EvaluateTyped
<1>3. CASE ~(cached + n > 0)
  <2>1. /\ hits' = [hits EXCEPT !.trains = hits.trains \/ Pruned(missing, n)]
        /\ UNCHANGED <<started, expired>>
    BY <1>3 DEF FitAndEvaluateAny
  <2>2. hits \in [time : BOOLEAN, guard : BOOLEAN, trains : BOOLEAN]
    BY DEF IType, TypeOK
  <2>3. hits' \in [time : BOOLEAN, guard : BOOLEAN, trains : BOOLEAN]
    <3>1. (hits.trains \/ Pruned(missing, n)) \in BOOLEAN
      OBVIOUS
    <3>. QED
      BY <2>1, <2>2, <3>1
  <2>4. hits'.time = hits.time /\ (hits'.trains => hits.trains \/ Pruned(missing, n))
    BY <2>1, <2>2
  <2>. QED
    BY <1>1, <2>1, <2>3, <2>4 DEF Evaluated, IType, TypeOK
<1>. QED
  BY <1>2, <1>3

\* A look at the clock is an evaluation of nothing.
LEMMA LookTyped ==
  ASSUME IType, LookAtClock \/ UNCHANGED hits, UNCHANGED <<started, expired>>
  PROVE  Evaluated
<1>1. hits \in [time : BOOLEAN, guard : BOOLEAN, trains : BOOLEAN]
  BY DEF IType, TypeOK
<1>2. /\ hits' \in [time : BOOLEAN, guard : BOOLEAN, trains : BOOLEAN]
      /\ hits.time => hits'.time
      /\ hits'.trains = hits.trains
  BY <1>1 DEF LookAtClock
<1>. QED
  BY <1>2 DEF Evaluated, IType, TypeOK

FoundType == [phase1 : Score, phase2 : Score, met : BOOLEAN,
              decision : Decision \cup {"none"}]
ValidType == [phase1 : BOOLEAN, phase2 : BOOLEAN, post : BOOLEAN,
              calibration : BOOLEAN]

\* Updates of a context's findings keep their type.
LEMMA RecordUpdates ==
  ASSUME found \in FoundType,
         NEW q \in Score, NEW b \in BOOLEAN, NEW d \in Decision
  PROVE  /\ [found EXCEPT !.phase1 = q, !.met = b] \in FoundType
         /\ [found EXCEPT !.phase2 = q, !.met = b] \in FoundType
         /\ [found EXCEPT !.decision = d] \in FoundType
BY DEF FoundType

\* A score reported by an evaluation fits the fields it is put into.
LEMMA ReportTyped ==
  ASSUME IType, NEW count \in Nat, NEW q \in Reports(count)
  PROVE  /\ q \in Score
         /\ Greatest(found.phase2, q) \in Score
         /\ Meets(q) \subseteq BOOLEAN
<1>1. q \in Score
  BY DEF Reports, Score
<1>2. found \in FoundType
  BY DEF IType, TypeOK, FoundType
<1>3. found.phase2 \in Score /\ found.met \in BOOLEAN
  BY <1>2 DEF FoundType
<1>. QED
  BY <1>1, <1>3 DEF Greatest, Meets

LEMMA GainTyped ==
  ASSUME IType, NEW q,
         NEW round \in {"phase1", "phase2", "post", "calibration"},
         Gain(round, q)
  PROVE  valid' \in ValidType
<1>1. valid \in ValidType
  BY DEF IType, TypeOK, ValidType
<1>. QED
  BY <1>1 DEF Gain, ValidType

\* A phase of a context evaluates candidates and stays in the context.
ContextPhase ==
  /\ pc \in InContext \ {"finish"}
  /\ Evaluated
  /\ found' \in FoundType
  /\ valid' \in ValidType
  /\ pc' \in InContext
  /\ pc' = "finish" => found'.decision # StopDecision
  /\ rounds' \in 0 .. Rounds
  /\ UNCHANGED <<setup, loop, search, ctx, recorded, reason>>

Phase == Phase1 \/ Beam \/ BeamEnds \/ Phase2 \/ Refine \/ RefineEnds

LEMMA PhaseShape ==
  ASSUME IType, Phase
  PROVE  ContextPhase
<1>0. found \in FoundType /\ valid \in ValidType /\ rounds \in 0 .. Rounds /\ Rounds \in Nat
  BY CoordinatorAssumption DEF IType, TypeOK, FoundType, ValidType
<1>a. ASSUME NEW d \in Decision, Leave(d)
      PROVE  found' \in FoundType /\ pc' = "finish" /\ found'.decision = d
  <2>1. found' \in FoundType /\ pc' = "finish"
    BY <1>0, <1>a, RecordUpdates DEF Leave, Score
  <2>2. found'.decision = d
    BY <1>0, <1>a DEF Leave, FoundType
  <2>. QED
    BY <2>1, <2>2
<1>1. CASE Phase1
  <2>0. PICK cached \in Candidates, missing \in Candidates :
          \E n \in 0 .. missing :
            /\ FitAndEvaluate(missing, n)
            /\ \E q \in Reports(cached + n) :
                 /\ Gain("phase1", q)
                 /\ IF q = None
                      THEN Leave("no_valid_phase1")
                      ELSE /\ \E met \in Meets(q) :
                                found' = [found EXCEPT !.phase1 = q, !.met = met]
                           /\ pc' = "promote"
    BY <1>1 DEF Phase1
  <2>1. PICK n \in 0 .. missing :
          /\ FitAndEvaluate(missing, n)
          /\ \E q \in Reports(cached + n) :
               /\ Gain("phase1", q)
               /\ IF q = None
                    THEN Leave("no_valid_phase1")
                    ELSE /\ \E met \in Meets(q) :
                              found' = [found EXCEPT !.phase1 = q, !.met = met]
                         /\ pc' = "promote"
    BY <2>0
  <2>2. n \in Nat /\ cached + n \in Nat
    <3>1. cached \in Nat /\ missing \in Nat
      BY CoordinatorAssumption
    <3>. QED
      BY <3>1
  <2>3. Evaluated
    BY <2>1, <2>2, EvaluateTyped DEF FitAndEvaluate, Pruned
  <2>4. PICK q \in Reports(cached + n) :
          /\ Gain("phase1", q)
          /\ IF q = None
               THEN Leave("no_valid_phase1")
               ELSE /\ \E met \in Meets(q) :
                         found' = [found EXCEPT !.phase1 = q, !.met = met]
                    /\ pc' = "promote"
    BY <2>1
  <2>5. q \in Score /\ Meets(q) \subseteq BOOLEAN
    BY <2>2, ReportTyped
  <2>6. valid' \in ValidType
    BY <2>4, GainTyped
  <2>7. /\ found' \in FoundType /\ pc' \in InContext
        /\ pc' = "finish" => found'.decision # StopDecision
    <3>1. CASE q = None
      BY <2>4, <3>1, <1>a DEF Decision, InContext, StopDecision
    <3>2. CASE q # None
      <4>1. PICK met \in BOOLEAN :
              found' = [found EXCEPT !.phase1 = q, !.met = met]
        BY <2>4, <2>5, <3>2
      <4>2. "finish" \in {"finish"} /\ "no_valid_phase1" \in Decision
        BY DEF Decision
      <4>. QED
        BY <1>0, <2>4, <2>5, <3>2, <4>1, <4>2, RecordUpdates DEF InContext
    <3>. QED
      BY <3>1, <3>2
  <2>. QED
    BY <1>0, <1>1, <2>3, <2>6, <2>7 DEF ContextPhase, Phase1, InContext
<1>2. CASE Beam
  <2>1. PICK cached \in Candidates, missing \in Candidates :
          \E n \in 0 .. missing :
            /\ FitAndEvaluateAny(cached, missing, n)
            /\ rounds' = IF cached + n = 0 THEN Rounds ELSE rounds + 1
    BY <1>2 DEF Beam
  <2>2. cached \in Nat /\ missing \in Nat
    BY CoordinatorAssumption
  <2>3. Evaluated /\ rounds' \in {Rounds, rounds + 1}
    BY <2>1, <2>2, FittedTyped
  <2>4. rounds' \in 0 .. Rounds
    BY <1>0, <1>2, <2>3 DEF Beam
  <2>. QED
    BY <1>0, <1>2, <2>3, <2>4 DEF ContextPhase, Beam, InContext
<1>5. CASE BeamEnds
  <2>1. Evaluated
    BY <1>5, LookTyped DEF BeamEnds
  <2>2. /\ found' \in FoundType /\ pc' \in InContext
        /\ pc' = "finish" => found'.decision # StopDecision
    BY <1>0, <1>5, <1>a DEF BeamEnds, Decision, InContext, StopDecision
  <2>. QED
    BY <1>0, <1>5, <2>1, <2>2 DEF ContextPhase, BeamEnds, InContext
<1>3. CASE Phase2
  <2>0. PICK cached \in Candidates, missing \in Candidates :
          \E n \in 0 .. missing :
            /\ FitAndEvaluateAny(cached, missing, n)
            /\ IF cached + n = 0
                 THEN Leave("phase2_budget_exhausted") /\ UNCHANGED valid
                 ELSE \E q \in Reports(cached + n) :
                        /\ \E met \in Meets(q) :
                             found' = [found EXCEPT !.phase2 = q, !.met = met]
                        /\ Gain("phase2", q)
                        /\ pc' = IF options.recall /\ q # None THEN "refine" ELSE "judge"
    BY <1>3 DEF Phase2
  <2>1. PICK n \in 0 .. missing :
          /\ FitAndEvaluateAny(cached, missing, n)
          /\ IF cached + n = 0
               THEN Leave("phase2_budget_exhausted") /\ UNCHANGED valid
               ELSE \E q \in Reports(cached + n) :
                      /\ \E met \in Meets(q) :
                           found' = [found EXCEPT !.phase2 = q, !.met = met]
                      /\ Gain("phase2", q)
                      /\ pc' = IF options.recall /\ q # None THEN "refine" ELSE "judge"
    BY <2>0
  <2>2. n \in Nat /\ cached + n \in Nat
    <3>1. cached \in Nat /\ missing \in Nat
      BY CoordinatorAssumption
    <3>. QED
      BY <3>1
  <2>3. Evaluated
    <3>1. cached \in Nat /\ missing \in Nat
      BY CoordinatorAssumption
    <3>. QED
      BY <2>1, <3>1, FittedTyped
  <2>4. CASE cached + n = 0
    <3>1. /\ found' \in FoundType /\ pc' \in InContext
          /\ pc' = "finish" => found'.decision # StopDecision
      BY <2>1, <2>4, <1>a DEF Decision, InContext, StopDecision
    <3>2. valid' \in ValidType
      BY <1>0, <2>1, <2>4
    <3>. QED
      BY <1>0, <1>3, <2>3, <3>1, <3>2 DEF ContextPhase, Phase2, InContext
  <2>5. CASE cached + n # 0
    <3>1. PICK q \in Reports(cached + n) :
            /\ \E met \in Meets(q) :
                 found' = [found EXCEPT !.phase2 = q, !.met = met]
            /\ Gain("phase2", q)
            /\ pc' = IF options.recall /\ q # None THEN "refine" ELSE "judge"
      BY <2>1, <2>5
    <3>2. q \in Score /\ Meets(q) \subseteq BOOLEAN
      BY <2>2, ReportTyped
    <3>3. valid' \in ValidType
      BY <3>1, GainTyped
    <3>4. PICK met \in BOOLEAN : found' = [found EXCEPT !.phase2 = q, !.met = met]
      BY <3>1, <3>2
    <3>5. "promoted_phase2" \in Decision
      BY DEF Decision
    <3>6. found' \in FoundType
      BY <1>0, <3>2, <3>4, <3>5, RecordUpdates
    <3>7. pc' \in InContext /\ pc' # "finish"
      BY <3>1 DEF InContext
    <3>. QED
      BY <1>0, <1>3, <2>3, <3>3, <3>6, <3>7 DEF ContextPhase, Phase2, InContext
  <2>. QED
    BY <2>4, <2>5
<1>4. CASE Refine
  <2>0. PICK cached \in Candidates, missing \in Candidates :
          \E n \in 0 .. missing :
            /\ FitAndEvaluateAny(cached, missing, n)
            /\ rounds' = IF cached + n = 0 THEN Rounds ELSE rounds + 1
            /\ \E q \in Reports(cached + n) : \E met \in Meets(q) :
                 found' = [found EXCEPT !.phase2 = Greatest(@, q), !.met = met]
    BY <1>4 DEF Refine
  <2>1. PICK n \in 0 .. missing :
          /\ FitAndEvaluateAny(cached, missing, n)
          /\ rounds' = IF cached + n = 0 THEN Rounds ELSE rounds + 1
          /\ \E q \in Reports(cached + n) : \E met \in Meets(q) :
               found' = [found EXCEPT !.phase2 = Greatest(@, q), !.met = met]
    BY <2>0
  <2>2. cached \in Nat /\ missing \in Nat /\ cached + n \in Nat
    <3>1. cached \in Nat /\ missing \in Nat
      BY CoordinatorAssumption
    <3>. QED
      BY <3>1
  <2>3. Evaluated
    BY <2>1, <2>2, FittedTyped
  <2>4. PICK q \in Reports(cached + n) : \E met \in Meets(q) :
          found' = [found EXCEPT !.phase2 = Greatest(found.phase2, q), !.met = met]
    BY <2>1
  <2>8. rounds' \in 0 .. Rounds
    BY <1>0, <1>4, <2>1 DEF Refine
  <2>5. Greatest(found.phase2, q) \in Score /\ Meets(q) \subseteq BOOLEAN
    BY <2>2, ReportTyped
  <2>6. "promoted_phase2" \in Decision
    BY DEF Decision
  <2>7. found' \in FoundType
    BY <1>0, <2>4, <2>5, <2>6, RecordUpdates
  <2>. QED
    BY <1>0, <1>4, <2>3, <2>7, <2>8 DEF ContextPhase, Refine, InContext
<1>6. CASE RefineEnds
  <2>1. Evaluated
    BY <1>6, LookTyped DEF RefineEnds
  <2>. QED
    BY <1>0, <1>6, <2>1 DEF ContextPhase, RefineEnds, InContext
<1>. QED
  BY <1>1, <1>2, <1>3, <1>4, <1>5, <1>6 DEF Phase

\* An exit of a context records its statistics, lifts its limit, and goes on
\* or stops the search for a reason.
ContextExit ==
  /\ pc = "finish"
  /\ recorded' = recorded + 1
  /\ ctx' = [ctx EXCEPT !.limit = 0, !.stats_recorded = TRUE]
  /\ found' = Nothing
  /\ UNCHANGED <<setup, clock, contexts, probes, opening, search, started, rounds, valid>>
  /\ \/ Continue
     \/ hits.time /\ Break("time_budget")
     \/ /\ found.decision = StopDecision
        /\ \/ Break("quality_plateau")
           \/ Break("recall_target_quality_plateau")

\* Every one of the exits does.
LEMMA ExitShape == ASSUME ILoop, LeaveContext PROVE ContextExit
<1>1. ASSUME NEW decision, Exit(decision), FinishContextStats
      PROVE  /\ pc = "finish" /\ found.decision = decision /\ found' = Nothing
             /\ recorded' = recorded + 1
             /\ ctx' = [ctx EXCEPT !.limit = 0, !.stats_recorded = TRUE]
             /\ UNCHANGED <<setup, clock, contexts, probes, opening, search, started,
                            rounds, valid>>
  <2>1. pc = "finish" /\ ~ctx.stats_recorded
    BY <1>1 DEF Exit, ILoop, InContext
  <2>. QED
    BY <1>1, <2>1 DEF Exit, FinishContextStats
<1>2. CASE NoValidPhase1
  BY <1>1, <1>2 DEF NoValidPhase1, BreakOnTime, ContextExit
<1>3. CASE SkippedLowPotential
  BY <1>1, <1>3 DEF SkippedLowPotential, ContextExit
<1>4. CASE Phase2NoCandidates
  BY <1>1, <1>4 DEF Phase2NoCandidates, BreakOnTime, ContextExit
<1>5. CASE Phase2BudgetExhausted
  BY <1>1, <1>5 DEF Phase2BudgetExhausted, BreakOnTime, ContextExit
<1>6. CASE QualityPlateau
  BY <1>1, <1>6 DEF QualityPlateau, ContextExit, StopDecision
<1>7. CASE TimeBudgetBreak
  BY <1>1, <1>7 DEF TimeBudgetBreak, ContextExit
<1>8. CASE ContextDone
  BY <1>1, <1>8 DEF ContextDone, ContextExit
<1>. QED
  BY <1>2, <1>3, <1>4, <1>5, <1>6, <1>7, <1>8 DEF LeaveContext

\* After the search, evaluations are charged to no context.
AfterPhase ==
  /\ pc \in {"post", "screen", "calibrate"}
  /\ Evaluated
  /\ valid' \in ValidType
  /\ pc' \in {"screen", "calibrate", "rank"}
  /\ UNCHANGED <<setup, loop, search, ctx, rounds, found, recorded, reason>>

LEMMA AfterShape ==
  ASSUME IType, PostExplore \/ Screen \/ Calibrate
  PROVE  AfterPhase
<1>0. valid \in ValidType
  BY DEF IType, TypeOK, ValidType
<1>1. ASSUME UNCHANGED <<clock, started>> PROVE Evaluated
  BY <1>1 DEF Evaluated, clock, IType, TypeOK
<1>2. CASE PostExplore
  <2>. DEFINE limit == IF max = 0 THEN reserve ELSE Least(reserve, GlobalLeft)
  <2>1. limit \in Nat
    BY CoordinatorAssumption DEF Least, GlobalLeft, Greatest, IType, TypeOK
  <2>2. CASE limit > 0 /\ Found
    <3>1. Evaluate(limit, FALSE) /\ \E q \in Reports(limit) : Gain("post", q)
      BY <1>2, <2>2 DEF PostExplore
    <3>2. Evaluated
      BY <2>1, <3>1, EvaluateTyped
    <3>3. valid' \in ValidType
      BY <3>1, GainTyped
    <3>. QED
      BY <1>2, <3>2, <3>3 DEF AfterPhase, PostExplore
  <2>3. CASE ~(limit > 0 /\ Found)
    <3>1. UNCHANGED <<started, clock, valid>>
      BY <1>2, <2>3 DEF PostExplore
    <3>. QED
      BY <1>0, <1>2, <1>1, <3>1 DEF AfterPhase, PostExplore
  <2>. QED
    BY <2>2, <2>3
<1>3. CASE Screen
  <2>1. Evaluated
    BY <1>3, <1>1, CoordinatorAssumption, EvaluateTyped DEF Screen
  <2>. QED
    BY <1>0, <1>3, <2>1 DEF AfterPhase, Screen
<1>4. CASE Calibrate
  <2>1. PICK n \in Candidates :
          Evaluate(n, FALSE) /\ \E q \in Reports(1) : Gain("calibration", q)
    BY <1>4 DEF Calibrate
  <2>2. Evaluated
    BY <2>1, CoordinatorAssumption, EvaluateTyped
  <2>3. valid' \in ValidType
    BY <2>1, GainTyped
  <2>. QED
    BY <1>4, <2>2, <2>3 DEF AfterPhase, Calibrate
<1>. QED
  BY <1>2, <1>3, <1>4

-----------------------------------------------------------------------------
(* Types and counters: one step per action.                                *)
LEMMA LookAtClockTyped ==
  ASSUME IType, LookAtClock
  PROVE  /\ hits' \in [time : BOOLEAN, guard : BOOLEAN, trains : BOOLEAN]
         /\ hits'.trains = hits.trains
BY DEF IType, TypeOK, LookAtClock

LEMMA LoopStep == IInv /\ [Next]_vars => IInv'
<1>. SUFFICES ASSUME IInv, [Next]_vars PROVE IInv'
  OBVIOUS
<1>. USE CoordinatorAssumption
     DEF IInv, IType, TypeOK, ILoop, InContext, Stage, Reason, Decision, Score,
         None, setup, clock, loop, search
<1>1. CASE UNCHANGED vars
  BY <1>1 DEF vars
<1>2. CASE Probe
  <2>1. CASE expired
    <3>1. LookAtClock /\ probes' = 0 /\ UNCHANGED <<started, expired>>
      BY <1>2, <2>1 DEF Probe
    <3>2. /\ hits' \in [time : BOOLEAN, guard : BOOLEAN, trains : BOOLEAN]
          /\ hits'.trains = hits.trains
      BY <3>1, LookAtClockTyped
    <3>. QED
      BY <1>2, <3>1, <3>2 DEF Probe
  <2>2. CASE ~expired
    <3>1. Evaluate(1, FALSE) /\ probes' = probes - 1 /\ probes > 0
      BY <1>2, <2>2 DEF Probe
    <3>2. Evaluated
      BY <3>1, EvaluateTyped
    <3>. QED
      BY <1>2, <3>1, <3>2 DEF Probe, Evaluated
  <2>. QED
    BY <2>1, <2>2
<1>3. CASE StartLoop
  BY <1>3 DEF StartLoop
<1>4. CASE LeaveLoop
  <2>1. /\ hits' \in [time : BOOLEAN, guard : BOOLEAN, trains : BOOLEAN]
        /\ hits'.trains = hits.trains
    BY <1>4, LookAtClockTyped DEF LeaveLoop
  <2>. QED
    BY <1>4, <2>1 DEF LeaveLoop
<1>5. CASE BeginContext
  <2>1. PICK limit \in Adapted(FairBudget) :
          ctx' = [start |-> started, limit |-> limit, stats_recorded |-> FALSE]
    BY <1>5 DEF BeginContext
  <2>2. FairBudget \in Nat
    <3>1. CASE max = 0 \/ started >= max
      BY <3>1 DEF FairBudget
    <3>2. CASE ~(max = 0 \/ started >= max)
      BY <3>2, <1>5 DEF FairBudget, BeginContext, Least, Greatest
    <3>. QED
      BY <3>1, <3>2
  <2>3. limit \in Nat
    BY <2>1, <2>2 DEF Adapted
  <2>4. found' \in [phase1 : Score, phase2 : Score, met : BOOLEAN,
                    decision : Decision \cup {"none"}]
    BY <1>5 DEF BeginContext, Nothing
  <2>. QED
    BY <1>5, <2>1, <2>3, <2>4 DEF BeginContext
<1>6. CASE Phase
  <2>1. ContextPhase
    BY <1>6, PhaseShape
  <2>. QED
    BY <2>1 DEF ContextPhase, Evaluated, FoundType, ValidType
<1>7. CASE Promote
  BY <1>7 DEF Promote, Leave
<1>8. CASE Judge
  <2>. DEFINE q == Greatest(found.phase1, found.phase2)
              met == best.met \/ found.met
  <2>1. q \in Score /\ met \in BOOLEAN
    BY DEF Greatest
  <2>2. best' = [quality |-> Greatest(best.quality, q), met |-> met]
    BY <1>8 DEF Judge
  <2>3. best' \in [quality : Score, met : BOOLEAN]
    BY <2>1, <2>2 DEF Greatest
  <2>4. stagnant' \in 0 .. stagnant + 1
    BY <1>8 DEF Judge
  <2>5. pc' = "finish" /\ \E d \in Decision : found' = [found EXCEPT !.decision = d]
    BY <1>8 DEF Judge, Leave
  <2>. QED
    BY <1>8, <2>3, <2>4, <2>5 DEF Judge
<1>9. CASE LeaveContext
  <2>1. ContextExit
    BY <1>9, ExitShape
  <2>2. found' \in [phase1 : Score, phase2 : Score, met : BOOLEAN,
                    decision : Decision \cup {"none"}]
    BY <2>1 DEF ContextExit, Nothing
  <2>3. \/ offset' = offset + 1 /\ pc' = "loop" /\ reason' = reason
        \/ offset' = offset /\ pc' = "post" /\ reason' \in Reason
    BY <2>1 DEF ContextExit, Continue, Break
  <2>4. /\ ctx' \in [start : Nat, limit : Nat, stats_recorded : BOOLEAN]
        /\ ctx'.limit = 0 /\ ctx'.stats_recorded
    BY <2>1 DEF ContextExit
  <2>. QED
    BY <2>1, <2>2, <2>3, <2>4 DEF ContextExit
<1>10. CASE PostExplore \/ Screen \/ Calibrate
  <2>1. AfterPhase
    BY <1>10, AfterShape
  <2>. QED
    BY <2>1 DEF AfterPhase, Evaluated, ValidType
<1>11. CASE Rank
  BY <1>11 DEF Rank
<1>12. CASE Returned
  BY <1>12 DEF Returned, vars
<1>. QED
  BY <1>1, <1>2, <1>3, <1>4, <1>5, <1>6, <1>7, <1>8, <1>9, <1>10, <1>11, <1>12
  DEF Next, Phase

-----------------------------------------------------------------------------
(* A slot for later contexts.                                              *)

\* In a search that began with a training for every context, the fair budget
\* of a context leaves one for each of the others.
LEMMA FairShare ==
  ASSUME IInv, IShare, Ample, BeginContext
  PROVE  /\ ctx'.start = started
         /\ ctx'.limit \in Nat /\ ctx'.limit >= 1
         /\ ctx'.limit <= max - started - (Others - 1)
<1>. USE CoordinatorAssumption DEF IInv, IType, TypeOK
<1>1. /\ Others \in Nat /\ Others >= 1 /\ max \in Nat /\ max > 0
      /\ started \in Nat /\ reserve \in Nat /\ max - started >= Others
  BY DEF BeginContext, IShare, Ample, Others
<1>. DEFINE left      == max - started
            remaining == IF reserve > 0 /\ left > reserve + Others
                           THEN left - reserve ELSE left
            share     == Greatest(1, (remaining + Others - 1) \div Others)
            useful    == Least(remaining, MinimumUseful)
            budget    == IF remaining \div Others >= useful THEN useful ELSE share
            most      == IF remaining > Others - 1 THEN remaining - (Others - 1) ELSE 1
<1>2. remaining \in Nat /\ remaining >= Others /\ remaining <= left
  BY <1>1
<1>3. FairBudget = IF Others <= 1 THEN remaining ELSE Least(budget, most)
  BY <1>1 DEF FairBudget, Others
<1>4. (remaining + Others - 1) \div Others \in Int /\ remaining \div Others \in Int
  <2>. HIDE DEF remaining
  <2>. QED
    BY <1>1, <1>2
<1>5. budget \in Int /\ budget >= 1
  <2>1. useful \in Int /\ useful >= 1
    <3>. HIDE DEF remaining
    <3>. QED
      BY <1>1, <1>2 DEF Least
  <2>2. share \in Int /\ share >= 1
    <3>. HIDE DEF remaining
    <3>. QED
      BY <1>4 DEF Greatest
  <2>. HIDE DEF useful, share
  <2>. QED
    BY <2>1, <2>2
<1>6. most = remaining - (Others - 1) /\ most >= 1
  <2>. HIDE DEF remaining
  <2>. QED
    BY <1>1, <1>2
<1>7. FairBudget \in Int /\ FairBudget >= 1 /\ FairBudget <= left - (Others - 1)
  <2>. HIDE DEF remaining, budget, most
  <2>1. CASE Others <= 1
    BY <1>1, <1>2, <1>3, <2>1
  <2>2. CASE Others > 1
    <3>1. FairBudget = Least(budget, most)
      BY <1>1, <1>3, <2>2
    <3>. QED
      BY <1>1, <1>2, <1>5, <1>6, <3>1 DEF Least
  <2>. QED
    BY <1>1, <2>1, <2>2
<1>8. PICK limit \in Adapted(FairBudget) :
        ctx' = [start |-> started, limit |-> limit, stats_recorded |-> FALSE]
  BY DEF BeginContext
<1>9. limit \in Int /\ limit >= 1 /\ limit <= FairBudget
  BY <1>7, <1>8 DEF Adapted
<1>. QED
  BY <1>1, <1>7, <1>8, <1>9

\* The share of the later contexts is kept: one step per action.
LEMMA ShareStep == IInv /\ IShare /\ [Next]_vars => IShare'
<1>. SUFFICES ASSUME IInv, IShare, [Next]_vars, Ample' PROVE IShare'
  BY DEF IShare
<1>. USE DEF IInv, IType, TypeOK
<1>1. CASE UNCHANGED vars
  BY <1>1 DEF vars, setup, loop, IShare, Ample, Others
<1>2. CASE Probe
  BY <1>2 DEF Probe, IShare, InContext
<1>3. CASE StartLoop
  <2>1. max - started >= contexts
    BY <1>3 DEF StartLoop, Ample, loop, setup
  <2>. QED
    BY <1>3, <2>1 DEF StartLoop, IShare, InContext, Others, setup
<1>4. CASE LeaveLoop
  BY <1>4 DEF LeaveLoop, IShare, InContext
<1>5. CASE BeginContext
  <2>1. Ample /\ Others' = Others /\ UNCHANGED <<max, started>> /\ pc' = "phase1"
    BY <1>5 DEF BeginContext, Ample, Others, loop, setup
  <2>2. max - started >= Others
    BY <1>5, <2>1 DEF BeginContext, IShare
  <2>3. /\ ctx'.start = started /\ ctx'.limit \in Nat /\ ctx'.limit >= 1
        /\ ctx'.limit <= max - started - (Others - 1)
    BY <1>5, <2>1, FairShare
  <2>. QED
    BY <2>1, <2>2, <2>3 DEF IShare
<1>6. CASE Phase
  <2>1. ContextPhase
    BY <1>6, PhaseShape
  <2>2. /\ Ample /\ UNCHANGED <<max, ctx, contexts, offset>>
        /\ pc \in InContext /\ pc' \in InContext
    BY <2>1 DEF ContextPhase, Ample, loop, setup
  <2>3. /\ started' \in Nat /\ started <= started'
        /\ ctx.limit > 0 /\ ctx.start <= started /\ started - ctx.start <= ctx.limit
             => started' - ctx.start <= ctx.limit
    BY <2>1 DEF ContextPhase, Evaluated
  <2>4. /\ ctx.limit >= 1 /\ max - ctx.start >= Others
        /\ ctx.limit <= max - ctx.start - (Others - 1)
        /\ ctx.start <= started /\ started - ctx.start <= ctx.limit
    BY <2>2 DEF IShare
  <2>5. ctx.limit \in Nat /\ ctx.start \in Nat /\ started \in Nat
    OBVIOUS
  <2>6. /\ Others' = Others /\ pc' # "loop"
        /\ ctx.start <= started' /\ started' - ctx.start <= ctx.limit
    BY <2>2, <2>3, <2>4, <2>5 DEF Others, InContext
  <2>. QED
    BY <2>2, <2>4, <2>6 DEF IShare
<1>7. CASE Promote \/ Judge
  <2>1. /\ UNCHANGED <<max, ctx, contexts, offset, opening, started>>
        /\ pc \in InContext /\ pc' \in InContext
    BY <1>7 DEF Promote, Judge, Leave, InContext, loop, setup
  <2>. QED
    BY <2>1 DEF IShare, Others, Ample, InContext
<1>8. CASE LeaveContext
  <2>1. /\ UNCHANGED <<max, contexts, opening, started>> /\ pc = "finish"
        /\ \/ pc' = "loop" /\ offset' = offset + 1
           \/ pc' = "post"
    BY <1>8, ExitShape DEF ContextExit, Continue, Break, setup
  <2>2. Ample
    BY <2>1 DEF Ample
  <2>. QED
    BY <2>1, <2>2 DEF IShare, Others, InContext
<1>9. CASE PostExplore \/ Screen \/ Calibrate
  <2>1. AfterPhase
    BY <1>9, AfterShape
  <2>. QED
    BY <2>1 DEF AfterPhase, IShare, InContext
<1>10. CASE Rank
  BY <1>10 DEF Rank, IShare, InContext
<1>11. CASE Returned
  BY <1>1, <1>11 DEF Returned
<1>. QED
  BY <1>1, <1>2, <1>3, <1>4, <1>5, <1>6, <1>7, <1>8, <1>9, <1>10, <1>11 DEF Next, Phase

-----------------------------------------------------------------------------
(* An honest reason: one step per action.                                  *)

\* A step that stays in the search keeps the reason the search began with.
LEMMA Searching ==
  ASSUME IInv, IReason, pc \in {"probe", "loop"} \cup InContext,
         pc' \in {"probe", "loop"} \cup InContext,
         reason' = reason,
         pc' = "finish" => (found'.decision = StopDecision => Plateau')
  PROVE  IReason'
BY DEF IReason, ReasonIsHonest, InContext

\* A step after the search leaves the reason, and what it speaks of.
LEMMA Searched ==
  ASSUME IInv, IReason, pc \in {"post", "screen", "calibrate"},
         pc' \in {"screen", "calibrate", "rank"},
         hits.time => hits'.time,
         UNCHANGED <<options, contexts, stagnant, best, evaluated, reason>>
  PROVE  IReason'
BY DEF IReason, ReasonIsHonest, Plateau, InContext

LEMMA ReasonStep == IInv /\ IReason /\ [Next]_vars => IReason'
<1>. SUFFICES ASSUME IInv, IReason, [Next]_vars PROVE IReason'
  OBVIOUS
<1>1. CASE UNCHANGED vars
  BY <1>1 DEF vars, setup, clock, loop, search, IReason, ReasonIsHonest, Plateau
<1>2. CASE Probe \/ StartLoop \/ BeginContext
  BY <1>2, Searching DEF Probe, StartLoop, BeginContext, InContext
<1>3. CASE LeaveLoop
  <2>1. pc' = "post" /\ pc = "loop" /\ UNCHANGED <<contexts, evaluated>>
    BY <1>3 DEF LeaveLoop, loop, search
  <2>2. reason = "completed_all_contexts" /\ evaluated = offset
    BY <2>1 DEF IReason, IInv, ILoop
  <2>3. CASE offset < contexts
    <3>1. expired /\ reason' = "time_budget"
      BY <1>3, <2>3 DEF LeaveLoop, IInv, IType, TypeOK
    <3>2. hits'.time
      <4>1. hits' = [hits EXCEPT !.time = TRUE]
        BY <1>3, <2>3, <3>1 DEF LeaveLoop, LookAtClock, IInv, IType, TypeOK
      <4>2. hits \in [time : BOOLEAN, guard : BOOLEAN, trains : BOOLEAN]
        BY DEF IInv, IType, TypeOK
      <4>. QED
        BY <4>1, <4>2
    <3>. QED
      BY <2>1, <3>1, <3>2 DEF IReason, ReasonIsHonest, InContext
  <2>4. CASE ~(offset < contexts)
    <3>1. offset = contexts /\ UNCHANGED <<hits, reason>>
      BY <1>3, <2>4 DEF LeaveLoop, IInv, IType, TypeOK
    <3>. QED
      BY <2>1, <2>2, <3>1 DEF IReason, ReasonIsHonest, InContext
  <2>. QED
    BY <2>3, <2>4
<1>4. CASE Phase
  <2>1. ContextPhase
    BY <1>4, PhaseShape DEF IInv
  <2>. QED
    BY <2>1, Searching DEF ContextPhase
<1>5. CASE Promote
  <2>1. pc' = "finish" => found'.decision # StopDecision
    BY <1>5 DEF Promote, Leave, StopDecision, IInv, IType, TypeOK
  <2>. QED
    BY <1>5, <2>1, Searching DEF Promote, Leave, InContext
<1>6. CASE Judge
  <2>1. pc = "judge" /\ pc' = "finish" /\ UNCHANGED <<reason, options>>
    BY <1>6 DEF Judge, Leave, setup
  <2>2. ASSUME found'.decision = StopDecision PROVE Plateau'
    <3>1. /\ Stagnation > 0 /\ stagnant' >= Stagnation
          /\ options.target => (best.met \/ found.met)
      BY <1>6, <2>2 DEF Judge, Leave, StopDecision, IInv, IType, TypeOK
    <3>2. best'.met = (best.met \/ found.met)
      BY <1>6 DEF Judge
    <3>. QED
      BY <2>1, <3>1, <3>2 DEF Plateau
  <2>. QED
    BY <2>1, <2>2, Searching DEF InContext
<1>7. CASE LeaveContext
  <2>0. ContextExit
    BY <1>7, ExitShape DEF IInv
  <2>1. /\ pc = "finish" /\ UNCHANGED <<hits, options, stagnant, best>>
        /\ reason = "completed_all_contexts"
    BY <2>0 DEF ContextExit, setup, clock, search, IReason, InContext
  <2>2. CASE /\ found.decision = StopDecision
             /\ \/ Break("quality_plateau")
                \/ Break("recall_target_quality_plateau")
    <3>1. /\ pc' = "post"
          /\ reason' \in {"quality_plateau", "recall_target_quality_plateau"}
      BY <2>2 DEF Break
    <3>2. Plateau'
      BY <2>1, <2>2 DEF IReason, Plateau
    <3>. QED
      BY <3>1, <3>2 DEF IReason, ReasonIsHonest, InContext
  <2>3. CASE hits.time /\ Break("time_budget")
    <3>1. pc' = "post" /\ reason' = "time_budget" /\ hits'.time
      BY <2>1, <2>3 DEF Break
    <3>. QED
      BY <3>1 DEF IReason, ReasonIsHonest, InContext
  <2>4. CASE Continue
    <3>1. pc' = "loop" /\ reason' = reason
      BY <2>4 DEF Continue
    <3>. QED
      BY <2>1, <3>1, Searching DEF InContext
  <2>. QED
    BY <2>0, <2>2, <2>3, <2>4 DEF ContextExit
<1>8. CASE PostExplore \/ Screen \/ Calibrate
  <2>1. AfterPhase
    BY <1>8, AfterShape DEF IInv
  <2>. QED
    BY <2>1, Searched DEF AfterPhase, Evaluated, setup, loop, search
<1>9. CASE Rank
  <2>1. /\ pc = "rank" /\ pc' \in {"done", "failed"}
        /\ UNCHANGED <<options, contexts, stagnant, best, evaluated, hits, max>>
    BY <1>9 DEF Rank, setup, clock, loop, search
  <2>2. /\ reason \notin {"model_train_budget", "remaining_time_guard"}
        /\ reason = "completed_all_contexts" => evaluated = contexts
        /\ reason = "time_budget" => hits.time
        /\ reason \in {"quality_plateau", "recall_target_quality_plateau"} => Plateau
    BY <2>1 DEF IReason
  <2>3. CASE pc' = "failed"
    <3>1. reason' = reason
      BY <1>9, <2>3 DEF Rank
    <3>. QED
      BY <2>1, <2>2, <2>3, <3>1 DEF IReason, ReasonIsHonest, Plateau, InContext
  <2>4. CASE pc' = "done"
    <3>0. max \in Nat /\ started \in Nat
      BY DEF IInv, IType, TypeOK
    <3>1. \/ hits.time /\ reason' = "time_budget"
          \/ ~hits.time /\ hits.guard /\ reason' = "remaining_time_guard"
          \/ /\ ~hits.time /\ ~hits.guard /\ TrainBudgetHit /\ evaluated < contexts
             /\ reason' = "model_train_budget"
          \/ ~hits.time /\ ~hits.guard /\ reason' = reason
      BY <1>9, <2>4 DEF Rank
    <3>2. /\ reason' = "completed_all_contexts" => reason = reason'
          /\ reason' \in {"quality_plateau", "recall_target_quality_plateau"}
               => reason = reason'
          /\ reason' = "model_train_budget" => max > 0 /\ evaluated < contexts
          /\ reason' = "time_budget" <=> hits.time
          /\ reason' = "completed_all_contexts" => ~hits.time /\ ~hits.guard
      <4>1. ASSUME TrainBudgetHit, evaluated < contexts PROVE max > 0
        BY <4>1 DEF TrainBudgetHit, IInv, IType, TypeOK
      <4>. QED
        BY <2>2, <3>1, <4>1
    <3>3. reason' \in {"quality_plateau", "recall_target_quality_plateau"} => Plateau'
      BY <2>1, <2>2, <3>2 DEF Plateau
    <3>4. ReasonIsHonest'
      BY <2>1, <2>2, <3>2, <3>3 DEF ReasonIsHonest, Plateau
    <3>. QED
      BY <2>1, <2>4, <3>2, <3>3, <3>4 DEF IReason, InContext
  <2>. QED
    BY <2>1, <2>3, <2>4
<1>10. CASE Returned
  BY <1>1, <1>10 DEF Returned
<1>. QED
  BY <1>1, <1>2, <1>3, <1>4, <1>5, <1>6, <1>7, <1>8, <1>9, <1>10 DEF Next, Phase

-----------------------------------------------------------------------------
LEMMA Inductive == Spec => [](IInv /\ IShare /\ IReason)
<1>1. IInv /\ IShare /\ IReason /\ [Next]_vars => (IInv /\ IShare /\ IReason)'
  BY LoopStep, ShareStep, ReasonStep
<1>. QED
  BY <1>1, InitIInv, PTL DEF Spec

\* The counters of the context loop stay within the plan, and every field in
\* its type, along every path through the contexts and after them.
THEOREM TypeCorrect == Spec => []TypeOK
<1>1. IInv => TypeOK
  BY DEF IInv, IType
<1>. QED
  BY <1>1, Inductive, PTL

\* fair_context_train_budget, with what the phases may train and what a probe
\* has trained before, keeps a training for every context still to come.
THEOREM SlotsForLaterContexts == Spec => []LaterContextsKeepASlot
<1>1. IInv /\ IShare => LaterContextsKeepASlot
  BY DEF IShare, LaterContextsKeepASlot, Ample, Others
<1>. QED
  BY <1>1, Inductive, PTL

\* Whichever exit a context leaves by, its statistics are recorded exactly once and
\* its training limit is lifted.
THEOREM ContextsClosed == Spec => []ContextsAreClosed
<1>1. IInv => ContextsAreClosed
  BY DEF IInv, ILoop, ContextsAreClosed
<1>. QED
  BY <1>1, Inductive, PTL

\* The stopped_reason that select_vortex_models reports agrees with what the
\* search did, for every budget, plan and stagnation limit.
THEOREM HonestReason == Spec => []ReasonIsHonest
<1>1. IReason => ReasonIsHonest
  BY DEF IReason
<1>. QED
  BY <1>1, Inductive, PTL

-----------------------------------------------------------------------------
(* evaluate_candidates: who has which candidate.                           *)

\* The candidates that a caller has yet to hand out.
Assigned(c) ==
  IF stage[c] \in {"list", "seq", "join"} \cup Running THEN From(list[c], next[c]) ELSE {}

BusyThreads == {t \in Thread : Busy(t)}
PoolOff == {w \in Pool : stage[w] = "off"}

\* Where each thread may be, and what its place says of the others.
IStages ==
  /\ stage[Main] \notin {"off", "check", "take"}
  /\ stage[Fresh] \in {"off", "list", "seq", "returned"} \cup Running
  /\ \A w \in Pool : stage[w] \in {"off", "check", "take"} \cup Running
  /\ \A w \in Pool : stage[w] # "off" => stage[Main] = "join"
  /\ stage[Main] \in {"entry", "plan"} =>
       /\ stage[Fresh] = "off" /\ next[Main] = 0 /\ next[Fresh] = 0
       /\ later = <<>> /\ ~stop /\ admission = FALSE
       /\ \A i \in Candidate : metrics[i] = "blank"
  /\ stage[Main] \in {"await", "returned"} => later = <<>>
  /\ stage[Main] = "returned" => stage[Fresh] \in {"off", "returned"}

\* The lists have no candidate twice, and positions are in them but for the pool's.
ILists ==
  /\ SchedulerTypeOK
  /\ \A c \in Caller : list[c] \in Seq(Candidate) /\ Once(list[c])
  /\ later \in Seq(Candidate) /\ Once(later)
  /\ \A t \in Thread : IF Busy(t) THEN cand[t] \in Candidate ELSE cand[t] = 0
  /\ \A c \in Caller : stage[c] = "list" => next[c] = 0
  /\ \A c \in Caller : stage[c] \in {"seq"} \cup Running => next[c] <= Len(list[c])

\* M, F and L are what Main and Fresh have yet to hand out and what is kept for
\* later; the threads B evaluate the candidates c; m is metrics. No candidate is in
\* two places, and those without a verdict are the ones that are somewhere.
Shared(M, F, L, B, c, m, C) ==
  /\ M \cap F = {} /\ L \cap (M \cup F) = {} /\ M \cup F \cup L \subseteq C
  /\ \A t \in B : /\ c[t] \in C /\ c[t] \notin M \cup F \cup L
                  /\ \A u \in B \ {t} : c[u] # c[t]
  /\ \A i \in C : m[i] = "blank" <=> i \in M \cup F \cup L \/ \E t \in B : c[t] = i

IShared ==
  stage[Main] \notin {"entry", "plan"} =>
    Shared(Assigned(Main), Assigned(Fresh), ToSet(later), BusyThreads, cand, metrics,
           Candidate)

\* Workers stop when the list is used up or the deadline has passed; each of them
\* may take one position behind the end.
IPool ==
  /\ stop => deadline_passed
  /\ stage[Main] = "join" =>
       /\ (\A w \in Pool : stage[w] = "off") =>
            deadline_passed \/ next[Main] >= Len(list[Main])
       /\ next[Main] <= Len(list[Main]) + Cardinality(PoolOff)

\* Under single admission the missing candidates are Fresh's, next to ready ones,
\* or Main's without a pool.
IStreams ==
  /\ \A t \in Pool \cup {Main} : Busy(t) => cand[t] \in ToSet(list[Main])
  /\ Busy(Fresh) => cand[Fresh] \in ToSet(list[Fresh])
  /\ admission /\ stage[Fresh] # "off" =>
       /\ \A i \in ToSet(list[Main]) : observed[i] = "ready"
       /\ \A i \in ToSet(list[Fresh]) : observed[i] = "missing"
       /\ later = <<>>
  /\ admission /\ (width > 1 \/ stage[Main] = "join") =>
       \A i \in ToSet(list[Main]) : observed[i] # "missing"

IBatch == IStages /\ ILists /\ IShared /\ IPool /\ IStreams

-----------------------------------------------------------------------------
(* Candidates change hands.                                                *)

\* A caller or a worker takes a candidate.
LEMMA SharedTake ==
  ASSUME NEW M, NEW F, NEW L, NEW B, NEW c, NEW m, NEW C, Shared(M, F, L, B, c, m, C),
         NEW t, t \in DOMAIN c \ B, NEW i
  PROVE  /\ i \in M => Shared(M \ {i}, F, L, B \cup {t}, [c EXCEPT ![t] = i], m, C)
         /\ i \in F => Shared(M, F \ {i}, L, B \cup {t}, [c EXCEPT ![t] = i], m, C)
<1>. DEFINE d == [c EXCEPT ![t] = i]
<1>1. d[t] = i /\ \A u \in B : d[u] = c[u]
  OBVIOUS
<1>. HIDE DEF d
<1>2. ASSUME i \in M PROVE Shared(M \ {i}, F, L, B \cup {t}, d, m, C)
  <2>1. \A u \in B : d[u] # i
    BY <1>1, <1>2 DEF Shared
  <2>2. \A u \in B \cup {t} : /\ d[u] \in C /\ d[u] \notin (M \ {i}) \cup F \cup L
                              /\ \A v \in (B \cup {t}) \ {u} : d[v] # d[u]
    BY <1>1, <1>2, <2>1 DEF Shared
  <2>3. ASSUME NEW x \in C
        PROVE  (x \in M \cup F \cup L \/ \E u \in B : c[u] = x)
                 <=> (x \in (M \ {i}) \cup F \cup L \/ \E u \in B \cup {t} : d[u] = x)
    BY <1>1, <1>2
  <2>. QED
    BY <1>2, <2>2, <2>3 DEF Shared
<1>3. ASSUME i \in F PROVE Shared(M, F \ {i}, L, B \cup {t}, d, m, C)
  <2>1. \A u \in B : d[u] # i
    BY <1>1, <1>3 DEF Shared
  <2>2. \A u \in B \cup {t} : /\ d[u] \in C /\ d[u] \notin M \cup (F \ {i}) \cup L
                              /\ \A v \in (B \cup {t}) \ {u} : d[v] # d[u]
    BY <1>1, <1>3, <2>1 DEF Shared
  <2>3. ASSUME NEW x \in C
        PROVE  (x \in M \cup F \cup L \/ \E u \in B : c[u] = x)
                 <=> (x \in M \cup (F \ {i}) \cup L \/ \E u \in B \cup {t} : d[u] = x)
    BY <1>1, <1>3
  <2>. QED
    BY <1>3, <2>2, <2>3 DEF Shared
<1>. QED
  BY <1>2, <1>3 DEF d

\* A thread delivers the verdict on the candidate it has.
LEMMA SharedDeliver ==
  ASSUME NEW M, NEW F, NEW L, NEW B, NEW c, NEW m, NEW C, Shared(M, F, L, B, c, m, C),
         NEW t \in B, NEW v, v # "blank", DOMAIN m = C
  PROVE  Shared(M, F, L, B \ {t}, [c EXCEPT ![t] = 0], [m EXCEPT ![c[t]] = v], C)
<1>. DEFINE d == [c EXCEPT ![t] = 0]
            n == [m EXCEPT ![c[t]] = v]
<1>1. \A u \in B \ {t} : d[u] = c[u]
  OBVIOUS
<1>2. \A x \in C : n[x] = IF x = c[t] THEN v ELSE m[x]
  OBVIOUS
<1>. HIDE DEF d, n
<1>3. \A u \in B \ {t} : /\ d[u] \in C /\ d[u] \notin M \cup F \cup L
                         /\ \A w \in (B \ {t}) \ {u} : d[w] # d[u]
  BY <1>1 DEF Shared
<1>4. ASSUME NEW x \in C
      PROVE  n[x] = "blank" <=> x \in M \cup F \cup L \/ \E u \in B \ {t} : d[u] = x
  <2>1. CASE x = c[t]
    BY <1>1, <1>2, <2>1 DEF Shared
  <2>2. CASE x # c[t]
    BY <1>1, <1>2, <2>2 DEF Shared
  <2>. QED
    BY <2>1, <2>2
<1>5. Shared(M, F, L, B \ {t}, d, n, C)
  BY <1>3, <1>4 DEF Shared
<1>. QED
  BY <1>5 DEF d, n

\* What mark_time_budget makes of the metrics.
Marked(m, S) ==
  [i \in DOMAIN m |-> IF i \in S /\ m[i] \in {"blank", "ok"} THEN "late" ELSE m[i]]

\* Candidates that a caller will not hand out any more are marked.
LEMMA SharedMark ==
  ASSUME NEW M, NEW F, NEW L, NEW B, NEW c, NEW m, NEW C, Shared(M, F, L, B, c, m, C),
         DOMAIN m = C
  PROVE  /\ Shared({}, F, L, B, c, Marked(m, M), C)
         /\ Shared(M, {}, L, B, c, Marked(m, F), C)
<1>1. \A S, x : x \in C => Marked(m, S)[x] = IF x \in S /\ m[x] \in {"blank", "ok"}
                                               THEN "late" ELSE m[x]
  BY DEF Marked
<1>2. \A x \in C : Marked(m, M)[x] = "blank" <=> m[x] = "blank" /\ x \notin M
  BY <1>1
<1>3. \A x \in C : Marked(m, F)[x] = "blank" <=> m[x] = "blank" /\ x \notin F
  BY <1>1
<1>4. Shared({}, F, L, B, c, Marked(m, M), C)
  BY <1>2 DEF Shared
<1>5. Shared(M, {}, L, B, c, Marked(m, F), C)
  BY <1>3 DEF Shared
<1>. QED
  BY <1>4, <1>5

\* Main goes on to the list it kept for later.
LEMMA SharedSwap ==
  ASSUME NEW F, NEW L, NEW B, NEW c, NEW m, NEW C, Shared({}, F, L, B, c, m, C)
  PROVE  Shared(L, F, {}, B, c, m, C)
  BY DEF Shared

-----------------------------------------------------------------------------
(* Threads and lists.                                                      *)

\* The callers are no workers.
LEMMA Threads ==
  /\ Main \notin Pool /\ Fresh \notin Pool /\ Main # Fresh
  /\ Main \in Thread /\ Fresh \in Thread /\ Main \in Caller /\ Fresh \in Caller
  /\ \A w \in Pool : w \in Thread
  /\ \A t \in Thread : t \in Pool \/ t = Main \/ t = Fresh
  BY SchedulerAssumption DEF Pool, Thread, Caller

\* The workers that are off can be counted, before and after a step.
LEMMA OffFinite ==
  /\ IsFiniteSet(PoolOff) /\ Cardinality(PoolOff) \in Nat
  /\ IsFiniteSet(PoolOff') /\ Cardinality(PoolOff') \in Nat
<1>1. IsFiniteSet(Pool)
  BY SchedulerAssumption, FS_Interval DEF Pool
<1>2. PoolOff \subseteq Pool /\ PoolOff' \subseteq Pool
  BY DEF PoolOff
<1>. QED
  BY <1>1, <1>2, FS_Subset, FS_CardinalityType

\* What is left of a list from a position on.
LEMMA FromList ==
  ASSUME NEW S, NEW s \in Seq(S), Once(s), NEW pos \in Nat
  PROVE  /\ From(s, 0) = ToSet(s) /\ From(s, pos) \subseteq ToSet(s)
         /\ ToSet(s) \subseteq S /\ Len(s) \in Nat
         /\ pos >= Len(s) => From(s, pos) = {}
         /\ pos < Len(s) => /\ s[pos + 1] \in From(s, pos)
                            /\ From(s, pos + 1) = From(s, pos) \ {s[pos + 1]}
<1>1. Len(s) \in Nat /\ DOMAIN s = 1 .. Len(s) /\ ToSet(s) \subseteq S
  BY Elements
<1>2. PICK n \in Nat : n = Len(s)
  BY <1>1
<1>3. ToSet(s) = {s[p] : p \in 1 .. n}
  BY <1>1, <1>2 DEF ToSet
<1>4. From(s, pos) = {s[p] : p \in pos + 1 .. n} /\ From(s, 0) = {s[p] : p \in 0 + 1 .. n}
      /\ From(s, pos + 1) = {s[p] : p \in (pos + 1) + 1 .. n}
  BY <1>2 DEF From
<1>5. From(s, 0) = ToSet(s)
  <2>1. 0 + 1 .. n = 1 .. n
    OBVIOUS
  <2>. QED
    BY <1>3, <1>4, <2>1
<1>6. From(s, pos) \subseteq ToSet(s)
  <2>1. \A p \in pos + 1 .. n : p \in 1 .. n
    OBVIOUS
  <2>. QED
    BY <1>3, <1>4, <2>1
<1>7. pos >= n => From(s, pos) = {}
  <2>1. pos >= n => pos + 1 .. n = {}
    OBVIOUS
  <2>. QED
    BY <1>4, <2>1
<1>8. ASSUME pos < n
      PROVE  /\ s[pos + 1] \in From(s, pos)
             /\ From(s, pos + 1) = From(s, pos) \ {s[pos + 1]}
  <2>1. pos + 1 \in 1 .. n /\ pos + 1 \in pos + 1 .. n
    BY <1>8
  <2>2. \A p \in pos + 1 .. n : p = pos + 1 \/ p \in (pos + 1) + 1 .. n
    OBVIOUS
  <2>3. \A p \in (pos + 1) + 1 .. n : p \in pos + 1 .. n /\ p \in 1 .. n /\ p # pos + 1
    OBVIOUS
  <2>4. \A p \in (pos + 1) + 1 .. n : s[p] # s[pos + 1]
    BY <1>1, <1>2, <2>1, <2>3 DEF Once
  <2>. QED
    BY <1>4, <2>1, <2>2, <2>3, <2>4
<1>. QED
  BY <1>1, <1>2, <1>5, <1>6, <1>7, <1>8

\* A list of candidates without repetition is an index list.
LEMMA ListShort ==
  ASSUME size \in Nat, NEW s \in Seq(Candidate), Once(s)
  PROVE  s \in IndexList /\ Len(s) \in 0 .. size
<1>1. Len(s) \in Nat /\ DOMAIN s = 1 .. Len(s) /\ s \in [1 .. Len(s) -> Candidate]
  BY LenProperties
<1>2. s \in Injection(1 .. Len(s), Candidate)
  BY <1>1 DEF Injection, IsInjective, Once
<1>3. /\ IsFiniteSet(1 .. Len(s)) /\ Cardinality(1 .. Len(s)) = Len(s)
      /\ IsFiniteSet(Candidate) /\ Cardinality(Candidate) = size
  <2>1. ASSUME NEW n \in Nat PROVE IsFiniteSet(1 .. n) /\ Cardinality(1 .. n) = n
    <3>1. /\ IsFiniteSet(1 .. n)
          /\ Cardinality(1 .. n) = IF 1 > n THEN 0 ELSE n - 1 + 1
      BY FS_Interval
    <3>2. (IF 1 > n THEN 0 ELSE n - 1 + 1) = n
      OBVIOUS
    <3>. QED
      BY <3>1, <3>2
  <2>. QED
    BY <1>1, <2>1 DEF Candidate
<1>4. Len(s) <= size
  <2>1. Cardinality(1 .. Len(s)) <= Cardinality(Candidate)
    BY <1>2, <1>3, FS_Injection
  <2>. QED
    BY <1>3, <2>1
<1>5. Len(s) \in 0 .. size
  BY <1>1, <1>4
<1>. QED
  BY <1>1, <1>5 DEF IndexList

\* The empty list.
LEMMA NoList == \A S : <<>> \in Seq(S) /\ Once(<<>>) /\ Len(<<>>) = 0 /\ ToSet(<<>>) = {}
  BY DEF Once, ToSet

\* Before the call has looked at its candidates.
LEMMA InitIBatch == SchedulerInit => IBatch
<1>. SUFFICES ASSUME SchedulerInit PROVE IBatch
  OBVIOUS
<1>. USE DEF SchedulerInit
<1>1. size \in Nat /\ size \in 0 .. MaxBatch
  BY SchedulerAssumption
<1>2. \A t \in Thread : stage[t] = IF t = Main THEN "entry" ELSE "off"
  OBVIOUS
<1>3. \A t \in Thread : ~ Busy(t) /\ cand[t] = 0
  BY <1>2 DEF Busy, Running
<1>4. <<>> \in IndexList
  BY <1>1, NoList, ListShort
<1>5. SchedulerTypeOK
  <2>1. list \in [Caller -> IndexList]
    BY <1>4
  <2>2. stage \in [Thread -> ThreadStage]
    BY DEF ThreadStage
  <2>3. next \in [Caller -> 0 .. MaxBatch + MaxPool]
    <3>1. 0 \in 0 .. MaxBatch + MaxPool
      BY SchedulerAssumption
    <3>. QED
      BY <3>1
  <2>4. cand \in [Thread -> 0 .. size] /\ width \in 1 .. MaxPool
    BY <1>1, SchedulerAssumption
  <2>. QED
    BY <1>1, <1>4, <2>1, <2>2, <2>3, <2>4 DEF SchedulerTypeOK, Slot
<1>6. IStages
  BY <1>2, Threads DEF IStages, Running
<1>7. ILists
  BY <1>2, <1>3, <1>5, NoList, Threads DEF ILists, Running, Caller
<1>8. IShared /\ IPool /\ IStreams
  BY <1>2, <1>3, Threads DEF IShared, IPool, IStreams, BusyThreads
<1>. QED
  BY <1>6, <1>7, <1>8 DEF IBatch

-----------------------------------------------------------------------------
(* The steps.                                                              *)

\* What the steps leave alone.
LEMMA SameBatch ==
  ASSUME UNCHANGED batch
  PROVE  /\ Candidate' = Candidate /\ IndexList' = IndexList
         /\ size' = size /\ explicit' = explicit /\ admission' = admission
         /\ observed' = observed
  BY DEF batch, Candidate, IndexList

\* A thread delivers a verdict and is ready for the next candidate.
LEMMA DeliverStep ==
  ASSUME IBatch, NEW t \in Thread, Busy(t), NEW v \in Slot \ {"blank"}, Deliver(t, v),
         model' \in [Candidate -> CacheState], UNCHANGED <<batch, deadline_passed, queues>>
  PROVE  IBatch'
<1>. USE SameBatch
<1>1. IStages /\ ILists /\ IShared /\ IPool /\ IStreams /\ SchedulerTypeOK
  BY DEF IBatch, ILists
<1>2. /\ later' = later /\ list' = list /\ width' = width /\ next' = next
      /\ stop' = stop /\ deadline_passed' = deadline_passed
  BY DEF queues
<1>3. /\ \A u \in Thread \ {t} : stage'[u] = stage[u] /\ cand'[u] = cand[u]
      /\ stage'[t] = IF t \in Pool THEN "check" ELSE "seq"
      /\ cand'[t] = 0 /\ stage' \in [Thread -> ThreadStage]
  BY <1>1 DEF Deliver, SchedulerTypeOK, ThreadStage
<1>4. BusyThreads' = BusyThreads \ {t} /\ \A u \in Thread : Busy(u)' <=> Busy(u) /\ u # t
  BY <1>3 DEF BusyThreads, Busy, Running
<1>5. stage[t] \in Running /\ t \in BusyThreads /\ cand[t] \in Candidate
  BY <1>1 DEF Busy, BusyThreads, ILists
<1>6. stage[Main] \notin {"entry", "plan"}
  BY <1>1, <1>5, Threads DEF IStages, Running
<1>7. IStages'
  BY <1>1, <1>2, <1>3, <1>5, <1>6, Threads DEF IStages, Running
<1>8. SchedulerTypeOK'
  <2>1. cand' \in [Thread -> 0 .. size] /\ metrics' \in [Candidate -> Slot]
    BY <1>1, <1>5 DEF Deliver, SchedulerTypeOK
  <2>. QED
    BY <1>1, <1>2, <1>3, <2>1 DEF SchedulerTypeOK
<1>9. ILists'
  <2>1. \A c \in Caller : stage'[c] = stage[c] \/ (stage'[c] = "seq" /\ stage[c] \in Running)
    BY <1>3, <1>5, Threads DEF Caller
  <2>2. \A u \in Thread : IF Busy(u)' THEN cand'[u] \in Candidate ELSE cand'[u] = 0
    BY <1>1, <1>3, <1>4 DEF ILists
  <2>3. \A c \in Caller : stage'[c] = "list" => next'[c] = 0
    BY <1>1, <1>2, <2>1 DEF ILists
  <2>4. \A c \in Caller : stage'[c] \in {"seq"} \cup Running => next'[c] <= Len(list'[c])
    BY <1>1, <1>2, <2>1 DEF ILists
  <2>. QED
    BY <1>1, <1>2, <1>8, <2>2, <2>3, <2>4 DEF ILists
<1>10. Assigned(Main)' = Assigned(Main) /\ Assigned(Fresh)' = Assigned(Fresh)
  BY <1>2, <1>3, <1>5, Threads DEF Assigned, Running, From
<1>11. IShared'
  <2>1. Shared(Assigned(Main), Assigned(Fresh), ToSet(later), BusyThreads, cand, metrics,
               Candidate)
    BY <1>1, <1>6 DEF IShared
  <2>2. DOMAIN metrics = Candidate /\ v # "blank"
    BY <1>1 DEF SchedulerTypeOK
  <2>3. Shared(Assigned(Main), Assigned(Fresh), ToSet(later), BusyThreads \ {t},
               [cand EXCEPT ![t] = 0], [metrics EXCEPT ![cand[t]] = v], Candidate)
    BY <1>5, <2>1, <2>2, SharedDeliver
  <2>4. Shared(Assigned(Main)', Assigned(Fresh)', ToSet(later'), BusyThreads', cand',
               metrics', Candidate')
    BY <1>2, <1>4, <1>10, <2>3 DEF Deliver
  <2>. QED
    BY <2>4 DEF IShared
<1>12. IPool'
  <2>1. stage'[Main] = "join" => stage[Main] = "join"
    BY <1>3, Threads
  <2>2. \A w \in Pool : stage'[w] = "off" <=> stage[w] = "off"
    BY <1>3, <1>5, Threads DEF Running
  <2>3. PoolOff' = PoolOff
    BY <2>2 DEF PoolOff
  <2>. QED
    BY <1>1, <1>2, <2>1, <2>2, <2>3 DEF IPool
<1>13. IStreams'
  <2>1. \A u \in Pool \cup {Main} : Busy(u)' => cand'[u] \in ToSet(list'[Main])
    BY <1>1, <1>2, <1>3, <1>4, Threads DEF IStreams
  <2>2. Busy(Fresh)' => cand'[Fresh] \in ToSet(list'[Fresh])
    BY <1>1, <1>2, <1>3, <1>4, Threads DEF IStreams
  <2>3. /\ stage'[Fresh] # "off" => stage[Fresh] # "off"
        /\ stage'[Main] = "join" => stage[Main] = "join"
    BY <1>3, <1>5, Threads DEF Running
  <2>. QED
    BY <1>1, <1>2, <2>1, <2>2, <2>3 DEF IStreams
<1>. QED
  BY <1>7, <1>9, <1>11, <1>12, <1>13 DEF IBatch

\* A caller in its sequential loop, or a worker, takes the next candidate.
LEMMA TakeStep ==
  ASSUME IBatch, NEW c \in Caller, NEW t \in Thread,
         \/ t = c /\ stage[t] = "seq"
         \/ t \in Pool /\ c = Main /\ stage[t] = "take",
         next[c] < Len(list[c]), cand' = [cand EXCEPT ![t] = list[c][next[c] + 1]],
         next' = [next EXCEPT ![c] = @ + 1], stage' = [stage EXCEPT ![t] = "guards"],
         UNCHANGED <<batch, model, deadline_passed, metrics, later, list, width, stop>>
  PROVE  IBatch'
<1>. USE SameBatch
<1>1. IStages /\ ILists /\ IShared /\ IPool /\ IStreams /\ SchedulerTypeOK
  BY DEF IBatch, ILists
<1>2. PICK i : i = list[c][next[c] + 1]
  OBVIOUS
<1>3. /\ \A u \in Thread \ {t} : stage'[u] = stage[u] /\ cand'[u] = cand[u]
      /\ stage'[t] = "guards" /\ stage' \in [Thread -> ThreadStage]
      /\ cand'[t] = i /\ cand' = [cand EXCEPT ![t] = i]
  BY <1>1, <1>2 DEF SchedulerTypeOK, ThreadStage, Running
<1>4. /\ \A d \in Caller \ {c} : next'[d] = next[d]
      /\ next'[c] = next[c] + 1 /\ next[c] \in Nat
  BY <1>1, SchedulerAssumption DEF SchedulerTypeOK
<1>5. ~ Busy(t) /\ t \notin BusyThreads /\ t \in DOMAIN cand
  BY <1>1 DEF Busy, BusyThreads, Running, SchedulerTypeOK
<1>6. BusyThreads' = BusyThreads \cup {t} /\ \A u \in Thread : Busy(u)' <=> Busy(u) \/ u = t
  BY <1>3 DEF BusyThreads, Busy, Running
<1>7. stage[c] \in {"seq", "join"} /\ stage[Main] \notin {"entry", "plan"}
  BY <1>1, Threads DEF IStages, Caller
<1>8. /\ i \in From(list[c], next[c]) /\ i \in ToSet(list[c]) /\ i \in Candidate
      /\ From(list[c], next[c] + 1) = From(list[c], next[c]) \ {i}
  <2>1. list[c] \in Seq(Candidate) /\ Once(list[c])
    BY <1>1 DEF ILists
  <2>. QED
    BY <1>2, <1>4, <2>1, FromList
<1>9. next[c] + 1 <= size /\ size \in Nat /\ size <= MaxBatch /\ Len(list[c]) \in Nat
  <2>1. size \in Nat /\ size <= MaxBatch
    BY <1>1, SchedulerAssumption DEF SchedulerTypeOK
  <2>2. Len(list[c]) \in 0 .. size
    BY <1>1, <2>1, ListShort DEF ILists
  <2>. QED
    BY <1>4, <2>1, <2>2
<1>10. Assigned(c)' = Assigned(c) \ {i} /\ \A d \in Caller \ {c} : Assigned(d)' = Assigned(d)
  <2>1. Assigned(c) = From(list[c], next[c])
    BY <1>7 DEF Assigned
  <2>2. stage'[c] \in {"join"} \cup Running
    <3>1. CASE t = c
      BY <1>3, <3>1 DEF Running
    <3>2. CASE t # c
      <4>1. stage[Main] = "join" /\ c = Main
        BY <1>1, <3>2 DEF IStages
      <4>. QED
        BY <1>3, <3>2, <4>1, Threads
    <3>. QED
      BY <3>1, <3>2
  <2>3. Assigned(c)' = From(list[c], next[c] + 1)
    BY <1>4, <2>2 DEF Assigned, From
  <2>4. ASSUME NEW d \in Caller \ {c} PROVE Assigned(d)' = Assigned(d)
    <3>1. stage'[d] = stage[d]
      BY <1>3, Threads DEF Caller
    <3>. QED
      BY <1>4, <3>1 DEF Assigned, From
  <2>. QED
    BY <1>8, <2>1, <2>3, <2>4
<1>11. IStages'
  BY <1>1, <1>3, <1>7, Threads DEF IStages, Running
<1>12. SchedulerTypeOK'
  <2>1. cand' \in [Thread -> 0 .. size]
    BY <1>1, <1>3, <1>8, <1>9 DEF SchedulerTypeOK, Candidate
  <2>2. next' \in [Caller -> 0 .. MaxBatch + MaxPool]
    <3>1. next[c] + 1 \in 0 .. MaxBatch + MaxPool
      BY <1>4, <1>9, SchedulerAssumption
    <3>. QED
      BY <1>1, <3>1 DEF SchedulerTypeOK
  <2>. QED
    BY <1>1, <1>3, <2>1, <2>2 DEF SchedulerTypeOK
<1>13. ILists'
  <2>1. \A u \in Thread : IF Busy(u)' THEN cand'[u] \in Candidate ELSE cand'[u] = 0
    BY <1>1, <1>3, <1>6, <1>8 DEF ILists
  <2>2. ASSUME NEW d \in Caller PROVE stage'[d] = "list" => next'[d] = 0
    <3>1. stage'[d] = "list" => d # c /\ stage[d] = "list"
      BY <1>3, <1>7, Threads DEF Caller
    <3>. QED
      BY <1>1, <1>4, <3>1 DEF ILists
  <2>3. ASSUME NEW d \in Caller
        PROVE  stage'[d] \in {"seq"} \cup Running => next'[d] <= Len(list'[d])
    <3>1. CASE d = c
      BY <1>4, <1>9, <3>1
    <3>2. CASE d # c
      <4>1. stage'[d] = stage[d]
        BY <1>3, <3>2, Threads DEF Caller
      <4>. QED
        BY <1>1, <1>4, <3>2, <4>1 DEF ILists
    <3>. QED
      BY <3>1, <3>2
  <2>. QED
    BY <1>1, <1>12, <2>1, <2>2, <2>3 DEF ILists
<1>14. IShared'
  <2>1. Shared(Assigned(Main), Assigned(Fresh), ToSet(later), BusyThreads, cand, metrics,
               Candidate)
    BY <1>1, <1>7 DEF IShared
  <2>2. i \in Assigned(c)
    BY <1>7, <1>8 DEF Assigned
  <2>3. CASE c = Main
    <3>1. Shared(Assigned(Main) \ {i}, Assigned(Fresh), ToSet(later), BusyThreads \cup {t},
                 [cand EXCEPT ![t] = i], metrics, Candidate)
      BY <1>5, <2>1, <2>2, <2>3, SharedTake
    <3>. QED
      BY <1>3, <1>6, <1>10, <2>3, <3>1, Threads DEF IShared
  <2>4. CASE c = Fresh
    <3>1. Shared(Assigned(Main), Assigned(Fresh) \ {i}, ToSet(later), BusyThreads \cup {t},
                 [cand EXCEPT ![t] = i], metrics, Candidate)
      BY <1>5, <2>1, <2>2, <2>4, SharedTake
    <3>. QED
      BY <1>3, <1>6, <1>10, <2>4, <3>1, Threads DEF IShared
  <2>. QED
    BY <2>3, <2>4 DEF Caller
<1>15. IPool'
  <2>1. stop' => deadline_passed'
    BY <1>1 DEF IPool
  <2>2. CASE t = Main
    BY <1>3, <2>1, <2>2 DEF IPool
  <2>3. CASE t = Fresh
    <3>1. stage'[Main] = stage[Main] /\ next'[Main] = next[Main] /\ PoolOff' = PoolOff
          /\ \A w \in Pool : stage'[w] = stage[w]
      BY <1>3, <1>4, <2>3, Threads DEF PoolOff
    <3>. QED
      BY <1>1, <3>1 DEF IPool
  <2>4. CASE t \in Pool
    <3>1. c = Main
      BY <2>4, Threads DEF Caller
    <3>2. ~ \A w \in Pool : stage'[w] = "off"
      BY <1>3, <2>4
    <3>3. Cardinality(PoolOff') \in Nat
      BY OffFinite
    <3>4. next'[Main] <= Len(list'[Main]) + Cardinality(PoolOff')
      BY <1>4, <1>9, <3>1, <3>3
    <3>. QED
      BY <2>1, <3>2, <3>4 DEF IPool
  <2>. QED
    BY <2>2, <2>3, <2>4, Threads
<1>16. IStreams'
  <2>1. \A u \in Pool \cup {Main} : Busy(u)' => cand'[u] \in ToSet(list'[Main])
    BY <1>1, <1>3, <1>6, <1>8, Threads DEF IStreams, Caller
  <2>2. Busy(Fresh)' => cand'[Fresh] \in ToSet(list'[Fresh])
    BY <1>1, <1>3, <1>6, <1>8, Threads DEF IStreams, Caller
  <2>3. /\ stage'[Fresh] # "off" => stage[Fresh] # "off"
        /\ stage'[Main] = "join" => stage[Main] = "join"
    BY <1>3, Threads
  <2>. QED
    BY <1>1, <2>1, <2>2, <2>3 DEF IStreams
<1>. QED
  BY <1>11, <1>13, <1>14, <1>15, <1>16 DEF IBatch

\* A caller has reached the end of its list, or the deadline: what it has not handed out
\* is marked, and Main goes on to the list that it kept.
LEMMA ListEndsStep ==
  ASSUME IBatch, NEW c \in Caller, stage[c] \in {"list", "seq", "join"},
         stage[c] = "join" => \A w \in Pool : stage[w] = "off",
         metrics' = Marked(metrics, Assigned(c)), ListEnds(c),
         UNCHANGED <<batch, model, deadline_passed, cand>>
  PROVE  IBatch'
<1>. USE SameBatch
<1>1. IStages /\ ILists /\ IShared /\ IPool /\ IStreams /\ SchedulerTypeOK
  BY DEF IBatch, ILists
<1>2. stage[Main] \notin {"entry", "plan"} /\ stage[c] \notin {"off", "returned", "await"}
  BY <1>1, Threads DEF IStages, Caller
<1>3. /\ DOMAIN metrics = Candidate /\ metrics' \in [Candidate -> Slot]
      /\ Shared(Assigned(Main), Assigned(Fresh), ToSet(later), BusyThreads, cand, metrics,
                Candidate)
  BY <1>1, <1>2 DEF SchedulerTypeOK, Marked, Slot, IShared
<1>4. c = Main => \A w \in Pool : stage[w] = "off"
  BY <1>1, Threads DEF IStages
<1>5. CASE c = Main /\ later # <<>>
  <2>1. /\ list'[Main] = later /\ list'[Fresh] = list[Fresh] /\ next'[Main] = 0
        /\ next'[Fresh] = next[Fresh] /\ width' = 1 /\ later' = <<>> /\ stop' = FALSE
        /\ stage'[Main] = "list" /\ \A u \in Thread \ {Main} : stage'[u] = stage[u]
    BY <1>1, <1>5, Threads DEF ListEnds, SchedulerTypeOK
  <2>2. later \in Seq(Candidate) /\ Once(later)
    BY <1>1 DEF ILists
  <2>3. BusyThreads' = BusyThreads /\ \A u \in Thread : Busy(u)' <=> Busy(u)
    BY <1>5, <2>1 DEF BusyThreads, Busy, Running
  <2>4. IStages'
    BY <1>1, <1>4, <1>5, <2>1, Threads DEF IStages, Running
  <2>5. SchedulerTypeOK'
    <3>1. later' \in IndexList /\ list' \in [Caller -> IndexList]
      <4>1. size \in Nat
        BY <1>1, SchedulerAssumption DEF SchedulerTypeOK
      <4>2. <<>> \in IndexList
        BY <4>1, NoList, ListShort
      <4>3. list' = [list EXCEPT ![Main] = later]
        BY <1>5 DEF ListEnds
      <4>. QED
        BY <1>1, <2>1, <4>2, <4>3 DEF SchedulerTypeOK
    <3>2. next' \in [Caller -> 0 .. MaxBatch + MaxPool] /\ width' \in 1 .. MaxPool
      BY <1>1, <1>5, SchedulerAssumption DEF ListEnds, SchedulerTypeOK
    <3>3. stage' \in [Thread -> ThreadStage]
      BY <1>1, <1>5 DEF ListEnds, SchedulerTypeOK, ThreadStage
    <3>. QED
      BY <1>1, <1>3, <2>1, <3>1, <3>2, <3>3 DEF SchedulerTypeOK
  <2>6. ILists'
    <3>1. \A d \in Caller : list'[d] \in Seq(Candidate) /\ Once(list'[d])
      BY <1>1, <2>1, <2>2 DEF ILists, Caller
    <3>2. \A u \in Thread : IF Busy(u)' THEN cand'[u] \in Candidate ELSE cand'[u] = 0
      BY <1>1, <2>3 DEF ILists
    <3>3. \A d \in Caller : stage'[d] = "list" => next'[d] = 0
      BY <1>1, <2>1, Threads DEF ILists, Caller
    <3>4. \A d \in Caller : stage'[d] \in {"seq"} \cup Running => next'[d] <= Len(list'[d])
      BY <1>1, <2>1, Threads DEF ILists, Caller, Running
    <3>. QED
      BY <2>1, <2>5, <3>1, <3>2, <3>3, <3>4, NoList DEF ILists
  <2>7. /\ Assigned(Main)' = ToSet(later) /\ Assigned(Fresh)' = Assigned(Fresh)
        /\ ToSet(later') = {}
    <3>1. Assigned(Main)' = From(later, 0)
      BY <2>1 DEF Assigned, From
    <3>2. Assigned(Fresh)' = Assigned(Fresh)
      BY <2>1, Threads DEF Assigned, From
    <3>. QED
      BY <2>1, <2>2, <3>1, <3>2, FromList, NoList
  <2>8. IShared'
    <3>1. Shared({}, Assigned(Fresh), ToSet(later), BusyThreads, cand, metrics', Candidate)
      BY <1>3, <1>5, SharedMark
    <3>2. Shared(ToSet(later), Assigned(Fresh), {}, BusyThreads, cand, metrics', Candidate)
      BY <3>1, SharedSwap
    <3>. QED
      BY <2>3, <2>7, <3>2 DEF IShared
  <2>9. IPool'
    BY <2>1 DEF IPool
  <2>10. IStreams'
    <3>1. \A u \in Pool \cup {Main} : ~ Busy(u)
      BY <1>4, <1>5 DEF Busy, Running
    <3>2. \A u \in Pool \cup {Main} : ~ Busy(u)'
      BY <2>3, <3>1, Threads
    <3>3. ~ (admission /\ stage[Fresh] # "off")
      BY <1>1, <1>5 DEF IStreams
    <3>4. Busy(Fresh)' => cand'[Fresh] \in ToSet(list'[Fresh])
      BY <1>1, <2>1, <2>3, Threads DEF IStreams
    <3>. QED
      BY <2>1, <3>2, <3>3, <3>4, Threads DEF IStreams
  <2>. QED
    BY <2>4, <2>6, <2>8, <2>9, <2>10 DEF IBatch
<1>6. CASE ~ (c = Main /\ later # <<>>)
  <2>1. /\ later' = later /\ list' = list /\ width' = width /\ next' = next /\ stop' = stop
        /\ stage'[c] = IF c = Main THEN "await" ELSE "returned"
        /\ \A u \in Thread \ {c} : stage'[u] = stage[u]
        /\ stage' \in [Thread -> ThreadStage] /\ c \in Thread
    BY <1>1, <1>6, Threads DEF ListEnds, SchedulerTypeOK, queues, ThreadStage, Caller
  <2>2. BusyThreads' = BusyThreads /\ \A u \in Thread : Busy(u)' <=> Busy(u)
    BY <2>1 DEF BusyThreads, Busy, Running
  <2>3. IStages'
    BY <1>1, <1>2, <1>4, <1>6, <2>1, Threads DEF IStages, Running, Caller
  <2>4. SchedulerTypeOK'
    BY <1>1, <1>3, <2>1 DEF SchedulerTypeOK
  <2>5. ILists'
    <3>1. \A u \in Thread : IF Busy(u)' THEN cand'[u] \in Candidate ELSE cand'[u] = 0
      BY <1>1, <2>2 DEF ILists
    <3>2. \A d \in Caller : stage'[d] = stage[d] \/ stage'[d] \in {"await", "returned"}
      BY <2>1, Threads DEF Caller
    <3>3. \A d \in Caller : stage'[d] = "list" => next'[d] = 0
      BY <1>1, <2>1, <3>2 DEF ILists
    <3>4. \A d \in Caller : stage'[d] \in {"seq"} \cup Running => next'[d] <= Len(list'[d])
      BY <1>1, <2>1, <3>2 DEF ILists, Running
    <3>. QED
      BY <1>1, <2>1, <2>4, <3>1, <3>3, <3>4 DEF ILists
  <2>6. Assigned(c)' = {} /\ \A d \in Caller \ {c} : Assigned(d)' = Assigned(d)
    <3>1. stage'[c] \in {"await", "returned"} /\ \A d \in Caller \ {c} : stage'[d] = stage[d]
      BY <2>1, Threads DEF Caller
    <3>. QED
      BY <2>1, <3>1 DEF Assigned, From, Running
  <2>7. IShared'
    <3>1. CASE c = Main
      <4>1. Shared({}, Assigned(Fresh), ToSet(later), BusyThreads, cand, metrics', Candidate)
        BY <1>3, <3>1, SharedMark
      <4>. QED
        BY <2>1, <2>2, <2>6, <3>1, <4>1, Threads DEF IShared
    <3>2. CASE c = Fresh
      <4>1. Shared(Assigned(Main), {}, ToSet(later), BusyThreads, cand, metrics', Candidate)
        BY <1>3, <3>2, SharedMark
      <4>. QED
        BY <2>1, <2>2, <2>6, <3>2, <4>1, Threads DEF IShared
    <3>. QED
      BY <3>1, <3>2 DEF Caller
  <2>8. IPool'
    <3>1. stop' => deadline_passed'
      BY <1>1, <2>1 DEF IPool
    <3>2. CASE c = Main
      BY <2>1, <3>1, <3>2 DEF IPool
    <3>3. CASE c = Fresh
      <4>1. stage'[Main] = stage[Main] /\ PoolOff' = PoolOff
            /\ \A w \in Pool : stage'[w] = stage[w]
        BY <2>1, <3>3, Threads DEF PoolOff
      <4>. QED
        BY <1>1, <2>1, <4>1 DEF IPool
    <3>. QED
      BY <3>2, <3>3 DEF Caller
  <2>9. IStreams'
    <3>1. /\ \A u \in Pool \cup {Main} : Busy(u)' => cand'[u] \in ToSet(list'[Main])
          /\ Busy(Fresh)' => cand'[Fresh] \in ToSet(list'[Fresh])
      BY <1>1, <2>1, <2>2, Threads DEF IStreams
    <3>2. /\ stage'[Fresh] # "off" => stage[Fresh] # "off"
          /\ stage'[Main] = "join" => stage[Main] = "join"
      BY <1>2, <2>1, Threads DEF Caller
    <3>. QED
      BY <1>1, <2>1, <3>1, <3>2 DEF IStreams
  <2>. QED
    BY <2>3, <2>5, <2>7, <2>8, <2>9 DEF IBatch
<1>. QED
  BY <1>5, <1>6

\* mark_time_budget_indices, and nothing to mark.
LEMMA Marking ==
  ASSUME SchedulerTypeOK, NEW S
  PROVE  /\ Mark(S) => metrics' = Marked(metrics, S)
         /\ S = {} /\ UNCHANGED metrics => metrics' = Marked(metrics, S)
<1>1. DOMAIN metrics = Candidate /\ metrics = [i \in Candidate |-> metrics[i]]
  BY DEF SchedulerTypeOK
<1>. QED
  BY <1>1 DEF Mark, Marked

\* A pool of more than one worker starts.
LEMMA Spawned ==
  ASSUME SchedulerTypeOK, width' \in 1 .. MaxPool, width' > 1, stage' = Spawn
  PROVE  /\ stage' \in [Thread -> ThreadStage] /\ stage'[Main] = "join"
         /\ stage'[Fresh] = stage[Fresh] /\ 1 \in Pool /\ stage'[1] = "check"
         /\ \A w \in Pool : stage'[w] = "check" \/ stage'[w] = stage[w]
<1>1. 1 .. width' \subseteq Pool /\ 1 \in 1 .. width'
  BY SchedulerAssumption DEF Pool
<1>2. \A t \in Thread : stage'[t] = CASE t \in 1 .. width' -> "check"
                                      [] t = Main          -> "join"
                                      [] OTHER             -> stage[t]
  BY DEF Spawn
<1>3. Main \notin 1 .. width' /\ Fresh \notin 1 .. width'
  BY <1>1, Threads
<1>4. \A t \in Thread : stage'[t] \in {"check", "join", stage[t]}
  BY <1>2
<1>5. stage' \in [Thread -> ThreadStage]
  BY <1>4 DEF Spawn, SchedulerTypeOK, ThreadStage
<1>6. \A w \in Pool : stage'[w] = "check" \/ stage'[w] = stage[w]
  BY <1>2, Threads
<1>. QED
  BY <1>1, <1>2, <1>3, <1>5, <1>6, Threads

\* evaluate_index_list begins.
LEMMA EnterListStep == ASSUME IBatch, NEW c \in Caller, EnterList(c) PROVE IBatch'
<1>. USE SameBatch
<1>1. IStages /\ ILists /\ IShared /\ IPool /\ IStreams /\ SchedulerTypeOK
  BY DEF IBatch, ILists
<1>2. stage[c] = "list" /\ UNCHANGED <<batch, model, deadline_passed, cand>>
  BY DEF EnterList
<1>3. next[c] = 0 /\ list[c] \in Seq(Candidate) /\ Once(list[c])
      /\ Assigned(c) = From(list[c], 0) /\ From(list[c], 0) = ToSet(list[c])
  BY <1>1, <1>2, FromList DEF ILists, Assigned
<1>4. CASE list[c] = <<>> /\ ListEnds(c) /\ UNCHANGED metrics
  BY <1>1, <1>2, <1>3, <1>4, NoList, Marking, ListEndsStep
<1>5. CASE Mark(From(list[c], 0)) /\ ListEnds(c)
  BY <1>1, <1>2, <1>3, <1>5, Marking, ListEndsStep
<1>6. CASE /\ ~deadline_passed /\ UNCHANGED <<queues, metrics>>
           /\ stage' = IF c = Main /\ width > 1 /\ Len(list[c]) > 1
                         THEN Spawn ELSE [stage EXCEPT ![c] = "seq"]
  <2>1. /\ later' = later /\ list' = list /\ width' = width /\ next' = next /\ stop' = stop
        /\ ~stop /\ metrics' = metrics
    BY <1>1, <1>6 DEF queues, IPool
  <2>2. c \in Thread /\ (c = Main => \A w \in Pool : stage[w] = "off")
    BY <1>1, <1>2, Threads DEF IStages, Caller
  <2>3. /\ stage' \in [Thread -> ThreadStage]
        /\ stage'[c] = "seq" \/ (c = Main /\ width > 1 /\ stage'[c] = "join"
                                 /\ ~ \A w \in Pool : stage'[w] = "off")
        /\ \A d \in Caller \ {c} : stage'[d] = stage[d]
        /\ \A w \in Pool : \/ stage'[w] = stage[w]
                           \/ c = Main /\ stage'[w] = "check" /\ stage'[Main] = "join"
    <3>1. CASE c = Main /\ width > 1 /\ Len(list[c]) > 1
      <4>1. stage' = Spawn /\ width' > 1 /\ width' \in 1 .. MaxPool
        BY <1>1, <1>6, <2>1, <3>1 DEF SchedulerTypeOK
      <4>. QED
        BY <1>1, <2>1, <3>1, <4>1, Spawned, Threads DEF Caller
    <3>2. CASE ~ (c = Main /\ width > 1 /\ Len(list[c]) > 1)
      BY <1>1, <1>6, <2>2, <3>2, Threads DEF SchedulerTypeOK, ThreadStage, Caller
    <3>. QED
      BY <3>1, <3>2
  <2>4. BusyThreads' = BusyThreads /\ \A u \in Thread : Busy(u)' <=> Busy(u)
    <3>1. ASSUME NEW u \in Thread PROVE Busy(u)' <=> Busy(u)
      <4>1. CASE u = c
        BY <1>2, <2>3, <4>1 DEF Busy, Running
      <4>2. CASE u \in Caller \ {c}
        BY <2>3, <4>2 DEF Busy
      <4>3. CASE u \in Pool
        <5>1. stage'[u] = stage[u] \/ (stage'[u] = "check" /\ c = Main)
          BY <1>2, <2>3, <4>3 DEF Caller
        <5>2. stage'[u] = stage[u] \/ (stage'[u] = "check" /\ stage[u] = "off")
          BY <2>2, <4>3, <5>1
        <5>. QED
          BY <5>2 DEF Busy, Running
      <4>. QED
        BY <4>1, <4>2, <4>3 DEF Thread
    <3>. QED
      BY <3>1 DEF BusyThreads
  <2>5. IStages'
    <3>1. \A w \in Pool : stage'[w] # "off" => stage'[Main] = "join"
      <4>1. CASE c = Main
        BY <2>2, <2>3, <4>1
      <4>2. CASE c = Fresh
        BY <1>1, <2>3, <4>2, Threads DEF IStages, Caller
      <4>. QED
        BY <4>1, <4>2 DEF Caller
    <3>2. \A w \in Pool : stage'[w] \in {"off", "check", "take"} \cup Running
      BY <1>1, <2>3 DEF IStages
    <3>3. CASE c = Main
      <4>1. stage'[Main] \in {"seq", "join"} /\ stage'[Fresh] = stage[Fresh]
        BY <2>3, <3>3, Threads DEF Caller
      <4>. QED
        BY <1>1, <3>1, <3>2, <4>1 DEF IStages
    <3>4. CASE c = Fresh
      <4>1. stage'[Fresh] = "seq" /\ stage'[Main] = stage[Main] /\ stage[Fresh] = "list"
        BY <1>2, <2>3, <3>4, Threads DEF Caller
      <4>. QED
        BY <1>1, <2>1, <3>1, <3>2, <4>1 DEF IStages
    <3>. QED
      BY <3>3, <3>4 DEF Caller
  <2>6. SchedulerTypeOK'
    BY <1>1, <1>2, <2>1, <2>3 DEF SchedulerTypeOK
  <2>7. ILists'
    <3>1. \A u \in Thread : IF Busy(u)' THEN cand'[u] \in Candidate ELSE cand'[u] = 0
      BY <1>1, <1>2, <2>4 DEF ILists
    <3>2. \A d \in Caller : stage'[d] = "list" => next'[d] = 0
      BY <1>1, <2>1, <2>3 DEF ILists
    <3>3. ASSUME NEW d \in Caller
          PROVE  stage'[d] \in {"seq"} \cup Running => next'[d] <= Len(list'[d])
      <4>1. CASE d = c
        <5>1. Len(list[c]) \in Nat
          BY <1>3, FromList
        <5>. QED
          BY <1>3, <2>1, <4>1, <5>1
      <4>2. CASE d # c
        BY <1>1, <2>1, <2>3, <4>2 DEF ILists
      <4>. QED
        BY <4>1, <4>2
    <3>. QED
      BY <1>1, <1>2, <2>1, <2>6, <3>1, <3>2, <3>3 DEF ILists
  <2>8. \A d \in Caller : Assigned(d)' = Assigned(d)
    <3>. SUFFICES ASSUME NEW d \in Caller PROVE Assigned(d)' = Assigned(d)
      OBVIOUS
    <3>1. stage'[d] = stage[d] \/ (stage[d] = "list" /\ stage'[d] \in {"seq", "join"})
      BY <1>2, <2>3
    <3>. QED
      BY <2>1, <3>1 DEF Assigned, From
  <2>9. IShared'
    <3>1. stage[Main] \notin {"entry", "plan"}
      BY <1>1, <1>2, Threads DEF IStages, Caller
    <3>. QED
      BY <1>1, <1>2, <2>1, <2>4, <2>8, <3>1, Threads DEF IShared
  <2>10. IPool'
    <3>1. CASE c = Main
      <4>1. IsFiniteSet(PoolOff') /\ Cardinality(PoolOff') \in Nat
        BY OffFinite
      <4>2. Len(list[Main]) \in Nat /\ next'[Main] = 0
        BY <1>3, <2>1, <3>1, FromList
      <4>3. next'[Main] <= Len(list'[Main]) + Cardinality(PoolOff')
        BY <2>1, <4>1, <4>2
      <4>4. stage'[Main] = "join" => ~ \A w \in Pool : stage'[w] = "off"
        BY <2>3, <3>1
      <4>. QED
        BY <2>1, <4>3, <4>4 DEF IPool
    <3>2. CASE c = Fresh
      <4>1. stage'[Main] = stage[Main]
        BY <2>3, <3>2, Threads
      <4>2. \A w \in Pool : stage'[w] = stage[w]
        BY <2>3, <3>2, Threads
      <4>3. PoolOff' = PoolOff
        BY <4>2 DEF PoolOff
      <4>. QED
        BY <1>1, <1>2, <2>1, <4>1, <4>2, <4>3 DEF IPool
    <3>. QED
      BY <3>1, <3>2 DEF Caller
  <2>11. IStreams'
    <3>1. /\ \A u \in Pool \cup {Main} : Busy(u)' => cand'[u] \in ToSet(list'[Main])
          /\ Busy(Fresh)' => cand'[Fresh] \in ToSet(list'[Fresh])
      BY <1>1, <1>2, <2>1, <2>4, Threads DEF IStreams
    <3>2. /\ stage'[Fresh] # "off" => stage[Fresh] # "off"
          /\ stage'[Main] = "join" => stage[Main] = "join" \/ width > 1
      BY <1>2, <2>3, Threads
    <3>. QED
      BY <1>1, <1>2, <2>1, <3>1, <3>2 DEF IStreams
  <2>. QED
    BY <2>5, <2>7, <2>9, <2>10, <2>11 DEF IBatch
<1>. QED
  BY <1>4, <1>5, <1>6 DEF EnterList

\* The sequential loop.
LEMMA SeqStepStep == ASSUME IBatch, NEW c \in Caller, SeqStep(c) PROVE IBatch'
<1>1. IPool /\ ILists /\ SchedulerTypeOK
  BY DEF IBatch, ILists
<1>2. stage[c] = "seq" /\ UNCHANGED <<batch, model, deadline_passed>> /\ c \in Thread
  BY DEF SeqStep, Thread
<1>3. /\ next[c] \in Nat /\ list[c] \in Seq(Candidate) /\ Once(list[c])
      /\ Assigned(c) = From(list[c], next[c])
  BY <1>1, <1>2, SchedulerAssumption DEF ILists, SchedulerTypeOK, Assigned
<1>4. CASE next[c] = Len(list[c]) /\ ListEnds(c) /\ UNCHANGED <<metrics, cand>>
  <2>1. Assigned(c) = {}
    BY <1>3, <1>4, FromList
  <2>. QED
    BY <1>1, <1>2, <1>4, <2>1, Marking, ListEndsStep
<1>5. CASE Mark(From(list[c], next[c])) /\ ListEnds(c) /\ UNCHANGED cand
  BY <1>1, <1>2, <1>3, <1>5, Marking, ListEndsStep
<1>6. CASE /\ next[c] < Len(list[c])
           /\ cand' = [cand EXCEPT ![c] = list[c][next[c] + 1]]
           /\ next' = [next EXCEPT ![c] = @ + 1]
           /\ stage' = [stage EXCEPT ![c] = "guards"]
           /\ UNCHANGED <<later, list, width, stop, metrics>>
  BY <1>2, <1>6, TakeStep
<1>. QED
  BY <1>4, <1>5, <1>6 DEF SeqStep

\* After the join what no worker took is marked; without a deadline there is nothing.
LEMMA JoinPoolMarks ==
  ASSUME IBatch, JoinPool PROVE metrics' = Marked(metrics, Assigned(Main))
<1>1. IPool /\ ILists /\ SchedulerTypeOK
  BY DEF IBatch, ILists
<1>2. stage[Main] = "join" /\ \A w \in Pool : stage[w] = "off"
  BY DEF JoinPool
<1>3. /\ next[Main] \in Nat /\ list[Main] \in Seq(Candidate) /\ Once(list[Main])
      /\ Assigned(Main) = From(list[Main], next[Main])
  BY <1>1, <1>2, Threads, SchedulerAssumption DEF ILists, SchedulerTypeOK, Assigned
<1>4. CASE deadline_passed
  BY <1>1, <1>3, <1>4, Marking DEF JoinPool
<1>5. CASE ~deadline_passed
  <2>1. next[Main] >= Len(list[Main])
    BY <1>1, <1>2, <1>5 DEF IPool
  <2>2. Assigned(Main) = {}
    BY <1>3, <2>1, FromList
  <2>. QED
    BY <1>1, <1>5, <2>2, Marking DEF JoinPool
<1>. QED
  BY <1>4, <1>5

\* The pool has been joined.
LEMMA JoinPoolStep == ASSUME IBatch, JoinPool PROVE IBatch'
<1>1. /\ stage[Main] = "join" /\ \A w \in Pool : stage[w] = "off"
      /\ ListEnds(Main) /\ UNCHANGED <<batch, model, deadline_passed, cand>>
  BY DEF JoinPool
<1>. QED
  BY <1>1, JoinPoolMarks, Threads, ListEndsStep

\* A worker that stands before the position takes it, or finds the list used up.
LEMMA TakeWorkerStep == ASSUME IBatch, NEW w \in Pool, Take(w) PROVE IBatch'
<1>. USE SameBatch
<1>1. IStages /\ ILists /\ IShared /\ IPool /\ IStreams /\ SchedulerTypeOK
  BY DEF IBatch, ILists
<1>2. /\ stage[w] = "take" /\ next' = [next EXCEPT ![Main] = @ + 1] /\ w \in Thread
      /\ UNCHANGED <<batch, model, deadline_passed, metrics, later, list, width, stop>>
  BY Threads DEF Take
<1>3. CASE next[Main] < Len(list[Main])
  <2>1. /\ cand' = [cand EXCEPT ![w] = list[Main][next[Main] + 1]]
        /\ stage' = [stage EXCEPT ![w] = "guards"]
    BY <1>3 DEF Take
  <2>. QED
    BY <1>2, <1>3, <2>1, Threads, TakeStep
<1>4. CASE ~ (next[Main] < Len(list[Main]))
  <2>1. stage' = [stage EXCEPT ![w] = "off"] /\ UNCHANGED cand
    BY <1>4 DEF Take
  <2>2. /\ stage'[w] = "off" /\ \A u \in Thread \ {w} : stage'[u] = stage[u]
        /\ stage' \in [Thread -> ThreadStage]
        /\ next'[Fresh] = next[Fresh] /\ next'[Main] = next[Main] + 1
    BY <1>1, <1>2, <2>1, Threads DEF SchedulerTypeOK, ThreadStage
  <2>3. BusyThreads' = BusyThreads /\ \A u \in Thread : Busy(u)' <=> Busy(u)
    BY <1>2, <2>2 DEF BusyThreads, Busy, Running
  <2>4. stage[Main] = "join" /\ stage'[Main] = "join"
    BY <1>1, <1>2, <2>2, Threads DEF IStages
  <2>5. IStages'
    BY <1>1, <1>2, <2>2, <2>4, Threads DEF IStages
  <2>6. /\ next[Main] \in Nat /\ Len(list[Main]) \in 0 .. size /\ size \in 0 .. MaxBatch
        /\ list[Main] \in Seq(Candidate) /\ Once(list[Main]) /\ size \in Nat
    BY <1>1, Threads, ListShort, SchedulerAssumption DEF ILists, SchedulerTypeOK
  <2>7. /\ PoolOff' = PoolOff \cup {w} /\ w \notin PoolOff
        /\ Cardinality(PoolOff') = Cardinality(PoolOff) + 1
    <3>1. PoolOff' = PoolOff \cup {w} /\ w \notin PoolOff
      BY <1>2, <2>2, Threads DEF PoolOff
    <3>. QED
      BY <3>1, OffFinite, FS_AddElement
  <2>8. next'[Main] <= Len(list[Main]) + Cardinality(PoolOff')
    <3>1. next[Main] <= Len(list[Main]) + Cardinality(PoolOff)
      BY <1>1, <2>4 DEF IPool
    <3>. QED
      BY <2>2, <2>6, <2>7, <3>1, OffFinite
  <2>9. next' \in [Caller -> 0 .. MaxBatch + MaxPool]
    <3>1. Cardinality(PoolOff') <= MaxPool
      <4>1. IsFiniteSet(Pool) /\ Cardinality(Pool) = MaxPool /\ PoolOff' \subseteq Pool
        <5>1. /\ IsFiniteSet(1 .. MaxPool)
              /\ Cardinality(1 .. MaxPool) = IF 1 > MaxPool THEN 0 ELSE MaxPool - 1 + 1
          BY SchedulerAssumption, FS_Interval
        <5>2. (IF 1 > MaxPool THEN 0 ELSE MaxPool - 1 + 1) = MaxPool
          BY SchedulerAssumption
        <5>. QED
          BY <5>1, <5>2 DEF Pool, PoolOff
      <4>. QED
        BY <4>1, FS_Subset
    <3>2. next'[Main] \in 0 .. MaxBatch + MaxPool
      BY <2>2, <2>6, <2>8, <3>1, OffFinite, SchedulerAssumption
    <3>. QED
      BY <1>1, <1>2, <2>2, <3>2, Threads DEF SchedulerTypeOK
  <2>10. SchedulerTypeOK'
    BY <1>1, <1>2, <2>1, <2>2, <2>9 DEF SchedulerTypeOK
  <2>11. ILists'
    <3>1. \A u \in Thread : IF Busy(u)' THEN cand'[u] \in Candidate ELSE cand'[u] = 0
      BY <1>1, <1>2, <2>1, <2>3 DEF ILists
    <3>2. \A d \in Caller : d = Main \/ (d = Fresh /\ stage'[d] = stage[d] /\ next'[d] = next[d])
      BY <2>2, Threads DEF Caller
    <3>3. \A d \in Caller : stage'[d] = "list" => next'[d] = 0
      BY <1>1, <2>4, <3>2 DEF ILists
    <3>4. \A d \in Caller : stage'[d] \in {"seq"} \cup Running => next'[d] <= Len(list'[d])
      BY <1>1, <1>2, <2>4, <3>2 DEF ILists, Running
    <3>. QED
      BY <1>1, <1>2, <2>10, <3>1, <3>3, <3>4 DEF ILists
  <2>12. Assigned(Main)' = Assigned(Main) /\ Assigned(Fresh)' = Assigned(Fresh)
    <3>1. Assigned(Main) = From(list[Main], next[Main])
          /\ Assigned(Main)' = From(list[Main], next[Main] + 1)
      BY <1>2, <2>2, <2>4 DEF Assigned, From
    <3>2. From(list[Main], next[Main]) = {} /\ From(list[Main], next[Main] + 1) = {}
      <4>1. next[Main] + 1 \in Nat /\ Len(list[Main]) \in Nat
        BY <2>6
      <4>2. next[Main] >= Len(list[Main]) /\ next[Main] + 1 >= Len(list[Main])
        BY <1>4, <2>6, <4>1
      <4>3. From(list[Main], next[Main]) = {}
        BY <2>6, <4>2, FromList
      <4>4. From(list[Main], next[Main] + 1) = {}
        BY <2>6, <4>1, <4>2, FromList
      <4>. QED
        BY <4>3, <4>4
    <3>3. Assigned(Fresh)' = Assigned(Fresh)
      BY <1>2, <2>2, Threads DEF Assigned, From
    <3>. QED
      BY <3>1, <3>2, <3>3
  <2>13. IShared'
    BY <1>1, <1>2, <2>1, <2>3, <2>4, <2>12 DEF IShared
  <2>14. IPool'
    <3>1. next'[Main] >= Len(list[Main])
      BY <1>4, <2>2, <2>6
    <3>. QED
      BY <1>1, <1>2, <2>8, <3>1 DEF IPool
  <2>15. IStreams'
    BY <1>1, <1>2, <2>1, <2>2, <2>3, <2>4, Threads DEF IStreams
  <2>. QED
    BY <2>5, <2>11, <2>13, <2>14, <2>15 DEF IBatch
<1>. QED
  BY <1>3, <1>4

\* A worker looks at stop and at the clock.
LEMMA CheckStep == ASSUME IBatch, NEW w \in Pool, Check(w) PROVE IBatch'
<1>. USE SameBatch
<1>1. IStages /\ ILists /\ IShared /\ IPool /\ IStreams /\ SchedulerTypeOK
  BY DEF IBatch, ILists
<1>2. /\ stage[w] = "check" /\ w \in Thread /\ stop' = (stop \/ deadline_passed)
      /\ UNCHANGED <<batch, model, deadline_passed, metrics, later, list, width, next, cand>>
      /\ stage' = [stage EXCEPT ![w] = IF stop' THEN "off" ELSE "take"]
  BY Threads DEF Check
<1>3. /\ stage'[w] = IF stop' THEN "off" ELSE "take"
      /\ \A u \in Thread \ {w} : stage'[u] = stage[u]
      /\ stage' \in [Thread -> ThreadStage] /\ stop' \in BOOLEAN
  BY <1>1, <1>2 DEF SchedulerTypeOK, ThreadStage
<1>4. BusyThreads' = BusyThreads /\ \A u \in Thread : Busy(u)' <=> Busy(u)
  BY <1>2, <1>3 DEF BusyThreads, Busy, Running
<1>5. stage[Main] = "join" /\ stage'[Main] = "join"
  BY <1>1, <1>2, <1>3, Threads DEF IStages
<1>6. \A c \in Caller : stage'[c] = stage[c] /\ Assigned(c)' = Assigned(c)
  BY <1>2, <1>3, Threads DEF Caller, Assigned, From
<1>7. IStages'
  BY <1>1, <1>2, <1>3, <1>5, Threads DEF IStages
<1>8. SchedulerTypeOK'
  BY <1>1, <1>2, <1>3 DEF SchedulerTypeOK
<1>9. ILists'
  <2>1. \A u \in Thread : IF Busy(u)' THEN cand'[u] \in Candidate ELSE cand'[u] = 0
    BY <1>1, <1>2, <1>4 DEF ILists
  <2>. QED
    BY <1>1, <1>2, <1>6, <1>8, <2>1 DEF ILists
<1>10. IShared'
  BY <1>1, <1>2, <1>4, <1>5, <1>6, Threads DEF IShared
<1>11. IPool'
  <2>1. stop' => deadline_passed'
    BY <1>1, <1>2 DEF IPool
  <2>2. (\A u \in Pool : stage'[u] = "off") => deadline_passed'
    BY <1>3, <2>1
  <2>3. PoolOff \subseteq PoolOff'
    BY <1>2, <1>3, Threads DEF PoolOff
  <2>4. Cardinality(PoolOff) <= Cardinality(PoolOff')
    BY <2>3, OffFinite, FS_Subset
  <2>5. next[Main] <= Len(list[Main]) + Cardinality(PoolOff)
    BY <1>1, <1>5 DEF IPool
  <2>6. next[Main] \in Nat /\ Len(list[Main]) \in Nat
    BY <1>1, Threads, FromList, SchedulerAssumption DEF ILists, SchedulerTypeOK
  <2>7. next'[Main] <= Len(list'[Main]) + Cardinality(PoolOff')
    BY <1>2, <2>4, <2>5, <2>6, OffFinite
  <2>. QED
    BY <2>1, <2>2, <2>7 DEF IPool
<1>12. IStreams'
  BY <1>1, <1>2, <1>4, <1>5, <1>6, Threads DEF IStreams
<1>. QED
  BY <1>7, <1>9, <1>10, <1>11, <1>12 DEF IBatch

\* A thread whose candidate is let through starts to evaluate it.
LEMMA LaunchStep == ASSUME IBatch, NEW t \in Thread, Launch(t) PROVE IBatch'
<1>. USE SameBatch
<1>1. IStages /\ ILists /\ IShared /\ IPool /\ IStreams /\ SchedulerTypeOK
  BY DEF IBatch, ILists
<1>2. /\ stage[t] = "guards" /\ stage' = [stage EXCEPT ![t] = "evaluate"]
      /\ UNCHANGED <<batch, model, deadline_passed, metrics, queues, cand>>
      /\ later' = later /\ list' = list /\ width' = width /\ next' = next /\ stop' = stop
  BY DEF Launch, queues
<1>3. /\ stage'[t] = "evaluate" /\ \A u \in Thread \ {t} : stage'[u] = stage[u]
      /\ stage' \in [Thread -> ThreadStage]
  BY <1>1, <1>2 DEF SchedulerTypeOK, ThreadStage, Running
<1>4. BusyThreads' = BusyThreads /\ \A u \in Thread : Busy(u)' <=> Busy(u)
  BY <1>2, <1>3 DEF BusyThreads, Busy, Running
<1>5. \A u \in Thread : stage'[u] = stage[u]
                        \/ (stage[u] \in Running /\ stage'[u] \in Running)
  BY <1>2, <1>3 DEF Running
<1>6. \A c \in Caller : Assigned(c)' = Assigned(c)
  BY <1>2, <1>5, Threads DEF Caller, Assigned, From
<1>7. /\ \A u \in Thread, s \in {"off", "list", "join", "await", "returned", "entry", "plan"} :
           stage'[u] = s <=> stage[u] = s
  BY <1>5 DEF Running
<1>8. IStages'
  <2>1. \A w \in Pool : stage'[w] \in {"off", "check", "take"} \cup Running
    BY <1>1, <1>5, Threads DEF IStages
  <2>2. stage'[Main] \notin {"off", "check", "take"}
        /\ stage'[Fresh] \in {"off", "list", "seq", "returned"} \cup Running
    BY <1>1, <1>5, Threads DEF IStages, Running
  <2>3. \A w \in Pool : stage'[w] # "off" => stage'[Main] = "join"
    BY <1>1, <1>7, Threads DEF IStages
  <2>4. /\ stage'[Main] \in {"entry", "plan"} => stage[Main] \in {"entry", "plan"}
        /\ stage'[Main] \in {"await", "returned"} => stage[Main] \in {"await", "returned"}
        /\ stage'[Main] = "returned" => stage[Main] = "returned"
        /\ stage[Fresh] \in {"off", "returned"} => stage'[Fresh] = stage[Fresh]
    BY <1>7, Threads
  <2>. QED
    BY <1>1, <1>2, <2>1, <2>2, <2>3, <2>4 DEF IStages
<1>9. SchedulerTypeOK'
  BY <1>1, <1>2, <1>3 DEF SchedulerTypeOK
<1>10. ILists'
  <2>1. \A u \in Thread : IF Busy(u)' THEN cand'[u] \in Candidate ELSE cand'[u] = 0
    BY <1>1, <1>2, <1>4 DEF ILists
  <2>2. \A d \in Caller : stage'[d] = "list" => next'[d] = 0
    BY <1>1, <1>2, <1>7 DEF ILists, Thread
  <2>3. \A d \in Caller : stage'[d] \in {"seq"} \cup Running => next'[d] <= Len(list'[d])
    BY <1>1, <1>2, <1>5 DEF ILists, Thread
  <2>. QED
    BY <1>1, <1>2, <1>9, <2>1, <2>2, <2>3 DEF ILists
<1>11. IShared'
  <2>1. stage'[Main] \notin {"entry", "plan"} => stage[Main] \notin {"entry", "plan"}
    BY <1>7, Threads
  <2>. QED
    BY <1>1, <1>2, <1>4, <1>6, <2>1, Threads DEF IShared
<1>12. IPool'
  <2>1. /\ stage'[Main] = "join" <=> stage[Main] = "join"
        /\ \A w \in Pool : stage'[w] = "off" <=> stage[w] = "off"
    BY <1>7, Threads
  <2>2. PoolOff' = PoolOff
    BY <2>1 DEF PoolOff
  <2>. QED
    BY <1>1, <1>2, <2>1, <2>2 DEF IPool
<1>13. IStreams'
  <2>1. stage'[Main] = "join" <=> stage[Main] = "join"
    BY <1>7, Threads
  <2>2. stage'[Fresh] = "off" <=> stage[Fresh] = "off"
    BY <1>7, Threads
  <2>3. /\ \A u \in Pool \cup {Main} : Busy(u)' => cand'[u] \in ToSet(list'[Main])
        /\ Busy(Fresh)' => cand'[Fresh] \in ToSet(list'[Fresh])
    BY <1>1, <1>2, <1>4, Threads DEF IStreams
  <2>. QED
    BY <1>1, <1>2, <2>1, <2>2, <2>3 DEF IStreams
<1>. QED
  BY <1>8, <1>10, <1>11, <1>12, <1>13 DEF IBatch

\* The guards refuse a candidate, or its evaluation ends.
LEMMA VerdictStep ==
  ASSUME IBatch, NEW t \in Thread, Refuse(t) \/ EvaluateCandidate(t) PROVE IBatch'
<1>1. SchedulerTypeOK /\ ILists
  BY DEF IBatch, ILists
<1>2. Busy(t) /\ UNCHANGED <<batch, deadline_passed, queues>>
  BY DEF Refuse, EvaluateCandidate, Busy, Running
<1>3. cand[t] \in Candidate
  BY <1>1, <1>2 DEF ILists
<1>4. model' \in [Candidate -> CacheState]
  BY <1>1, <1>3 DEF Refuse, EvaluateCandidate, SchedulerTypeOK, CacheState
<1>5. \E v \in Slot \ {"blank"} : Deliver(t, v)
  BY DEF Refuse, EvaluateCandidate, Slot
<1>. QED
  BY <1>2, <1>4, <1>5, DeliverStep

\* Time passes and other users of the training cache work.
LEMMA OutsideStep ==
  ASSUME IBatch, DeadlinePasses \/ \E i \in Candidate : InFlightReady(i) PROVE IBatch'
<1>. USE SameBatch
<1>1. IStages /\ ILists /\ IShared /\ IPool /\ IStreams /\ SchedulerTypeOK
  BY DEF IBatch, ILists
<1>2. /\ UNCHANGED <<batch, metrics, queues, threads>> /\ stage' = stage /\ cand' = cand
      /\ later' = later /\ list' = list /\ width' = width /\ next' = next /\ stop' = stop
      /\ deadline_passed => deadline_passed'
      /\ deadline_passed' \in BOOLEAN /\ model' \in [Candidate -> CacheState]
  BY <1>1 DEF DeadlinePasses, InFlightReady, queues, threads, SchedulerTypeOK, CacheState
<1>3. SchedulerTypeOK'
  BY <1>1, <1>2 DEF SchedulerTypeOK
<1>4. BusyThreads' = BusyThreads /\ PoolOff' = PoolOff /\ \A u : Busy(u)' <=> Busy(u)
  BY <1>2 DEF BusyThreads, PoolOff, Busy
<1>5. \A c \in Caller : Assigned(c)' = Assigned(c)
  BY <1>2 DEF Assigned, From
<1>6. IStages'
  BY <1>1, <1>2 DEF IStages
<1>7. ILists'
  BY <1>1, <1>2, <1>3, <1>4 DEF ILists
<1>8. IShared'
  BY <1>1, <1>2, <1>4, <1>5, Threads DEF IShared
<1>9. IPool' /\ IStreams'
  BY <1>1, <1>2, <1>4 DEF IPool, IStreams
<1>. QED
  BY <1>6, <1>7, <1>8, <1>9 DEF IBatch

\* The call starts, or is over before it has started.
LEMMA EnterStep == ASSUME IBatch, Enter PROVE IBatch'
<1>. USE SameBatch
<1>1. IStages /\ ILists /\ IShared /\ IPool /\ IStreams /\ SchedulerTypeOK
  BY DEF IBatch, ILists
<1>2. /\ stage[Main] = "entry" /\ UNCHANGED <<batch, model, deadline_passed, queues, cand>>
      /\ later' = later /\ list' = list /\ width' = width /\ next' = next /\ stop' = stop
  BY DEF Enter, queues
<1>3. /\ stage[Fresh] = "off" /\ later = <<>> /\ \A w \in Pool : stage[w] = "off"
      /\ admission = FALSE /\ \A i \in Candidate : metrics[i] = "blank"
  BY <1>1, <1>2 DEF IStages
<1>4. /\ stage'[Main] = IF deadline_passed THEN "await" ELSE "plan"
      /\ \A u \in Thread \ {Main} : stage'[u] = stage[u]
      /\ stage' \in [Thread -> ThreadStage]
  BY <1>1, Threads DEF Enter, SchedulerTypeOK, ThreadStage
<1>5. \A u \in Thread : ~ Busy(u) /\ ~ Busy(u)'
  BY <1>2, <1>3, <1>4, Threads DEF Busy, Running
<1>6. /\ metrics' = IF deadline_passed THEN Marked(metrics, Candidate) ELSE metrics
      /\ metrics' \in [Candidate -> Slot]
  BY <1>1, Marking DEF Enter, SchedulerTypeOK, Marked, Slot
<1>7. deadline_passed => \A i \in Candidate : metrics'[i] = "late"
  BY <1>1, <1>3, <1>6 DEF SchedulerTypeOK, Marked
<1>8. IStages'
  BY <1>1, <1>2, <1>3, <1>4, <1>6, Threads DEF IStages
<1>9. SchedulerTypeOK'
  BY <1>1, <1>2, <1>4, <1>6 DEF SchedulerTypeOK
<1>10. ILists'
  <2>1. \A u \in Thread : IF Busy(u)' THEN cand'[u] \in Candidate ELSE cand'[u] = 0
    BY <1>1, <1>2, <1>5 DEF ILists
  <2>2. \A c \in Caller : stage'[c] \notin {"list", "seq"} \cup Running
    BY <1>3, <1>4, Threads DEF Caller, Running
  <2>. QED
    BY <1>1, <1>2, <1>9, <2>1, <2>2 DEF ILists
<1>11. IShared'
  <2>1. CASE deadline_passed
    <3>1. Assigned(Main)' = {} /\ Assigned(Fresh)' = {} /\ ToSet(later') = {}
      BY <1>2, <1>3, <1>4, <2>1, Threads, NoList DEF Assigned, Running
    <3>2. BusyThreads' = {}
      BY <1>5 DEF BusyThreads
    <3>3. Shared({}, {}, {}, {}, cand', metrics', Candidate)
      BY <1>7, <2>1 DEF Shared
    <3>. QED
      BY <1>2, <3>1, <3>2, <3>3 DEF IShared
  <2>2. CASE ~deadline_passed
    BY <1>4, <2>2 DEF IShared
  <2>. QED
    BY <2>1, <2>2
<1>12. IPool'
  BY <1>1, <1>2, <1>4 DEF IPool
<1>13. IStreams'
  BY <1>2, <1>3, <1>5, Threads DEF IStreams
<1>. QED
  BY <1>8, <1>10, <1>11, <1>12, <1>13 DEF IBatch

\* The call returns.
LEMMA ReturnStep == ASSUME IBatch, Return PROVE IBatch'
<1>. USE SameBatch
<1>1. IStages /\ ILists /\ IShared /\ IPool /\ IStreams /\ SchedulerTypeOK
  BY DEF IBatch, ILists
<1>2. /\ stage[Main] = "await" /\ stage[Fresh] \in {"off", "returned"}
      /\ UNCHANGED <<batch, model, deadline_passed, metrics, queues, cand>>
      /\ later' = later /\ list' = list /\ width' = width /\ next' = next /\ stop' = stop
  BY DEF Return, queues
<1>3. /\ stage'[Main] = "returned" /\ \A u \in Thread \ {Main} : stage'[u] = stage[u]
      /\ stage' \in [Thread -> ThreadStage]
  BY <1>1, Threads DEF Return, SchedulerTypeOK, ThreadStage
<1>4. BusyThreads' = BusyThreads /\ \A u \in Thread : Busy(u)' <=> Busy(u)
  BY <1>2, <1>3 DEF BusyThreads, Busy, Running
<1>5. \A c \in Caller : Assigned(c)' = Assigned(c)
  BY <1>2, <1>3, Threads DEF Caller, Assigned, From, Running
<1>6. IStages'
  BY <1>1, <1>2, <1>3, Threads DEF IStages
<1>7. SchedulerTypeOK'
  BY <1>1, <1>2, <1>3 DEF SchedulerTypeOK
<1>8. ILists'
  <2>1. \A u \in Thread : IF Busy(u)' THEN cand'[u] \in Candidate ELSE cand'[u] = 0
    BY <1>1, <1>2, <1>4 DEF ILists
  <2>2. \A c \in Caller : stage'[c] \notin {"list", "seq"} \cup Running
    BY <1>2, <1>3, Threads DEF Caller, Running
  <2>. QED
    BY <1>1, <1>2, <1>7, <2>1, <2>2 DEF ILists
<1>9. IShared'
  BY <1>1, <1>2, <1>4, <1>5, Threads DEF IShared
<1>10. IPool'
  BY <1>1, <1>2, <1>3 DEF IPool
<1>11. IStreams'
  BY <1>1, <1>2, <1>3, <1>4, Threads DEF IStreams
<1>. QED
  BY <1>6, <1>8, <1>9, <1>10, <1>11 DEF IBatch

\* The indices of a batch in order are a list of it.
LEMMA InOrder ==
  ASSUME size \in Nat
  PROVE  /\ [i \in Candidate |-> i] \in Seq(Candidate) /\ Once([i \in Candidate |-> i])
         /\ ToSet([i \in Candidate |-> i]) = Candidate
<1>. DEFINE s == [i \in Candidate |-> i]
<1>1. DOMAIN s = Candidate /\ \A i \in Candidate : s[i] = i
  OBVIOUS
<1>2. s \in Seq(Candidate)
  <2>1. s \in [1 .. size -> Candidate]
    BY DEF Candidate
  <2>. QED
    BY <2>1, SeqDef
<1>3. Once(s) /\ ToSet(s) = Candidate
  BY <1>1 DEF Once, ToSet
<1>. QED
  BY <1>2, <1>3

\* The states of the cache part the candidates.
LEMMA States ==
  ASSUME size \in Nat, model \in [Candidate -> CacheState],
         NEW state \in CacheState, NEW s \in SetToSeqs(InState(state))
  PROVE  /\ s \in Seq(Candidate) /\ Once(s) /\ ToSet(s) = InState(state)
         /\ InState(state) \subseteq Candidate
<1>1. IsFiniteSet(Candidate) /\ InState(state) \subseteq Candidate
  BY FS_Interval DEF Candidate, InState
<1>2. IsFiniteSet(InState(state))
  BY <1>1, FS_Subset
<1>3. s \in Seq(InState(state)) /\ Once(s) /\ ToSet(s) = InState(state)
  BY <1>2, Enumerated
<1>4. s \in Seq(Candidate)
  BY <1>1, <1>3, SeqDef
<1>. QED
  BY <1>1, <1>3, <1>4

\* Planning parts the candidates into Main's list, Fresh's if it starts, and what Main keeps
\* for later; with Fresh at work the others are ready, and with a pool none is missing.
Planned ==
  /\ \A c \in Caller : list'[c] \in Seq(Candidate) /\ Once(list'[c])
  /\ list' = [c \in Caller |-> list'[c]]
  /\ later' \in Seq(Candidate) /\ Once(later') /\ width' \in 1 .. MaxPool
  /\ stage' \in [Thread -> ThreadStage]
  /\ stage'[Main] \in {"list", "join"} /\ stage'[Fresh] \in {"off", "list"}
  /\ \A w \in Pool : stage'[w] = "off" \/ (stage'[w] = "check" /\ stage'[Main] = "join")
  /\ stage'[Main] = "join" => ~ \A w \in Pool : stage'[w] = "off"
  /\ LET M == ToSet(list'[Main])
         F == IF stage'[Fresh] = "off" THEN {} ELSE ToSet(list'[Fresh])
         L == ToSet(later')
     IN M \cap F = {} /\ L \cap (M \cup F) = {} /\ M \cup F \cup L = Candidate
  /\ admission' /\ stage'[Fresh] # "off" =>
       /\ \A i \in ToSet(list'[Main]) : model[i] = "ready"
       /\ \A i \in ToSet(list'[Fresh]) : model[i] = "missing"
       /\ later' = <<>>
  /\ admission' /\ (width' > 1 \/ stage'[Main] = "join") =>
       \A i \in ToSet(list'[Main]) : model[i] # "missing"

\* The candidates are listed: all of them for Main, or by what the cache holds.
LEMMA PlanLists == ASSUME IBatch, Plan PROVE Planned
<1>1. IStages /\ ILists /\ IShared /\ IPool /\ IStreams /\ SchedulerTypeOK
  BY DEF IBatch, ILists
<1>2. /\ stage[Main] = "plan" /\ observed' = model
      /\ UNCHANGED <<size, explicit, model, deadline_passed, metrics, next, stop, cand>>
      /\ Candidate' = Candidate /\ IndexList' = IndexList /\ admission' \in BOOLEAN
  BY DEF Plan, Candidate, IndexList
<1>3. /\ stage[Fresh] = "off" /\ next[Main] = 0 /\ next[Fresh] = 0 /\ later = <<>> /\ ~stop
      /\ \A w \in Pool : stage[w] = "off"
      /\ \A i \in Candidate : metrics[i] = "blank"
  BY <1>1, <1>2 DEF IStages
<1>4. size \in Nat /\ size \in 0 .. MaxBatch
  BY <1>1, SchedulerAssumption DEF SchedulerTypeOK
<1>5. \A n \in Nat : Widths(n) \subseteq 1 .. MaxPool
  BY DEF Widths
<1>6. CASE ~ admission' /\ PlanPlain
  <2>1. /\ list'[Main] = [i \in Candidate |-> i] /\ list'[Fresh] = list[Fresh]
        /\ width' \in 1 .. MaxPool /\ later' = <<>>
        /\ list' = [c \in Caller |-> list'[c]]
    BY <1>1, <1>3, <1>4, <1>5, <1>6, Threads DEF PlanPlain, SchedulerTypeOK
  <2>2. /\ list'[Main] \in Seq(Candidate) /\ Once(list'[Main])
        /\ ToSet(list'[Main]) = Candidate
        /\ list'[Fresh] \in Seq(Candidate) /\ Once(list'[Fresh])
    BY <1>1, <1>4, <2>1, InOrder, Threads DEF ILists
  <2>3. /\ stage' \in [Thread -> ThreadStage] /\ stage'[Main] \in {"list", "join"}
        /\ stage'[Fresh] = "off"
        /\ \A w \in Pool : stage'[w] = "off" \/ (stage'[w] = "check" /\ stage'[Main] = "join")
        /\ stage'[Main] = "join" => ~ \A w \in Pool : stage'[w] = "off"
    <3>1. CASE width' > 1
      <4>1. stage' = Spawn
        BY <1>6, <3>1 DEF PlanPlain
      <4>. QED
        BY <1>1, <1>3, <2>1, <3>1, <4>1, Spawned
    <3>2. CASE ~ (width' > 1)
      <4>1. stage' = [stage EXCEPT ![Main] = "list"]
        BY <1>6, <3>2 DEF PlanPlain
      <4>. QED
        BY <1>1, <1>3, <4>1, Threads DEF SchedulerTypeOK, ThreadStage
    <3>. QED
      BY <3>1, <3>2
  <2>. QED
    BY <1>6, <2>1, <2>2, <2>3, NoList DEF Planned, Caller
<1>7. CASE admission' /\ PlanSingle
  <2>1. PICK ready \in Ascending(InState("ready")),
             waiting \in Ascending(InState("in_flight")),
             missing \in SetToSeqs(InState("missing")) :
               LET cached  == ready \o waiting
                   overlap == CanOverlap(cached, missing)
               IN /\ list' = [list EXCEPT ![Main] = cached,
                                ![Fresh] = IF overlap THEN missing ELSE <<>>]
                  /\ later' = IF overlap THEN <<>> ELSE missing
                  /\ width' \in Widths(Len(cached))
                  /\ stage' = [stage EXCEPT ![Main] = "list",
                              ![Fresh] = IF overlap THEN "list" ELSE "off"]
    BY <1>7 DEF PlanSingle
  <2>. DEFINE cached  == ready \o waiting
              overlap == CanOverlap(cached, missing)
  <2>2. /\ ready \in Seq(Candidate) /\ Once(ready) /\ ToSet(ready) = InState("ready")
        /\ waiting \in Seq(Candidate) /\ Once(waiting)
        /\ ToSet(waiting) = InState("in_flight")
        /\ missing \in Seq(Candidate) /\ Once(missing) /\ ToSet(missing) = InState("missing")
    BY <1>1, <1>4, States DEF Ascending, CacheState, SchedulerTypeOK
  <2>3. ToSet(ready) \cap ToSet(waiting) = {}
    BY <2>2 DEF InState
  <2>4. /\ cached \in Seq(Candidate) /\ Once(cached)
        /\ ToSet(cached) = InState("ready") \cup InState("in_flight")
    BY <2>2, <2>3, Stacked
  <2>5. /\ list'[Main] = cached /\ list'[Fresh] = IF overlap THEN missing ELSE <<>>
        /\ later' = IF overlap THEN <<>> ELSE missing
        /\ width' \in 1 .. MaxPool
        /\ stage'[Main] = "list" /\ stage'[Fresh] = IF overlap THEN "list" ELSE "off"
        /\ \A w \in Pool : stage'[w] = "off"
        /\ stage' \in [Thread -> ThreadStage] /\ list' = [c \in Caller |-> list'[c]]
    <3>1. list' = [c \in Caller |-> list'[c]] /\ list'[Main] = cached /\ list'[Fresh] = IF overlap THEN missing ELSE <<>>
      BY <1>1, <2>1, Threads DEF SchedulerTypeOK
    <3>2. /\ stage'[Main] = "list" /\ stage'[Fresh] = IF overlap THEN "list" ELSE "off"
          /\ \A w \in Pool : stage'[w] = "off"
          /\ stage' \in [Thread -> ThreadStage]
      BY <1>1, <1>3, <2>1, Threads DEF SchedulerTypeOK, ThreadStage
    <3>3. Len(cached) \in Nat
      BY <2>4, Elements
    <3>. QED
      BY <1>5, <2>1, <3>1, <3>2, <3>3
  <2>6. /\ overlap => InState("in_flight") = {}
        /\ InState("ready") \cup InState("in_flight") \cup InState("missing") = Candidate
        /\ (InState("ready") \cup InState("in_flight")) \cap InState("missing") = {}
    BY <1>1 DEF CanOverlap, InState, SchedulerTypeOK, CacheState
  <2>. HIDE DEF cached, overlap
  <2>7. /\ \A i \in InState("ready") \cup InState("in_flight") : model[i] # "missing"
        /\ \A i \in InState("missing") : model[i] = "missing"
        /\ overlap => \A i \in InState("ready") \cup InState("in_flight") : model[i] = "ready"
    BY <2>6 DEF InState
  <2>8. CASE overlap
    BY <1>7, <2>2, <2>4, <2>5, <2>6, <2>7, <2>8, NoList DEF Planned, Caller
  <2>9. CASE ~overlap
    BY <1>7, <2>2, <2>4, <2>5, <2>6, <2>7, <2>9, NoList DEF Planned, Caller
  <2>. QED
    BY <2>8, <2>9
<1>. QED
  BY <1>6, <1>7 DEF Plan

\* And they are taken up from there.
LEMMA PlanStep == ASSUME IBatch, Plan PROVE IBatch'
<1>1. IStages /\ ILists /\ IShared /\ IPool /\ IStreams /\ SchedulerTypeOK
  BY DEF IBatch, ILists
<1>2. /\ stage[Main] = "plan" /\ observed' = model
      /\ size' = size /\ explicit' = explicit /\ model' = model /\ metrics' = metrics
      /\ deadline_passed' = deadline_passed /\ next' = next /\ stop' = stop /\ cand' = cand
      /\ Candidate' = Candidate /\ IndexList' = IndexList /\ admission' \in BOOLEAN
  BY DEF Plan, Candidate, IndexList
<1>3. /\ stage[Fresh] = "off" /\ next[Main] = 0 /\ next[Fresh] = 0 /\ ~stop
      /\ \A w \in Pool : stage[w] = "off"
      /\ \A i \in Candidate : metrics[i] = "blank"
  BY <1>1, <1>2 DEF IStages
<1>4. size \in Nat
  BY <1>1, SchedulerAssumption DEF SchedulerTypeOK
<1>5. Planned
  BY PlanLists
<1>6. \A u \in Thread : ~ Busy(u) /\ ~ Busy(u)'
  <2>1. \A u \in Thread : stage[u] \notin Running
    BY <1>2, <1>3, Threads DEF Running
  <2>2. \A u \in Thread : stage'[u] \notin Running
    BY <1>5, Threads DEF Planned, Running
  <2>. QED
    BY <2>1, <2>2 DEF Busy
<1>7. IStages'
  BY <1>2, <1>5 DEF IStages, Planned
<1>8. SchedulerTypeOK'
  <2>1. list' \in [Caller -> IndexList] /\ later' \in IndexList
    BY <1>4, <1>5, ListShort DEF Planned
  <2>. QED
    BY <1>1, <1>2, <1>5, <2>1 DEF SchedulerTypeOK, Planned
<1>9. ILists'
  <2>1. \A u \in Thread : IF Busy(u)' THEN cand'[u] \in Candidate ELSE cand'[u] = 0
    BY <1>1, <1>2, <1>6 DEF ILists
  <2>2. \A c \in Caller : stage'[c] \in {"off", "list", "join"} /\ next'[c] = 0
    BY <1>2, <1>3, <1>5 DEF Planned, Caller
  <2>. QED
    BY <1>2, <1>5, <1>8, <2>1, <2>2 DEF ILists, Planned, Running
<1>10. IShared'
  <2>1. /\ Assigned(Main)' = ToSet(list'[Main])
        /\ Assigned(Fresh)' = IF stage'[Fresh] = "off" THEN {} ELSE ToSet(list'[Fresh])
    <3>1. \A c \in Caller : From(list'[c], 0) = ToSet(list'[c])
      BY <1>5, FromList DEF Planned
    <3>2. /\ Assigned(Main)' = From(list'[Main], 0)
          /\ Assigned(Fresh)' = IF stage'[Fresh] = "off" THEN {} ELSE From(list'[Fresh], 0)
      BY <1>2, <1>3, <1>5 DEF Planned, Assigned, From, Running
    <3>. QED
      BY <3>1, <3>2, Threads
  <2>2. BusyThreads' = {}
    BY <1>6 DEF BusyThreads
  <2>3. ASSUME NEW M, NEW F, NEW L, M \cap F = {}, L \cap (M \cup F) = {},
               M \cup F \cup L = Candidate
        PROVE  Shared(M, F, L, {}, cand, metrics, Candidate)
    BY <1>3, <2>3 DEF Shared
  <2>4. Shared(Assigned(Main)', Assigned(Fresh)', ToSet(later'), {}, cand, metrics, Candidate)
    BY <1>5, <2>1, <2>3 DEF Planned
  <2>. QED
    BY <1>2, <2>2, <2>4 DEF IShared
<1>11. IPool'
  <2>1. Len(list'[Main]) \in Nat
    BY <1>5, Threads, Elements DEF Planned
  <2>2. next'[Main] <= Len(list'[Main]) + Cardinality(PoolOff')
    BY <1>2, <1>3, <2>1, OffFinite
  <2>. QED
    BY <1>2, <1>3, <1>5, <2>2 DEF IPool, Planned
<1>12. IStreams'
  BY <1>2, <1>5, <1>6, Threads DEF IStreams, Planned
<1>. QED
  BY <1>7, <1>9, <1>10, <1>11, <1>12 DEF IBatch

-----------------------------------------------------------------------------
(* The results.                                                            *)

\* The invariant is inductive.
LEMMA StepIBatch == IBatch /\ [SchedulerNext]_schedulerVars => IBatch'
<1>. SUFFICES ASSUME IBatch, [SchedulerNext]_schedulerVars PROVE IBatch'
  OBVIOUS
<1>1. CASE UNCHANGED schedulerVars
  <2>1. /\ UNCHANGED batch /\ model' = model /\ deadline_passed' = deadline_passed
        /\ metrics' = metrics /\ stage' = stage /\ cand' = cand /\ later' = later
        /\ list' = list /\ width' = width /\ next' = next /\ stop' = stop
    BY <1>1 DEF schedulerVars, queues, threads
  <2>2. BusyThreads' = BusyThreads /\ PoolOff' = PoolOff /\ \A u : Busy(u)' <=> Busy(u)
    BY <2>1 DEF BusyThreads, PoolOff, Busy
  <2>3. \A c : Assigned(c)' = Assigned(c)
    BY <2>1 DEF Assigned, From
  <2>4. IStages' /\ SchedulerTypeOK'
    BY <2>1, SameBatch DEF IBatch, IStages, ILists, SchedulerTypeOK
  <2>5. ILists'
    BY <2>1, <2>2, <2>4, SameBatch DEF IBatch, ILists
  <2>6. IShared'
    BY <2>1, <2>2, <2>3, SameBatch DEF IBatch, IShared
  <2>7. IPool' /\ IStreams'
    BY <2>1, <2>2, SameBatch DEF IBatch, IPool, IStreams
  <2>. QED
    BY <2>4, <2>5, <2>6, <2>7 DEF IBatch
<1>2. CASE DeadlinePasses \/ \E i \in Candidate : InFlightReady(i)
  BY <1>2, OutsideStep
<1>3. CASE Enter \/ Plan \/ JoinPool \/ Return
  BY <1>3, EnterStep, PlanStep, JoinPoolStep, ReturnStep
<1>4. CASE \E c \in Caller : CallerStep(c)
  BY <1>4, EnterListStep, SeqStepStep DEF CallerStep
<1>5. CASE \E w \in Pool : WorkerStep(w)
  BY <1>5, CheckStep, TakeWorkerStep DEF WorkerStep
<1>6. CASE \E t \in Thread : CandidateStep(t)
  BY <1>6, LaunchStep, VerdictStep DEF CandidateStep
<1>. QED
  BY <1>1, <1>2, <1>3, <1>4, <1>5, <1>6 DEF SchedulerNext, Done

\* It holds always.
LEMMA AlwaysIBatch == SchedulerSpec => []IBatch
  BY InitIBatch, StepIBatch, PTL DEF SchedulerSpec

\* A thread that has a candidate is its only one, and its slot is blank.
LEMMA OwnSlots ==
  ASSUME IBatch, NEW t \in Thread, Busy(t)
  PROVE  /\ metrics[cand[t]] = "blank" /\ cand[t] \in Candidate
         /\ \A u \in Thread \ {t} : Busy(u) => cand[u] # cand[t]
         /\ stage[Main] \notin {"entry", "plan", "returned"}
<1>1. stage[t] \in Running /\ cand[t] \in Candidate
  BY DEF Busy, IBatch, ILists
<1>2. stage[Main] \notin {"entry", "plan", "returned"}
  BY <1>1, Threads DEF IBatch, IStages, Running
<1>3. Shared(Assigned(Main), Assigned(Fresh), ToSet(later), BusyThreads, cand, metrics,
             Candidate)
  BY <1>2 DEF IBatch, IShared
<1>4. t \in BusyThreads
  BY DEF BusyThreads
<1>5. metrics[cand[t]] = "blank"
  BY <1>1, <1>3, <1>4 DEF Shared
<1>6. \A u \in Thread \ {t} : Busy(u) => cand[u] # cand[t]
  BY <1>3, <1>4 DEF Shared, BusyThreads
<1>. QED
  BY <1>1, <1>2, <1>5, <1>6

\* For every batch size, pool, and deadline: no two threads write the slot of one
\* candidate, and no thread starts on a candidate that has its verdict.
THEOREM SlotsAreOwned == SchedulerSpec => []NoSlotContended
<1>1. IBatch => NoSlotContended
  BY OwnSlots DEF NoSlotContended, IBatch, ILists
<1>. QED
  BY <1>1, AlwaysIBatch, PTL

\* Under single admission a training stream of missing models runs next to candidates
\* whose models are ready, or alone.
THEOREM StreamsAreSingle == SchedulerSpec => []SingleFreshStream
<1>1. ASSUME IBatch, admission, NEW t \in Thread, NEW u \in Thread, t # u, Busy(t), Busy(u),
             observed[cand[t]] = "missing"
      PROVE  observed[cand[u]] = "ready"
  <2>1. IStages /\ IStreams
    BY <1>1 DEF IBatch
  <2>2. \A x \in Thread : Busy(x) => stage[x] # "off" /\ stage[x] # "join"
    BY DEF Busy, Running
  <2>3. CASE t = Fresh
    <3>1. u \in Pool \cup {Main} /\ stage[Fresh] # "off"
      BY <1>1, <2>2, <2>3, Threads
    <3>. QED
      BY <1>1, <2>1, <3>1 DEF IStreams
  <2>4. CASE t # Fresh
    <3>1. t \in Pool \cup {Main} /\ cand[t] \in ToSet(list[Main])
      BY <1>1, <2>1, <2>4, Threads DEF IStreams
    <3>2. CASE u = Fresh
      <4>1. observed[cand[t]] = "ready"
        BY <1>1, <2>1, <2>2, <3>1, <3>2 DEF IStreams
      <4>. QED
        BY <1>1, <4>1
    <3>3. CASE u # Fresh
      <4>1. t \in Pool \/ u \in Pool
        BY <1>1, <3>1, <3>3, Threads
      <4>2. stage[Main] = "join"
        BY <1>1, <2>1, <2>2, <4>1 DEF IStages
      <4>3. observed[cand[t]] # "missing"
        BY <1>1, <2>1, <3>1, <4>2 DEF IStreams
      <4>. QED
        BY <1>1, <4>3
    <3>. QED
      BY <3>2, <3>3
  <2>. QED
    BY <2>3, <2>4
<1>2. IBatch => SingleFreshStream
  BY <1>1 DEF SingleFreshStream
<1>. QED
  BY <1>2, AlwaysIBatch, PTL

-----------------------------------------------------------------------------
(* The call implements CandidateBatch: the steps of its promise.           *)

\* What a slot says to the caller.
Answer(slot) == CASE slot = "blank" -> "blank" [] slot = "ok" -> "metrics" [] OTHER -> "error"

\* The verdicts of the candidates of a batch.
LEMMA Verdicts ==
  /\ Verdict = [i \in Candidate |-> Answer(metrics[i])]
  /\ Verdict' = [i \in Candidate' |-> Answer(metrics'[i])]
  BY DEF Verdict, Answer

\* A step that gives one answer to some candidates that had none is a step of CandidateBatch.
LEMMA Decides ==
  ASSUME size' = size, NEW S \in SUBSET Candidate, S # {}, NEW v \in {"metrics", "error"},
         \A i \in S : metrics[i] = "blank" /\ Answer(metrics'[i]) = v,
         \A i \in Candidate \ S : metrics'[i] = metrics[i],
         stage[Main] # "returned", stage'[Main] # "returned"
  PROVE  Promise!BatchNext
<1>1. Candidate' = Candidate
  BY DEF Candidate
<1>2. DOMAIN Verdict = Candidate /\ \A i \in S : Verdict[i] = "blank"
  BY Verdicts DEF Answer
<1>3. Verdict' = [i \in DOMAIN Verdict |-> IF i \in S THEN v ELSE Verdict[i]]
  BY <1>1, <1>2, Verdicts
<1>4. Promise!Decide(S, v)
  BY <1>2, <1>3 DEF Promise!Decide, Promise!Blank
<1>. QED
  BY <1>2, <1>4 DEF Promise!BatchNext

\* One that changes no slot stutters.
LEMMA Stutters ==
  ASSUME size' = size, metrics' = metrics, stage'[Main] = "returned" <=> stage[Main] = "returned"
  PROVE  UNCHANGED <<Verdict, stage[Main] = "returned">>
<1>1. Verdict' = Verdict
  BY Verdicts DEF Candidate
<1>2. (stage[Main] = "returned")' = (stage[Main] = "returned")
  OBVIOUS
<1>. QED
  BY <1>1, <1>2

\* What is marked had no verdict: marking is one decision, or nothing.
LEMMA MarkDecides ==
  ASSUME size' = size, SchedulerTypeOK, NEW S \in SUBSET Candidate,
         \A i \in S : metrics[i] = "blank", metrics' = Marked(metrics, S),
         stage[Main] # "returned", stage'[Main] # "returned"
  PROVE  Promise!BatchNext \/ UNCHANGED <<Verdict, stage[Main] = "returned">>
<1>1. DOMAIN metrics = Candidate /\ metrics = [i \in Candidate |-> metrics[i]]
  BY DEF SchedulerTypeOK
<1>2. CASE S = {}
  <2>1. metrics' = metrics
    BY <1>1, <1>2 DEF Marked
  <2>. QED
    BY <2>1, Stutters
<1>3. CASE S # {}
  <2>1. /\ \A i \in S : metrics'[i] = "late"
        /\ \A i \in Candidate \ S : metrics'[i] = metrics[i]
    BY <1>1 DEF Marked
  <2>2. \A i \in S : Answer(metrics'[i]) = "error"
    BY <2>1 DEF Answer
  <2>. QED
    BY <1>3, <2>1, <2>2, Decides
<1>. QED
  BY <1>2, <1>3

\* A list ends: what the caller has not handed out is decided.
LEMMA ListEndsDecides ==
  ASSUME IBatch, size' = size, NEW c \in Caller, stage[c] \in {"list", "seq", "join"},
         metrics' = Marked(metrics, Assigned(c)), ListEnds(c)
  PROVE  Promise!BatchNext \/ UNCHANGED <<Verdict, stage[Main] = "returned">>
<1>1. IStages /\ SchedulerTypeOK
  BY DEF IBatch, ILists
<1>2. stage[Main] \notin {"entry", "plan", "returned"}
  BY <1>1, Threads DEF IStages, Caller
<1>3. stage'[Main] # "returned"
  BY <1>1, <1>2, Threads DEF ListEnds, Caller, SchedulerTypeOK
<1>4. Assigned(c) \in SUBSET Candidate /\ \A i \in Assigned(c) : metrics[i] = "blank"
  BY <1>2 DEF IBatch, IShared, Shared, Caller
<1>. QED
  BY <1>1, <1>2, <1>3, <1>4, MarkDecides

\* The steps of a calling thread.
LEMMA CallerDecides ==
  ASSUME IBatch, NEW c \in Caller, CallerStep(c)
  PROVE  Promise!BatchNext \/ UNCHANGED <<Verdict, stage[Main] = "returned">>
<1>1. IStages /\ ILists /\ SchedulerTypeOK /\ size' = size
  BY DEF IBatch, ILists, CallerStep, EnterList, SeqStep, batch
<1>2. stage[c] \in {"list", "seq"} /\ stage[Main] # "returned" /\ c \in Thread
  BY <1>1, Threads DEF IStages, Caller, CallerStep, EnterList, SeqStep
<1>3. /\ next[c] \in Nat /\ list[c] \in Seq(Candidate) /\ Once(list[c])
      /\ Assigned(c) = From(list[c], next[c])
  BY <1>1, <1>2, SchedulerAssumption DEF ILists, SchedulerTypeOK, Assigned
<1>4. CASE EnterList(c)
  <2>1. stage[c] = "list" /\ next[c] = 0
    BY <1>1, <1>4 DEF EnterList, ILists
  <2>2. CASE list[c] = <<>> /\ ListEnds(c) /\ UNCHANGED metrics
    <3>1. Assigned(c) = {}
      BY <1>3, <2>1, <2>2, NoList, FromList
    <3>. QED
      BY <1>1, <1>2, <2>2, <3>1, Marking, ListEndsDecides
  <2>3. CASE Mark(From(list[c], 0)) /\ ListEnds(c)
    BY <1>1, <1>2, <1>3, <2>1, <2>3, Marking, ListEndsDecides
  <2>4. CASE /\ UNCHANGED <<queues, metrics>>
             /\ stage' = IF c = Main /\ width > 1 /\ Len(list[c]) > 1
                           THEN Spawn ELSE [stage EXCEPT ![c] = "seq"]
    <3>1. stage'[Main] # "returned"
      BY <1>1, <1>2, <2>4, Threads DEF Spawn, SchedulerTypeOK
    <3>. QED
      BY <1>1, <1>2, <2>4, <3>1, Stutters
  <2>. QED
    BY <1>4, <2>2, <2>3, <2>4 DEF EnterList
<1>5. CASE SeqStep(c)
  <2>1. stage[c] = "seq"
    BY <1>5 DEF SeqStep
  <2>2. CASE next[c] = Len(list[c]) /\ ListEnds(c) /\ UNCHANGED metrics
    <3>1. Assigned(c) = {}
      BY <1>3, <2>2, FromList
    <3>. QED
      BY <1>1, <1>2, <2>2, <3>1, Marking, ListEndsDecides
  <2>3. CASE Mark(From(list[c], next[c])) /\ ListEnds(c)
    BY <1>1, <1>2, <1>3, <2>3, Marking, ListEndsDecides
  <2>4. CASE stage' = [stage EXCEPT ![c] = "guards"] /\ UNCHANGED metrics
    <3>1. stage'[Main] # "returned"
      BY <1>1, <1>2, <2>4, Threads DEF SchedulerTypeOK
    <3>. QED
      BY <1>1, <1>2, <2>4, <3>1, Stutters
  <2>. QED
    BY <1>5, <2>2, <2>3, <2>4 DEF SeqStep
<1>. QED
  BY <1>4, <1>5 DEF CallerStep

\* A verdict on one candidate.
LEMMA DeliverDecides ==
  ASSUME IBatch, size' = size, NEW t \in Thread, Busy(t), NEW v \in Slot \ {"blank"},
         Deliver(t, v)
  PROVE  Promise!BatchNext
<1>1. /\ metrics[cand[t]] = "blank" /\ cand[t] \in Candidate /\ stage[Main] # "returned"
      /\ metrics' = [metrics EXCEPT ![cand[t]] = v]
      /\ stage' = [stage EXCEPT ![t] = IF t \in Pool THEN "check" ELSE "seq"]
      /\ SchedulerTypeOK
  BY OwnSlots DEF Deliver, IBatch, ILists
<1>2. stage'[Main] # "returned"
  BY <1>1, Threads DEF SchedulerTypeOK
<1>3. metrics'[cand[t]] = v /\ \A i \in Candidate \ {cand[t]} : metrics'[i] = metrics[i]
  BY <1>1 DEF SchedulerTypeOK
<1>4. Answer(v) \in {"metrics", "error"}
  BY DEF Answer
<1>5. PICK S \in SUBSET Candidate : S = {cand[t]}
  BY <1>1
<1>6. /\ S # {} /\ \A i \in S : metrics[i] = "blank" /\ Answer(metrics'[i]) = Answer(v)
      /\ \A i \in Candidate \ S : metrics'[i] = metrics[i]
  BY <1>1, <1>3, <1>5
<1>. QED
  BY <1>1, <1>2, <1>4, <1>6, Decides

\* The call returns when every candidate has its verdict.
LEMMA ReturnDecides == ASSUME IBatch, Return PROVE Promise!BatchNext
<1>1. /\ stage[Main] = "await" /\ stage[Fresh] \in {"off", "returned"} /\ later = <<>>
      /\ \A w \in Pool : stage[w] = "off"
      /\ size' = size /\ metrics' = metrics /\ SchedulerTypeOK
      /\ stage' = [stage EXCEPT ![Main] = "returned"]
  BY DEF Return, IBatch, IStages, ILists, batch
<1>2. Assigned(Main) = {} /\ Assigned(Fresh) = {} /\ ToSet(later) = {}
  BY <1>1, NoList DEF Assigned, Running
<1>3. BusyThreads = {}
  BY <1>1, Threads DEF BusyThreads, Busy, Running
<1>4. Shared({}, {}, {}, {}, cand, metrics, Candidate)
  BY <1>1, <1>2, <1>3 DEF IBatch, IShared
<1>5. \A i \in Candidate : metrics[i] # "blank"
  BY <1>4 DEF Shared
<1>6. DOMAIN Verdict = Candidate /\ \A i \in Candidate : Verdict[i] # "blank"
  BY <1>5, Verdicts DEF Answer
<1>7. Verdict' = Verdict
  BY <1>1, Verdicts DEF Candidate
<1>8. stage'[Main] = "returned"
  BY <1>1, Threads DEF SchedulerTypeOK
<1>9. Promise!Return
  BY <1>1, <1>6, <1>7, <1>8 DEF Promise!Return, Promise!Blank
<1>. QED
  BY <1>9 DEF Promise!BatchNext

\* Every step of the call is one of CandidateBatch, or changes nothing of it.
LEMMA StepDecides ==
  ASSUME IBatch, [SchedulerNext]_schedulerVars
  PROVE  [Promise!BatchNext]_<<Verdict, stage[Main] = "returned">>
<1>1. SchedulerTypeOK /\ IStages
  BY DEF IBatch, ILists
<1>2. CASE UNCHANGED schedulerVars
  <2>1. size' = size /\ metrics' = metrics /\ stage' = stage
    BY <1>2 DEF schedulerVars, batch, threads
  <2>. QED
    BY <2>1, Stutters
<1>3. CASE DeadlinePasses \/ \E i \in Candidate : InFlightReady(i)
  <2>1. size' = size /\ metrics' = metrics /\ stage' = stage
    BY <1>3 DEF DeadlinePasses, InFlightReady, batch, threads
  <2>. QED
    BY <2>1, Stutters
<1>4. CASE Enter
  <2>1. size' = size /\ stage[Main] = "entry"
    BY <1>4 DEF Enter, batch
  <2>2. stage'[Main] # "returned"
    BY <1>1, <1>4, Threads DEF Enter, SchedulerTypeOK
  <2>3. \A i \in Candidate : metrics[i] = "blank"
    BY <1>1, <2>1 DEF IStages
  <2>4. CASE deadline_passed
    BY <1>1, <1>4, <2>1, <2>2, <2>3, <2>4, Marking, MarkDecides DEF Enter
  <2>5. CASE ~deadline_passed
    BY <1>4, <2>1, <2>2, <2>5, Stutters DEF Enter
  <2>. QED
    BY <2>4, <2>5
<1>5. CASE Plan
  <2>1. size' = size /\ metrics' = metrics /\ stage[Main] = "plan"
    BY <1>5 DEF Plan
  <2>2. stage'[Main] # "returned"
    BY <1>5, PlanLists DEF Planned
  <2>. QED
    BY <2>1, <2>2, Stutters
<1>6. CASE JoinPool
  <2>1. /\ stage[Main] = "join" /\ size' = size /\ ListEnds(Main)
        /\ next[Main] \in Nat /\ list[Main] \in Seq(Candidate) /\ Once(list[Main])
    BY <1>1, <1>6, Threads, SchedulerAssumption
    DEF JoinPool, batch, IBatch, ILists, SchedulerTypeOK
  <2>2. metrics' = Marked(metrics, Assigned(Main))
    BY <1>6, JoinPoolMarks
  <2>. QED
    BY <2>1, <2>2, Threads, ListEndsDecides
<1>7. CASE Return
  BY <1>7, ReturnDecides
<1>8. CASE \E c \in Caller : CallerStep(c)
  BY <1>8, CallerDecides
<1>9. CASE \E w \in Pool : WorkerStep(w)
  <2>1. size' = size /\ metrics' = metrics
    BY <1>9 DEF WorkerStep, Check, Take, batch
  <2>2. stage'[Main] = stage[Main]
    BY <1>1, <1>9, Threads DEF WorkerStep, Check, Take, SchedulerTypeOK
  <2>. QED
    BY <2>1, <2>2, Stutters
<1>10. ASSUME NEW t \in Thread, CandidateStep(t)
       PROVE  Promise!BatchNext \/ UNCHANGED <<Verdict, stage[Main] = "returned">>
  <2>1. Busy(t) /\ size' = size
    BY <1>10 DEF CandidateStep, Refuse, Launch, EvaluateCandidate, Busy, Running, batch
  <2>2. CASE Refuse(t) \/ EvaluateCandidate(t)
    <3>1. \E v \in Slot \ {"blank"} : Deliver(t, v)
      BY <2>2 DEF Refuse, EvaluateCandidate, Slot
    <3>. QED
      BY <2>1, <3>1, DeliverDecides
  <2>3. CASE Launch(t)
    <3>1. metrics' = metrics /\ stage[Main] # "returned"
      BY <2>1, <2>3, OwnSlots DEF Launch
    <3>2. stage'[Main] # "returned"
      BY <1>1, <2>3, <3>1, Threads DEF Launch, SchedulerTypeOK
    <3>. QED
      BY <2>1, <3>1, <3>2, Stutters
  <2>. QED
    BY <1>10, <2>2, <2>3 DEF CandidateStep
<1>. QED
  BY <1>2, <1>3, <1>4, <1>5, <1>6, <1>7, <1>8, <1>9, <1>10 DEF SchedulerNext, Done

\* The safety part of BatchImplemented: for every batch and pool, evaluate_candidates gives
\* each candidate one verdict, which no thread replaces, and returns when all are given.
THEOREM BatchKeepsItsPromise ==
  SchedulerSpec =>
    Promise!BatchInit /\ [][Promise!BatchNext]_<<Verdict, stage[Main] = "returned">>
<1>1. SchedulerInit => Promise!BatchInit
  <2>. SUFFICES ASSUME SchedulerInit PROVE Promise!BatchInit
    OBVIOUS
  <2>1. Verdict = [i \in Candidate |-> "blank"] /\ (stage[Main] = "returned") = FALSE
    BY Threads DEF SchedulerInit, Verdict
  <2>2. Candidate \in SUBSET (1 .. MaxBatch)
    BY SchedulerAssumption DEF SchedulerInit, Candidate
  <2>. QED
    BY <2>1, <2>2 DEF Promise!BatchInit, Promise!Blank
<1>2. IBatch /\ [SchedulerNext]_schedulerVars
        => [Promise!BatchNext]_<<Verdict, stage[Main] = "returned">>
  BY StepDecides
<1>. QED
  BY <1>1, <1>2, AlwaysIBatch, PTL DEF SchedulerSpec

=============================================================================
