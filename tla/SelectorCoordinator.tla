------------------------ MODULE SelectorCoordinator ------------------------
(***************************************************************************)
(* select_vortex_models: the single thread that spends the budget of model *)
(* trainings and the search time on skeleton contexts, one after another,  *)
(* and then on exploitation and calibration of what it found.              *)
(*                                                                         *)
(* A call of evaluate_candidates is one step here: it may train as many    *)
(* models as the limits of TrainCache leave, and it may find the deadline  *)
(* passed.  Scores are small numbers, None when no candidate succeeded.    *)
(***************************************************************************)
EXTENDS Integers, Sequences

CONSTANTS
  Budgets,        \* values of max_model_trains; 0 is no limit
  Reserves,       \* values of post_exploration_candidate_count
  MaxContexts,    \* the most skeleton contexts
  MinimumUseful,  \* max(8, 3 phase1_keep), trainings a context can use well
  Candidates,     \* how many candidates of a kind a phase proposes
  Quality,        \* scores of an evaluated candidate
  LowPotential,   \* a context this much below the best is not promoted
  Stagnation,     \* effective_max_stagnant_contexts; 0 is no limit
  Rounds,         \* beam_rounds and max_recall_refine_rounds
  HasDeadline

ASSUME CoordinatorAssumption ==
  /\ Budgets \subseteq Nat
  /\ Reserves \subseteq Nat
  /\ MaxContexts \in Nat \ {0}
  /\ MinimumUseful \in Nat \ {0}
  /\ Candidates \subseteq Nat
  /\ Quality \subseteq Nat
  /\ LowPotential \in Nat
  /\ Stagnation \in Nat
  /\ Rounds \in Nat
  /\ HasDeadline \in BOOLEAN

VARIABLES
  max,        \* max_model_trains
  reserve,    \* post_exploration_candidate_count
  options,    \* recall_target given?  optimize_for_recall?
  contexts,   \* context_plan.indices.size()
  probes,     \* probe contexts still to evaluate while the plan is made
  offset,     \* context_offset
  started,    \* model_trains_started
  opening,    \* model_trains_started when the context search began (history)
  ctx,        \* the context's training budget, start and limit, and the flag
              \* stats_recorded of finish_context_stats
  rounds,      \* rounds of the beam, or of the recall refinement, so far
  hits,       \* flags the result reports: time_budget_hit, guard for
              \* remaining_time_guard_hit and final_calibration_reserve_hit
              \* (told apart only in the report), model_train_budget_hit
  expired,    \* the deadline has passed
  best,       \* best_quality_so_far, recall_target_met_so_far
  stagnant,   \* stagnant_contexts
  found,      \* what the context in hand has found
  valid,      \* which metric lists hold a valid candidate
  recorded,   \* context_stats.size()
  evaluated,  \* evaluated_contexts
  reason,     \* stopped_reason
  pc

setup  == <<max, reserve, options>>
clock  == <<expired, hits>>
loop   == <<contexts, probes, offset, opening>>
search == <<best, stagnant, evaluated>>
vars   == <<setup, clock, loop, search, started, ctx, rounds, found, valid,
            recorded, reason, pc>>

None == -1
Score == Quality \cup {None}

Least(a, b)    == IF a <= b THEN a ELSE b
Greatest(a, b) == IF a >= b THEN a ELSE b

Stage == {"probe", "loop", "phase1", "promote", "beam", "phase2", "refine",
          "judge", "finish", "post", "screen", "calibrate", "rank", "done", "failed"}
InContext == {"phase1", "promote", "beam", "phase2", "refine", "judge", "finish"}

Reason == {"completed_all_contexts", "time_budget", "quality_plateau",
           "recall_target_quality_plateau", "remaining_time_guard",
           "model_train_budget"}

Decision == {"no_valid_phase1", "skipped_low_potential", "phase2_no_candidates",
             "phase2_budget_exhausted", "promoted_phase2",
             "promoted_phase2_then_plateau_stop"}

TypeOK ==
  /\ max \in Budgets
  /\ reserve \in Reserves
  /\ options \in [target : BOOLEAN, recall : BOOLEAN]
  /\ contexts \in 1 .. MaxContexts
  /\ probes \in Nat
  /\ offset \in 0 .. contexts
  /\ started \in Nat
  /\ opening \in Nat
  /\ ctx \in [start : Nat, limit : Nat, stats_recorded : BOOLEAN]
  /\ rounds \in 0 .. Rounds
  /\ hits \in [time : BOOLEAN, guard : BOOLEAN, trains : BOOLEAN]
  /\ expired \in BOOLEAN
  /\ best \in [quality : Score, met : BOOLEAN]
  /\ stagnant \in 0 .. contexts
  /\ found \in [phase1 : Score, phase2 : Score, met : BOOLEAN,
                decision : Decision \cup {"none"}]
  /\ valid \in [phase1 : BOOLEAN, phase2 : BOOLEAN, post : BOOLEAN,
                calibration : BOOLEAN]
  /\ recorded \in 0 .. contexts
  /\ evaluated \in 0 .. contexts
  /\ reason \in Reason
  /\ pc \in Stage

Nothing == [phase1 |-> None, phase2 |-> None, met |-> FALSE, decision |-> "none"]

\* resolve_context_limit keeps some of all contexts; if it drops any, about
\* twice as many as it keeps are probed.
Probes(all, keep) ==
  IF keep = all THEN 0 ELSE Least(all, Greatest(2 * keep, keep + 2))

Init ==
  /\ max \in Budgets
  /\ reserve \in Reserves
  /\ options \in [target : BOOLEAN, recall : BOOLEAN]
  /\ \E all \in 1 .. MaxContexts : \E keep \in 1 .. all :
       /\ contexts = keep
       /\ probes = Probes(all, keep)
  /\ offset = 0
  /\ started = 0
  /\ opening = 0
  /\ ctx = [start |-> 0, limit |-> 0, stats_recorded |-> TRUE]
  /\ rounds = 0
  /\ hits = [time |-> FALSE, guard |-> FALSE, trains |-> FALSE]
  /\ expired = FALSE
  /\ best = [quality |-> None, met |-> FALSE]
  /\ stagnant = 0
  /\ found = Nothing
  /\ valid = [phase1 |-> FALSE, phase2 |-> FALSE, post |-> FALSE,
              calibration |-> FALSE]
  /\ recorded = 0
  /\ evaluated = 0
  /\ reason = "completed_all_contexts"
  /\ pc = "probe"

-----------------------------------------------------------------------------
(* Evaluating candidates, under the limits of the module TrainCache.       *)

\* Mutant: context_started is not subtracted from the context's limit.
ContextLeftWhole == ctx.limit

GlobalLeft  == IF max = 0 THEN 0 ELSE Greatest(max - started, 0)
ContextLeft == Greatest(ctx.limit - (started - ctx.start), 0)

\* May n more trainings start?
Allows(n) ==
  /\ max = 0 \/ n <= GlobalLeft
  /\ ctx.limit = 0 \/ n <= ContextLeft

\* fit_candidates_to_remaining_train_budget keeps cached candidates and as
\* many of the missing ones as may be trained; n of these are kept.
Fits(missing, n) ==
  /\ n <= missing
  /\ Allows(n)
  /\ n = missing \/ ~Allows(n + 1)

\* Does a fit that keeps n of the missing candidates hit the global limit?
Pruned(missing, n) ==
  n < missing /\ max > 0 /\ (ctx.limit = 0 \/ GlobalLeft <= ContextLeft)

\* evaluate_candidates trains at most n models.  If the deadline has passed it
\* does nothing; it may pass meanwhile, the guards may refuse candidates, and
\* trainings beyond the limits are refused.  (A refusal by the global limit
\* sets model_train_budget_hit, which TrainBudgetHit then implies anyway.)
Evaluate(n, hit) ==
  /\ IF expired
       THEN UNCHANGED started
       ELSE \E t \in 0 .. n : Allows(t) /\ started' = started + t
  /\ expired' \in {expired, HasDeadline}
  /\ \E time, guard \in BOOLEAN :
       /\ expired => time
       /\ time => expired'
       /\ guard => HasDeadline
       /\ hits' = [time   |-> hits.time \/ time,
                   guard  |-> hits.guard \/ guard,
                   trains |-> hits.trains \/ hit]

\* What a call may report: a score if it evaluated anything.
Reports(count) == IF expired \/ count = 0 THEN {None} ELSE Score

\* can_launch_more_work() as a check of its own.
LookAtClock == hits' = IF expired THEN [hits EXCEPT !.time = TRUE] ELSE hits

\* A score may meet the recall target, if one is given.
Meets(q) == IF options.target /\ q # None THEN {found.met, TRUE} ELSE {found.met}

\* A score puts a valid candidate into one of the metric lists.
Gain(round, q) ==
  valid' = IF q = None THEN valid ELSE [valid EXCEPT ![round] = TRUE]

-----------------------------------------------------------------------------
(* The context plan and the budget of a context.                           *)

\* A probe trains at most one model; probing ends early at the deadline.
Probe ==
  /\ pc = "probe"
  /\ probes > 0
  /\ IF expired
       THEN /\ LookAtClock
            /\ probes' = 0
            /\ UNCHANGED <<started, expired>>
       ELSE /\ Evaluate(1, FALSE)
            /\ probes' = probes - 1
  /\ UNCHANGED <<setup, contexts, offset, opening, search, ctx, rounds, found, valid,
                 recorded, reason, pc>>

StartLoop ==
  /\ pc = "probe"
  /\ probes = 0
  /\ opening' = started
  /\ pc' = "loop"
  /\ UNCHANGED <<setup, clock, contexts, probes, offset, search, started, ctx,
                 rounds, found, valid, recorded, reason>>

\* fair_context_train_budget
FairBudget ==
  LET left      == max - started
      others    == contexts - offset
      remaining == IF reserve > 0 /\ left > reserve + others
                     THEN left - reserve ELSE left
      share     == Greatest(1, (remaining + others - 1) \div others)
      useful    == Least(remaining, MinimumUseful)
      budget    == IF remaining \div others >= useful THEN useful ELSE share
      most      == IF remaining > others - 1 THEN remaining - (others - 1) ELSE 1
  IN IF max = 0 \/ started >= max THEN 0
     ELSE IF others <= 1 THEN remaining
     ELSE Least(budget, most)

\* adapt_context_train_budget_for_deadline lowers a budget to the trainings
\* that fit into the time left, but not below one.
Adapted(budget) ==
  IF budget = 0 \/ ~HasDeadline THEN {budget} ELSE 1 .. budget

LeaveLoop ==
  /\ pc = "loop"
  /\ offset = contexts \/ expired
  /\ IF offset < contexts
       THEN LookAtClock /\ reason' = "time_budget"
       ELSE UNCHANGED <<hits, reason>>
  /\ pc' = "post"
  /\ UNCHANGED <<setup, expired, loop, search, started, ctx, rounds, found, valid,
                 recorded>>

\* Mutant: the loop bound is off by one.
BeginContextPast ==
  /\ pc = "loop"
  /\ offset <= contexts
  /\ ~expired
  /\ evaluated' = evaluated + 1
  /\ ctx' = [start |-> started, limit |-> IF offset = contexts THEN 1 ELSE FairBudget,
             stats_recorded |-> FALSE]
  /\ found' = Nothing
  /\ pc' = "phase1"
  /\ UNCHANGED <<setup, clock, loop, best, stagnant, started, rounds, valid, recorded,
                 reason>>

BeginContext ==
  /\ pc = "loop"
  /\ offset < contexts
  /\ ~expired
  /\ evaluated' = evaluated + 1
  /\ \E limit \in Adapted(FairBudget) :
       ctx' = [start |-> started, limit |-> limit, stats_recorded |-> FALSE]
  /\ found' = Nothing
  /\ pc' = "phase1"
  /\ UNCHANGED <<setup, clock, loop, best, stagnant, started, rounds, valid, recorded,
                 reason>>

-----------------------------------------------------------------------------
(* One context.  A phase that ends it sets the promotion decision; every   *)
(* way out of the loop's body is an action of its own, below.              *)

Leave(decision) ==
  /\ pc' = "finish"
  /\ found' = [found EXCEPT !.decision = decision]

\* The missing candidates kept by the fit are evaluated.
FitAndEvaluate(missing, n) ==
  /\ Fits(missing, n)
  /\ Evaluate(n, Pruned(missing, n))

\* After phase 1 nothing is evaluated if the fit has kept nothing.
FitAndEvaluateAny(cached, missing, n) ==
  IF cached + n > 0
    THEN FitAndEvaluate(missing, n)
    ELSE /\ Fits(missing, n)
         /\ hits' = [hits EXCEPT !.trains = @ \/ Pruned(missing, n)]
         /\ UNCHANGED <<started, expired>>

Phase1 ==
  /\ pc = "phase1"
  /\ \E cached, missing \in Candidates : \E n \in 0 .. missing :
       /\ FitAndEvaluate(missing, n)
       /\ \E q \in Reports(cached + n) :
            /\ Gain("phase1", q)
            /\ IF q = None
                 THEN Leave("no_valid_phase1")
                 ELSE /\ \E met \in Meets(q) :
                           found' = [found EXCEPT !.phase1 = q, !.met = met]
                      /\ pc' = "promote"
  /\ UNCHANGED <<setup, loop, search, ctx, rounds, recorded, reason>>

\* Once the recall target is met, a context well below the best is left.
Promote ==
  /\ pc = "promote"
  /\ IF best.met /\ best.quality # None
          /\ best.quality - found.phase1 > LowPotential
       THEN Leave("skipped_low_potential")
       ELSE pc' = "beam" /\ UNCHANGED found
  /\ UNCHANGED <<setup, clock, loop, search, started, ctx, rounds, valid, recorded,
                 reason>>

\* A round of search_phase2_candidates_hybrid fits the neighbours of the beam
\* to the budget and evaluates them.  A fit that keeps nothing is the last.
Beam ==
  /\ pc = "beam"
  /\ rounds < Rounds
  /\ ~expired
  /\ \E cached, missing \in Candidates : \E n \in 0 .. missing :
       /\ cached + missing > 0
       /\ FitAndEvaluateAny(cached, missing, n)
       /\ rounds' = IF cached + n = 0 THEN Rounds ELSE rounds + 1
  /\ UNCHANGED <<setup, loop, search, ctx, found, valid, recorded, reason, pc>>

\* The rounds end, for the deadline or for want of anything better; the
\* search may come back with no candidates.
BeamEnds ==
  /\ pc = "beam"
  /\ \/ rounds < Rounds /\ LookAtClock
     \/ UNCHANGED hits
  /\ rounds' = 0
  /\ \/ Leave("phase2_no_candidates")
     \/ pc' = "phase2" /\ UNCHANGED found
  /\ UNCHANGED <<setup, expired, loop, search, started, ctx, valid, recorded,
                 reason>>

Phase2 ==
  /\ pc = "phase2"
  /\ \E cached, missing \in Candidates : \E n \in 0 .. missing :
       /\ cached + missing > 0
       /\ FitAndEvaluateAny(cached, missing, n)
       /\ IF cached + n = 0
            THEN Leave("phase2_budget_exhausted") /\ UNCHANGED valid
            ELSE \E q \in Reports(cached + n) :
                   /\ \E met \in Meets(q) :
                        found' = [found EXCEPT !.phase2 = q, !.met = met]
                   /\ Gain("phase2", q)
                   /\ pc' = IF options.recall /\ q # None THEN "refine" ELSE "judge"
  /\ UNCHANGED <<setup, loop, search, ctx, rounds, recorded, reason>>

\* A round of refine_phase2_for_recall, fitted as a round of the beam.
Refine ==
  /\ pc = "refine"
  /\ rounds < Rounds
  /\ ~expired
  /\ \E cached, missing \in Candidates : \E n \in 0 .. missing :
       /\ cached + missing > 0
       /\ FitAndEvaluateAny(cached, missing, n)
       /\ rounds' = IF cached + n = 0 THEN Rounds ELSE rounds + 1
       /\ \E q \in Reports(cached + n) : \E met \in Meets(q) :
            found' = [found EXCEPT !.phase2 = Greatest(@, q), !.met = met]
  /\ UNCHANGED <<setup, loop, search, ctx, valid, recorded, reason, pc>>

\* The clock is looked at before the refinement, and before each round.
RefineEnds ==
  /\ pc = "refine"
  /\ \/ LookAtClock
     \/ rounds > 0 /\ UNCHANGED hits
  /\ rounds' = 0
  /\ pc' = "judge"
  /\ UNCHANGED <<setup, expired, loop, search, started, ctx, found, valid, recorded,
                 reason>>

\* A context that improves nothing is stagnant; enough of them in a row end
\* the search, with a recall target only after it is met.
Judge ==
  LET q   == Greatest(found.phase1, found.phase2)
      met == best.met \/ found.met
  IN /\ pc = "judge"
     /\ best' = [quality |-> Greatest(best.quality, q), met |-> met]
     /\ stagnant' = IF q > best.quality THEN 0 ELSE stagnant + 1
     /\ IF Stagnation > 0 /\ stagnant' >= Stagnation /\ (options.target => met)
          THEN Leave("promoted_phase2_then_plateau_stop")
          ELSE Leave("promoted_phase2")
     /\ UNCHANGED <<setup, clock, loop, evaluated, started, ctx, rounds, valid,
                    recorded, reason>>

-----------------------------------------------------------------------------
(* The ways out of a context.  Each calls finish_context_stats itself, and *)
(* then goes on to the next context or ends the search.  The eighth exit   *)
(* of the source, no_phase1_promotion, cannot be taken: the list it finds  *)
(* empty holds every metric for which has_valid_metrics was true.          *)

FinishContextStats ==
  IF ctx.stats_recorded
    THEN UNCHANGED <<recorded, ctx>>
    ELSE /\ recorded' = recorded + 1
         /\ ctx' = [ctx EXCEPT !.limit = 0, !.stats_recorded = TRUE]

\* What an exit does besides: it is at the decision, and leaves the context.
Exit(decision) ==
  /\ pc = "finish"
  /\ found.decision = decision
  /\ found' = Nothing
  /\ UNCHANGED <<setup, clock, contexts, probes, opening, search, started, rounds,
                 valid>>

Continue ==
  /\ offset' = offset + 1
  /\ pc' = "loop"
  /\ UNCHANGED reason

Break(why) ==
  /\ reason' = why
  /\ pc' = "post"
  /\ UNCHANGED offset

BreakOnTime == IF hits.time THEN Break("time_budget") ELSE Continue

NoValidPhase1 ==
  Exit("no_valid_phase1") /\ FinishContextStats /\ BreakOnTime

\* The only exit in mid-context that does not look at time_budget_hit.
SkippedLowPotential ==
  Exit("skipped_low_potential") /\ FinishContextStats /\ Continue

Phase2NoCandidates ==
  Exit("phase2_no_candidates") /\ FinishContextStats /\ BreakOnTime

\* Mutant: an exit without finish_context_stats.
Phase2BudgetUnrecorded ==
  Exit("phase2_budget_exhausted") /\ BreakOnTime /\ UNCHANGED <<recorded, ctx>>

Phase2BudgetExhausted ==
  Exit("phase2_budget_exhausted") /\ FinishContextStats /\ BreakOnTime

QualityPlateau ==
  /\ Exit("promoted_phase2_then_plateau_stop")
  /\ FinishContextStats
  /\ Break(IF options.target THEN "recall_target_quality_plateau"
                             ELSE "quality_plateau")

TimeBudgetBreak ==
  /\ Exit("promoted_phase2")
  /\ hits.time
  /\ FinishContextStats
  /\ Break("time_budget")

ContextDone ==
  /\ Exit("promoted_phase2")
  /\ ~hits.time
  /\ FinishContextStats
  /\ Continue

LeaveContext ==
  \/ NoValidPhase1 \/ SkippedLowPotential \/ Phase2NoCandidates
  \/ Phase2BudgetExhausted \/ QualityPlateau \/ TimeBudgetBreak \/ ContextDone

-----------------------------------------------------------------------------
(* After the context search.                                               *)

Found == valid.phase1 \/ valid.phase2

\* run_post_exploration: the reserve, cut to what the budget has left.
PostExplore ==
  LET limit == IF max = 0 THEN reserve ELSE Least(reserve, GlobalLeft)
  IN /\ pc = "post"
     /\ IF limit > 0 /\ Found
          THEN /\ Evaluate(limit, FALSE)
               /\ \E q \in Reports(limit) : Gain("post", q)
          ELSE UNCHANGED <<started, clock, valid>>
     /\ \/ pc' = "rank"
        \/ pc' = "screen" /\ Found
     /\ UNCHANGED <<setup, loop, search, ctx, rounds, found, recorded, reason>>

\* More seeds than full calibrations are screened first, if there is time.
Screen ==
  /\ pc = "screen"
  /\ \/ UNCHANGED <<clock, started>>
     \/ \E n \in Candidates : Evaluate(n, FALSE)
  /\ pc' = "calibrate"
  /\ UNCHANGED <<setup, loop, search, ctx, rounds, found, valid, recorded, reason>>

Calibrate ==
  /\ pc = "calibrate"
  /\ \E n \in Candidates :
       /\ Evaluate(n, FALSE)
       /\ \E q \in Reports(1) : Gain("calibration", q)
  /\ pc' = "rank"
  /\ UNCHANGED <<setup, loop, search, ctx, rounds, found, recorded, reason>>

TrainBudgetHit == hits.trains \/ (max > 0 /\ started >= max)

\* Mutant: the reason keeps what the loop set unless the deadline passed.
RankLoopReason ==
  /\ pc = "rank"
  /\ pc' = IF \E round \in DOMAIN valid : valid[round] THEN "done" ELSE "failed"
  /\ reason' = IF pc' = "done" /\ hits.time THEN "time_budget" ELSE reason
  /\ UNCHANGED <<setup, clock, loop, search, started, ctx, rounds, found, valid,
                 recorded>>

\* The result is ranked on the calibrated metrics, else on those of phase 2
\* and the exploitation, else on those of phase 1; with none of these
\* select_vortex_models throws.
Rank ==
  /\ pc = "rank"
  /\ pc' = IF \E round \in DOMAIN valid : valid[round] THEN "done" ELSE "failed"
  /\ reason' = IF pc' = "failed" THEN reason
               ELSE IF hits.time THEN "time_budget"
               ELSE IF hits.guard THEN "remaining_time_guard"
               ELSE IF TrainBudgetHit /\ evaluated < contexts
                 THEN "model_train_budget" ELSE reason
  /\ UNCHANGED <<setup, clock, loop, search, started, ctx, rounds, found, valid,
                 recorded>>

Returned == pc \in {"done", "failed"} /\ UNCHANGED vars

Next ==
  \/ Probe \/ StartLoop \/ LeaveLoop \/ BeginContext
  \/ Phase1 \/ Promote \/ Beam \/ BeamEnds \/ Phase2 \/ Refine \/ RefineEnds
  \/ Judge \/ LeaveContext
  \/ PostExplore \/ Screen \/ Calibrate \/ Rank
  \/ Returned

Spec == Init /\ [][Next]_vars

-----------------------------------------------------------------------------
(* Properties.                                                             *)

\* fair_context_train_budget never lets a context take what later ones need:
\* if the trainings left when the context search starts allow one for every
\* context, then each context still to come finds one for itself and for
\* each context after it.
LaterContextsKeepASlot ==
  pc = "loop" /\ max > 0 /\ max - opening >= contexts
    => max - started >= contexts - offset

\* Whichever of its exits a context leaves by, its statistics are recorded
\* once and its limit is lifted, so that the list of statistics lines up with
\* the contexts and later trainings are charged to the global limit alone.
ContextsAreClosed ==
  /\ recorded = IF pc \in InContext THEN evaluated - 1 ELSE evaluated
  /\ pc \notin InContext => ctx.limit = 0

\* The reported stopped_reason agrees with what happened, whatever the exits
\* on the way set: the search is called complete only if every planned
\* context was searched and no limit of time cut work short, it is a plateau
\* only if it was one, and time_budget is reported exactly when it was hit.
ReasonIsHonest ==
  pc = "done" =>
    /\ reason = "completed_all_contexts"
         => evaluated = contexts /\ ~hits.time /\ ~hits.guard
    /\ reason \in {"quality_plateau", "recall_target_quality_plateau"}
         => /\ stagnant >= Stagnation /\ Stagnation > 0
            /\ options.target => best.met
    /\ reason = "model_train_budget" => max > 0 /\ evaluated < contexts
    /\ reason = "time_budget" <=> hits.time
=============================================================================
