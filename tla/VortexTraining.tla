--------------------------- MODULE VortexTraining --------------------------
(***************************************************************************)
(* train_vortex_from_training_base: the centroids are ordered, unless an   *)
(* order was handed over, and the ranges are allocated in that order.      *)
(***************************************************************************)
EXTENDS RangeAllocation, CentroidOrder

CONSTANTS
  MaxGiven,     \* centroids of a training whose order is handed over
  Trainings     \* trainings that compute theirs: points, mass, space, options

ASSUME TrainingAssumption ==
  /\ MaxGiven \in 1 .. MaxCentroids
  /\ \A t \in Trainings : \E n \in 1 .. MaxCentroids :
       /\ t.points \in [0 .. n - 1 -> Int \X Int]
       /\ t.options \in [knn : Nat, iterations : Nat, graph : BOOLEAN]

trainingVars == <<vars, orderVars>>

\* An order handed over may be anything; one to be computed is not there yet.
TrainingInit ==
  \/ /\ k \in 1 .. MaxGiven
     /\ Init
     /\ step = "precomputed"
     /\ OrderInit([c \in {0} |-> <<0, 0>>],
                  [knn |-> 1, iterations |-> 0, graph |-> FALSE])
  \/ \E t \in Trainings :
       /\ step = IF t.options.graph THEN "graph" ELSE "knn"
       /\ OrderInit(t.points, t.options)
       /\ k = Cardinality(DOMAIN t.points)
       /\ mass = t.mass
       /\ space = t.space
       /\ order = [c \in Centroid |-> k]
       /\ Init

Compute ==
  /\ OrderNext
  /\ UNCHANGED vars

\* An order of another size than K is refused ("Centroid ordering failed").
UseOrder ==
  /\ step = "ordered"
  /\ step' = "used"
  /\ order' = [c \in Centroid |-> IF c < Len(cycle) THEN cycle[c + 1] ELSE k]
  /\ pc' = IF Len(cycle) = k THEN pc ELSE "failed"
  /\ UNCHANGED <<k, mass, space, i, total, remainders, sum_remainders, given,
                 range_size, range_start, range_full, cursor>>
  /\ UNCHANGED <<points, options, rows, at, edges, in_mst, mst, stack, cycle>>

Allocate ==
  /\ step \in {"used", "precomputed"}
  /\ Next
  /\ UNCHANGED orderVars

TrainingNext == Compute \/ UseOrder \/ Allocate

TrainingSpec == TrainingInit /\ [][TrainingNext]_trainingVars

-----------------------------------------------------------------------------
(* Properties.                                                             *)

\* compute_centroid_order returns every centroid exactly once, also those that no
\* edge of the graph of near centroids leads to, whatever 2-opt turns around and
\* wherever the walk is cut. That order is the one allocate_ranges gets, and it is
\* not turned away for it: only for masses that are all 0 or sum to too much.
OrderCoversCentroids ==
  /\ OrderTypeOK
  /\ step \in {"ordered", "used"} =>
       /\ Len(cycle) = k
       /\ \A c \in Centroid :
            \E p \in 1 .. k : \A q \in 1 .. k : cycle[q] = c <=> q = p
  /\ step = "used" =>
       /\ \A p \in Centroid : order[p] = cycle[p + 1]
       /\ pc # "failed"
       /\ pc = "rejected" => total > MaxTotal \/ \A c \in Centroid : mass[c] = 0

Length(walk) ==
  SumFunction([p \in DOMAIN walk |-> Cost(walk[p], walk[(p % Len(walk)) + 1])])

\* Every exchange of two_opt_refine_cycle shortens the closed walk, though it
\* turns a part of it around and the costs come from rows that are cut and
\* scaled apart; when iterations are left, none that would shorten it is
\* missed; and cut_cycle_order leaves out a longest edge of it.
OrderImproves ==
  [][ /\ step = "refine" /\ cycle' # cycle => Length(cycle') < Length(cycle)
      /\ step = "refine" /\ step' = "cut" /\ at < options.iterations =>
           \A p, q \in DOMAIN cycle : p < q =>
             Length(cycle) <=
               Length([n \in DOMAIN cycle |->
                         IF n \in p .. q THEN cycle[p + q - n] ELSE cycle[n]])
      /\ step = "cut" =>
           \A p \in 1 .. Len(cycle) - 1 :
             Cost(cycle'[p], cycle'[p + 1]) <= Cost(cycle'[Len(cycle)], cycle'[1])
    ]_trainingVars
=============================================================================
