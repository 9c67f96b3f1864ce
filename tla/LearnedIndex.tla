---------------------------- MODULE LearnedIndex ----------------------------
(***************************************************************************)
(* train, train_multi_layer and train_bounded of rm_model.  Upper layers   *)
(* route keys to leaf models, each leaf is trained on the rows routed to   *)
(* it and gets an error bound, and a user of the model searches for the    *)
(* lower bound of a key within the leaf's error of its prediction.         *)
(*                                                                         *)
(* Two layers cut the rows into consecutive pieces, in two halves by two   *)
(* threads when the split allows it, and replace empty leaves.  More       *)
(* layers put each row into the bucket it is routed to.  train_bounded     *)
(* trains on the points of a cache-line spline instead of the rows.        *)
(*                                                                         *)
(* The numerical fitting is abstracted: the upper models are any functions *)
(* of the key among those considered, the observed leaf model any monotone *)
(* one.  Training and lookups route through upper layers in two ways.      *)
(* Two layers want a monotone top model but a release build only notices   *)
(* one that is not when it meets rows out of order; the composition of     *)
(* several layers need not be monotone.                                    *)
(***************************************************************************)
EXTENDS CacheFix, FiniteSets, FiniteSetsExt

CONSTANTS MaxKey,       \* keys are 0 .. MaxKey: zero_value() and max_value()
          MaxRows,      \* bound: rows of the training data
          Leaves,       \* num_leaf_models, the branching factor
          Tops,         \* predict_to_int of the top models to consider
          Uppers,       \* upper layers to consider, for several: two of them
          Branch,       \* their branch_factor
          MaxLeafModels,    \* RM_MODEL_SELECTOR_MAX_LEAF_MODELS
          BoundedTops,  \* top models over a spline
          MaxData,      \* bound: rows under a spline
          LineSizes     \* cache lines, in rows

ASSUME IndexAssumption == /\ MaxKey \in Nat \ {0} /\ MaxRows \in Nat \ {0}
                          /\ Leaves \in Nat /\ Leaves >= 2
                          /\ Tops \cup BoundedTops \subseteq [0 .. MaxKey -> Nat]
                          /\ MaxData \in Nat /\ LineSizes \subseteq Nat \ {0}
                          /\ Branch \in Nat /\ Branch >= 2 /\ MaxLeafModels \in Nat \ {0}

Key == 0 .. MaxKey
Leaf == 0 .. Leaves - 1
Branches == 0 .. Branch - 1
Part == {1, 2}

\* An upper model predicts in halves.  Of the types without a bounds check those
\* that may go below 0 elsewhere do not at the keys of the data.
UpperModel == {m \in [half : [Key -> Int], checked : BOOLEAN] :
                 m.checked \/ \A k \in Key : m.half[k] >= 0}

\* The root and the layer below it, which has a model for each bucket.
ASSUME UpperAssumption ==
    /\ Uppers \subseteq [{0} -> UpperModel] \X [Branches -> UpperModel]
    /\ Uppers # {} => Leaves = Branch * Branch
NoRow == 0              \* no row: rows are numbered from 1

IsMonotone(f) == \A a, b \in Key : a <= b => f[a] <= f[b]
Constantly(c) == [k \in Key |-> c]

Ordered(s) == \A i \in 2 .. Len(s) : s[i - 1] <= s[i]
Sorted(max) == {s \in UNION {[1 .. n -> Key] : n \in 1 .. max} : Ordered(s)}
SortedRows == Sorted(MaxRows)
SortedData == Sorted(MaxData)

VARIABLES
    mode,       \* "two_layer", "multi_layer" or, over a spline, "bounded"
    dataset,    \* sorted keys, with duplicates
    line,       \* line_size of train_bounded
    rows,       \* the training data: the dataset or the keys of its spline
    top,        \* top_model->predict_to_int, predict_leaf_index of several layers
    layers,     \* model_layers without the leaves
    phase,      \* progress of the training
    partition,  \* the layer in hand: its buckets and those of the next one
    search,     \* lower_bound_by: base and size
    build,      \* the build_models_from calls, one or two
    slots,      \* per leaf, the data sets it was trained on (a data set: row numbers)
    lb,         \* LowerBoundCorrection, built in one pass over the rows
    leaf,       \* the leaf observed from here on
    replaced,   \* was it set_to_constant_model?
    model,      \* its predict_to_int
    error       \* its entry of last_layer_max_l1s

input == <<mode, dataset, line, rows, top, layers>>
indexVars == <<input, phase, partition, search, build, slots, lb, leaf, replaced, model, error>>

Rows == 1 .. Len(rows)
NumRows == Len(rows)

\* Bound: predictions overshoot the rows by one at most.
LeafModels == {f \in [Key -> 0 .. NumRows + 1] : IsMonotone(f)}

Lesser(a, b) == IF a <= b THEN a ELSE b
Greater(a, b) == IF a >= b THEN a ELSE b
Distance(a, b) == IF a <= b THEN b - a ELSE a - b

\* The routing of every pass over the rows after the leaves are trained.
LeafOf(k) == Lesser(Leaves - 1, top[k])

\* FixDupsIterator: every row of a run of equal keys carries the offset of the first.
Offset(i) == Min({j \in Rows : rows[j] = rows[i]}) - 1

\* A model whose predictions are in range is one that needs no bounds check:
\* it gets the stricter test.
NeedsBoundsCheck == \E k \in Key : top[k] >= Leaves

plus_epsilon(k) == IF k = MaxKey THEN k ELSE k + 1

-----------------------------------------------------------------------------
(* The split: a binary search for the first row at or past the middle leaf *)

Midpoint == Leaves \div 2

Below(i) == LeafOf(rows[i]) < Midpoint

Probe ==
    /\ phase = "search" /\ search.size > 1
    /\ LET half == search.size \div 2
           mid == search.base + half
       IN search' = [base |-> IF Below(mid + 1) THEN mid ELSE search.base,
                     size |-> search.size - half]
    /\ UNCHANGED <<input, partition, phase, build, slots, lb, leaf, replaced, model, error>>

SplitIndex == search.base + (IF Below(search.base + 1) THEN 1 ELSE 0)

Call(from, to, first, count) ==
    [from |-> from, to |-> to, first |-> first, count |-> count,
     pos |-> from, target |-> first, data |-> <<>>, done |-> FALSE]

CanSplit(s) == s > 0 /\ s < NumRows /\ top[rows[s + 1]] > top[rows[s]]

\* build_all_leaf_models, or the two halves under join().
Calls(s) ==
    LET target == LeafOf(rows[s + 1])
    IN IF CanSplit(s) /\ target # 0
       THEN <<Call(0, s, 0, target), Call(s, NumRows, target, Leaves - target)>>
       ELSE <<Call(0, NumRows, 0, Leaves)>>

Split ==
    /\ phase = "search" /\ search.size = 1
    /\ build' = Calls(SplitIndex)
    /\ phase' = "build"
    /\ UNCHANGED <<input, partition, search, slots, lb, leaf, replaced, model, error>>

-----------------------------------------------------------------------------
(* build_models_from: one row, then the end of the range                   *)

LastSlot(b) == b.first + b.count - 1
Target(b, k) == Lesser(LastSlot(b), top[k])

\* "Top model prediction out of bounds", "Non-monotonic target index".
RowRefused(b, k) ==
    \/ ~NeedsBoundsCheck /\ top[k] >= b.first + b.count
    \/ Target(b, k) < b.target

\* schedule_leaf(target, data) and fill_empty(target + 1, until).
Filled(target, data, until) ==
    [l \in Leaf |-> IF l = target THEN Append(slots[l], data)
                    ELSE IF l \in target + 1 .. until - 1 THEN Append(slots[l], <<>>)
                    ELSE slots[l]]

\* A leaf that starts takes the last row of the one before it.
Carried(data) == IF data = <<>> THEN <<>> ELSE <<data[Len(data)]>>

BuildRow(p) ==
    /\ phase = "build" /\ p \in DOMAIN build
    /\ LET b == build[p]
           i == b.pos + 1
           t == Target(b, rows[i])
           moves == t > b.target
       IN /\ b.pos < b.to
          /\ ~RowRefused(b, rows[i])
          /\ slots' = IF moves THEN Filled(b.target, Append(b.data, i), t) ELSE slots
          /\ build' = [build EXCEPT
                ![p].data = Append(IF moves THEN Carried(@) ELSE @, i),
                ![p].target = t,
                ![p].pos = @ + 1]
    /\ UNCHANGED <<input, partition, phase, search, lb, leaf, replaced, model, error>>

BuildEnd(p) ==
    /\ phase = "build" /\ p \in DOMAIN build
    /\ LET b == build[p]
       IN /\ b.pos = b.to /\ ~b.done /\ b.data # <<>>
          /\ slots' = Filled(b.target, b.data, b.first + b.count)
          /\ build' = [build EXCEPT ![p].done = TRUE]
    /\ UNCHANGED <<input, partition, phase, search, lb, leaf, replaced, model, error>>

\* A row is refused, or "No data for final leaf model".
CallThrows(b) ==
    \/ b.pos < b.to /\ RowRefused(b, rows[b.pos + 1])
    \/ b.pos = b.to /\ b.data = <<>>

BuildThrows(p) ==
    /\ phase = "build" /\ p \in DOMAIN build
    /\ CallThrows(build[p])
    /\ phase' = "thrown"
    /\ UNCHANGED <<input, partition, search, build, slots, lb, leaf, replaced, model, error>>

JoinHalves ==
    /\ phase = "build"
    /\ \A p \in DOMAIN build : build[p].done
    /\ phase' = "correct"
    /\ UNCHANGED <<input, partition, search, build, slots, lb, leaf, replaced, model, error>>

-----------------------------------------------------------------------------
(* Several layers: each one deals its rows out to the models of the next   *)

next_layer_size(layer) == IF layer = 1 THEN Branch ELSE Leaves
max_leaf_models == Lesser(MaxLeafModels, NumRows)
LayerFits == next_layer_size(partition.layer) <= max_leaf_models

predict_to_int(m, k) == Greater(0, m.half[k] \div 2)

\* The bucket of a key in training, and "Model prediction out of bounds".
BucketOf(m, k, size) == Lesser(size - 1, predict_to_int(m, k))
OutOfBounds(m, k, size) == ~m.checked /\ predict_to_int(m, k) >= size

\* The rows of the partition in hand.
InHand == partition.data_partitions[partition.index]

PartitionRow ==
    /\ phase = "partition" /\ LayerFits
    /\ partition.pos < Len(InHand)
    /\ LET i == InHand[partition.pos + 1]
           m == layers[partition.layer][partition.index]
           size == next_layer_size(partition.layer)
       IN /\ ~OutOfBounds(m, rows[i], size)
          /\ partition' = [partition EXCEPT
                !.pos = @ + 1,
                !.next_layer_data[BucketOf(m, rows[i], size)] = Append(@, i)]
    /\ UNCHANGED <<input, phase, search, build, slots, lb, leaf, replaced, model, error>>

IsLast == partition.index + 1 \notin DOMAIN partition.data_partitions

NextPartition ==
    /\ phase = "partition" /\ LayerFits
    /\ partition.pos = Len(InHand) /\ ~IsLast
    /\ partition' = [partition EXCEPT !.index = @ + 1, !.pos = 0]
    /\ UNCHANGED <<input, phase, search, build, slots, lb, leaf, replaced, model, error>>

LayerDone ==
    /\ phase = "partition" /\ LayerFits
    /\ partition.pos = Len(InHand) /\ IsLast

NextLayer ==
    /\ LayerDone /\ partition.layer = 1
    /\ partition' = [layer |-> 2, index |-> 0, pos |-> 0,
                     data_partitions |-> partition.next_layer_data,
                     next_layer_data |-> [l \in Leaf |-> <<>>]]
    /\ UNCHANGED <<input, phase, search, build, slots, lb, leaf, replaced, model, error>>

TrainLeaves ==
    /\ LayerDone /\ partition.layer = 2
    /\ slots' = [l \in Leaf |-> <<partition.next_layer_data[l]>>]
    /\ phase' = "correct"
    /\ UNCHANGED <<input, partition, search, build, lb, leaf, replaced, model, error>>

\* "Next layer would create ... models, exceeding limit", or a row is refused.
PartitionThrows ==
    /\ phase = "partition"
    /\ LayerFits =>
          /\ partition.pos < Len(InHand)
          /\ OutOfBounds(layers[partition.layer][partition.index],
                         rows[InHand[partition.pos + 1]],
                         next_layer_size(partition.layer))
    /\ phase' = "thrown"
    /\ UNCHANGED <<input, partition, search, build, slots, lb, leaf, replaced, model, error>>

Partition ==
    \/ PartitionRow \/ NextPartition \/ NextLayer \/ TrainLeaves \/ PartitionThrows

\* Mutant: a prediction is rounded.
RoundedIndex(m, k, bound) ==
    IF ~m.checked THEN m.half[k] \div 2
    ELSE IF m.half[k] < 0 THEN 0
    ELSE Lesser(bound - 1, (m.half[k] + 1) \div 2)

\* Without a bounds check the prediction is the index.
clamp_index(m, k, bound) ==
    IF ~m.checked THEN m.half[k] \div 2
    ELSE IF m.half[k] < 0 THEN 0
    ELSE IF m.half[k] > 2 * (bound - 1) THEN bound - 1
    ELSE m.half[k] \div 2

\* The leaf of a key in lookups; Leaves when an unchecked index is past a layer.
predict_leaf_index(upper, k) ==
    LET g == clamp_index(upper[1][0], k, Branch)
    IN IF g \in Branches THEN clamp_index(upper[2][g], k, Leaves) ELSE Leaves

-----------------------------------------------------------------------------
(* LowerBoundCorrection: one pass over the rows.  The run in progress is    *)
(* recorded when the next run starts; the last one is not recorded.         *)

\* max_run_length when a run ends.
RunEnded(c) == [c.longest EXCEPT ![c.target] = Greater(@, c.run)]

CorrectRow ==
    /\ phase = "correct" /\ lb.pos < NumRows
    /\ LET i == lb.pos + 1
           k == rows[i]
           t == LeafOf(k)
           goesOn == t = lb.target /\ k = lb.key
       IN lb' = [pos |-> i,
                 target |-> t,
                 key |-> k,
                 run |-> IF goesOn THEN lb.run + 1 ELSE 1,
                 longest |-> IF goesOn THEN lb.longest ELSE RunEnded(lb),
                 first |-> [lb.first EXCEPT ![t] = IF @ = NoRow THEN i ELSE @],
                 last |-> [lb.last EXCEPT ![t] = i]]
    /\ UNCHANGED <<input, partition, phase, search, build, slots, leaf, replaced, model, error>>

HasRows(l) == lb.first[l] # NoRow
LeavesAbove(l) == {m \in Leaf : m > l /\ HasRows(m)}
LeavesBelow(l) == {m \in Leaf : m < l /\ HasRows(m)}

\* compute_next_for_leaf: the first row of the next leaf that has one.
NextRow(l) == lb.first[Min(LeavesAbove(l))]
\* Mutant: the last row of the leaf above, not the first.
NextIndexOfLastRow(l) == IF LeavesAbove(l) = {} THEN NumRows ELSE lb.last[Min(LeavesAbove(l))] - 1

next_index(l) == IF LeavesAbove(l) = {} THEN NumRows ELSE Offset(NextRow(l))
next_key(l) == IF LeavesAbove(l) = {} THEN MaxKey ELSE rows[NextRow(l)]

\* compute_prev_for_leaf: the last key of the leaf before it that has one.
prev_key(l) == IF LeavesBelow(l) = {} THEN 0 ELSE rows[lb.last[Max(LeavesBelow(l))]]

-----------------------------------------------------------------------------
(* The leaf models and their errors                                        *)

\* A leaf with rows: the trained model.  The replacement of empty leaves
\* leaves it alone.
ObserveTrained(l) ==
    /\ phase = "correct" /\ lb.pos = NumRows /\ HasRows(l)
    /\ \E f \in LeafModels : model' = f
    /\ leaf' = l /\ replaced' = FALSE
    /\ phase' = "errors"
    /\ UNCHANGED <<input, partition, search, build, slots, lb, error>>

\* Two layers: an empty leaf other than the last, set_to_constant_model(next_index).
ObserveReplaced(l) ==
    /\ mode # "multi_layer"
    /\ phase = "correct" /\ lb.pos = NumRows /\ ~HasRows(l) /\ l + 1 < Leaves
    /\ model' = Constantly(next_index(l))
    /\ leaf' = l /\ replaced' = TRUE
    /\ phase' = "errors"
    /\ UNCHANGED <<input, partition, search, build, slots, lb, error>>

\* An empty leaf of several layers, one whose type has no constant form, or the
\* last leaf: it keeps the model of its (at most one) training row, a constant.
ObserveEmpty(l) ==
    /\ phase = "correct" /\ lb.pos = NumRows /\ ~HasRows(l)
    /\ \E c \in 0 .. NumRows + 1 : model' = Constantly(c)
    /\ leaf' = l /\ replaced' = FALSE
    /\ phase' = "errors"
    /\ UNCHANGED <<input, partition, search, build, slots, lb, error>>

\* error_between: both sides are capped at the number of rows.
ErrorBetween(a, b) == Distance(Lesser(a, NumRows), Lesser(b, NumRows))

RowsOf(l) == {i \in Rows : LeafOf(rows[i]) = l}
RowErrors(l) == {ErrorBetween(model[rows[i]], Offset(i)) : i \in RowsOf(l)}
UpperError(l) == ErrorBetween(model[minus_epsilon(next_key(l))], next_index(l) + 1)
LowerError(l) == ErrorBetween(model[plus_epsilon(prev_key(l))],
                              next_index(IF l = 0 THEN 0 ELSE l - 1))
\* Mutant: the longest run is left out.
NoRun(l) == 0

LongestRun(l) == lb.longest[l]

LeafError(l) == Max({0, UpperError(l), LowerError(l)} \cup RowErrors(l)) + LongestRun(l)

ComputeError ==
    /\ phase = "errors"
    /\ error' = LeafError(leaf)
    /\ phase' = "trained"
    /\ UNCHANGED <<input, partition, search, build, slots, lb, leaf, replaced, model>>

\* A trained model is written out and used; nothing here changes any more.
Finished ==
    /\ phase \in {"trained", "thrown"}
    /\ UNCHANGED indexVars

-----------------------------------------------------------------------------
\* The spline of train_bounded, reindexed: its keys are the rows of the model.
SplineKeys(d, n) == [i \in DOMAIN cache_fix(d, n) |-> cache_fix(d, n)[i][1]]

IndexInit ==
    /\ \/ /\ mode = "two_layer"
          /\ dataset \in SortedRows
          /\ line = 0
          /\ rows = dataset
          /\ layers = <<>>
          /\ top \in Tops
       \/ /\ mode = "multi_layer"
          /\ dataset \in SortedRows
          /\ line = 0
          /\ rows = dataset
          /\ layers \in Uppers
          /\ top = [k \in Key |-> predict_leaf_index(layers, k)]
       \/ /\ mode = "bounded"
          /\ line \in LineSizes
          /\ dataset \in SortedData /\ Len(dataset) > line
          /\ rows = SplineKeys(dataset, line)
          /\ layers = <<>>
          /\ top \in BoundedTops
    /\ phase = IF mode = "multi_layer" THEN "partition" ELSE "search"
    /\ partition = [layer |-> 1, index |-> 0, pos |-> 0,
                    data_partitions |-> [p \in {0} |-> [i \in Rows |-> i]],
                    next_layer_data |-> [g \in Branches |-> <<>>]]
    /\ search = [base |-> 0, size |-> Len(rows)]
    /\ build = <<>>
    /\ slots = [l \in Leaf |-> <<>>]
    /\ lb = [pos |-> 0, target |-> 0, key |-> rows[1], run |-> 0,
             longest |-> [l \in Leaf |-> 0],
             first |-> [l \in Leaf |-> NoRow],
             last |-> [l \in Leaf |-> NoRow]]
    /\ leaf = 0
    /\ replaced = FALSE
    /\ model = Constantly(0)
    /\ error = 0

Build == \E p \in Part : BuildRow(p) \/ BuildEnd(p) \/ BuildThrows(p)
Observe == \E l \in Leaf : ObserveTrained(l) \/ ObserveReplaced(l) \/ ObserveEmpty(l)

IndexNext ==
    \/ Probe \/ Split
    \/ Build \/ JoinHalves \/ Partition
    \/ CorrectRow
    \/ Observe
    \/ ComputeError
    \/ Finished

IndexSpec == IndexInit /\ [][IndexNext]_indexVars

-----------------------------------------------------------------------------
(* The lookup of the generated code, and what it is searched for           *)

LowerBound(q) == Cardinality({i \in Rows : rows[i] < q})
Prediction(q) == Lesser(model[q], NumRows - 1)
LastKey == rows[NumRows]

Bounded(q) == Distance(Prediction(q), LowerBound(q)) <= error

\* lookup of generate_cache_fix_code, from the points in the window on.
SplineSearch(q) ==
    LET lower == IF error > Prediction(q) THEN 0 ELSE Prediction(q) - error
        upper == Lesser(Prediction(q) + error, NumRows)
    IN Min({i \in lower .. upper - 1 : rows[i + 1] >= q} \cup {upper})

lookup(q) ==
    LET res == SplineSearch(q)
        points == cache_fix(dataset, line)
        value == IF res = 0 THEN points[1][2] ELSE predict(points[res], points[res + 1], q)
    IN IF res = NumRows THEN Len(dataset) - 1 ELSE line * (value \div line)

(***************************************************************************)
(* Properties                                                              *)
(***************************************************************************)
IndexTypeOK ==
    /\ \A s \in {dataset, rows} : s \in Seq(Key) \ {<<>>} /\ Ordered(s)
    /\ line \in LineSizes \cup {0}
    /\ mode = "bounded" <=> line # 0
    /\ phase \in {"search", "build", "partition", "correct", "errors", "trained", "thrown"}
    /\ partition.layer \in {1, 2} /\ partition.pos \in 0 .. Len(InHand)
    /\ search.base \in 0 .. NumRows - 1 /\ search.size \in 1 .. NumRows
    /\ search.base + search.size <= NumRows
    /\ DOMAIN build \subseteq Part
    /\ \A p \in DOMAIN build : build[p].pos \in build[p].from .. build[p].to
    /\ lb.pos \in 0 .. NumRows /\ lb.target \in Leaf
    /\ leaf \in Leaf /\ replaced \in BOOLEAN
    /\ model \in LeafModels
    /\ error \in 0 .. 2 * NumRows

(* Whatever the split and however the two halves interleave, no leaf is    *)
(* trained twice (two tasks would write one slot) and none is left without *)
(* a model; every row is part of the data of the very leaf that lookups of *)
(* its key are routed to.  Through several layers, in any order of their   *)
(* models, no lookup of a row reads past a layer that skips the check of   *)
(* bounds; a monotone top model of two layers refuses no row.              *)
RowsReachTheirLeaf ==
    /\ IndexTypeOK
    /\ \A l \in Leaf : Len(slots[l]) <= 1
    /\ phase \in {"correct", "errors", "trained"} =>
          /\ \A l \in Leaf : slots[l] # <<>>
          /\ IsMonotone(top) \/ mode = "multi_layer" =>
                \A i \in Rows : \E j \in DOMAIN slots[LeafOf(rows[i])][1] :
                    slots[LeafOf(rows[i])][1][j] = i
          /\ mode = "multi_layer" => \A i \in Rows : top[rows[i]] \in Leaf
    /\ IsMonotone(top) /\ mode # "multi_layer" => phase # "thrown"

(* The error of a leaf covers the lookup of every key of the data, however *)
(* keys are routed.  With a monotone routing it covers every lookup up to  *)
(* the last key: keys between those of the data, at either edge of the     *)
(* leaf and for empty leaves, with runs of duplicates on both sides.       *)
ErrorsBound ==
    phase = "trained" =>
        \A q \in Key :
            /\ LeafOf(q) = leaf
            /\ (\E i \in Rows : rows[i] = q) \/ (IsMonotone(top) /\ q <= LastKey)
            => Bounded(q)

(* A model over a spline finds the cache line of the first row of every    *)
(* key of the data set, points or not: the error bound of the leaf covers  *)
(* the search for the segment, and the fit covers the interpolation.       *)
LookupFindsLine ==
    (phase = "trained" /\ mode = "bounded" /\ IsMonotone(top)) =>
        \A i \in DOMAIN dataset :
            LeafOf(dataset[i]) = leaf /\ (i = 1 \/ dataset[i - 1] < dataset[i])
                => lookup(dataset[i]) = line * ((i - 1) \div line)

(* An empty leaf that was replaced answers every lookup exactly: its keys  *)
(* lie in one gap of the data, whose lower bound is the constant.          *)
EmptyLeavesExact ==
    (phase = "trained" /\ replaced /\ IsMonotone(top)) =>
        \A q \in Key : (q <= LastKey /\ LeafOf(q) = leaf) => model[q] = LowerBound(q)

(* The documented promise: lower-bound correction makes the error bounds   *)
(* of multi-layer training conservative, for a leaf that has rows and with *)
(* no restriction on the key looked up, for data of two keys at least.     *)
AllQueriesBounded ==
    /\ phase = "trained" /\ mode = "multi_layer"
    /\ IsMonotone(top) /\ HasRows(leaf) /\ rows[1] < LastKey
    => \A q \in Key : top[q] = leaf => Bounded(q)

=============================================================================
