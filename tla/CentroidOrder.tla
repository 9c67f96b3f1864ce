--------------------------- MODULE CentroidOrder ---------------------------
(***************************************************************************)
(* The order in which the centroids of a Vortex model get their ranges:    *)
(* near centroids should be neighbours in the hash space.                  *)
(*                                                                         *)
(* build_centroid_graph_affinity counts the edges of the small-world graph *)
(* between centroids; compute_centroid_order joins each centroid to its    *)
(* nearest ones, grows a spanning tree, walks it, improves the closed walk *)
(* by 2-exchanges and cuts it at its longest edge.                         *)
(*                                                                         *)
(* Centroids are points with integer coordinates, so squared distances are *)
(* integers; costs are in units of 1 / (4 * Scale).                        *)
(***************************************************************************)
EXTENDS Integers, Sequences, FiniteSets, SequencesExt

CONSTANTS
  MaxGraphEdges,    \* bound: edges of the small-world graph between centroids
  MaxNeighbors,     \* kMaxGraphNeighborsPerCentroid
  PruneTrigger,     \* kPruneTrigger
  Scale             \* every affinity is a multiple of 1 / Scale

ASSUME OrderAssumption ==
  /\ MaxGraphEdges \in Nat
  /\ MaxNeighbors \in Nat \ {0}
  /\ PruneTrigger \in Nat /\ PruneTrigger >= MaxNeighbors
  /\ Scale \in Nat
  /\ \A c \in 1 .. MaxGraphEdges : Scale % c = 0

VARIABLES
  step,
  points,       \* base.centroids
  options,      \* knn, iterations of 2-opt (0: disabled), graph
  rows,         \* affinity counts by centroid
  at,           \* position of the loop in hand
  edges,        \* adj: the neighbours of each centroid
  in_mst, mst,
  stack,        \* the walk's stack of nodes
  cycle         \* the centroids walked so far, then the closed walk

orderVars ==
  <<step, points, options, rows, at, edges, in_mst, mst, stack, cycle>>

Step == {"graph", "knn", "extra", "tree", "attach", "walk", "refine", "cut",
         "ordered", "used", "precomputed"}

Node == DOMAIN points

OrderTypeOK ==
  /\ step \in Step
  /\ at \in Nat
  /\ rows \in [Node -> [Node -> Nat]]
  /\ edges \in [Node -> SUBSET Node]
  /\ in_mst \subseteq Node
  /\ mst \subseteq [a : Node, b : Node, weight : Nat]
  /\ stack \in Seq(Node)
  /\ cycle \in Seq(Node)

OrderInit(ps, opts) ==
  /\ points = ps
  /\ options = opts
  /\ rows = [a \in DOMAIN ps |-> [b \in DOMAIN ps |-> 0]]
  /\ at = 0
  /\ edges = [a \in DOMAIN ps |-> {}]
  /\ in_mst = {}
  /\ mst = {}
  /\ stack = <<>>
  /\ cycle = <<>>

-----------------------------------------------------------------------------
(* The affinity of two centroids.                                          *)

Entries(row) == {b \in Node : row[b] > 0}

\* The order of the sort: larger counts first, then lower indices.
Outranks(row, b, c) == row[b] > row[c] \/ (row[b] = row[c] /\ b < c)

\* prune_affinity_row: the MaxNeighbors first counts stay.
Pruned(row) ==
  [c \in Node |->
     IF Cardinality({b \in Node : Outranks(row, b, c)}) < MaxNeighbors
       THEN row[c] ELSE 0]

Counted(row, to) ==
  LET new == [row EXCEPT ![to] = @ + 1]
  IN IF Cardinality(Entries(new)) > PruneTrigger THEN Pruned(new) ELSE new

\* One edge of the small-world graph, between nodes of two centroids.
AddAffinity ==
  /\ step = "graph"
  /\ at < MaxGraphEdges
  /\ \E a, b \in Node :
       /\ a # b
       /\ rows' = [rows EXCEPT ![a] = Counted(@, b), ![b] = Counted(@, a)]
  /\ at' = at + 1
  /\ UNCHANGED <<step, points, options, edges, in_mst, mst, stack, cycle>>

GraphBuilt ==
  /\ step = "graph"
  /\ rows' = [a \in Node |-> Pruned(rows[a])]
  /\ at' = 0
  /\ step' = "knn"
  /\ UNCHANGED <<points, options, edges, in_mst, mst, stack, cycle>>

\* The weight of an entry is its share of the row's largest count.
row_affinity(from, to) ==
  LET row  == rows[from]
      Top  == CHOOSE c \in Node : \A d \in Node : row[c] >= row[d]
  IN IF row[to] = 0 THEN 0 ELSE row[to] * (Scale \div row[Top])

\* Mutant: only the row of the first centroid is read.
affinity_of_first_row(a, b) == row_affinity(a, b)

\* Rows are cut and scaled on their own: a pair may be in one row only.
graph_affinity(a, b) ==
  IF row_affinity(a, b) >= row_affinity(b, a) THEN row_affinity(a, b)
                                              ELSE row_affinity(b, a)

raw_distance(a, b) ==
  LET dx == points[a][1] - points[b][1]
      dy == points[a][2] - points[b][2]
  IN dx * dx + dy * dy

\* kGraphOrderCostDiscount is a quarter.
Cost(a, b) == raw_distance(a, b) * (4 * Scale - graph_affinity(a, b))

-----------------------------------------------------------------------------
(* The graph of near centroids.                                            *)

search_k == IF options.knn + 1 < Cardinality(Node) THEN options.knn + 1
                                                   ELSE Cardinality(Node)

\* build_knn_edges: ties are broken by the index in any way, and a centroid
\* may be missing from its own answer when others coincide with it.
FindNeighbours ==
  /\ step = "knn"
  /\ at \in Node
  /\ \E found \in kSubset(search_k, Node) :
       /\ \A b \in found, c \in Node \ found :
            raw_distance(at, b) <= raw_distance(at, c)
       /\ edges' = [edges EXCEPT ![at] = found \ {at}]
  /\ at' = at + 1
  /\ step' = IF at' \in Node THEN "knn" ELSE "extra"
  /\ UNCHANGED <<points, options, rows, in_mst, mst, stack, cycle>>

\* raw_edge_caps: a graph edge may be a quarter longer than the longest one.
WithinCap(a, b) ==
  (\E c \in edges[a] : raw_distance(a, c) > 0) =>
    \E c \in edges[a] : 4 * raw_distance(a, b) <= 5 * raw_distance(a, c)

\* add_graph_order_edges and deduplicate_edges; the tree starts at centroid 0.
AddGraphEdges ==
  /\ step = "extra"
  /\ edges' = [a \in Node |->
                 edges[a] \cup {b \in Entries(rows[a]) : WithinCap(a, b)}]
  /\ at' = 0
  /\ in_mst' = {0}
  /\ step' = "tree"
  /\ UNCHANGED <<points, options, rows, mst, stack, cycle>>

-----------------------------------------------------------------------------
(* build_mst and dfs_order_from_mst.                                       *)

Crossing == {e \in in_mst \X (Node \ in_mst) : e[2] \in edges[e[1]]}

Cheaper(e, f) ==
  \/ Cost(e[1], e[2]) < Cost(f[1], f[2])
  \/ /\ Cost(e[1], e[2]) = Cost(f[1], f[2])
     /\ e[1] < f[1] \/ (e[1] = f[1] /\ e[2] <= f[2])

Join(a, b, weight) ==
  /\ in_mst' = in_mst \cup {b}
  /\ mst' = mst \cup {[a |-> a, b |-> b, weight |-> weight]}
  /\ UNCHANGED <<step, points, options, rows, at, edges, stack, cycle>>

\* The heap's least item whose target is not in the tree.
GrowTree ==
  /\ step = "tree"
  /\ \E e \in Crossing :
       /\ \A f \in Crossing : Cheaper(e, f)
       /\ Join(e[1], e[2], Cost(e[1], e[2]))

HeapEmpty ==
  /\ step = "tree"
  /\ Crossing = {}
  /\ step' = "attach"
  /\ UNCHANGED <<points, options, rows, at, edges, in_mst, mst, stack, cycle>>

\* Centroids that no edge leads to are joined by index, each to the nearest in
\* the tree by the distance without the discount; their edges are not followed.
Attach ==
  /\ step = "attach"
  /\ \E b \in Node \ in_mst : \E a \in in_mst :
       /\ \A c \in Node \ in_mst : b <= c
       /\ \A c \in in_mst : \/ raw_distance(a, b) < raw_distance(c, b)
                            \/ raw_distance(a, b) = raw_distance(c, b) /\ a <= c
       /\ Join(a, b, raw_distance(a, b) * 4 * Scale)

StartWalk ==
  /\ step = "attach"
  /\ in_mst = Node
  /\ stack' = <<0>>
  /\ step' = "walk"
  /\ UNCHANGED <<points, options, rows, at, edges, in_mst, mst, cycle>>

Joined(a, b) == CHOOSE e \in mst : {e.a, e.b} = {a, b}

\* The nearest unvisited neighbour in the tree ends on top of the stack. (In a
\* tree no node is pushed twice: the test after the pop never holds.)
Visit ==
  LET node    == Last(stack)
      visited == ToSet(cycle) \cup {node}
      Children   == {b \in Node \ visited : \E e \in mst : {e.a, e.b} = {node, b}}
      Farther(b, c) ==
        LET x == Joined(node, b).weight
            y == Joined(node, c).weight
        IN x > y \/ (x = y /\ b > c)
  IN /\ step = "walk"
     /\ stack # <<>>
     /\ cycle' = Append(cycle, node)
     /\ \E pushed \in SetToSeqs(Children) :
          /\ \A p, q \in DOMAIN pushed : p < q => Farther(pushed[p], pushed[q])
          /\ stack' = Front(stack) \o pushed
     /\ UNCHANGED <<step, points, options, rows, at, edges, in_mst, mst>>

Walked ==
  /\ step = "walk"
  /\ stack = <<>>
  /\ step' = "refine"
  /\ UNCHANGED <<points, options, rows, at, edges, in_mst, mst, stack, cycle>>

-----------------------------------------------------------------------------
(* two_opt_refine_cycle and cut_cycle_order.                               *)

After(i) == (i % Len(cycle)) + 1

EdgeCost(i) == Cost(cycle[i], cycle[After(i)])

\* Pairs of edges of the closed walk, by their first ends, that do not touch.
Exchanges ==
  {e \in (1 .. Len(cycle)) \X (1 .. Len(cycle)) :
     e[1] + 2 <= e[2] /\ ~ (e[1] = 1 /\ e[2] = Len(cycle))}

Gain(e) ==
  EdgeCost(e[1]) + EdgeCost(e[2]) - Cost(cycle[e[1]], cycle[e[2]])
                          - Cost(cycle[After(e[1])], cycle[After(e[2])])

\* The first of the exchanges that gain most.
Best(e) ==
  \A f \in Exchanges :
    \/ Gain(e) > Gain(f)
    \/ Gain(e) = Gain(f) /\ (e[1] < f[1] \/ (e[1] = f[1] /\ e[2] <= f[2]))

\* Mutant: the part to turn around is read from one element before it.
ExchangedFromBefore(e) ==
  [i \in DOMAIN cycle |->
     IF i \in e[1] + 1 .. e[2] THEN cycle[e[1] + e[2] - i] ELSE cycle[i]]

Exchanged(e) ==
  [i \in DOMAIN cycle |->
     IF i \in e[1] + 1 .. e[2] THEN cycle[e[1] + 1 + e[2] - i] ELSE cycle[i]]

Refine ==
  /\ step = "refine"
  /\ at < options.iterations
  /\ \E e \in Exchanges :
       /\ Best(e)
       /\ Gain(e) > 0
       /\ cycle' = Exchanged(e)
  /\ at' = at + 1
  /\ UNCHANGED <<step, points, options, rows, edges, in_mst, mst, stack>>

Refined ==
  /\ step = "refine"
  /\ at >= options.iterations \/ \A e \in Exchanges : Gain(e) <= 0
  /\ step' = "cut"
  /\ UNCHANGED <<points, options, rows, at, edges, in_mst, mst, stack, cycle>>

\* The order starts behind the first of the longest edges.
Cut ==
  /\ step = "cut"
  /\ \E i \in DOMAIN cycle :
       /\ \A j \in DOMAIN cycle : \/ EdgeCost(i) > EdgeCost(j)
                                  \/ EdgeCost(i) = EdgeCost(j) /\ i <= j
       /\ cycle' = [p \in DOMAIN cycle |-> cycle[((i + p - 1) % Len(cycle)) + 1]]
  /\ step' = "ordered"
  /\ UNCHANGED <<points, options, rows, at, edges, in_mst, mst, stack>>

OrderNext ==
  \/ AddAffinity \/ GraphBuilt \/ FindNeighbours \/ AddGraphEdges
  \/ GrowTree \/ HeapEmpty \/ Attach \/ StartWalk \/ Visit \/ Walked
  \/ Refine \/ Refined \/ Cut
=============================================================================
