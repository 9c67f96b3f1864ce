------------------------ MODULE VortexTrainingProofs -----------------------
(***************************************************************************)
(* allocate_ranges cuts the space into ranges that are fair, contiguous    *)
(* and cover it, for every number of centroids, all masses and any width   *)
(* of a word; the hashes placed in the ranges follow the centroids' order. *)
(* The order that compute_centroid_order gives it has every centroid once, *)
(* whatever their places and the edges between them, and its refinement    *)
(* only ever shortens the walk.                                            *)
(*                                                                         *)
(* IInv says in every stage of allocate_ranges what the loops have built   *)
(* so far, the sums over centroids included: the quotients, the remainders *)
(* and what they leave over (IQuota, IShare, IExtra), and where the walk   *)
(* over the ranges stands (IPlace). The arithmetic of UInt256 wraps        *)
(* around, so each stage must also show that it does not. ICover says of   *)
(* the order that the tree hangs together (ITree) and what the walk over   *)
(* it has left to visit (IWalk).                                           *)
(***************************************************************************)
EXTENDS VortexTraining, SetsAndLists

\* What a loop may rely on in every state, but for the range of order.
IType ==
  /\ k \in 1 .. MaxCentroids
  /\ mass \in [Centroid -> Masses]
  /\ space \in Spaces
  /\ i \in 0 .. k
  /\ total \in Nat
  /\ remainders \in [Centroid -> Nat]
  /\ sum_remainders \in Nat
  /\ given \in SUBSET Centroid
  /\ range_size \in [Centroid -> 0 .. Modulus - 1]
  /\ range_start \in [Centroid -> 0 .. Modulus - 1]
  /\ range_full \in SUBSET Centroid
  /\ cursor \in 0 .. Modulus - 1
  /\ pc \in Stage

\* The order that was checked has every centroid once.
IOrder ==
  pc \notin {"order", "rejected", "failed"} =>
    /\ \A p \in Centroid : order[p] \in Centroid
    /\ \A p, q \in Centroid : order[p] = order[q] => p = q

\* The stages that divide by the total mass.
Divided == {"quota", "extra", "place", "validate", "done"}

\* The total is the sum of the masses added so far, and is one that
\* checked_total_mass lets through.
ITotal ==
  /\ pc = "order" => i = 0 /\ total = 0
  /\ pc = "total" => total = SumOf(mass, 0 .. i - 1) /\ total <= MaxTotal
  /\ pc \in Divided => total = SumOf(mass, Centroid) /\ total \in 1 .. MaxTotal

\* Nothing has been given to c.
Blank(c) == range_size[c] = 0 /\ remainders[c] = 0 /\ c \notin range_full

\* The quotient and the remainder of c's share of the space.
Quota(c) == (mass[c] * space) \div total
Rest(c)  == (mass[c] * space) % total

\* c has its quotient, and one of the values left over if it was given one; or
\* it owns all the mass of a space that no size can name.
Quoted(c) ==
  IF c \in range_full
    THEN /\ range_size[c] = 0 /\ remainders[c] = 0
         /\ mass[c] = total /\ space = Modulus
    ELSE /\ range_size[c] = Quota(c) + (IF c \in given THEN 1 ELSE 0)
         /\ remainders[c] = Rest(c)
         /\ space = Modulus => mass[c] < total

\* The quotas are set in the order of the positions; sum_remainders is the sum
\* of the remainders.
IQuota ==
  /\ pc \in {"order", "total"} => \A c \in Centroid : Blank(c)
  /\ pc \in {"order", "total", "quota"} => given = {}
  /\ pc = "quota" =>
       \A p \in Centroid : IF p < i THEN Quoted(order[p]) ELSE Blank(order[p])
  /\ pc \in {"order", "total"} \cup Divided =>
       sum_remainders = SumOf(remainders, Centroid)

\* The stages in which every centroid has its quotient.
Shared == {"extra", "place", "validate", "done"}

\* The centroids whose quotient left something over.
Leftover == {c \in Centroid : remainders[c] > 0}

\* The values left over go to the largest remainders, and there are no more
\* of them than remainders.
IShare ==
  pc \in Shared =>
    /\ \A c \in Centroid : Quoted(c)
    /\ given \subseteq Leftover
    /\ \A c \in given, d \in Fractional \ given : Before(c, d)

\* What the ranges lack to fill the space is what is still to be given.
IExtra ==
  /\ pc = "extra" =>
       /\ Cardinality(given) = i
       /\ i <= remainder_count /\ remainder_count <= Cardinality(Leftover)
       /\ range_full = {} =>
            SumOf(range_size, Centroid) + remainder_count = space + i
       /\ range_full # {} => remainder_count = 0
  /\ pc \in {"place", "validate", "done"} /\ range_full = {} =>
       SumOf(range_size, Centroid) = space

\* Where the range at position n starts: behind those before it.
Placed(n)   == {order[p] : p \in 0 .. n - 1}
StartsAt(n) == SumOf(range_size, Placed(n))

\* Every range starts where those before it end, in the arithmetic of UInt256.
IPlace ==
  /\ pc = "place" =>
       /\ cursor = StartsAt(i) % Modulus
       /\ \A p \in 0 .. i - 1 : range_start[order[p]] = StartsAt(p) % Modulus
  /\ pc \in {"validate", "done"} =>
       \A p \in Centroid : range_start[order[p]] = StartsAt(p) % Modulus
  /\ pc = "validate" => cursor = StartsAt(i) % Modulus
  /\ pc \in {"order", "total", "quota", "extra"} => cursor = 0

IInv == IType /\ IOrder /\ ITotal /\ IQuota /\ IShare /\ IExtra /\ IPlace
-----------------------------------------------------------------------------
(* Arithmetic.                                                             *)

\* A number below the modulus is its own remainder.
LEMMA Below == \A a \in Nat, b \in Nat \ {0} : a < b => a % b = a
  OBVIOUS

\* The word arithmetic of a running sum is that of the sum.
LEMMA ModAdd ==
  ASSUME NEW m \in Nat \ {0}, NEW a \in Nat, NEW b \in Nat
  PROVE  ((a % m) + b) % m = (a + b) % m
<1>1. PICK q \in Nat, r \in 0 .. m - 1 : a = m * q + r /\ a % m = r
  BY Division
<1>2. PICK u \in Nat, v \in 0 .. m - 1 : r + b = m * u + v /\ (r + b) % m = v
  <2>1. r + b \in Nat
    OBVIOUS
  <2>. QED
    BY <2>1, Division
<1>3. a + b = m * (q + u) + v
  <2>1. m * (q + u) = m * q + m * u /\ m * q \in Nat /\ m * u \in Nat
    OBVIOUS
  <2>2. PICK x \in Nat, y \in Nat : x = m * q /\ y = m * u
    BY <2>1
  <2>. QED
    BY <1>1, <1>2, <2>1, <2>2
<1>4. (a + b) % m = v
  <2>1. PICK w \in Nat : w = q + u
    OBVIOUS
  <2>2. a + b = m * w + v /\ v \in 0 .. m - 1
    BY <1>2, <1>3, <2>1
  <2>. QED
    BY <2>2, Quotient
<1>. QED
  BY <1>1, <1>2, <1>4

\* A word, and a sum of masses, fit into a UInt256.
LEMMA Words == /\ Modulus \in Nat /\ Word < Modulus
               /\ MaxTotal \in Nat /\ MaxTotal < Modulus
<1>1. Word \in Nat /\ Word > 1
  BY RangeAssumption
<1>2. Word * Word \in Nat /\ Word * Word > Word
  BY <1>1
<1>3. (Word * Word) * Word \in Nat /\ (Word * Word) * Word > Word
  BY <1>1, <1>2
<1>4. ((Word * Word) * Word) * Word \in Nat /\ ((Word * Word) * Word) * Word > Word
  BY <1>1, <1>3
<1>. QED
  BY <1>4, RangeAssumption DEF Modulus

\* The centroids are finite, and their masses and the space are naturals.
LEMMA Centroids ==
  ASSUME IType
  PROVE  /\ k \in Nat \ {0} /\ IsFiniteSet(Centroid) /\ Cardinality(Centroid) = k
         /\ \A c \in Centroid : mass[c] \in Nat
         /\ space \in Nat \ {0} /\ space <= Modulus
<1>1. k \in Nat \ {0} /\ mass \in [Centroid -> Masses] /\ space \in Spaces
  BY RangeAssumption DEF IType
<1>2. IsFiniteSet(Centroid) /\ Cardinality(Centroid) = k
  BY <1>1, FS_Interval DEF Centroid
<1>3. \A c \in Centroid : mass[c] \in Nat
  BY <1>1, RangeAssumption
<1>4. space \in 1 .. Modulus /\ Modulus \in Nat
  BY <1>1, RangeAssumption, Words
<1>. QED
  BY <1>1, <1>2, <1>3, <1>4

\* A centroid without mass has no share and leaves nothing over.
LEMMA Quotas ==
  ASSUME IType, total \in Nat \ {0}, NEW c \in Centroid
  PROVE  /\ Quota(c) \in Nat /\ Rest(c) \in 0 .. total - 1
         /\ mass[c] * space = total * Quota(c) + Rest(c)
         /\ mass[c] = 0 => Quota(c) = 0 /\ Rest(c) = 0
<1>1. mass[c] \in Nat /\ space \in Nat /\ mass[c] * space \in Nat
  BY Centroids
<1>2. Quota(c) \in Nat /\ Rest(c) \in 0 .. total - 1
      /\ mass[c] * space = total * Quota(c) + Rest(c)
  BY <1>1, Division DEF Quota, Rest
<1>3. ASSUME mass[c] = 0 PROVE Quota(c) = 0 /\ Rest(c) = 0
  <2>1. mass[c] * space = total * 0 + 0 /\ 0 \in 0 .. total - 1
    BY <1>1, <1>3
  <2>. QED
    BY <2>1, Quotient DEF Quota, Rest
<1>. QED
  BY <1>2, <1>3

\* A share of the space fits into a UInt256, and has room for one more, unless it is
\* all of a space of 2^256.
LEMMA QuotaFits ==
  ASSUME IType, total \in 1 .. MaxTotal, NEW c \in Centroid, mass[c] <= total
  PROVE  /\ Quota(c) <= space
         /\ space = Modulus /\ mass[c] < total => Quota(c) + 1 < Modulus
<1>1. /\ Quota(c) \in Nat /\ Rest(c) \in 0 .. total - 1 /\ mass[c] \in Nat
      /\ space \in Nat
      /\ mass[c] * space = total * Quota(c) + Rest(c)
      /\ total \in Nat \ {0} /\ total < Modulus /\ Modulus \in Nat
  BY Quotas, Centroids, Words
<1>2. PICK q \in Nat, r \in Nat, m \in Nat, s \in Nat, t \in Nat \ {0} :
        q = Quota(c) /\ r = Rest(c) /\ m = mass[c] /\ s = space /\ t = total
  BY <1>1
<1>3. m * s = t * q + r /\ m <= t /\ r < t
  BY <1>1, <1>2
<1>4. q <= s
  <2>1. m * s <= t * s
    BY <1>3
  <2>2. t * q <= t * s
    BY <1>3, <2>1
  <2>. QED
    BY <2>2
<1>5. ASSUME m < t, t < s PROVE q + 1 < s
  <2>. SUFFICES ASSUME q + 1 >= s PROVE FALSE
    OBVIOUS
  <2>1. m * s <= (t - 1) * s
    BY <1>5
  <2>2. (t - 1) * s = t * s - s
    OBVIOUS
  <2>3. t * (q + 1) >= t * s
    OBVIOUS
  <2>4. t * (q + 1) = t * q + t
    OBVIOUS
  <2>5. PICK ts \in Int, tq \in Int, ms \in Int : ts = t * s /\ tq = t * q /\ ms = m * s
    OBVIOUS
  <2>. QED
    BY <1>3, <1>5, <2>1, <2>2, <2>3, <2>4, <2>5
<1>. QED
  BY <1>1, <1>2, <1>4, <1>5

\* An order that was checked leaves no centroid out.
LEMMA EveryCentroid ==
  ASSUME IType, \A p \in Centroid : order[p] \in Centroid,
         \A p, q \in Centroid : order[p] = order[q] => p = q
  PROVE  Placed(k) = Centroid /\ \A c \in Centroid : \E p \in Centroid : order[p] = c
<1>. DEFINE f == [p \in Centroid |-> order[p]]
<1>1. IsFiniteSet(Centroid)
  BY Centroids
<1>2. f \in Injection(Centroid, Centroid)
  BY DEF Injection, IsInjective
<1>3. f \in Surjection(Centroid, Centroid)
  BY <1>1, <1>2, FS_Injection
<1>4. \A c \in Centroid : \E p \in Centroid : f[p] = c
  BY <1>3 DEF Surjection
<1>5. \A c \in Centroid : \E p \in Centroid : order[p] = c
  BY <1>4
<1>. QED
  BY <1>5 DEF Placed, Centroid

\* The ranges before position n + 1 are those before n, and the range at n.
LEMMA NextStart ==
  ASSUME IType, \A p \in Centroid : order[p] \in Centroid,
         \A p, q \in Centroid : order[p] = order[q] => p = q, NEW n \in Centroid
  PROVE  /\ StartsAt(n) \in Nat /\ StartsAt(n + 1) = StartsAt(n) + range_size[order[n]]
         /\ StartsAt(0) = 0
<1>1. k \in Nat /\ n \in 0 .. k - 1 /\ IsFiniteSet(Centroid)
  BY Centroids DEF Centroid
<1>2. /\ Placed(n + 1) \in SUBSET Centroid /\ Placed(n) \in SUBSET Centroid
      /\ order[n] \in Placed(n + 1) /\ Placed(n + 1) \ {order[n]} = Placed(n)
  <2>1. ASSUME NEW p \in 0 .. n PROVE p \in Centroid
    BY <1>1, <2>1 DEF Centroid
  <2>2. (n + 1) - 1 = n
    BY <1>1
  <2>3. 0 .. n = (0 .. n - 1) \cup {n} /\ n \notin 0 .. n - 1
    BY <1>1
  <2>. QED
    BY <2>1, <2>2, <2>3 DEF Placed
<1>3. IsFiniteSet(Placed(n)) /\ IsFiniteSet(Placed(n + 1))
  BY <1>1, <1>2, FS_Subset
<1>4. \A c \in Centroid : range_size[c] \in Nat
  BY Words DEF IType
<1>5. StartsAt(n + 1) = range_size[order[n]] + StartsAt(n)
  BY <1>2, <1>3, <1>4, SumRemove DEF StartsAt
<1>6. StartsAt(n) \in Nat
  BY <1>2, <1>3, <1>4, SumNat DEF StartsAt
<1>7. Placed(0) = {}
  BY DEF Placed
<1>8. range_size[order[n]] \in Nat
  BY <1>4
<1>9. StartsAt(0) = 0
  BY <1>7, SumEmpty DEF StartsAt
<1>. QED
  BY <1>5, <1>6, <1>8, <1>9
-----------------------------------------------------------------------------
(* The steps of allocate_ranges.                                           *)

\* validate_centroid_order lets through only orders with every centroid once.
LEMMA CheckOrderIInv == ASSUME IInv, CheckOrder PROVE IInv' /\ pc' # "failed"
<1>1. IType /\ IOrder /\ ITotal /\ IQuota /\ IShare /\ IExtra /\ IPlace
  BY DEF IInv
<1>2. /\ UNCHANGED <<k, mass, order, space, i, total, remainders, sum_remainders, given,
                     range_size, range_start, range_full, cursor>>
      /\ Centroid' = Centroid
      /\ pc = "order" /\ pc' \in {"total", "rejected"}
      /\ pc' = "total" => /\ \A p \in Centroid : order[p] \in Centroid
                          /\ \A p, q \in Centroid : order[p] = order[q] => p = q
  BY DEF CheckOrder, input, table, Centroid
<1>3. IType'
  BY <1>1, <1>2 DEF IType, Stage
<1>4. IOrder'
  BY <1>2 DEF IOrder
<1>5. ITotal'
  <2>1. total = 0 /\ i = 0 /\ 0 .. i - 1 = {}
    BY <1>1, <1>2 DEF ITotal
  <2>2. total = SumOf(mass, 0 .. i - 1) /\ total <= MaxTotal
    BY <2>1, SumEmpty, Words
  <2>. QED
    BY <1>2, <2>2 DEF ITotal, Divided
<1>6. IQuota'
  BY <1>1, <1>2 DEF IQuota, Divided, Blank
<1>7. IShare' /\ IExtra' /\ IPlace'
  BY <1>1, <1>2 DEF IShare, IExtra, IPlace, Shared
<1>. QED
  BY <1>2, <1>3, <1>4, <1>5, <1>6, <1>7 DEF IInv

\* checked_total_mass sums the masses up and rejects a sum beyond a uint64_t.
LEMMA AddMassIInv == ASSUME IInv, AddMass PROVE IInv' /\ pc' # "failed"
<1>1. IType /\ IOrder /\ ITotal /\ IQuota /\ IShare /\ IExtra /\ IPlace
  BY DEF IInv
<1>2. /\ UNCHANGED <<k, mass, order, space, remainders, sum_remainders, given,
                     range_size, range_start, range_full, cursor>>
      /\ Centroid' = Centroid /\ pc = "total"
  BY DEF AddMass, input, table, Centroid
<1>3. CASE i < k
  <2>1. /\ total' = total + mass[i] /\ i' = i + 1 /\ i \in Centroid
        /\ pc' = IF total' > MaxTotal THEN "rejected" ELSE "total"
    BY <1>1, <1>2, <1>3 DEF AddMass, IType, Centroid
  <2>2. mass[i] \in Nat /\ k \in Nat /\ i \in Nat
    BY <1>1, <2>1, Centroids DEF Centroid
  <2>3. IType'
    BY <1>1, <1>2, <1>3, <2>1, <2>2 DEF IType, Stage
  <2>4. total' = SumOf(mass, 0 .. i' - 1)
    <3>1. 0 .. i' - 1 \in SUBSET Centroid /\ i \in 0 .. i' - 1
          /\ (0 .. i' - 1) \ {i} = 0 .. i - 1
      BY <2>1, <2>2 DEF Centroid
    <3>2. IsFiniteSet(0 .. i' - 1)
      BY <1>1, <3>1, Centroids, FS_Subset
    <3>3. SumOf(mass, 0 .. i' - 1) = mass[i] + SumOf(mass, 0 .. i - 1)
      <4>1. PICK A : A = 0 .. i' - 1
        OBVIOUS
      <4>2. IsFiniteSet(A) /\ i \in A /\ \A x \in A : mass[x] \in Nat
        BY <1>1, <3>1, <3>2, <4>1, Centroids
      <4>3. SumOf(mass, A) = mass[i] + SumOf(mass, A \ {i})
        BY <4>2, SumRemove
      <4>. QED
        BY <3>1, <4>1, <4>3
    <3>4. total = SumOf(mass, 0 .. i - 1) /\ total \in Nat
      BY <1>1, <1>2 DEF ITotal, IType
    <3>. QED
      BY <2>1, <2>2, <3>3, <3>4
  <2>5. ITotal'
    BY <1>2, <2>1, <2>2, <2>3, <2>4, Words DEF ITotal, Divided, IType
  <2>6. IOrder' /\ IQuota' /\ IShare' /\ IExtra' /\ IPlace'
    BY <1>1, <1>2, <2>1 DEF IOrder, IQuota, Blank, IShare, IExtra, IPlace, Shared, Divided
  <2>. QED
    BY <2>1, <2>3, <2>5, <2>6 DEF IInv
<1>4. CASE ~(i < k)
  <2>1. /\ i' = 0 /\ total' = total /\ i = k
        /\ pc' = IF total = 0 THEN "rejected" ELSE "quota"
    BY <1>1, <1>2, <1>4 DEF AddMass, IType
  <2>2. total = SumOf(mass, Centroid) /\ total \in Nat /\ total <= MaxTotal
    BY <1>1, <1>2, <2>1 DEF ITotal, IType, Centroid
  <2>3. IType'
    BY <1>1, <1>2, <2>1 DEF IType, Stage
  <2>4. ITotal'
    BY <1>2, <2>1, <2>2, Words DEF ITotal, Divided
  <2>5. IQuota'
    <3>1. ASSUME pc' = "quota" PROVE \A p \in Centroid : Blank(order[p]) /\ ~(p < 0)
      BY <1>1, <1>2, <3>1, Centroids DEF IQuota, IOrder, Centroid
    <3>. QED
      BY <1>1, <1>2, <2>1, <3>1 DEF IQuota, Blank, Divided
  <2>6. IOrder' /\ IShare' /\ IExtra' /\ IPlace'
    BY <1>1, <1>2, <2>1 DEF IOrder, IShare, IExtra, IPlace, Shared
  <2>. QED
    BY <2>1, <2>3, <2>4, <2>5, <2>6 DEF IInv
<1>. QED
  BY <1>3, <1>4

\* The loop of the quotients: no quotient is cut off by the width of a UInt256,
\* and a second centroid cannot own all the mass.
LEMMA SetQuotaIInv == ASSUME IInv, SetQuota PROVE IInv' /\ pc' # "failed"
<1>1. IType /\ IOrder /\ ITotal /\ IQuota /\ IShare /\ IExtra /\ IPlace
  BY DEF IInv
<1>2. /\ UNCHANGED <<k, mass, order, space, range_start, total, given, cursor, pc>>
      /\ Centroid' = Centroid /\ pc = "quota" /\ i < k /\ i' = i + 1
  BY DEF SetQuota, input, Centroid
<1>3. PICK c : c = order[i]
  OBVIOUS
<1>4. /\ i \in Centroid /\ c \in Centroid /\ Blank(c) /\ given = {}
      /\ i \in Nat /\ k \in Nat
      /\ \A p \in Centroid : order[p] \in Centroid /\ (order[p] = c => p = i)
  <2>1. i \in Centroid /\ i \in Nat /\ k \in Nat
    BY <1>1, <1>2 DEF IType, Centroid
  <2>2. /\ \A p \in Centroid : order[p] \in Centroid
        /\ \A p, q \in Centroid : order[p] = order[q] => p = q
    BY <1>1, <1>2 DEF IOrder
  <2>3. Blank(order[i]) /\ given = {}
    BY <1>1, <1>2, <2>1 DEF IQuota
  <2>. QED
    BY <1>3, <2>1, <2>2, <2>3
<1>5. /\ total \in 1 .. MaxTotal /\ total = SumOf(mass, Centroid)
      /\ sum_remainders = SumOf(remainders, Centroid)
  BY <1>1, <1>2 DEF ITotal, IQuota, Divided
<1>6. total \in Nat \ {0} /\ mass[c] \in Nat
  BY <1>1, <1>4, <1>5, Centroids
<1>7. /\ Quota(c) \in Nat /\ Rest(c) \in 0 .. total - 1
      /\ mass[c] = 0 => Quota(c) = 0 /\ Rest(c) = 0
  BY <1>1, <1>4, <1>6, Quotas
<1>8. mass[c] <= total /\ \A d \in Centroid : d # c => mass[c] + mass[d] <= total
  BY <1>1, <1>4, <1>5, Centroids, SumPair
<1>9. /\ \A d \in Centroid : d # c =>
           /\ range_size'[d] = range_size[d] /\ remainders'[d] = remainders[d]
           /\ d \in range_full' <=> d \in range_full
      /\ range_size' \in [Centroid -> 0 .. Modulus - 1] /\ range_full' \in SUBSET Centroid
      /\ remainders' \in [Centroid -> Nat]
      /\ sum_remainders' = sum_remainders + remainders'[c]
      /\ Quoted(c)'
  <2>1. CASE mass[c] = 0
    <3>1. UNCHANGED <<range_size, remainders, sum_remainders>> /\ range_full' = range_full
      BY <1>3, <2>1 DEF SetQuota
    <3>2. Quoted(c)'
      BY <1>2, <1>4, <1>6, <1>7, <2>1, <3>1 DEF Quoted, Blank, Quota, Rest
    <3>. QED
      BY <1>1, <1>4, <3>1, <3>2 DEF IType, Blank
  <2>2. CASE mass[c] # 0 /\ OwnsAll(c)
    <3>1. UNCHANGED <<range_size, remainders, sum_remainders>>
          /\ range_full' = range_full \cup {c}
      BY <1>3, <2>2 DEF SetQuota
    <3>2. Quoted(c)'
      BY <1>2, <1>4, <2>2, <3>1 DEF Quoted, Blank, OwnsAll
    <3>. QED
      BY <1>1, <1>4, <3>1, <3>2 DEF IType, Blank
  <2>3. CASE mass[c] # 0 /\ ~OwnsAll(c)
    <3>1. /\ range_size' = [range_size EXCEPT ![c] = Quota(c) % Modulus]
          /\ remainders' = [remainders EXCEPT ![c] = Rest(c)]
          /\ sum_remainders' = sum_remainders + remainders'[c]
          /\ range_full' = range_full
      BY <1>3, <2>3 DEF SetQuota, Quota, Rest
    <3>2. space = Modulus => mass[c] < total
      <4>. SUFFICES ASSUME space = Modulus, mass[c] = total PROVE FALSE
        BY <1>6, <1>8
      <4>1. PICK d \in range_full : TRUE
        BY <2>3 DEF OwnsAll
      <4>2. d \in Centroid /\ d # c
        BY <1>1, <1>4, <4>1 DEF IType, Blank
      <4>3. PICK p \in Centroid : order[p] = d
        BY <1>1, <1>2, <4>2, EveryCentroid DEF IOrder
      <4>4. Quoted(d)
        BY <1>1, <1>2, <4>1, <4>3 DEF IQuota, Blank
      <4>5. mass[d] = total
        BY <4>1, <4>4 DEF Quoted
      <4>. QED
        BY <1>6, <1>8, <4>2, <4>5
    <3>3. Quota(c) < Modulus
      <4>1. /\ Quota(c) <= space
            /\ space = Modulus /\ mass[c] < total => Quota(c) + 1 < Modulus
        BY <1>1, <1>4, <1>5, <1>8, QuotaFits
      <4>. QED
        BY <1>1, <1>7, <3>2, <4>1, Centroids, Words
    <3>4. Quota(c) % Modulus = Quota(c) /\ Quota(c) \in 0 .. Modulus - 1
      BY <1>7, <3>3, Words
    <3>5. range_size'[c] = Quota(c) /\ remainders'[c] = Rest(c) /\ c \notin range_full'
      BY <1>1, <1>4, <3>1, <3>4 DEF IType, Blank
    <3>6. Quoted(c)'
      BY <1>2, <1>4, <1>7, <3>2, <3>5 DEF Quoted, Quota, Rest
    <3>. QED
      BY <1>1, <1>4, <1>7, <3>1, <3>4, <3>5, <3>6 DEF IType
  <2>. QED
    BY <2>1, <2>2, <2>3
<1>10. sum_remainders' = SumOf(remainders', Centroid)
  <2>1. SumOf(remainders', Centroid) + remainders[c]
          = SumOf(remainders, Centroid) + remainders'[c]
    <3>1. IsFiniteSet(Centroid)
          /\ \A d \in Centroid \ {c} : remainders'[d] = remainders[d]
      BY <1>1, <1>9, Centroids
    <3>2. \A d \in Centroid : remainders[d] \in Nat /\ remainders'[d] \in Nat
      BY <1>1, <1>9 DEF IType
    <3>3. PICK g : g = remainders'
      OBVIOUS
    <3>4. SumOf(g, Centroid) + remainders[c] = SumOf(remainders, Centroid) + g[c]
      <4>1. /\ IsFiniteSet(Centroid) /\ c \in Centroid
            /\ \A d \in Centroid : remainders[d] \in Nat /\ g[d] \in Nat
            /\ \A d \in Centroid \ {c} : g[d] = remainders[d]
        BY <1>4, <3>1, <3>2, <3>3
      <4>. QED
        BY <4>1, SumUpdate
    <3>. QED
      BY <3>3, <3>4
  <2>2. remainders[c] = 0 /\ SumOf(remainders, Centroid) \in Nat
        /\ SumOf(remainders', Centroid) \in Nat /\ remainders'[c] \in Nat
    BY <1>1, <1>4, <1>9, Centroids, SumNat DEF IType, Blank
  <2>. QED
    BY <1>5, <1>9, <2>1, <2>2
<1>11. IType'
  <2>1. sum_remainders' \in Nat /\ i' \in 0 .. k
    BY <1>1, <1>2, <1>4, <1>9 DEF IType
  <2>. QED
    BY <1>1, <1>2, <1>9, <2>1 DEF IType
<1>12. IQuota'
  <2>1. ASSUME NEW p \in Centroid
        PROVE IF p < i + 1 THEN Quoted(order[p])' ELSE Blank(order[p])'
    <3>1. IF p < i THEN Quoted(order[p]) ELSE Blank(order[p])
      BY <1>1, <1>2 DEF IQuota
    <3>2. CASE p = i
      <4>1. p < i + 1 /\ order[p] = c /\ order'[p] = c
        BY <1>2, <1>3, <1>4, <3>2
      <4>2. Quoted(order[p])' <=> Quoted(c)'
        BY <4>1 DEF Quoted, Quota, Rest
      <4>. QED
        BY <1>9, <4>1, <4>2
    <3>3. CASE p # i
      <4>1. order[p] \in Centroid /\ order[p] # c
        BY <1>4, <3>3
      <4>2. p < i + 1 <=> p < i
        BY <1>4, <3>3 DEF Centroid
      <4>3. /\ Quoted(order[p])' <=> Quoted(order[p])
            /\ Blank(order[p])' <=> Blank(order[p])
        BY <1>2, <1>9, <4>1 DEF Quoted, Blank, Quota, Rest
      <4>. QED
        BY <3>1, <4>2, <4>3
    <3>. QED
      BY <3>2, <3>3
  <2>2. order' = order /\ i' = i + 1 /\ Centroid' = Centroid /\ pc' = "quota"
        /\ given' = {}
    BY <1>2, <1>4
  <2>. QED
    BY <1>10, <2>1, <2>2 DEF IQuota
<1>13. IOrder' /\ ITotal' /\ IShare' /\ IExtra' /\ IPlace'
  BY <1>1, <1>2 DEF IOrder, ITotal, IShare, IExtra, IPlace, Shared
<1>. QED
  BY <1>2, <1>11, <1>12, <1>13 DEF IInv

\* What the quotients leave over is a whole number of values, and fewer than remainders.
LEMMA RestOfSpace ==
  ASSUME IType, total \in 1 .. MaxTotal, total = SumOf(mass, Centroid),
         sum_remainders = SumOf(remainders, Centroid),
         \A c \in Centroid : Quoted(c), given = {}
  PROVE  /\ remainder_count \in Nat /\ remainder_count <= Cardinality(Leftover)
         /\ range_full = {} => SumOf(range_size, Centroid) + remainder_count = space
         /\ range_full # {} => remainder_count = 0
<1>1. /\ IsFiniteSet(Centroid) /\ total \in Nat \ {0} /\ space \in Nat
      /\ \A c \in Centroid : mass[c] \in Nat /\ range_size[c] \in Nat
            /\ remainders[c] \in Nat
  BY Centroids, Words DEF IType
<1>2. \A c \in Centroid : remainders[c] \in Nat /\ remainders[c] <= total
  <2>. SUFFICES ASSUME NEW c \in Centroid
        PROVE remainders[c] \in Nat /\ remainders[c] <= total
    OBVIOUS
  <2>1. Rest(c) \in 0 .. total - 1
    BY <1>1, Quotas
  <2>. QED
    BY <1>1, <2>1 DEF Quoted
<1>3. SumOf(remainders, Centroid) <= total * Cardinality(Leftover)
  BY <1>1, <1>2, SumBound DEF Leftover
<1>4. IsFiniteSet(Leftover) /\ Cardinality(Leftover) \in Nat
  BY <1>1, FS_Subset, FS_CardinalityType DEF Leftover
<1>5. SumOf(remainders, Centroid) \in Nat /\ SumOf(range_size, Centroid) \in Nat
  BY <1>1, SumNat
<1>6. CASE range_full = {}
  <2>1. ASSUME NEW c \in Centroid
        PROVE mass[c] * space = total * range_size[c] + remainders[c]
    <3>1. range_size[c] = Quota(c) /\ remainders[c] = Rest(c)
      <4>1. range_size[c] = Quota(c) + 0 /\ remainders[c] = Rest(c) /\ Quota(c) \in Nat
        BY <1>1, <1>6, Quotas DEF Quoted
      <4>. QED
        BY <4>1
    <3>. QED
      BY <1>1, <3>1, Quotas
  <2>2. SumOf(mass, Centroid) * space = total * SumOf(range_size, Centroid)
                                          + SumOf(remainders, Centroid)
    <3>1. \A c \in Centroid :
            /\ mass[c] \in Nat /\ range_size[c] \in Nat /\ remainders[c] \in Nat
            /\ mass[c] * space = total * range_size[c] + remainders[c]
      BY <1>1, <2>1
    <3>2. total \in Nat /\ space \in Nat
      BY <1>1
    <3>. QED
      <4>1. PICK C, f, g, h : C = Centroid /\ f = mass /\ g = range_size /\ h = remainders
        OBVIOUS
      <4>2. PICK s \in Nat, a \in Nat : s = space /\ a = total
        BY <3>2
      <4>3. \A c \in C : /\ f[c] \in Nat /\ g[c] \in Nat /\ h[c] \in Nat
                        /\ f[c] * s = a * g[c] + h[c]
        BY <3>1, <4>1, <4>2
      <4>4. IsFiniteSet(C)
        BY <1>1, <4>1
      <4>5. SumOf(f, C) * s = a * SumOf(g, C) + SumOf(h, C)
        BY <4>3, <4>4, SumLinear
      <4>. QED
        BY <4>1, <4>2, <4>5
  <2>3. PICK s \in Nat, r \in Nat, t \in Nat \ {0}, a \in Nat, l \in Nat :
          /\ s = space /\ r = SumOf(remainders, Centroid) /\ t = total
          /\ a = SumOf(range_size, Centroid) /\ l = Cardinality(Leftover)
    BY <1>1, <1>4, <1>5
  <2>4. t * s = t * a + r /\ r <= t * l
    BY <1>3, <2>2, <2>3
  <2>5. a <= s /\ r = t * (s - a)
    <3>1. t * a <= t * s
      BY <2>4
    <3>2. a <= s
      BY <3>1
    <3>3. t * (s - a) = t * s - t * a
      OBVIOUS
    <3>. QED
      BY <2>4, <3>2, <3>3
  <2>6. r \div t = s - a
    <3>1. s - a \in Nat /\ r = t * (s - a) + 0 /\ 0 \in 0 .. t - 1
      BY <2>5
    <3>. QED
      BY <3>1, Quotient
  <2>7. s - a <= l
    BY <2>4, <2>5
  <2>8. remainder_count = s - a
    BY <2>3, <2>6 DEF remainder_count
  <2>. QED
    BY <1>6, <2>3, <2>5, <2>7, <2>8
<1>7. CASE range_full # {}
  <2>1. PICK f \in Centroid : f \in range_full /\ mass[f] = total
    BY <1>7 DEF Quoted, IType
  <2>2. ASSUME NEW c \in Centroid PROVE remainders[c] = 0
    <3>1. CASE c \in range_full
      BY <3>1 DEF Quoted
    <3>2. CASE c \notin range_full
      <4>1. mass[f] + mass[c] <= total
        BY <1>1, <2>1, <3>2, SumPair
      <4>2. mass[c] = 0
        BY <1>1, <2>1, <4>1
      <4>. QED
        BY <1>1, <3>2, <4>2, Quotas DEF Quoted
    <3>. QED
      BY <3>1, <3>2
  <2>3. Leftover = {}
    BY <2>2 DEF Leftover
  <2>4. SumOf(remainders, Centroid) = 0
    <3>1. Cardinality(Leftover) = 0 /\ total * 0 = 0
      BY <1>1, <2>3, FS_EmptySet
    <3>. QED
      BY <1>3, <1>5, <3>1
  <2>5. remainder_count = 0
    <3>1. total * 0 + 0 = 0 /\ 0 \in 0 .. total - 1
      BY <1>1
    <3>. QED
      BY <1>1, <2>4, <3>1, Quotient DEF remainder_count
  <2>. QED
    BY <1>4, <1>7, <2>5
<1>. QED
  BY <1>6, <1>7

\* Behind the loop every centroid has its quotient, for the order leaves none out.
LEMMA QuotasSetIInv == ASSUME IInv, QuotasSet PROVE IInv' /\ pc' # "failed"
<1>1. IType /\ IOrder /\ ITotal /\ IQuota /\ IShare /\ IExtra /\ IPlace
  BY DEF IInv
<1>2. /\ UNCHANGED <<k, mass, order, space, total, remainders, sum_remainders, given,
                     range_size, range_start, range_full, cursor>>
      /\ Centroid' = Centroid /\ pc = "quota" /\ pc' = "extra" /\ i = k /\ i' = 0
  BY DEF QuotasSet, input, table, Centroid
<1>3. given = {} /\ \A c \in Centroid : Quoted(c)
  <2>1. given = {} /\ \A p \in Centroid : Quoted(order[p])
    BY <1>1, <1>2, Centroids DEF IQuota, Centroid
  <2>2. \A c \in Centroid : \E p \in Centroid : order[p] = c
    BY <1>1, <1>2, EveryCentroid DEF IOrder
  <2>. QED
    BY <2>1, <2>2
<1>4. /\ total = SumOf(mass, Centroid) /\ total \in 1 .. MaxTotal
      /\ sum_remainders = SumOf(remainders, Centroid)
  BY <1>1, <1>2 DEF ITotal, IQuota, Divided
<1>5. /\ remainder_count \in Nat /\ remainder_count <= Cardinality(Leftover)
      /\ range_full = {} => SumOf(range_size, Centroid) + remainder_count = space
      /\ range_full # {} => remainder_count = 0
  BY <1>1, <1>3, <1>4, RestOfSpace
<1>6. IType'
  BY <1>1, <1>2, Centroids DEF IType, Stage
<1>7. IOrder' /\ ITotal' /\ IQuota'
  BY <1>1, <1>2, <1>3 DEF IOrder, ITotal, IQuota, Divided
<1>8. IShare'
  BY <1>2, <1>3 DEF IShare, Quoted, Quota, Rest
<1>9. IExtra'
  <2>1. Cardinality(given) = 0
    BY <1>3, FS_EmptySet
  <2>2. remainder_count' = remainder_count /\ Leftover' = Leftover
    BY <1>2 DEF remainder_count, Leftover
  <2>3. range_full = {} => SumOf(range_size, Centroid) + remainder_count = space + 0
    BY <1>1, <1>5, Centroids
  <2>. QED
    BY <1>2, <1>5, <2>1, <2>2, <2>3 DEF IExtra
<1>10. IPlace'
  BY <1>1, <1>2 DEF IPlace
<1>. QED
  BY <1>2, <1>6, <1>7, <1>8, <1>9, <1>10 DEF IInv

\* A value left over goes to a centroid that has none yet and a remainder to show
\* for it, and fits into the size.
LEMMA GiveOneIInv == ASSUME IInv, GiveOne PROVE IInv' /\ pc' # "failed"
<1>1. IType /\ IOrder /\ ITotal /\ IQuota /\ IShare /\ IExtra /\ IPlace
  BY DEF IInv
<1>2. /\ UNCHANGED <<k, mass, order, space, total, remainders, sum_remainders,
                     range_start, range_full, cursor, pc>>
      /\ Centroid' = Centroid /\ pc = "extra" /\ i < remainder_count /\ i' = i + 1
  BY DEF GiveOne, input, Centroid
<1>3. PICK c \in Fractional \ given :
        /\ \A d \in Fractional \ given : Before(c, d)
        /\ range_size' = [range_size EXCEPT ![c] = Add(@, 1)]
        /\ given' = given \cup {c}
  BY DEF GiveOne
<1>4. /\ i \in Nat /\ remainder_count \in Int
      /\ Cardinality(given) = i /\ remainder_count <= Cardinality(Leftover)
      /\ IsFiniteSet(Leftover) /\ IsFiniteSet(Centroid) /\ Leftover \subseteq Centroid
      /\ Cardinality(Leftover) \in Nat /\ Cardinality(Leftover) <= k /\ k \in Nat
  <2>1. IsFiniteSet(Centroid) /\ Cardinality(Centroid) = k /\ k \in Nat /\ i \in Nat
    BY <1>1, Centroids DEF IType
  <2>2. total \in Nat \ {0} /\ sum_remainders \in Nat
    BY <1>1, <1>2, Words DEF IType, ITotal, Divided
  <2>3. Leftover \in SUBSET Centroid
    BY DEF Leftover
  <2>4. IsFiniteSet(Leftover) /\ Cardinality(Leftover) <= k
        /\ Cardinality(Leftover) \in Nat
    BY <2>1, <2>3, FS_Subset, FS_CardinalityType
  <2>5. remainder_count \in Nat
    BY <2>2, Division DEF remainder_count
  <2>. QED
    BY <1>1, <1>2, <2>1, <2>3, <2>4, <2>5 DEF IExtra
<1>5. range_full = {}
  BY <1>1, <1>2, <1>4 DEF IExtra
<1>6. given \subseteq Leftover /\ \A d \in Centroid : Quoted(d)
  BY <1>1, <1>2 DEF IShare, Shared
<1>7. PICK d \in Leftover : d \notin given
  <2>. SUFFICES ASSUME Leftover \subseteq given PROVE FALSE
    OBVIOUS
  <2>1. Leftover = given
    BY <1>6
  <2>. QED
    BY <1>2, <1>4, <2>1
<1>8. total \in Nat \ {0} /\ total \in 1 .. MaxTotal /\ total = SumOf(mass, Centroid)
  BY <1>1, <1>2, Words DEF ITotal, Divided
<1>9. c \in Centroid /\ c \notin given /\ remainders[c] \in Nat /\ c \in Leftover
  <2>1. c \in Centroid /\ c \notin given /\ remainders[c] \in Nat /\ remainders[d] \in Nat
    BY <1>1, <1>3, <1>4, <1>7 DEF Fractional, IType
  <2>2. mass[d] # 0 /\ d \in Centroid
    <3>1. d \in Centroid /\ remainders[d] > 0
      BY <1>7 DEF Leftover
    <3>2. remainders[d] = Rest(d)
      BY <1>5, <1>6, <3>1 DEF Quoted
    <3>3. mass[d] = 0 => Rest(d) = 0
      BY <1>1, <1>8, <3>1, Quotas
    <3>. QED
      BY <3>1, <3>2, <3>3
  <2>3. d \in Fractional \ given
    BY <1>5, <1>7, <2>2 DEF Fractional
  <2>4. Before(c, d)
    BY <1>3, <2>3
  <2>5. remainders[c] >= remainders[d]
    BY <2>1, <2>4 DEF Before
  <2>. QED
    BY <1>7, <2>1, <2>5 DEF Leftover
<1>10. /\ range_size[c] \in Nat /\ range_size[c] + 1 < Modulus
       /\ range_size[c] = Quota(c) /\ Quota(c) \in Nat
  <2>1. range_size[c] = Quota(c) /\ Quota(c) \in Nat
        /\ (space = Modulus => mass[c] < total)
    <3>1. range_size[c] = Quota(c) + 0 /\ Quota(c) \in Nat
          /\ (space = Modulus => mass[c] < total)
      BY <1>1, <1>5, <1>6, <1>8, <1>9, Quotas DEF Quoted
    <3>. QED
      BY <3>1
  <2>2. CASE space = Modulus
    <3>1. mass[c] <= total
      BY <1>1, <1>4, <1>8, <1>9, Centroids, SumPair
    <3>2. Quota(c) + 1 < Modulus
      BY <1>1, <1>8, <1>9, <2>1, <2>2, <3>1, QuotaFits
    <3>. QED
      BY <2>1, <3>2
  <2>3. CASE space # Modulus
    <3>1. \A b \in Centroid : range_size[b] \in Nat
      BY <1>1, Words DEF IType
    <3>2. range_size[c] <= SumOf(range_size, Centroid)
      BY <1>4, <1>9, <3>1, SumPair
    <3>3. SumOf(range_size, Centroid) \in Nat
      BY <1>4, <3>1, SumNat
    <3>4. SumOf(range_size, Centroid) + remainder_count = space + i
      BY <1>1, <1>2, <1>5 DEF IExtra
    <3>5. space \in Nat /\ space < Modulus /\ Modulus \in Nat
      BY <1>1, <2>3, Centroids, Words
    <3>. QED
      BY <1>2, <1>4, <2>1, <3>2, <3>3, <3>4, <3>5
  <2>. QED
    BY <2>2, <2>3
<1>11. /\ range_size'[c] = range_size[c] + 1
       /\ range_size' \in [Centroid -> 0 .. Modulus - 1]
       /\ \A b \in Centroid : b # c => range_size'[b] = range_size[b]
  <2>1. Add(range_size[c], 1) = range_size[c] + 1
        /\ range_size[c] + 1 \in 0 .. Modulus - 1
    BY <1>10, Words DEF Add
  <2>. QED
    BY <1>1, <1>3, <1>9, <2>1 DEF IType
<1>12. IType'
  <2>1. i' \in 0 .. k
    BY <1>2, <1>4
  <2>. QED
    BY <1>1, <1>2, <1>3, <1>9, <1>11, <2>1 DEF IType
<1>13. IOrder' /\ ITotal' /\ IQuota' /\ IPlace'
  BY <1>1, <1>2 DEF IOrder, ITotal, IQuota, IPlace, Divided
<1>14. IShare'
  <2>1. ASSUME NEW b \in Centroid PROVE Quoted(b)'
    <3>1. Quoted(b)
      BY <1>6
    <3>2. CASE b = c
      BY <1>2, <1>3, <1>5, <1>10, <1>11, <3>1, <3>2 DEF Quoted, Quota, Rest
    <3>3. CASE b # c
      BY <1>2, <1>3, <1>11, <3>1, <3>3 DEF Quoted, Quota, Rest
    <3>. QED
      BY <3>2, <3>3
  <2>2. Leftover' = Leftover /\ Fractional' = Fractional
    BY <1>2 DEF Leftover, Fractional
  <2>3. \A a \in given', b \in Fractional \ given' : Before(a, b)
    BY <1>1, <1>2, <1>3 DEF IShare, Shared
  <2>4. \A a \in given', b \in (Fractional \ given)' : Before(a, b)'
    BY <1>2, <2>2, <2>3 DEF Before
  <2>. QED
    BY <1>2, <1>3, <1>6, <1>9, <2>1, <2>2, <2>4 DEF IShare
<1>15. IExtra'
  <2>1. remainder_count' = remainder_count /\ Leftover' = Leftover
    BY <1>2 DEF remainder_count, Leftover
  <2>2. Cardinality(given') = i + 1
    <3>1. IsFiniteSet(given)
      BY <1>4, <1>6, FS_Subset
    <3>. QED
      BY <1>3, <1>4, <1>9, <3>1, FS_AddElement
  <2>3. SumOf(range_size', Centroid) + remainder_count = space + (i + 1)
    <3>1. PICK g : g = range_size'
      OBVIOUS
    <3>2. /\ \A b \in Centroid : range_size[b] \in Nat /\ g[b] \in Nat
          /\ \A b \in Centroid \ {c} : g[b] = range_size[b]
      BY <1>1, <1>11, <3>1, Words DEF IType
    <3>3. SumOf(g, Centroid) + range_size[c] = SumOf(range_size, Centroid) + g[c]
      BY <1>4, <1>9, <3>2, SumUpdate
    <3>4. SumOf(g, Centroid) \in Nat /\ SumOf(range_size, Centroid) \in Nat
      BY <1>4, <3>2, SumNat
    <3>5. SumOf(range_size, Centroid) + remainder_count = space + i
      BY <1>1, <1>2, <1>5 DEF IExtra
    <3>6. SumOf(g, Centroid) = SumOf(range_size, Centroid) + 1
      BY <1>10, <1>11, <3>1, <3>3, <3>4
    <3>7. space \in Nat
      BY <1>1, Centroids
    <3>. QED
      BY <1>4, <3>1, <3>4, <3>5, <3>6, <3>7
  <2>. QED
    BY <1>2, <1>4, <1>5, <2>1, <2>2, <2>3 DEF IExtra
<1>. QED
  BY <1>2, <1>12, <1>13, <1>14, <1>15 DEF IInv

\* When the values are given out, or the centroids are, the sizes fill the space.
LEMMA GivenIInv == ASSUME IInv, Given PROVE IInv' /\ pc' # "failed"
<1>1. IType /\ IOrder /\ ITotal /\ IQuota /\ IShare /\ IExtra /\ IPlace
  BY DEF IInv
<1>2. /\ UNCHANGED <<k, mass, order, space, total, remainders, sum_remainders, given,
                     range_size, range_start, range_full, cursor>>
      /\ Centroid' = Centroid /\ pc = "extra" /\ pc' = "place" /\ i' = 0
      /\ i >= remainder_count \/ given = Fractional
  BY DEF Given, input, table, Centroid
<1>3. range_full = {} => SumOf(range_size, Centroid) = space
  <2>. SUFFICES ASSUME range_full = {} PROVE SumOf(range_size, Centroid) = space
    OBVIOUS
  <2>1. /\ SumOf(range_size, Centroid) + remainder_count = space + i
        /\ i <= remainder_count /\ remainder_count <= Cardinality(Leftover)
        /\ Cardinality(given) = i
    BY <1>1, <1>2 DEF IExtra
  <2>2. total \in Nat \ {0} /\ sum_remainders \in Nat
    BY <1>1, <1>2, Words DEF IType, ITotal, Divided
  <2>3. remainder_count \in Nat /\ i \in Nat
    <3>1. remainder_count \in Nat
      BY <2>2, Division DEF remainder_count
    <3>2. k \in Nat /\ i \in 0 .. k
      BY <1>1, Centroids DEF IType
    <3>. QED
      BY <3>1, <3>2
  <2>4. IsFiniteSet(Centroid) /\ \A c \in Centroid : range_size[c] \in Nat
    BY <1>1, Centroids, Words DEF IType
  <2>5. i = remainder_count
    <3>1. CASE i >= remainder_count
      BY <2>1, <2>3, <3>1
    <3>2. CASE given = Fractional
      <4>1. Leftover \subseteq Fractional
        <5>. SUFFICES ASSUME NEW c \in Leftover PROVE c \in Fractional
          OBVIOUS
        <5>1. c \in Centroid /\ remainders[c] > 0
          BY DEF Leftover
        <5>2. remainders[c] = Rest(c)
          BY <1>1, <1>2, <5>1 DEF IShare, Shared, Quoted
        <5>3. mass[c] = 0 => Rest(c) = 0
          BY <1>1, <2>2, <5>1, Quotas
        <5>. QED
          BY <5>1, <5>2, <5>3 DEF Fractional
      <4>2. given \in SUBSET Centroid /\ IsFiniteSet(given) /\ Leftover \in SUBSET given
        BY <1>1, <2>4, <3>2, <4>1, FS_Subset DEF IType
      <4>3. Cardinality(Leftover) <= Cardinality(given) /\ IsFiniteSet(Leftover)
        BY <4>2, FS_Subset
      <4>4. Cardinality(Leftover) \in Nat
        BY <4>3, FS_CardinalityType
      <4>. QED
        BY <2>1, <2>3, <4>3, <4>4
    <3>. QED
      BY <1>2, <3>1, <3>2
  <2>6. SumOf(range_size, Centroid) \in Nat /\ space \in Nat
    BY <1>1, <2>4, SumNat, Centroids
  <2>. QED
    BY <2>1, <2>3, <2>5, <2>6
<1>4. IType'
  BY <1>1, <1>2, Centroids DEF IType, Stage
<1>5. IOrder' /\ ITotal' /\ IQuota' /\ IExtra'
  BY <1>1, <1>2, <1>3 DEF IOrder, ITotal, IQuota, IExtra, Divided
<1>6. IShare'
  BY <1>1, <1>2 DEF IShare, Shared, Quoted, Quota, Rest, Leftover, Fractional, Before
<1>7. IPlace'
  <2>1. cursor = 0
    BY <1>1, <1>2 DEF IPlace
  <2>2. StartsAt(0) = 0
    <3>1. Placed(0) = {}
      BY DEF Placed
    <3>. QED
      BY <3>1, SumEmpty DEF StartsAt
  <2>3. 0 % Modulus = 0
    BY Words
  <2>. QED
    BY <1>2, <2>1, <2>2, <2>3 DEF IPlace, StartsAt, Placed
<1>. QED
  BY <1>2, <1>4, <1>5, <1>6, <1>7 DEF IInv

\* The cursor of both loops goes on behind the range it is at.
LEMMA CursorStep ==
  ASSUME IType, \A p \in Centroid : order[p] \in Centroid,
         \A p, q \in Centroid : order[p] = order[q] => p = q, i < k,
         cursor = StartsAt(i) % Modulus
  PROVE  /\ Add(cursor, range_size[order[i]]) = StartsAt(i + 1) % Modulus
         /\ Add(cursor, range_size[order[i]]) \in 0 .. Modulus - 1
         /\ i \in Centroid /\ i + 1 \in 0 .. k
<1>1. i \in Centroid /\ i + 1 \in 0 .. k /\ order[i] \in Centroid
  BY DEF IType, Centroid
<1>2. range_size[order[i]] \in Nat /\ Modulus \in Nat \ {0}
  <2>1. Modulus \in Nat \ {0}
    BY Words, RangeAssumption
  <2>2. range_size[order[i]] \in 0 .. Modulus - 1
    BY <1>1 DEF IType
  <2>. QED
    BY <2>1, <2>2
<1>3. StartsAt(i) \in Nat /\ StartsAt(i + 1) = StartsAt(i) + range_size[order[i]]
  BY <1>1, NextStart
<1>4. Add(cursor, range_size[order[i]]) = StartsAt(i + 1) % Modulus
  <2>1. PICK m \in Nat \ {0}, a \in Nat, b \in Nat :
          m = Modulus /\ a = StartsAt(i) /\ b = range_size[order[i]]
    BY <1>2, <1>3
  <2>2. ((a % m) + b) % m = (a + b) % m
    BY ModAdd
  <2>. QED
    BY <1>3, <2>1, <2>2 DEF Add
<1>5. StartsAt(i + 1) \in Nat
  BY <1>2, <1>3
<1>. QED
  BY <1>1, <1>2, <1>4, <1>5, Division

\* The loop of the starts.
LEMMA PlaceIInv == ASSUME IInv, Place PROVE IInv' /\ pc' # "failed"
<1>1. IType /\ IOrder /\ ITotal /\ IQuota /\ IShare /\ IExtra /\ IPlace
  BY DEF IInv
<1>2. /\ UNCHANGED <<k, mass, order, space, total, remainders, sum_remainders, given,
                     range_size, range_full>>
      /\ Centroid' = Centroid /\ pc = "place"
  BY DEF Place, input, Centroid
<1>3. /\ \A p \in Centroid : order[p] \in Centroid
      /\ \A p, q \in Centroid : order[p] = order[q] => p = q
      /\ cursor = StartsAt(i) % Modulus
      /\ \A p \in 0 .. i - 1 : range_start[order[p]] = StartsAt(p) % Modulus
  BY <1>1, <1>2 DEF IOrder, IPlace
<1>4. \A n : StartsAt(n)' = SumOf(range_size, Placed(n)) /\ Placed(n)' = Placed(n)
  BY <1>2 DEF StartsAt, Placed
<1>5. \A n : StartsAt(n)' = StartsAt(n)
  BY <1>4 DEF StartsAt
<1>6. CASE i < k
  <2>1. /\ range_start' = [range_start EXCEPT ![order[i]] = cursor]
        /\ cursor' = Add(cursor, range_size[order[i]]) /\ i' = i + 1 /\ pc' = "place"
    BY <1>2, <1>6 DEF Place
  <2>2. /\ cursor' = StartsAt(i + 1) % Modulus /\ cursor' \in 0 .. Modulus - 1
        /\ i \in Centroid /\ i' \in 0 .. k
    BY <1>1, <1>3, <1>6, <2>1, CursorStep
  <2>3. range_start' \in [Centroid -> 0 .. Modulus - 1]
    BY <1>1, <1>3, <2>1, <2>2 DEF IType
  <2>4. ASSUME NEW p \in 0 .. i PROVE range_start'[order[p]] = StartsAt(p) % Modulus
    <3>1. k \in Nat /\ i \in Nat /\ p \in Centroid
      BY <1>1, <1>6 DEF IType, Centroid
    <3>2. CASE p = i
      BY <1>1, <1>3, <2>1, <2>2, <3>2 DEF IType
    <3>3. CASE p # i
      <4>1. order[p] # order[i] /\ p \in 0 .. i - 1
        BY <1>3, <2>2, <3>1, <3>3
      <4>. QED
        BY <1>1, <1>3, <2>1, <3>1, <4>1 DEF IType
    <3>. QED
      BY <3>2, <3>3
  <2>5. IType'
    BY <1>1, <1>2, <2>1, <2>2, <2>3 DEF IType, Stage
  <2>6. IOrder' /\ ITotal' /\ IQuota' /\ IExtra'
    BY <1>1, <1>2, <2>1 DEF IOrder, ITotal, IQuota, IExtra, Divided
  <2>7. IShare'
    BY <1>1, <1>2 DEF IShare, Shared, Quoted, Quota, Rest, Leftover, Fractional, Before
  <2>8. IPlace'
    <3>1. i' - 1 = i
      BY <1>1, <2>1 DEF IType
    <3>2. \A p \in 0 .. i' - 1 : range_start'[order'[p]] = StartsAt(p)' % Modulus
      BY <1>2, <1>5, <2>4, <3>1
    <3>3. PICK n : n = i + 1
      OBVIOUS
    <3>4. cursor' = StartsAt(n)' % Modulus
      BY <1>5, <2>2, <3>3
    <3>5. StartsAt(i)' = StartsAt(n)'
      BY <2>1, <3>3 DEF StartsAt, Placed
    <3>. QED
      BY <2>1, <3>2, <3>4, <3>5 DEF IPlace
  <2>. QED
    BY <2>1, <2>5, <2>6, <2>7, <2>8 DEF IInv
<1>7. CASE ~(i < k)
  <2>1. UNCHANGED range_start /\ cursor' = 0 /\ i' = 0 /\ pc' = "validate" /\ i = k
    BY <1>1, <1>2, <1>7 DEF Place, IType
  <2>2. IType'
    BY <1>1, <1>2, <2>1, Centroids, Words DEF IType, Stage
  <2>3. IOrder' /\ ITotal' /\ IQuota' /\ IExtra'
    BY <1>1, <1>2, <2>1 DEF IOrder, ITotal, IQuota, IExtra, Divided
  <2>4. IShare'
    BY <1>1, <1>2, <2>1 DEF IShare, Shared, Quoted, Quota, Rest, Leftover, Fractional,
          Before
  <2>5. IPlace'
    <3>1. StartsAt(0) = 0
      <4>1. Placed(0) = {}
        BY DEF Placed
      <4>. QED
        BY <4>1, SumEmpty DEF StartsAt
    <3>2. 0 = StartsAt(0) % Modulus
      BY <3>1, Words
    <3>3. \A p \in Centroid : range_start[order[p]] = StartsAt(p) % Modulus
      BY <1>3, <2>1 DEF Centroid
    <3>4. cursor' = StartsAt(0)' % Modulus
      BY <1>5, <2>1, <3>2
    <3>5. \A p \in Centroid : range_start'[order'[p]] = StartsAt(p)' % Modulus
      BY <1>2, <1>5, <2>1, <3>3
    <3>6. StartsAt(i)' = StartsAt(0)'
      BY <2>1 DEF StartsAt, Placed
    <3>. QED
      BY <1>2, <2>1, <3>4, <3>5, <3>6 DEF IPlace
  <2>. QED
    BY <2>1, <2>2, <2>3, <2>4, <2>5 DEF IInv
<1>. QED
  BY <1>6, <1>7

\* Only one centroid can own all the mass.
LEMMA OneOwner ==
  ASSUME IType, total \in Nat \ {0}, total = SumOf(mass, Centroid),
         \A c \in Centroid : Quoted(c)
  PROVE  /\ \A c, d \in range_full : c = d
         /\ range_full # {} => space = Modulus
         /\ \A c \in range_full, d \in Centroid : d # c => mass[d] = 0
<1>1. IsFiniteSet(Centroid) /\ range_full \subseteq Centroid
      /\ \A c \in Centroid : mass[c] \in Nat
  BY Centroids DEF IType
<1>2. \A c \in range_full : mass[c] = total /\ space = Modulus
  BY <1>1 DEF Quoted
<1>3. ASSUME NEW c \in range_full, NEW d \in Centroid, d # c PROVE mass[d] = 0
  <2>1. mass[c] + mass[d] <= total /\ mass[c] = total /\ mass[d] \in Nat
    BY <1>1, <1>2, <1>3, SumPair
  <2>. QED
    BY <2>1
<1>. QED
  BY <1>1, <1>2, <1>3

\* validate_allocated_ranges finds every start where it looks for it, and the end
\* of the last range at the end of the space.
LEMMA ValidateIInv == ASSUME IInv, Validate PROVE IInv' /\ pc' # "failed"
<1>1. IType /\ IOrder /\ ITotal /\ IQuota /\ IShare /\ IExtra /\ IPlace
  BY DEF IInv
<1>2. /\ UNCHANGED <<k, mass, order, space, total, remainders, sum_remainders, given,
                     range_size, range_start, range_full>>
      /\ Centroid' = Centroid /\ pc = "validate"
  BY DEF Validate, input, table, Centroid
<1>3. /\ \A p \in Centroid : order[p] \in Centroid
      /\ \A p, q \in Centroid : order[p] = order[q] => p = q
      /\ cursor = StartsAt(i) % Modulus
      /\ \A p \in Centroid : range_start[order[p]] = StartsAt(p) % Modulus
  BY <1>1, <1>2 DEF IOrder, IPlace
<1>4. \A n : StartsAt(n)' = StartsAt(n)
  <2>1. \A n : StartsAt(n)' = SumOf(range_size, Placed(n)) /\ Placed(n)' = Placed(n)
    BY <1>2 DEF StartsAt, Placed
  <2>. QED
    BY <2>1 DEF StartsAt
<1>5. /\ pc' \in {"validate", "done"} /\ i' \in 0 .. k /\ cursor' \in 0 .. Modulus - 1
      /\ pc' = "validate" => cursor' = StartsAt(i') % Modulus
  <2>1. CASE i < k
    <3>1. /\ Add(cursor, range_size[order[i]]) = StartsAt(i + 1) % Modulus
          /\ Add(cursor, range_size[order[i]]) \in 0 .. Modulus - 1
          /\ i \in Centroid /\ i + 1 \in 0 .. k
      BY <1>1, <1>3, <2>1, CursorStep
    <3>2. range_start[order[i]] = cursor
      BY <1>3, <3>1
    <3>. QED
      BY <1>2, <2>1, <3>1, <3>2 DEF Validate
  <2>2. CASE ~(i < k)
    <3>1. /\ UNCHANGED <<i, cursor>> /\ i = k
          /\ pc' = IF \/ space < Modulus /\ cursor = space
                      \/ space = Modulus /\ Cardinality(range_full) <= 1
                   THEN "done" ELSE "failed"
      BY <1>1, <1>2, <2>2 DEF Validate, IType
    <3>2. total \in Nat \ {0} /\ total = SumOf(mass, Centroid)
          /\ \A c \in Centroid : Quoted(c)
      BY <1>1, <1>2, Words DEF ITotal, IShare, Divided, Shared
    <3>3. CASE space = Modulus
      <4>1. \A c, d \in range_full : c = d
        BY <1>1, <3>2, OneOwner
      <4>2. CASE range_full = {}
        <5>. QED
          BY <1>1, <3>1, <3>3, <4>2, FS_EmptySet DEF IType
      <4>3. CASE range_full # {}
        <5>1. PICK c : range_full = {c}
          BY <4>1, <4>3
        <5>2. Cardinality(range_full) = 1
          BY <5>1, FS_Singleton
        <5>. QED
          BY <1>1, <3>1, <3>3, <5>2 DEF IType
      <4>. QED
        BY <4>2, <4>3
    <3>4. CASE space # Modulus
      <4>1. range_full = {}
        BY <1>1, <3>2, <3>4, OneOwner
      <4>2. SumOf(range_size, Centroid) = space
        BY <1>1, <1>2, <4>1 DEF IExtra
      <4>3. StartsAt(k) = space
        BY <1>1, <1>3, <4>2, EveryCentroid DEF StartsAt
      <4>4. space \in Nat /\ space < Modulus /\ Modulus \in Nat
        BY <1>1, <3>4, Centroids, Words
      <4>5. cursor = space
        BY <1>3, <3>1, <4>3, <4>4
      <4>. QED
        BY <1>1, <3>1, <4>4, <4>5 DEF IType
    <3>. QED
      BY <3>3, <3>4
  <2>. QED
    BY <2>1, <2>2
<1>6. IType'
  BY <1>1, <1>2, <1>5 DEF IType, Stage
<1>7. IOrder' /\ ITotal' /\ IQuota' /\ IExtra'
  BY <1>1, <1>2, <1>5 DEF IOrder, ITotal, IQuota, IExtra, Divided
<1>8. IShare'
  BY <1>1, <1>2, <1>5 DEF IShare, Shared, Quoted, Quota, Rest, Leftover, Fractional,
        Before
<1>9. IPlace'
  <2>1. \A p \in Centroid : range_start'[order'[p]] = StartsAt(p)' % Modulus
    BY <1>2, <1>3, <1>4
  <2>2. PICK n : n = i'
    OBVIOUS
  <2>3. pc' = "validate" => cursor' = StartsAt(i)' % Modulus
    <3>1. StartsAt(i)' = StartsAt(n)'
      BY <2>2 DEF StartsAt, Placed
    <3>. QED
      BY <1>4, <1>5, <2>2, <3>1
  <2>. QED
    BY <1>2, <1>5, <2>1, <2>3 DEF IPlace
<1>. QED
  BY <1>5, <1>6, <1>7, <1>8, <1>9 DEF IInv

-----------------------------------------------------------------------------
(* The invariant of both specifications.                                   *)

\* The invariant holds before allocate_ranges, for any arguments.
LEMMA InitIInv == ASSUME Init PROVE IInv /\ pc = "order"
<1>1. /\ k \in 1 .. MaxCentroids /\ mass \in [Centroid -> Masses] /\ space \in Spaces
      /\ i = 0 /\ total = 0 /\ remainders = Zero /\ sum_remainders = 0 /\ given = {}
      /\ range_size = Zero /\ range_start = Zero /\ range_full = {} /\ cursor = 0
      /\ pc = "order"
  BY DEF Init
<1>2. 0 \in 0 .. Modulus - 1 /\ 0 \in 0 .. k
  BY <1>1, Words, RangeAssumption
<1>3. IType
  BY <1>1, <1>2 DEF IType, Zero, Stage
<1>4. IOrder /\ ITotal /\ IShare /\ IExtra /\ IPlace
  BY <1>1 DEF IOrder, ITotal, IShare, IExtra, IPlace, Divided, Shared
<1>5. IQuota
  <2>1. \A c \in Centroid : Blank(c)
    BY <1>1 DEF Blank, Zero
  <2>2. SumOf(remainders, Centroid) = 0
    <3>1. IsFiniteSet(Centroid) /\ \A c \in Centroid : remainders[c] = 0
      BY <1>1, <1>3, Centroids DEF Zero
    <3>2. SumOf(remainders, Centroid)
            <= 0 * Cardinality({c \in Centroid : remainders[c] > 0})
      BY <3>1, SumBound
    <3>3. SumOf(remainders, Centroid) \in Nat
      BY <3>1, SumNat
    <3>4. Cardinality({c \in Centroid : remainders[c] > 0}) \in Nat
      BY <3>1, FS_Subset, FS_CardinalityType
    <3>. QED
      BY <3>2, <3>3, <3>4
  <2>. QED
    BY <1>1, <2>1, <2>2 DEF IQuota
<1>. QED
  BY <1>1, <1>3, <1>4, <1>5 DEF IInv

\* Every step keeps the invariant, and none of them throws from the validation.
LEMMA NextIInv ==
  ASSUME IInv, [Next]_vars
  PROVE  IInv' /\ (pc' = "failed" => pc = "failed") /\ UNCHANGED input
<1>1. CASE CheckOrder
  BY <1>1, CheckOrderIInv DEF CheckOrder
<1>2. CASE AddMass
  BY <1>2, AddMassIInv DEF AddMass
<1>3. CASE SetQuota
  BY <1>3, SetQuotaIInv DEF SetQuota
<1>4. CASE QuotasSet
  BY <1>4, QuotasSetIInv DEF QuotasSet
<1>5. CASE GiveOne
  BY <1>5, GiveOneIInv DEF GiveOne
<1>6. CASE Given
  BY <1>6, GivenIInv DEF Given
<1>7. CASE Place
  BY <1>7, PlaceIInv DEF Place
<1>8. CASE Validate
  BY <1>8, ValidateIInv DEF Validate
<1>9. CASE UNCHANGED vars
  <2>1. UNCHANGED <<k, mass, order, space, i, total, remainders, sum_remainders, given,
                    range_size, range_start, range_full, cursor, pc>>
        /\ Centroid' = Centroid /\ UNCHANGED input
    BY <1>9 DEF vars, input, table, Centroid
  <2>2. IType' /\ IOrder' /\ ITotal' /\ IQuota' /\ IExtra'
    BY <2>1 DEF IInv, IType, IOrder, ITotal, IQuota, IExtra, Blank, Quoted, Quota, Rest,
                remainder_count, Leftover
  <2>3. IShare'
    BY <2>1 DEF IInv, IShare, Quoted, Quota, Rest, Leftover, Fractional, Before
  <2>4. IPlace'
    <3>1. StartsAt(i)' = StartsAt(i)
      BY <2>1 DEF StartsAt, Placed
    <3>2. \A n : StartsAt(n)' = StartsAt(n)
      <4>1. \A n : StartsAt(n)' = SumOf(range_size, Placed(n)) /\ Placed(n)' = Placed(n)
        BY <2>1 DEF StartsAt, Placed
      <4>. QED
        BY <4>1 DEF StartsAt
    <3>. QED
      BY <2>1, <3>1, <3>2 DEF IInv, IPlace
  <2>. QED
    BY <2>1, <2>2, <2>3, <2>4 DEF IInv
<1>. QED
  BY <1>1, <1>2, <1>3, <1>4, <1>5, <1>6, <1>7, <1>8, <1>9 DEF Next, Ended

\* The invariant holds of allocate_ranges for every order it is called with.
THEOREM RangesInvariant == Spec => [](IInv /\ pc # "failed")
<1>1. Init => IInv /\ pc # "failed"
  BY InitIInv
<1>2. IInv /\ pc # "failed" /\ [Next]_vars => (IInv /\ pc # "failed")'
  BY NextIInv
<1>. QED
  BY <1>1, <1>2, PTL DEF Spec

\* For every order handed over, and all masses, the validation at the end of
\* allocate_ranges finds nothing: the ranges are contiguous and cover the space.
THEOREM ValidationNeverFails == Spec => []ValidationPasses
<1>. DEFINE IGiven == order \in [Centroid -> 0 .. k]
<1>1. Init => IGiven
  BY DEF Init, Centroid
<1>2. IInv /\ IGiven /\ [Next]_vars => IGiven'
  BY NextIInv DEF input, Centroid
<1>3. IInv /\ pc # "failed" /\ IGiven => ValidationPasses
  BY DEF IInv, IType, ValidationPasses, TypeOK
<1>. QED
  BY <1>1, <1>2, <1>3, RangesInvariant, PTL DEF Spec

\* No range is touched until the order is there.
IBefore == step \notin {"used", "precomputed"} => pc = "order"

\* compute_centroid_order takes no step when its order is in use.
LEMMA OrderNextEnds == OrderNext => step \notin {"used", "precomputed"}
  BY DEF OrderNext, AddAffinity, GraphBuilt, FindNeighbours, AddGraphEdges, GrowTree,
         HeapEmpty, Attach, StartWalk, Visit, Walked, Refine, Refined, Cut

\* The invariant holds of a training, whether its order is handed over or
\* computed.
THEOREM TrainingInvariant == TrainingSpec => [](IInv /\ IBefore)
<1>1. TrainingInit => IInv /\ IBefore
  BY InitIInv DEF TrainingInit, IBefore
<1>2. ASSUME IInv, IBefore, [TrainingNext]_trainingVars PROVE IInv' /\ IBefore'
  <2>1. CASE Compute
    <3>1. [Next]_vars /\ pc' = pc
      BY <2>1 DEF Compute, vars
    <3>2. pc = "order"
      BY <1>2, <2>1, OrderNextEnds DEF Compute, IBefore
    <3>. QED
      BY <1>2, <3>1, <3>2, NextIInv DEF IBefore
  <2>2. CASE UseOrder
    <3>1. /\ pc = "order" /\ pc' \in {"order", "failed"} /\ step' = "used"
          /\ UNCHANGED <<k, mass, space, i, total, remainders, sum_remainders, given,
                         range_size, range_start, range_full, cursor>>
          /\ Centroid' = Centroid
      BY <1>2, <2>2 DEF UseOrder, IBefore, Centroid
    <3>2. IType' /\ IOrder' /\ ITotal' /\ IQuota'
      BY <1>2, <3>1 DEF IInv, IType, IOrder, ITotal, IQuota, Blank, Divided, Stage
    <3>3. IShare' /\ IExtra' /\ IPlace'
      BY <1>2, <3>1 DEF IInv, IShare, IExtra, IPlace, Shared
    <3>. QED
      BY <3>1, <3>2, <3>3 DEF IInv, IBefore
  <2>3. CASE Allocate
    BY <1>2, <2>3, NextIInv DEF Allocate, IBefore, orderVars
  <2>4. CASE UNCHANGED trainingVars
    BY <1>2, <2>4, NextIInv DEF trainingVars, vars, orderVars, IBefore
  <2>. QED
    BY <1>2, <2>1, <2>2, <2>3, <2>4 DEF TrainingNext
<1>. QED
  BY <1>1, <1>2, PTL DEF TrainingSpec

-----------------------------------------------------------------------------
(* What the ranges that were allocated are worth.                          *)

\* The end of allocate_ranges, in the words of the sums.
LEMMA AtTheEnd ==
  ASSUME IInv, pc = "done"
  PROVE  /\ IType /\ total \in Nat \ {0} /\ total \in 1 .. MaxTotal
         /\ total = SumOf(mass, Centroid)
         /\ \A p \in Centroid : order[p] \in Centroid
         /\ \A p, q \in Centroid : order[p] = order[q] => p = q
         /\ \A c \in Centroid : Quoted(c)
         /\ given \subseteq Leftover
         /\ \A c \in given, d \in Fractional \ given : Before(c, d)
         /\ range_full = {} => SumOf(range_size, Centroid) = space
         /\ \A p \in Centroid : range_start[order[p]] = StartsAt(p) % Modulus
<1>1. IType /\ IOrder /\ ITotal /\ IShare /\ IExtra /\ IPlace
  BY DEF IInv
<1>2. total \in Nat \ {0}
  BY <1>1, Words DEF ITotal, Divided
<1>. QED
  BY <1>1, <1>2 DEF IOrder, ITotal, IShare, IExtra, IPlace, Divided, Shared

\* Next to a centroid that owns the whole space the others have nothing.
LEMMA WholeSpace ==
  ASSUME IInv, pc = "done", NEW f \in range_full
  PROVE  /\ space = Modulus /\ mass[f] = total /\ f \in Centroid
         /\ \A c \in Centroid : range_size[c] = 0
         /\ \A c \in Centroid : c # f => mass[c] = 0 /\ c \notin range_full
<1>1. /\ IType /\ total \in Nat \ {0} /\ total = SumOf(mass, Centroid)
      /\ \A c \in Centroid : Quoted(c)
      /\ given \subseteq Leftover
  BY AtTheEnd
<1>2. /\ \A c, d \in range_full : c = d
      /\ space = Modulus
      /\ \A d \in Centroid : d # f => mass[d] = 0
  BY <1>1, OneOwner
<1>3. f \in Centroid /\ mass[f] = total
  BY <1>1 DEF IType, Quoted
<1>4. ASSUME NEW c \in Centroid PROVE range_size[c] = 0
  <2>1. CASE c \in range_full
    BY <1>1, <2>1 DEF Quoted
  <2>2. CASE c \notin range_full
    <3>1. mass[c] = 0
      BY <1>2, <2>2
    <3>2. Quota(c) = 0 /\ Rest(c) = 0
      BY <1>1, <3>1, Quotas
    <3>3. c \notin given
      BY <1>1, <2>2, <3>2 DEF Quoted, Leftover
    <3>. QED
      BY <1>1, <2>2, <3>2, <3>3 DEF Quoted
  <2>. QED
    BY <2>1, <2>2
<1>. QED
  BY <1>2, <1>3, <1>4

\* The shares are fair because a value left over goes only to a remainder, and to
\* the larger one first.
LEMMA SharesAreFairAtTheEnd == ASSUME IInv PROVE SharesAreFair
<1>. SUFFICES ASSUME pc = "done", NEW c \in Centroid
              PROVE  /\ Width(c) * total > mass[c] * space - total
                     /\ Width(c) * total < mass[c] * space + total
                     /\ \A d \in Centroid : mass[c] > mass[d] => Width(c) >= Width(d)
  BY DEF SharesAreFair
<1>1. /\ IType /\ total \in Nat \ {0} /\ total = SumOf(mass, Centroid)
      /\ \A d \in Centroid : Quoted(d)
      /\ given \subseteq Leftover
      /\ \A d \in given, e \in Fractional \ given : Before(d, e)
  BY AtTheEnd
<1>2. /\ space \in Nat \ {0} /\ \A d \in Centroid : mass[d] \in Nat
      /\ IsFiniteSet(Centroid)
      /\ \A d \in Centroid : range_size[d] \in Nat
  BY <1>1, Centroids, Words DEF IType
<1>3. ASSUME NEW d \in Centroid, d \notin range_full
      PROVE  \E q \in Nat, r \in Nat, g \in {0, 1} :
               /\ mass[d] * space = total * q + r /\ r < total
               /\ range_size[d] = q + g /\ remainders[d] = r
               /\ g = 1 <=> d \in given
               /\ g = 1 => r > 0
  <2>1. /\ Quota(d) \in Nat /\ Rest(d) \in 0 .. total - 1
        /\ mass[d] * space = total * Quota(d) + Rest(d)
    BY <1>1, Quotas
  <2>2. /\ range_size[d] = Quota(d) + (IF d \in given THEN 1 ELSE 0)
        /\ remainders[d] = Rest(d)
        /\ d \in given => remainders[d] > 0
    BY <1>1, <1>3 DEF Quoted, Leftover
  <2>3. CASE d \in given
    BY <1>1, <2>1, <2>2, <2>3
  <2>4. CASE d \notin given
    BY <1>1, <2>1, <2>2, <2>4
  <2>. QED
    BY <2>3, <2>4
<1>4. PICK t \in Nat \ {0}, s \in Nat \ {0}, m \in Nat : t = total /\ s = space
      /\ m = mass[c]
  BY <1>1, <1>2
<1>5. CASE c \in range_full
  <2>1. /\ mass[c] = total
        /\ \A d \in Centroid : range_size[d] = 0
        /\ \A d \in Centroid : d # c => mass[d] = 0 /\ d \notin range_full
    BY <1>5, WholeSpace
  <2>2. s * t > m * s - t /\ s * t < m * s + t /\ m = t
    <3>1. m = t
      BY <1>4, <2>1
    <3>2. PICK z \in Int : z = s * t /\ z = m * s
      BY <3>1
    <3>. QED
      BY <3>1, <3>2
  <2>3. Width(c) = s
    BY <1>4, <1>5 DEF Width
  <2>4. ASSUME NEW d \in Centroid, mass[c] > mass[d] PROVE Width(c) >= Width(d)
    <3>1. d # c
      BY <1>2, <2>4
    <3>2. Width(d) = 0
      BY <2>1, <3>1 DEF Width
    <3>. QED
      BY <2>3, <3>2
  <2>. QED
    BY <1>4, <2>2, <2>3, <2>4
<1>6. CASE c \notin range_full
  <2>1. PICK q \in Nat, r \in Nat, g \in {0, 1} :
          /\ mass[c] * space = total * q + r /\ r < total
          /\ range_size[c] = q + g /\ remainders[c] = r
          /\ g = 1 <=> c \in given
          /\ g = 1 => r > 0
    BY <1>3, <1>6
  <2>2. Width(c) = q + g
    BY <1>6, <2>1 DEF Width
  <2>3. (q + g) * t > m * s - t /\ (q + g) * t < m * s + t
    <3>1. m * s = t * q + r /\ r < t
      BY <1>4, <2>1
    <3>2. PICK z \in Int : z = t * q
      OBVIOUS
    <3>3. (q + g) * t = z + g * t
      BY <3>2
    <3>4. g * t = IF g = 1 THEN t ELSE 0
      OBVIOUS
    <3>. QED
      BY <2>1, <3>1, <3>2, <3>3, <3>4
  <2>4. ASSUME NEW d \in Centroid, mass[c] > mass[d] PROVE Width(c) >= Width(d)
    <3>1. CASE d \in range_full
      <4>1. mass[d] = total /\ mass[c] <= total
        BY <1>1, <1>2, <3>1, WholeSpace, SumPair
      <4>. QED
        BY <1>1, <1>2, <2>4, <4>1
    <3>2. CASE d \notin range_full
      <4>1. PICK u \in Nat, v \in Nat, h \in {0, 1} :
              /\ mass[d] * space = total * u + v /\ v < total
              /\ range_size[d] = u + h /\ remainders[d] = v
              /\ h = 1 <=> d \in given
              /\ h = 1 => v > 0
        BY <1>3, <3>2
      <4>2. PICK n \in Nat : n = mass[d]
        BY <1>2
      <4>3. /\ m * s = t * q + r /\ r < t /\ n * s = t * u + v /\ v < t /\ m > n
        BY <1>4, <2>1, <2>4, <4>1, <4>2
      <4>4. m * s >= n * s + s
        <5>1. m * s >= (n + 1) * s
          BY <4>3
        <5>2. (n + 1) * s = n * s + s
          OBVIOUS
        <5>. QED
          BY <5>1, <5>2
      <4>5. u <= q
        <5>. SUFFICES ASSUME u >= q + 1 PROVE FALSE
          OBVIOUS
        <5>1. t * u >= t * (q + 1) /\ t * (q + 1) = t * q + t
          OBVIOUS
        <5>2. PICK x \in Int, y \in Int, z \in Int, w \in Int :
                x = m * s /\ y = n * s /\ z = t * q /\ w = t * u
          OBVIOUS
        <5>. QED
          BY <4>3, <4>4, <5>1, <5>2
      <4>6. u = q => r > v
        <5>. SUFFICES ASSUME u = q PROVE r > v
          OBVIOUS
        <5>1. PICK x \in Int, y \in Int, z \in Int : x = m * s /\ y = n * s /\ z = t * q
          OBVIOUS
        <5>. QED
          BY <4>3, <4>4, <5>1
      <4>7. CASE u = q /\ h = 1
        <5>1. c \in given
          <6>. SUFFICES ASSUME c \notin given PROVE FALSE
            OBVIOUS
          <6>1. c \in Fractional \ given
            BY <1>2, <1>6, <2>4 DEF Fractional
          <6>2. Before(d, c)
            BY <1>1, <4>1, <4>7, <6>1
          <6>. QED
            BY <2>1, <4>1, <4>6, <4>7, <6>2 DEF Before
        <5>. QED
          BY <2>1, <2>2, <3>2, <4>1, <4>7, <5>1 DEF Width
      <4>8. CASE ~(u = q /\ h = 1)
        <5>1. q + g >= u + h
          BY <4>5, <4>8
        <5>. QED
          BY <2>2, <3>2, <4>1, <5>1 DEF Width
      <4>. QED
        BY <4>7, <4>8
    <3>. QED
      BY <3>1, <3>2
  <2>. QED
    BY <1>4, <2>2, <2>3, <2>4
<1>. QED
  BY <1>5, <1>6

\* The range of an active centroid lies in the space, behind those before it.
LEMMA RangesInOrder ==
  ASSUME IInv, pc = "done", range_full = {}, NEW p \in Centroid
  PROVE  /\ order[p] \in Centroid /\ range_size[order[p]] \in Nat
         /\ StartsAt(p) \in Nat /\ StartsAt(p) + range_size[order[p]] <= space
         /\ range_size[order[p]] # 0 => range_start[order[p]] = StartsAt(p)
         /\ \A r \in Centroid : p < r => StartsAt(p) + range_size[order[p]] <= StartsAt(r)
<1>1. /\ IType
      /\ \A n \in Centroid : order[n] \in Centroid
      /\ \A n, q \in Centroid : order[n] = order[q] => n = q
      /\ SumOf(range_size, Centroid) = space
      /\ range_start[order[p]] = StartsAt(p) % Modulus
  BY AtTheEnd
<1>2. /\ IsFiniteSet(Centroid) /\ space \in Nat \ {0} /\ space <= Modulus
      /\ Modulus \in Nat \ {0} /\ k \in Nat
      /\ \A c \in Centroid : range_size[c] \in Nat
  BY <1>1, Centroids, Words DEF IType
<1>3. /\ order[p] \in Centroid /\ range_size[order[p]] \in Nat
      /\ StartsAt(p) \in Nat /\ StartsAt(p + 1) = StartsAt(p) + range_size[order[p]]
  BY <1>1, <1>2, NextStart
<1>4. ASSUME NEW n \in 0 .. k PROVE Placed(n) \in SUBSET Centroid
  <2>1. \A q \in 0 .. n - 1 : q \in Centroid
    BY <1>2 DEF Centroid
  <2>. QED
    BY <1>1, <2>1 DEF Placed
<1>5. p + 1 \in 0 .. k
  BY <1>2 DEF Centroid
<1>6. StartsAt(p + 1) <= space
  BY <1>1, <1>2, <1>4, <1>5, SumPart DEF StartsAt
<1>7. ASSUME NEW r \in Centroid, p < r PROVE StartsAt(p + 1) <= StartsAt(r)
  <2>1. 0 .. (p + 1) - 1 \subseteq 0 .. r - 1 /\ r \in 0 .. k
    BY <1>2, <1>7 DEF Centroid
  <2>2. Placed(p + 1) \in SUBSET Placed(r) /\ Placed(r) \in SUBSET Centroid
    BY <1>4, <2>1 DEF Placed
  <2>3. IsFiniteSet(Placed(r)) /\ \A c \in Placed(r) : range_size[c] \in Nat
    BY <1>2, <2>2, FS_Subset
  <2>. QED
    BY <2>2, <2>3, SumPart DEF StartsAt
<1>8. range_size[order[p]] # 0 => StartsAt(p) < Modulus
  BY <1>2, <1>3, <1>6
<1>9. range_size[order[p]] # 0 => range_start[order[p]] = StartsAt(p)
  BY <1>1, <1>2, <1>3, <1>8, Below
<1>. QED
  BY <1>3, <1>6, <1>7, <1>9

\* No hash wraps around: it is the start of the range and the fraction of it.
LEMMA HashInRange ==
  ASSUME IInv, pc = "done", range_full = {}, NEW p \in Centroid, order[p] \in Active,
         NEW x \in Fraction
  PROVE  /\ Scaled(order[p], x) = (range_size[order[p]] * x) \div Word
         /\ Scaled(order[p], x) \in Nat /\ Scaled(order[p], x) < range_size[order[p]]
         /\ Hash(order[p], x) = StartsAt(p) + Scaled(order[p], x)
<1>1. /\ order[p] \in Centroid /\ range_size[order[p]] \in Nat
      /\ StartsAt(p) \in Nat /\ StartsAt(p) + range_size[order[p]] <= space
      /\ range_size[order[p]] # 0 => range_start[order[p]] = StartsAt(p)
  BY RangesInOrder
<1>2. range_size[order[p]] \in Nat \ {0} /\ range_start[order[p]] = StartsAt(p)
  BY <1>1 DEF Active
<1>3. Scaled(order[p], x) = (range_size[order[p]] * x) \div Word
  BY DEF Scaled
<1>4. Word \in Nat \ {0} /\ Modulus \in Nat \ {0} /\ space \in Nat \ {0}
      /\ space <= Modulus
  BY Words, RangeAssumption, AtTheEnd, Centroids
<1>5. Scaled(order[p], x) \in Nat /\ Scaled(order[p], x) < range_size[order[p]]
  BY <1>2, <1>3, <1>4, Fractions DEF Fraction
<1>6. PICK a \in Nat, b \in Nat, n \in Nat, s \in Nat \ {0}, m \in Nat \ {0} :
        /\ a = StartsAt(p) /\ b = Scaled(order[p], x) /\ n = range_size[order[p]]
        /\ s = space /\ m = Modulus
  BY <1>1, <1>4, <1>5
<1>7. a + b < s /\ a + b < m
  BY <1>1, <1>4, <1>5, <1>6
<1>8. (a + b) % m = a + b /\ (a + b) % s = a + b
  BY <1>7, Below
<1>. QED
  BY <1>2, <1>3, <1>5, <1>6, <1>8 DEF Hash, Add

\* The hashes of a range end before the next range; a centroid that owns a whole
\* space of 2^256 is the only active one.
LEMMA HashesFollowAtTheEnd == ASSUME IInv PROVE HashesFollowOrder
<1>. SUFFICES ASSUME pc = "done", NEW p \in Centroid, NEW r \in Centroid,
                     NEW x \in Fraction, NEW y \in Fraction,
                     order[p] \in Active, order[r] \in Active,
                     p < r \/ (p = r /\ x <= y)
              PROVE  /\ Hash(order[p], x) <= Hash(order[r], y)
                     /\ p < r => Hash(order[p], x) # Hash(order[r], y)
  BY DEF HashesFollowOrder
<1>1. Word \in Nat \ {0} /\ k \in Nat /\ p \in Nat /\ r \in Nat
  BY AtTheEnd, Centroids, RangeAssumption DEF Centroid
<1>2. CASE range_full = {}
  <2>1. /\ Scaled(order[p], x) = (range_size[order[p]] * x) \div Word
        /\ Scaled(order[p], x) \in Nat /\ Scaled(order[p], x) < range_size[order[p]]
        /\ Hash(order[p], x) = StartsAt(p) + Scaled(order[p], x)
    BY <1>2, HashInRange
  <2>2. /\ Scaled(order[r], y) = (range_size[order[r]] * y) \div Word
        /\ Scaled(order[r], y) \in Nat
        /\ Hash(order[r], y) = StartsAt(r) + Scaled(order[r], y)
    BY <1>2, HashInRange
  <2>3. /\ range_size[order[p]] \in Nat /\ StartsAt(p) \in Nat /\ StartsAt(r) \in Nat
        /\ p < r => StartsAt(p) + range_size[order[p]] <= StartsAt(r)
    BY <1>2, RangesInOrder
  <2>4. CASE p < r
    BY <2>1, <2>2, <2>3, <2>4
  <2>5. CASE p = r /\ x <= y
    <3>1. range_size[order[p]] \in Nat \ {0}
      BY <2>1, <2>3
    <3>2. Scaled(order[p], x) <= Scaled(order[r], y)
      BY <1>1, <2>1, <2>2, <2>5, <3>1, Fractions DEF Fraction
    <3>. QED
      BY <1>1, <2>1, <2>2, <2>3, <2>5, <3>2
  <2>. QED
    BY <2>4, <2>5
<1>3. CASE range_full # {}
  <2>1. PICK f : f \in range_full
    BY <1>3
  <2>2. /\ space = Modulus /\ f \in Centroid
        /\ \A c \in Centroid : range_size[c] = 0
        /\ \A c \in Centroid : c # f => c \notin range_full
    BY <2>1, WholeSpace
  <2>3. order[p] = f /\ order[r] = f
    BY <2>2 DEF Active
  <2>4. p = r /\ x <= y
    BY <1>1, <2>3, AtTheEnd
  <2>5. range_start[f] = 0
    <3>1. /\ IType /\ IsFiniteSet(Centroid)
          /\ \A n \in Centroid : order[n] \in Centroid
          /\ range_start[f] = StartsAt(p) % Modulus
      BY <2>3, AtTheEnd, Centroids
    <3>2. IsFiniteSet(Placed(p)) /\ \A c \in Placed(p) : range_size[c] = 0
      <4>1. \A n \in 0 .. p - 1 : n \in Centroid
        BY <1>1 DEF Centroid
      <4>2. Placed(p) \in SUBSET Centroid
        BY <3>1, <4>1 DEF Placed
      <4>. QED
        BY <2>2, <3>1, <4>2, FS_Subset
    <3>3. StartsAt(p) \in Nat
      BY <3>2, SumNat DEF StartsAt
    <3>4. StartsAt(p) <= 0 * Cardinality({c \in Placed(p) : range_size[c] > 0})
      BY <3>2, SumBound DEF StartsAt
    <3>5. Cardinality({c \in Placed(p) : range_size[c] > 0}) \in Nat
      BY <3>2, FS_Subset, FS_CardinalityType
    <3>6. StartsAt(p) = 0
      BY <3>3, <3>4, <3>5
    <3>. QED
      BY <3>1, <3>6, Words
  <2>6. ASSUME NEW z \in Fraction
        PROVE Hash(f, z) = z * Word * Word * Word /\ Hash(f, z) \in Nat
    <3>1. PICK w \in Nat \ {0} : w = Word
      BY <1>1
    <3>2. z \in 0 .. w - 1
      BY <3>1 DEF Fraction
    <3>3. z * w <= w * w - 1
      BY <3>2
    <3>4. z * w * w <= w * w * w - 1
      BY <3>2, <3>3
    <3>5. PICK n \in Nat, v \in Nat, u \in Nat : n = z * w * w /\ v = w * w * w
          /\ u = v * w
      BY <3>2
    <3>6. n <= v - 1 /\ n * w \in Nat
      BY <3>4, <3>5
    <3>7. n * w <= (v - 1) * w /\ (v - 1) * w = v * w - w
      BY <3>6
    <3>8. n * w < u /\ u \in Nat \ {0}
      BY <3>5, <3>6, <3>7
    <3>9. u = Modulus /\ n * w = z * Word * Word * Word
      BY <3>1, <3>5 DEF Modulus
    <3>10. (n * w) % u = n * w /\ 0 + n * w = n * w
      BY <3>6, <3>8, Below
    <3>11. Hash(f, z) = ((0 + n * w) % u) % u
      BY <2>1, <2>2, <2>5, <3>9 DEF Hash, Scaled, Add
    <3>. QED
      BY <3>6, <3>9, <3>10, <3>11
  <2>7. x * Word * Word * Word <= y * Word * Word * Word
    <3>1. PICK w \in Nat : w = Word
      BY <1>1
    <3>2. x \in Nat /\ y \in Nat
      BY <1>1 DEF Fraction
    <3>3. x * w <= y * w /\ x * w \in Nat /\ y * w \in Nat
      BY <2>4, <3>2
    <3>4. (x * w) * w <= (y * w) * w /\ (x * w) * w \in Nat /\ (y * w) * w \in Nat
      BY <3>3
    <3>5. ((x * w) * w) * w <= ((y * w) * w) * w
      BY <3>4
    <3>. QED
      BY <3>1, <3>5
  <2>. QED
    BY <1>1, <2>3, <2>4, <2>6, <2>7
<1>. QED
  BY <1>2, <1>3

\* In a space of at most one word, the product of the size and the fraction has
\* its middle word where mul_q64 of a uint64_t looks for it.
LEMMA PathsAgreeAtTheEnd == ASSUME IInv PROVE PathsAgree
<1>. SUFFICES ASSUME pc = "done", space <= Word, NEW c \in Active, NEW q \in Fraction
              PROVE  Hash64(c, q) = Hash(c, q)
  BY DEF PathsAgree
<1>1. Word \in Nat /\ Word > 1 /\ Modulus \in Nat /\ Word < Modulus /\ space \in Nat \ {0}
  BY Words, RangeAssumption, AtTheEnd, Centroids
<1>2. range_full = {}
  <2>. SUFFICES ASSUME NEW f \in range_full PROVE FALSE
    OBVIOUS
  <2>. QED
    BY <1>1, WholeSpace
<1>3. PICK p \in Centroid : order[p] = c
  <2>1. c \in Centroid
    BY DEF Active
  <2>. QED
    BY <2>1, AtTheEnd, EveryCentroid
<1>4. /\ Scaled(c, q) = (range_size[c] * q) \div Word
      /\ Scaled(c, q) \in Nat /\ Scaled(c, q) < range_size[c]
      /\ Hash(c, q) = StartsAt(p) + Scaled(c, q)
  BY <1>2, <1>3, HashInRange
<1>5. /\ range_size[c] \in Nat /\ StartsAt(p) \in Nat
      /\ StartsAt(p) + range_size[c] <= space /\ range_start[c] = StartsAt(p)
  <2>1. range_size[c] \in Nat
    BY <1>2, <1>3, RangesInOrder
  <2>2. range_size[c] # 0
    BY <1>4, <2>1
  <2>. QED
    BY <1>2, <1>3, <2>2, RangesInOrder
<1>6. PICK w \in Nat, n \in Nat, a \in Nat, b \in Nat, s \in Nat \ {0} :
        /\ w = Word /\ n = range_size[c] /\ a = StartsAt(p) /\ b = Scaled(c, q)
              /\ s = space
  BY <1>1, <1>4, <1>5
<1>7. /\ w > 1 /\ q \in 0 .. w - 1 /\ b = (n * q) \div w /\ b < n
      /\ a + n <= s /\ s <= w /\ range_start[c] = a
  BY <1>1, <1>4, <1>5, <1>6 DEF Fraction
<1>8. Scaled64(c, q) = b
  <2>1. CASE n < w
    <3>1. n % w = n /\ n \div w = 0
      <4>1. n = w * 0 + n /\ n \in 0 .. w - 1 /\ w \in Nat \ {0}
        BY <1>7, <2>1
      <4>. QED
        BY <4>1, Quotient
    <3>2. Low(range_size[c]) = n /\ High(range_size[c]) = 0 % w
      BY <1>6, <3>1 DEF Low, High
    <3>3. 0 % w = 0 /\ 0 * q = 0 /\ b % w = b /\ b + 0 = b
      BY <1>7, <2>1, Below
    <3>4. Scaled64(c, q) = (b + (0 % w)) % w
      BY <1>6, <1>7, <3>2, <3>3 DEF Scaled64, Low
    <3>. QED
      BY <3>3, <3>4
  <2>2. CASE n = w
    <3>1. n % w = 0 /\ n \div w = 1 /\ 1 % w = 1
      <4>1. n = w * 1 + 0 /\ 0 \in 0 .. w - 1 /\ w \in Nat \ {0}
        BY <1>7, <2>2
      <4>. QED
        BY <1>7, <4>1, Quotient, Below
    <3>2. Low(range_size[c]) = 0 /\ High(range_size[c]) = 1
      BY <1>6, <3>1 DEF Low, High
    <3>3. b = q
      <4>1. n * q = w * q + 0 /\ 0 \in 0 .. w - 1 /\ w \in Nat \ {0} /\ q \in Nat
        BY <1>7, <2>2
      <4>. QED
        BY <1>7, <4>1, Quotient
    <3>4. (0 * q) \div w = 0
      <4>1. 0 * q = w * 0 + 0 /\ 0 \in 0 .. w - 1 /\ w \in Nat \ {0}
        BY <1>7
      <4>. QED
        BY <4>1, Quotient
    <3>5. q % w = q /\ 1 * q = q /\ 0 + q = q
      BY <1>7, Below
    <3>6. Scaled64(c, q) = ((0 * q) \div w + ((1 * q) % w)) % w
      BY <1>6, <3>2 DEF Scaled64, Low
    <3>. QED
      BY <3>3, <3>4, <3>5, <3>6
  <2>3. n < w \/ n = w
    BY <1>7
  <2>. QED
    BY <2>1, <2>2, <2>3
<1>9. a % w = a /\ (a + b) % w = a + b /\ (a + b) % s = a + b
  <2>1. a < w /\ a + b < w /\ a + b < s /\ w \in Nat \ {0} /\ a + b \in Nat
    BY <1>7
  <2>. QED
    BY <2>1, Below
<1>10. Hash64(c, q) = (((a % w) + b) % w) % s
  BY <1>6, <1>7, <1>8 DEF Hash64, Low
<1>. QED
  BY <1>4, <1>6, <1>9, <1>10

\* In every training, a range is the centroid's share of the space up to one value,
\* and a heavier centroid never gets a smaller range.
THEOREM FairShares == TrainingSpec => []SharesAreFair
  BY TrainingInvariant, SharesAreFairAtTheEnd, PTL

\* In every training, the order of the hashes is that of the centroids, and within
\* a centroid that of the fractions.
THEOREM HashesInOrder == TrainingSpec => []HashesFollowOrder
  BY TrainingInvariant, HashesFollowAtTheEnd, PTL

\* In every training of a space of at most 64 bits, hash_from_centroid_u64 computes
\* what hash_from_centroid does.
THEOREM BothPathsAgree == TrainingSpec => []PathsAgree
  BY TrainingInvariant, PathsAgreeAtTheEnd, PTL

-----------------------------------------------------------------------------
(* The invariant of compute_centroid_order.                                *)

\* There are k centroids, and more than none, at integer places.
IPoints ==
  /\ \E n \in Nat : Node = 0 .. n
  /\ points \in [Node -> Int \X Int]
  /\ step # "precomputed" => Node = Centroid

\* Every node that is in the tree, but for the first, hangs on one edge, from a
\* node nearer to the first.
ITree ==
  /\ \A e \in mst : e.a \in in_mst /\ e.b \in in_mst \ {0}
  /\ \A e, f \in mst : e.b = f.b => e = f
  /\ \A b \in in_mst \ {0} : \E e \in mst : e.b = b
  /\ \E depth \in [Node -> Nat] : \A e \in mst : depth[e.a] < depth[e.b]
  /\ step \in {"graph", "knn", "extra"} => in_mst = {} /\ mst = {}
  /\ step \in {"tree", "attach"} => 0 \in in_mst
  /\ step = "walk" => in_mst = Node

\* A node is on the stack or walked, once, as soon as the node it hangs on is
\* walked.
IWalk ==
  /\ step \in {"graph", "knn", "extra", "tree", "attach"} => stack = <<>> /\ cycle = <<>>
  /\ step = "walk" =>
       /\ Once(stack) /\ Once(cycle)
       /\ ToSet(stack) \cap ToSet(cycle) = {}
       /\ 0 \in ToSet(stack) \cup ToSet(cycle)
       /\ \A e \in mst : e.b \in ToSet(stack) \cup ToSet(cycle) <=> e.a \in ToSet(cycle)

\* The walk, as it is refined and cut, has every centroid once.
ICycle ==
  step \in {"refine", "cut", "ordered", "used"} => Once(cycle) /\ Len(cycle) = k

ICover == OrderTypeOK /\ IPoints /\ ITree /\ IWalk /\ ICycle

-----------------------------------------------------------------------------
(* The affinity and the cost of a pair of centroids.                       *)

\* A row has a largest count.
LEMMA Largest ==
  \A n \in Nat : \A f \in [0 .. n -> Nat] :
    \E m \in 0 .. n : \A d \in 0 .. n : f[m] >= f[d]
<1>. DEFINE T == {n \in Nat : \A f \in [0 .. n -> Nat] :
                    \E m \in 0 .. n : \A d \in 0 .. n : f[m] >= f[d]}
<1>1. 0 \in T
  <2>1. ASSUME NEW f \in [0 .. 0 -> Nat]
        PROVE  \E m \in 0 .. 0 : \A d \in 0 .. 0 : f[m] >= f[d]
    <3>1. 0 \in 0 .. 0 /\ f[0] \in Nat /\ \A d \in 0 .. 0 : d = 0
      OBVIOUS
    <3>. QED
      BY <3>1
  <2>. QED
    BY <2>1
<1>2. ASSUME NEW n \in T PROVE n + 1 \in T
  <2>1. ASSUME NEW f \in [0 .. n + 1 -> Nat]
        PROVE  \E m \in 0 .. n + 1 : \A d \in 0 .. n + 1 : f[m] >= f[d]
    <3>1. \A d \in 0 .. n : d \in 0 .. n + 1
      OBVIOUS
    <3>2. [d \in 0 .. n |-> f[d]] \in [0 .. n -> Nat]
      BY <3>1
    <3>3. PICK m \in 0 .. n : \A d \in 0 .. n : f[m] >= f[d]
      BY <3>2
    <3>4. n + 1 \in 0 .. n + 1 /\ \A d \in 0 .. n + 1 : d \in 0 .. n \/ d = n + 1
      OBVIOUS
    <3>5. f[m] \in Nat /\ f[n + 1] \in Nat
      BY <3>1, <3>4
    <3>6. CASE f[m] >= f[n + 1]
      BY <3>1, <3>3, <3>4, <3>6
    <3>7. CASE f[n + 1] >= f[m]
      <4>1. \A d \in 0 .. n : f[d] \in Nat
        BY <3>1
      <4>2. \A d \in 0 .. n : f[n + 1] >= f[d]
        BY <3>3, <3>5, <3>7, <4>1
      <4>3. f[n + 1] >= f[n + 1]
        BY <3>5
      <4>4. \A d \in 0 .. n + 1 : f[n + 1] >= f[d]
        BY <3>4, <4>2, <4>3
      <4>. QED
        BY <3>4, <4>4
    <3>. QED
      BY <3>5, <3>6, <3>7
  <2>2. n + 1 \in Nat
    OBVIOUS
  <2>. QED
    BY <2>1, <2>2
<1>3. T \in SUBSET Nat
  OBVIOUS
<1>4. T = Nat
  <2>. HIDE DEF T
  <2>. QED
    BY <1>1, <1>2, <1>3, NatSets
<1>. QED
  BY <1>4

\* A weight is at most 1.
LEMMA Affinity ==
  ASSUME OrderTypeOK, IPoints, NEW a \in Node, NEW b \in Node
  PROVE  row_affinity(a, b) \in 0 .. Scale
<1>. DEFINE row == rows[a]
            Top == CHOOSE c \in Node : \A d \in Node : row[c] >= row[d]
<1>1. row \in [Node -> Nat]
  BY DEF OrderTypeOK
<1>2. \E c \in Node : \A d \in Node : row[c] >= row[d]
  BY <1>1, Largest DEF IPoints
<1>3. Top \in Node /\ \A d \in Node : row[Top] >= row[d]
  BY <1>2
<1>4. row_affinity(a, b) = IF row[b] = 0 THEN 0 ELSE row[b] * (Scale \div row[Top])
  BY DEF row_affinity
<1>5. PICK r \in Nat, t \in Nat, s \in Nat : r = row[b] /\ t = row[Top] /\ s = Scale
  BY <1>1, <1>3, OrderAssumption
<1>6. r <= t
  BY <1>3, <1>5
<1>7. CASE r = 0
  BY <1>4, <1>5, <1>7
<1>8. CASE r # 0
  <2>1. t \in Nat \ {0}
    BY <1>6, <1>8
  <2>2. PICK q \in Nat, u \in 0 .. t - 1 : s = t * q + u /\ s \div t = q
    BY <2>1, Division
  <2>3. r * q <= t * q /\ r * q \in Nat /\ t * q \in Nat
    BY <1>6
  <2>4. r * q \in 0 .. s
    BY <2>2, <2>3
  <2>. QED
    BY <1>4, <1>5, <1>8, <2>2, <2>4
<1>. QED
  BY <1>7, <1>8

\* The square of an integer is a natural number.
LEMMA Square == \A x \in Int : x * x \in Nat
<1>. SUFFICES ASSUME NEW x \in Int PROVE x * x >= 0
  OBVIOUS
<1>1. CASE x >= 0
  BY <1>1
<1>2. CASE x <= 0
  BY <1>2
<1>. QED
  BY <1>1, <1>2

\* A cost is a natural number: the discount is less than the distance.
LEMMA Costs ==
  ASSUME OrderTypeOK, IPoints, NEW a \in Node, NEW b \in Node
  PROVE  /\ raw_distance(a, b) \in Nat /\ Cost(a, b) \in Nat
         /\ raw_distance(a, b) * 4 * Scale \in Nat
<1>1. raw_distance(a, b) \in Nat
  <2>1. /\ points[a][1] \in Int /\ points[a][2] \in Int
        /\ points[b][1] \in Int /\ points[b][2] \in Int
    BY DEF IPoints
  <2>2. PICK x \in Int, y \in Int : x = points[a][1] - points[b][1]
                                    /\ y = points[a][2] - points[b][2]
    BY <2>1
  <2>3. x * x \in Nat /\ y * y \in Nat
    BY Square
  <2>. QED
    BY <2>2, <2>3 DEF raw_distance
<1>2. graph_affinity(a, b) \in 0 .. Scale /\ Scale \in Nat
  BY Affinity, OrderAssumption DEF graph_affinity
<1>3. PICK d \in Nat, g \in Nat, s \in Nat :
        d = raw_distance(a, b) /\ g = 4 * Scale - graph_affinity(a, b) /\ s = Scale
  BY <1>1, <1>2
<1>4. d * g \in Nat /\ d * 4 * s \in Nat
  OBVIOUS
<1>. QED
  BY <1>1, <1>3, <1>4 DEF Cost
-----------------------------------------------------------------------------
(* Each step of compute_centroid_order keeps the invariant.                *)

\* Trainings start without edges, tree or walk.
LEMMA InitICover == ASSUME TrainingInit PROVE ICover
<1>1. \E n \in Nat : Node = 0 .. n
      /\ points \in [Node -> Int \X Int]
      /\ (step # "precomputed" => Node = Centroid)
      /\ step \in Step
      /\ step \in {"graph", "knn", "precomputed"}
      /\ rows = [a \in Node |-> [b \in Node |-> 0]]
      /\ at = 0 /\ edges = [a \in Node |-> {}]
      /\ in_mst = {} /\ mst = {} /\ stack = <<>> /\ cycle = <<>>
  <2>1. CASE /\ step = "precomputed"
             /\ OrderInit([c \in {0} |-> <<0, 0>>],
                          [knn |-> 1, iterations |-> 0, graph |-> FALSE])
    <3>1. points = [c \in {0} |-> <<0, 0>>] /\ Node = {0}
      BY <2>1 DEF OrderInit, Node
    <3>2. Node = 0 .. 0 /\ points \in [Node -> Int \X Int]
      BY <3>1
    <3>. QED
      BY <2>1, <3>1, <3>2 DEF OrderInit, Step, Node
  <2>2. CASE \E t \in Trainings :
               /\ step = IF t.options.graph THEN "graph" ELSE "knn"
               /\ OrderInit(t.points, t.options)
               /\ k = Cardinality(DOMAIN t.points)
    <3>1. PICK t \in Trainings :
               /\ step = IF t.options.graph THEN "graph" ELSE "knn"
               /\ OrderInit(t.points, t.options)
               /\ k = Cardinality(DOMAIN t.points)
      BY <2>2
    <3>2. PICK n \in 1 .. MaxCentroids : t.points \in [0 .. n - 1 -> Int \X Int]
      BY TrainingAssumption
    <3>3. points = t.points /\ Node = 0 .. n - 1 /\ n - 1 \in Nat
      BY <3>1, <3>2 DEF OrderInit, Node
    <3>4. k = n
      BY <3>1, <3>2, FS_Interval
    <3>5. Centroid = Node
      BY <3>3, <3>4 DEF Centroid
    <3>. QED
      BY <3>1, <3>2, <3>3, <3>5 DEF OrderInit, Step, Node
  <2>. QED
    BY <2>1, <2>2 DEF TrainingInit
<1>2. OrderTypeOK /\ IPoints
  BY <1>1 DEF OrderTypeOK, IPoints
<1>3. ITree
  <2>1. [a \in Node |-> 0] \in [Node -> Nat]
    OBVIOUS
  <2>. QED
    BY <1>1, <2>1 DEF ITree
<1>. QED
  BY <1>1, <1>2, <1>3 DEF ICover, IWalk, ICycle

\* A row that an edge was counted in is a row.
LEMMA CountedRow ==
  ASSUME NEW row \in [Node -> Nat], NEW c \in Node
  PROVE  Pruned(row) \in [Node -> Nat] /\ Counted(row, c) \in [Node -> Nat]
<1>1. \A r \in [Node -> Nat] : Pruned(r) \in [Node -> Nat]
  BY DEF Pruned
<1>2. [row EXCEPT ![c] = @ + 1] \in [Node -> Nat]
  OBVIOUS
<1>. QED
  BY <1>1, <1>2 DEF Counted

\* The graph's edges are counted before there is a tree.
LEMMA GraphICover ==
  ASSUME ICover, k' = k, AddAffinity \/ GraphBuilt
  PROVE  ICover'
<1>1. /\ step = "graph" /\ step' \in {"graph", "knn"}
      /\ UNCHANGED <<points, edges, in_mst, mst, stack, cycle>>
      /\ Node' = Node /\ Centroid' = Centroid
  BY DEF AddAffinity, GraphBuilt, Node, Centroid
<1>2. rows' \in [Node -> [Node -> Nat]] /\ at' \in Nat
  <2>1. rows \in [Node -> [Node -> Nat]] /\ at \in Nat
    BY DEF ICover, OrderTypeOK
  <2>2. CASE AddAffinity
    <3>1. PICK a \in Node, b \in Node :
            rows' = [rows EXCEPT ![a] = Counted(@, b), ![b] = Counted(@, a)] /\ a # b
      BY <2>2 DEF AddAffinity
    <3>2. Counted(rows[a], b) \in [Node -> Nat] /\ Counted(rows[b], a) \in [Node -> Nat]
      BY <2>1, CountedRow
    <3>. QED
      BY <2>1, <2>2, <3>1, <3>2 DEF AddAffinity
  <2>3. CASE GraphBuilt
    <3>1. \A a \in Node : Pruned(rows[a]) \in [Node -> Nat]
      BY <2>1, CountedRow
    <3>. QED
      BY <2>3, <3>1 DEF GraphBuilt
  <2>. QED
    BY <2>2, <2>3
<1>3. OrderTypeOK' /\ IPoints'
  BY <1>1, <1>2 DEF ICover, OrderTypeOK, IPoints, Step
<1>. QED
  BY <1>1, <1>3 DEF ICover, ITree, IWalk, ICycle

\* Near centroids are found before there is a tree, which starts at centroid 0.
LEMMA EdgesICover ==
  ASSUME ICover, k' = k, FindNeighbours \/ AddGraphEdges
  PROVE  ICover'
<1>1. /\ step \in {"knn", "extra"} /\ step' \in {"knn", "extra", "tree"}
      /\ UNCHANGED <<points, rows, mst, stack, cycle>>
      /\ in_mst' = IF step' = "tree" THEN {0} ELSE in_mst
      /\ Node' = Node /\ Centroid' = Centroid
  BY DEF FindNeighbours, AddGraphEdges, Node, Centroid
<1>2. edges' \in [Node -> SUBSET Node] /\ at' \in Nat
  <2>1. edges \in [Node -> SUBSET Node] /\ at \in Nat
    BY DEF ICover, OrderTypeOK
  <2>2. CASE FindNeighbours
    <3>1. PICK found \in kSubset(search_k, Node) : edges' = [edges EXCEPT ![at] = found \ {at}]
      BY <2>2 DEF FindNeighbours
    <3>2. found \in SUBSET Node
      BY DEF kSubset
    <3>. QED
      BY <2>1, <2>2, <3>1, <3>2 DEF FindNeighbours
  <2>3. CASE AddGraphEdges
    <3>1. \A a \in Node : Entries(rows[a]) \subseteq Node
      BY DEF Entries
    <3>. QED
      BY <2>1, <2>3, <3>1 DEF AddGraphEdges
  <2>. QED
    BY <2>2, <2>3
<1>3. 0 \in Node
  BY DEF ICover, IPoints
<1>4. OrderTypeOK' /\ IPoints'
  BY <1>1, <1>2, <1>3 DEF ICover, OrderTypeOK, IPoints, Step
<1>5. ITree'
  BY <1>1 DEF ICover, ITree
<1>. QED
  BY <1>1, <1>4, <1>5 DEF ICover, IWalk, ICycle

\* A node that joins the tree hangs on a node that is in it.
LEMMA JoinICover ==
  ASSUME ICover, k' = k, GrowTree \/ Attach
  PROVE  ICover'
<1>1. PICK a \in in_mst, b \in Node \ in_mst, weight \in Nat :
        /\ step \in {"tree", "attach"} /\ 0 \in in_mst
        /\ in_mst' = in_mst \cup {b}
        /\ mst' = mst \cup {[a |-> a, b |-> b, weight |-> weight]}
        /\ UNCHANGED <<step, points, options, rows, at, edges, stack, cycle>>
  <2>1. step \in {"tree", "attach"} /\ 0 \in in_mst /\ in_mst \subseteq Node
    BY DEF GrowTree, Attach, ICover, ITree, OrderTypeOK
  <2>2. CASE GrowTree
    <3>1. PICK e \in Crossing : Join(e[1], e[2], Cost(e[1], e[2]))
      BY <2>2 DEF GrowTree
    <3>2. e[1] \in in_mst /\ e[2] \in Node \ in_mst
      BY DEF Crossing
    <3>3. Cost(e[1], e[2]) \in Nat
      BY <2>1, <3>2, Costs DEF ICover
    <3>. QED
      BY <2>1, <3>1, <3>2, <3>3 DEF Join
  <2>3. CASE Attach
    <3>1. PICK b \in Node \ in_mst, a \in in_mst : Join(a, b, raw_distance(a, b) * 4 * Scale)
      BY <2>3 DEF Attach
    <3>2. raw_distance(a, b) * 4 * Scale \in Nat
      BY <2>1, Costs DEF ICover
    <3>. QED
      BY <2>1, <3>1, <3>2 DEF Join
  <2>. QED
    BY <2>2, <2>3
<1>2. Node' = Node /\ Centroid' = Centroid /\ in_mst \subseteq Node /\ a \in Node /\ a # b /\ b # 0
  BY <1>1 DEF Node, Centroid, ICover, OrderTypeOK
<1>. DEFINE new == [a |-> a, b |-> b, weight |-> weight]
<1>3. new \in [a : Node, b : Node, weight : Nat] /\ new.a = a /\ new.b = b
  BY <1>2
<1>4. OrderTypeOK'
  BY <1>1, <1>2, <1>3 DEF ICover, OrderTypeOK
<1>5. IPoints'
  BY <1>1, <1>2 DEF ICover, IPoints
<1>. HIDE DEF new
<1>6. /\ \A e \in mst : e.a \in in_mst /\ e.b \in in_mst \ {0}
      /\ \A e, f \in mst : e.b = f.b => e = f
      /\ \A c \in in_mst \ {0} : \E e \in mst : e.b = c
      /\ mst' = mst \cup {new}
  BY <1>1 DEF ICover, ITree, new
<1>7. /\ \A e \in mst' : e.a \in in_mst' /\ e.b \in in_mst' \ {0}
      /\ \A e, f \in mst' : e.b = f.b => e = f
  BY <1>1, <1>2, <1>3, <1>6
<1>8. \A c \in in_mst' \ {0} : \E e \in mst' : e.b = c
  BY <1>1, <1>3, <1>6
<1>9. \E depth \in [Node -> Nat] : \A e \in mst' : depth[e.a] < depth[e.b]
  <2>1. PICK depth \in [Node -> Nat] : \A e \in mst : depth[e.a] < depth[e.b]
    BY DEF ICover, ITree
  <2>. DEFINE next == [depth EXCEPT ![b] = depth[a] + 1]
  <2>2. next \in [Node -> Nat] /\ next[b] = depth[a] + 1 /\ \A c \in Node : c # b => next[c] = depth[c]
    BY <1>2
  <2>. HIDE DEF next
  <2>3. ASSUME NEW e \in mst PROVE next[e.a] < next[e.b]
    <3>1. e.a \in Node /\ e.b \in Node /\ e.a # b /\ e.b # b
      BY <1>1, <1>2, <1>6
    <3>. QED
      BY <2>1, <2>2, <3>1
  <2>4. next[new.a] < next[new.b]
    BY <1>2, <1>3, <2>2
  <2>. QED
    BY <1>6, <2>2, <2>3, <2>4
<1>10. ITree'
  BY <1>1, <1>2, <1>7, <1>8, <1>9 DEF ITree
<1>11. IWalk' /\ ICycle'
  BY <1>1 DEF ICover, IWalk, ICycle
<1>. QED
  BY <1>4, <1>5, <1>10, <1>11 DEF ICover

\* The walk starts when the tree has every node, at the first.
LEMMA StartICover ==
  ASSUME ICover, k' = k, HeapEmpty \/ StartWalk
  PROVE  ICover'
<1>1. CASE HeapEmpty
  <2>1. /\ step = "tree" /\ step' = "attach"
        /\ UNCHANGED <<points, options, rows, at, edges, in_mst, mst, stack, cycle>>
        /\ Node' = Node /\ Centroid' = Centroid
    BY <1>1 DEF HeapEmpty, Node, Centroid
  <2>2. OrderTypeOK' /\ IPoints'
    BY <2>1 DEF ICover, OrderTypeOK, IPoints, Step
  <2>3. ITree' /\ IWalk' /\ ICycle'
    BY <2>1 DEF ICover, ITree, IWalk, ICycle
  <2>. QED
    BY <2>2, <2>3 DEF ICover
<1>2. CASE StartWalk
  <2>1. /\ step = "attach" /\ step' = "walk" /\ in_mst = Node /\ stack' = <<0>>
        /\ UNCHANGED <<points, options, rows, at, edges, in_mst, mst, cycle>>
        /\ Node' = Node /\ Centroid' = Centroid
    BY <1>2 DEF StartWalk, Node, Centroid
  <2>2. 0 \in Node /\ cycle = <<>>
    BY <2>1 DEF ICover, IPoints, IWalk
  <2>3. /\ <<0>> \in Seq(Node) /\ Once(<<0>>) /\ ToSet(<<0>>) = {0}
        /\ <<>> \in Seq(Node) /\ Once(<<>>) /\ ToSet(<<>>) = {}
    BY <2>2 DEF Once, ToSet
  <2>4. OrderTypeOK' /\ IPoints'
    BY <2>1, <2>3 DEF ICover, OrderTypeOK, IPoints, Step
  <2>5. ITree'
    BY <2>1 DEF ICover, ITree
  <2>6. \A e \in mst : e.b # 0
    BY DEF ICover, ITree
  <2>7. IWalk'
    BY <2>1, <2>2, <2>3, <2>6 DEF IWalk
  <2>. QED
    BY <2>1, <2>4, <2>5, <2>7 DEF ICover, ICycle
<1>. QED
  BY <1>1, <1>2

\* A node that is walked is replaced on the stack by the nodes that hang on it.
LEMMA VisitICover ==
  ASSUME ICover, k' = k, Visit
  PROVE  ICover'
<1>. DEFINE node == Last(stack)
            Children == {b \in Node \ (ToSet(cycle) \cup {node}) :
                           \E e \in mst : {e.a, e.b} = {node, b}}
<1>1. /\ step = "walk" /\ stack # <<>> /\ cycle' = Append(cycle, node)
      /\ \E pushed \in SetToSeqs(Children) : stack' = Front(stack) \o pushed
      /\ UNCHANGED <<step, points, options, rows, at, edges, in_mst, mst>>
      /\ Node' = Node /\ Centroid' = Centroid
  BY DEF Visit, Node, Centroid
<1>2. PICK pushed \in SetToSeqs(Children) : stack' = Front(stack) \o pushed
  BY <1>1
<1>3. /\ stack \in Seq(Node) /\ cycle \in Seq(Node)
      /\ Once(stack) /\ Once(cycle)
      /\ ToSet(stack) \cap ToSet(cycle) = {}
      /\ 0 \in ToSet(stack) \cup ToSet(cycle)
      /\ \A e \in mst : e.b \in ToSet(stack) \cup ToSet(cycle) <=> e.a \in ToSet(cycle)
  BY <1>1 DEF ICover, IWalk, OrderTypeOK
<1>4. /\ \A e \in mst : e.a \in Node /\ e.b \in Node /\ e.a # e.b
      /\ \A e, f \in mst : e.b = f.b => e = f
  <2>1. PICK depth \in [Node -> Nat] : \A e \in mst : depth[e.a] < depth[e.b]
    BY DEF ICover, ITree
  <2>2. \A e \in mst : e.a \in Node /\ e.b \in Node
    BY DEF ICover, OrderTypeOK
  <2>. QED
    BY <2>1, <2>2 DEF ICover, ITree
<1>5. /\ node \in Node /\ Front(stack) \in Seq(Node) /\ Once(Front(stack))
      /\ ToSet(stack) = ToSet(Front(stack)) \cup {node}
      /\ node \notin ToSet(Front(stack))
  BY <1>1, <1>3, Popped
<1>6. Children = {b \in Node : \E e \in mst : e.a = node /\ e.b = b}
  <2>1. ASSUME NEW b \in Children PROVE \E e \in mst : e.a = node /\ e.b = b
    <3>1. PICK e \in mst : {e.a, e.b} = {node, b}
      OBVIOUS
    <3>2. b # node /\ b \notin ToSet(cycle)
      OBVIOUS
    <3>3. CASE e.a = b /\ e.b = node
      BY <1>3, <1>5, <3>2, <3>3
    <3>. QED
      BY <3>1, <3>2, <3>3
  <2>2. ASSUME NEW e \in mst, e.a = node PROVE e.b \in Children
    <3>1. e.b \in Node /\ e.b # node
      BY <1>4, <2>2
    <3>2. e.b \notin ToSet(cycle)
      BY <1>3, <1>5, <2>2
    <3>. QED
      BY <2>2, <3>1, <3>2
  <2>. QED
    BY <2>1, <2>2
<1>7. /\ Children \subseteq Node
      /\ \A e \in mst : e.b \in Children <=> e.a = node
  BY <1>4, <1>6
<1>8. Children \cap (ToSet(stack) \cup ToSet(cycle)) = {}
  <2>. SUFFICES ASSUME NEW b \in Children PROVE b \notin ToSet(stack) \cup ToSet(cycle)
    OBVIOUS
  <2>1. PICK e \in mst : e.a = node /\ e.b = b
    BY <1>6
  <2>2. e.a \notin ToSet(cycle)
    BY <1>3, <1>5, <2>1
  <2>. QED
    BY <1>3, <2>1, <2>2
<1>9. IsFiniteSet(Children)
  <2>1. IsFiniteSet(Node)
    BY FS_Interval DEF ICover, IPoints
  <2>. QED
    BY <1>7, <2>1, FS_Subset
<1>. HIDE DEF Children, node
<1>10. pushed \in Seq(Children) /\ Once(pushed) /\ ToSet(pushed) = Children
  BY <1>9, Enumerated
<1>11. pushed \in Seq(Node)
  BY <1>7, <1>10, SeqMonotonic
<1>12. /\ stack' \in Seq(Node) /\ Once(stack')
       /\ ToSet(stack') = ToSet(Front(stack)) \cup Children
  BY <1>2, <1>5, <1>8, <1>10, <1>11, Stacked
<1>13. /\ cycle' \in Seq(Node) /\ Once(cycle')
       /\ ToSet(cycle') = ToSet(cycle) \cup {node}
  BY <1>1, <1>3, <1>5, Appended
<1>14. OrderTypeOK' /\ IPoints'
  BY <1>1, <1>12, <1>13 DEF ICover, OrderTypeOK, IPoints
<1>15. ITree'
  BY <1>1 DEF ICover, ITree
<1>16. /\ ToSet(stack') \cap ToSet(cycle') = {}
       /\ 0 \in ToSet(stack') \cup ToSet(cycle')
  BY <1>3, <1>5, <1>8, <1>12, <1>13
<1>17. ASSUME NEW e \in mst
       PROVE  e.b \in ToSet(stack') \cup ToSet(cycle') <=> e.a \in ToSet(cycle')
  <2>1. e.b \in ToSet(stack') \cup ToSet(cycle')
          <=> e.b \in ToSet(stack) \cup ToSet(cycle) \/ e.b \in Children
    BY <1>5, <1>12, <1>13
  <2>. QED
    BY <1>3, <1>7, <1>13, <2>1
<1>18. IWalk'
  BY <1>1, <1>12, <1>13, <1>16, <1>17 DEF IWalk
<1>. QED
  BY <1>1, <1>14, <1>15, <1>18 DEF ICover, ICycle

\* When the stack is empty every node has been walked: of those that were not,
\* one at the least depth would hang on a node that was.
LEMMA WalkedICover ==
  ASSUME ICover, k \in Nat \ {0}, k' = k, Walked
  PROVE  ICover'
<1>1. /\ step = "walk" /\ step' = "refine" /\ stack = <<>>
      /\ UNCHANGED <<points, options, rows, at, edges, in_mst, mst, stack, cycle>>
      /\ Node' = Node /\ Centroid' = Centroid
  BY DEF Walked, Node, Centroid
<1>2. /\ cycle \in Seq(Node) /\ Once(cycle) /\ 0 \in ToSet(cycle)
      /\ \A e \in mst : e.b \in ToSet(cycle) <=> e.a \in ToSet(cycle)
  <2>1. ToSet(stack) = {}
    BY <1>1 DEF ToSet
  <2>. QED
    BY <1>1, <2>1 DEF ICover, IWalk, OrderTypeOK
<1>3. ToSet(cycle) = Node
  <2>. SUFFICES ASSUME Node \ ToSet(cycle) # {} PROVE FALSE
    BY <1>2, Elements
  <2>1. PICK depth \in [Node -> Nat] : \A e \in mst : depth[e.a] < depth[e.b]
    BY DEF ICover, ITree
  <2>. DEFINE T == {depth[c] : c \in Node \ ToSet(cycle)}
  <2>2. T \in SUBSET Nat /\ T # {}
    BY <2>1
  <2>3. \E m \in T : \A n \in T : ~(<<n, m>> \in OpToRel(<, Nat))
    BY <2>2, NatLessThanWellFounded, WFMin
  <2>4. PICK m \in T : \A n \in T : ~(n < m)
    BY <2>2, <2>3 DEF OpToRel
  <2>5. PICK c \in Node \ ToSet(cycle) : depth[c] = m
    BY <2>4
  <2>6. PICK e \in mst : e.b = c
    BY <1>1, <1>2, <2>5 DEF ICover, ITree
  <2>7. e.a \in Node \ ToSet(cycle)
    BY <1>2, <2>5, <2>6 DEF ICover, OrderTypeOK
  <2>8. depth[e.a] \in T /\ depth[e.a] < m
    BY <2>1, <2>5, <2>6, <2>7
  <2>. QED
    BY <2>4, <2>8
<1>4. Len(cycle) = k
  <2>1. /\ Len(cycle) \in Nat /\ DOMAIN cycle = 1 .. Len(cycle)
        /\ cycle \in [1 .. Len(cycle) -> Node]
    BY <1>2, LenProperties
  <2>2. cycle \in Surjection(1 .. Len(cycle), Node)
    BY <1>3, <2>1 DEF Surjection, ToSet
  <2>3. cycle \in Injection(1 .. Len(cycle), Node)
    BY <1>2, <2>1 DEF Injection, IsInjective, Once
  <2>4. /\ IsFiniteSet(1 .. Len(cycle)) /\ Cardinality(1 .. Len(cycle)) = Len(cycle)
    BY <2>1, FS_Interval
  <2>5. Cardinality(Node) = Len(cycle)
    BY <2>2, <2>3, <2>4, FS_Surjection
  <2>6. Cardinality(Node) = k
    <3>1. Node = 0 .. k - 1
      BY <1>1 DEF ICover, IPoints, Centroid
    <3>. QED
      BY <3>1, FS_Interval
  <2>. QED
    BY <2>5, <2>6
<1>5. OrderTypeOK' /\ IPoints'
  BY <1>1 DEF ICover, OrderTypeOK, IPoints, Step
<1>6. ITree' /\ IWalk'
  BY <1>1 DEF ICover, ITree, IWalk
<1>7. ICycle'
  BY <1>1, <1>2, <1>4 DEF ICycle
<1>. QED
  BY <1>5, <1>6, <1>7 DEF ICover

\* The walk whose p-th element is the one at by[p] of s.
Through(s, by) == [p \in 1 .. Len(s) |-> s[by[p]]]

\* A walk in another order is as long and has no more of any element.
LEMMA Rearranged ==
  ASSUME NEW S, NEW s \in Seq(S), Once(s),
         NEW by \in [1 .. Len(s) -> 1 .. Len(s)], Once(by)
  PROVE  /\ Through(s, by) \in Seq(S) /\ Len(Through(s, by)) = Len(s)
         /\ Once(Through(s, by))
<1>. DEFINE t == [p \in 1 .. Len(s) |-> s[by[p]]]
<1>1. Len(s) \in Nat /\ DOMAIN s = 1 .. Len(s) /\ \A p \in 1 .. Len(s) : s[p] \in S
  BY Elements
<1>2. PICK n \in Nat : n = Len(s)
  BY <1>1
<1>3. t \in [1 .. n -> S]
  BY <1>1, <1>2
<1>4. t \in Seq(S) /\ Len(t) = n
  BY <1>2, <1>3
<1>5. Once(t)
  <2>. SUFFICES ASSUME NEW p \in 1 .. n, NEW q \in 1 .. n, t[p] = t[q] PROVE p = q
    BY <1>2 DEF Once
  <2>1. s[by[p]] = s[by[q]] /\ by[p] \in 1 .. Len(s) /\ by[q] \in 1 .. Len(s)
    BY <1>2
  <2>2. by[p] = by[q]
    BY <1>1, <2>1 DEF Once
  <2>. QED
    BY <1>2, <2>2 DEF Once
<1>. QED
  BY <1>2, <1>4, <1>5 DEF Through

\* Numbers that are less than n apart have different remainders.
LEMMA Apart ==
  ASSUME NEW n \in Nat \ {0}, NEW a \in Nat, NEW b \in Nat, a < b, b < a + n
  PROVE  (a % n) # (b % n)
<1>1. PICK q \in Nat, r \in 0 .. n - 1 : a = n * q + r /\ a % n = r
  BY Division
<1>2. PICK u \in Nat, v \in 0 .. n - 1 : b = n * u + v /\ b % n = v
  BY Division
<1>. SUFFICES ASSUME r = v PROVE FALSE
  BY <1>1, <1>2
<1>3. PICK x \in Int, y \in Int : x = n * q /\ y = n * u
  OBVIOUS
<1>4. x < y /\ y < x + n
  BY <1>1, <1>2, <1>3
<1>5. CASE u <= q
  <2>1. n * u <= n * q
    BY <1>5
  <2>. QED
    BY <1>3, <1>4, <2>1
<1>6. CASE u >= q + 1
  <2>1. n * u >= n * (q + 1) /\ n * (q + 1) = n * q + n
    BY <1>6
  <2>. QED
    BY <1>3, <1>4, <2>1
<1>. QED
  BY <1>5, <1>6

\* The position that the order takes its p-th element from, when it is cut behind
\* position c of a walk of n.
Behind(c, n) == [p \in 1 .. n |-> ((c + p - 1) % n) + 1]

\* Cutting the walk turns it, and loses nothing.
LEMMA Turned ==
  ASSUME NEW n \in Nat \ {0}, NEW c \in 1 .. n
  PROVE  Behind(c, n) \in [1 .. n -> 1 .. n] /\ Once(Behind(c, n))
<1>1. ASSUME NEW p \in 1 .. n PROVE c + p - 1 \in Nat /\ ((c + p - 1) % n) \in 0 .. n - 1
  <2>1. c + p - 1 \in Nat
    OBVIOUS
  <2>. QED
    BY <2>1, Division
<1>2. ASSUME NEW p \in 1 .. n, NEW q \in 1 .. n, p < q
      PROVE  ((c + p - 1) % n) # ((c + q - 1) % n)
  <2>1. c + p - 1 < c + q - 1 /\ c + q - 1 < (c + p - 1) + n
    BY <1>2
  <2>. QED
    BY <1>1, <2>1, Apart
<1>3. \A p, q \in 1 .. n : p # q => ((c + p - 1) % n) # ((c + q - 1) % n)
  <2>. SUFFICES ASSUME NEW p \in 1 .. n, NEW q \in 1 .. n, p # q
                PROVE  ((c + p - 1) % n) # ((c + q - 1) % n)
    OBVIOUS
  <2>1. CASE p < q
    BY <1>2, <2>1
  <2>2. CASE q < p
    BY <1>2, <2>2
  <2>. QED
    BY <2>1, <2>2
<1>4. ASSUME NEW p \in 1 .. n PROVE Behind(c, n)[p] = ((c + p - 1) % n) + 1
  BY DEF Behind
<1>5. ASSUME NEW p \in 1 .. n PROVE ((c + p - 1) % n) + 1 \in 1 .. n
  BY <1>1
<1>6. Behind(c, n) \in [1 .. n -> 1 .. n]
  BY <1>5 DEF Behind
<1>7. ASSUME NEW p \in 1 .. n, NEW q \in 1 .. n, Behind(c, n)[p] = Behind(c, n)[q]
      PROVE  p = q
  <2>1. PICK x \in 0 .. n - 1, y \in 0 .. n - 1 :
          x = ((c + p - 1) % n) /\ y = ((c + q - 1) % n)
    BY <1>1
  <2>2. x + 1 = y + 1
    BY <1>4, <1>7, <2>1
  <2>3. x = y
    BY <2>1, <2>2
  <2>. QED
    BY <1>3, <2>1, <2>3
<1>. QED
  BY <1>6, <1>7 DEF Once

\* The position that the p-th element comes from when the part of a walk of n
\* behind position a, up to b, is turned around.
Around(a, b, n) == [p \in 1 .. n |-> IF p \in a + 1 .. b THEN a + 1 + b - p ELSE p]

\* Turning a part of the walk around loses nothing.
LEMMA TurnedAround ==
  ASSUME NEW n \in Nat, NEW a \in 0 .. n, NEW b \in 0 .. n
  PROVE  Around(a, b, n) \in [1 .. n -> 1 .. n] /\ Once(Around(a, b, n))
  BY DEF Around, Once

\* Exchanges and the cut keep every centroid in the walk.
LEMMA RefineICover ==
  ASSUME ICover, k \in Nat \ {0}, k' = k, Refine \/ Refined \/ Cut
  PROVE  ICover'
<1>1. /\ step \in {"refine", "cut"} /\ step' \in {"refine", "cut", "ordered"}
      /\ UNCHANGED <<points, rows, edges, in_mst, mst, stack>>
      /\ Node' = Node /\ Centroid' = Centroid
  BY DEF Refine, Refined, Cut, Node, Centroid
<1>2. at' \in Nat
  BY DEF Refine, Refined, Cut, ICover, OrderTypeOK
<1>3. cycle \in Seq(Node) /\ Once(cycle) /\ Len(cycle) = k /\ DOMAIN cycle = 1 .. k
  <2>1. cycle \in Seq(Node) /\ Once(cycle) /\ Len(cycle) = k
    BY <1>1 DEF ICover, ICycle, OrderTypeOK
  <2>. QED
    BY <2>1, Elements
<1>4. cycle' \in Seq(Node) /\ Once(cycle') /\ Len(cycle') = k
  <2>1. CASE Refined
    BY <1>3, <2>1 DEF Refined
  <2>2. CASE Refine
    <3>1. PICK e \in Exchanges : cycle' = Exchanged(e)
      BY <2>2 DEF Refine
    <3>2. e[1] \in 0 .. k /\ e[2] \in 0 .. k
      BY <1>3 DEF Exchanges
    <3>3. Around(e[1], e[2], k) \in [1 .. k -> 1 .. k] /\ Once(Around(e[1], e[2], k))
      BY <3>2, TurnedAround
    <3>4. cycle' = [p \in 1 .. k |-> cycle[Around(e[1], e[2], k)[p]]]
      BY <1>3, <3>1, <3>2 DEF Exchanged, Around
    <3>. DEFINE by == Around(e[1], e[2], k)
    <3>5. /\ by \in [1 .. Len(cycle) -> 1 .. Len(cycle)] /\ Once(by)
          /\ cycle' = Through(cycle, by)
      BY <1>3, <3>3, <3>4 DEF Through
    <3>. HIDE DEF by
    <3>9. cycle \in Seq(Node) /\ Once(cycle)
      BY <1>3
    <3>10. cycle' \in Seq(Node) /\ Len(cycle') = Len(cycle) /\ Once(cycle')
      BY <3>5, <3>9, Rearranged
    <3>. QED
      BY <1>3, <3>10
  <2>3. CASE Cut
    <3>1. PICK c \in 1 .. k :
            cycle' = [p \in 1 .. k |-> cycle[((c + p - 1) % k) + 1]]
      BY <1>3, <2>3 DEF Cut
    <3>2. cycle' = [p \in 1 .. k |-> cycle[Behind(c, k)[p]]]
      BY <3>1 DEF Behind
    <3>. DEFINE by == Behind(c, k)
    <3>3. /\ by \in [1 .. Len(cycle) -> 1 .. Len(cycle)] /\ Once(by)
          /\ cycle' = Through(cycle, by)
      BY <1>3, <3>2, Turned DEF Through
    <3>. HIDE DEF by
    <3>9. cycle \in Seq(Node) /\ Once(cycle)
      BY <1>3
    <3>10. cycle' \in Seq(Node) /\ Len(cycle') = Len(cycle) /\ Once(cycle')
      BY <3>3, <3>9, Rearranged
    <3>. QED
      BY <1>3, <3>10
  <2>. QED
    BY <2>1, <2>2, <2>3
<1>5. OrderTypeOK' /\ IPoints'
  BY <1>1, <1>2, <1>4 DEF ICover, OrderTypeOK, IPoints, Step
<1>6. ITree' /\ IWalk' /\ ICycle'
  BY <1>1, <1>4 DEF ICover, ITree, IWalk, ICycle
<1>. QED
  BY <1>5, <1>6 DEF ICover

\* Every step of compute_centroid_order keeps the invariant.
LEMMA ComputeICover ==
  ASSUME ICover, k \in Nat \ {0}, k' = k, OrderNext
  PROVE  ICover'
  BY GraphICover, EdgesICover, JoinICover, StartICover, VisitICover, WalkedICover,
     RefineICover
  DEF OrderNext

\* The order in use was handed over or has every centroid once; in the second case
\* only the total of the masses can have the arguments rejected.
IUsed ==
  /\ order \in [Centroid -> 0 .. k]
  /\ pc # "failed"
  /\ step = "used" =>
       /\ \A p \in Centroid : order[p] \in Centroid
       /\ \A p, q \in Centroid : order[p] = order[q] => p = q
       /\ \A p \in Centroid : order[p] = cycle[p + 1]
       /\ pc = "rejected" => total > MaxTotal \/ \A c \in Centroid : mass[c] = 0

\* The order that is used is the walk.
LEMMA UseOrderIUsed ==
  ASSUME IInv, IBefore, ICover, IUsed, UseOrder
  PROVE  ICover' /\ IUsed'
<1>1. /\ step = "ordered" /\ step' = "used" /\ k' = k /\ pc = "order"
      /\ UNCHANGED <<points, rows, at, edges, in_mst, mst, stack, cycle>>
      /\ Node' = Node /\ Centroid' = Centroid
      /\ k \in Nat \ {0}
  BY RangeAssumption DEF UseOrder, IBefore, Node, Centroid, IInv, IType
<1>2. Len(cycle) = k /\ Once(cycle) /\ cycle \in Seq(Node) /\ Node = Centroid
  BY <1>1 DEF ICover, ICycle, OrderTypeOK, IPoints
<1>3. pc' = "order" /\ order' = [c \in Centroid |-> IF c < k THEN cycle[c + 1] ELSE k]
  BY <1>1, <1>2 DEF UseOrder
<1>4. \A c \in Centroid : c < k /\ c \in Nat /\ c + 1 \in 1 .. k
  BY <1>1 DEF Centroid
<1>5. DOMAIN cycle = 1 .. k /\ \A p \in 1 .. k : cycle[p] \in Centroid
  BY <1>2, Elements
<1>6. \A c \in Centroid : order'[c] = cycle[c + 1] /\ order'[c] \in Centroid
  BY <1>3, <1>4, <1>5
<1>7. order' \in [Centroid -> 0 .. k]
  BY <1>1, <1>3, <1>4, <1>5 DEF Centroid
<1>8. \A p, q \in Centroid : order'[p] = order'[q] => p = q
  <2>. SUFFICES ASSUME NEW p \in Centroid, NEW q \in Centroid, order'[p] = order'[q]
                PROVE  p = q
    OBVIOUS
  <2>1. p + 1 = q + 1
    BY <1>2, <1>4, <1>5, <1>6 DEF Once
  <2>. QED
    BY <1>4, <2>1
<1>9. IUsed'
  <2>1. \A p \in Centroid' : order'[p] = cycle'[p + 1]
    BY <1>1, <1>6
  <2>. QED
    BY <1>1, <1>3, <1>6, <1>7, <1>8, <2>1 DEF IUsed
<1>10. OrderTypeOK' /\ IPoints'
  BY <1>1 DEF ICover, OrderTypeOK, IPoints, Step
<1>11. ITree' /\ IWalk' /\ ICycle'
  BY <1>1 DEF ICover, ITree, IWalk, ICycle
<1>. QED
  BY <1>9, <1>10, <1>11 DEF ICover

\* Masses that sum to 0 are all 0.
LEMMA NoMass ==
  ASSUME IType, SumOf(mass, Centroid) = 0
  PROVE  \A c \in Centroid : mass[c] = 0
<1>. SUFFICES ASSUME NEW c \in Centroid PROVE mass[c] = 0
  OBVIOUS
<1>1. IsFiniteSet(Centroid) /\ \A d \in Centroid : mass[d] \in Nat
  BY Centroids
<1>2. IsFiniteSet(Centroid \ {c}) /\ \A d \in Centroid \ {c} : mass[d] \in Nat
  BY <1>1, FS_RemoveElement
<1>3. SumOf(mass, Centroid \ {c}) \in Nat
  BY <1>2, SumNat
<1>4. SumOf(mass, Centroid) = mass[c] + SumOf(mass, Centroid \ {c})
  BY <1>1, SumRemove
<1>. QED
  BY <1>1, <1>3, <1>4

\* allocate_ranges does not touch the order, and rejects a good one only for the
\* total mass.
LEMMA AllocateIUsed ==
  ASSUME IInv, IUsed, [Next]_vars, UNCHANGED <<step, cycle>>
  PROVE  IUsed'
<1>1. (pc' = "failed" => pc = "failed") /\ UNCHANGED <<k, mass, order, space>>
      /\ Centroid' = Centroid
  BY NextIInv DEF input, Centroid
<1>2. ASSUME step = "used", pc' = "rejected"
      PROVE  total' > MaxTotal \/ \A c \in Centroid : mass[c] = 0
  <2>1. CASE CheckOrder
    BY <1>2, <2>1 DEF CheckOrder, IUsed
  <2>2. CASE AddMass
    <3>1. CASE i < k
      BY <1>2, <2>2, <3>1 DEF AddMass
    <3>2. CASE ~(i < k)
      <4>1. total = 0 /\ i = k /\ total = SumOf(mass, 0 .. i - 1) /\ IType
        BY <1>2, <2>2, <3>2 DEF AddMass, IInv, IType, ITotal
      <4>2. SumOf(mass, Centroid) = 0
        BY <4>1 DEF Centroid
      <4>. QED
        BY <4>1, <4>2, NoMass
    <3>. QED
      BY <3>1, <3>2
  <2>3. CASE UNCHANGED vars
    BY <1>2, <2>3 DEF vars, IUsed
  <2>4. CASE SetQuota \/ QuotasSet \/ GiveOne \/ Given \/ Place \/ Validate
    BY <1>2, <2>4 DEF SetQuota, QuotasSet, GiveOne, Given, Place, Validate
  <2>. QED
    BY <2>1, <2>2, <2>3, <2>4 DEF Next, Ended
<1>. QED
  BY <1>1, <1>2 DEF IUsed

\* Every element of S is at exactly one of the n places of s.
EveryOnce(s, n, S) ==
  \A c \in S : \E p \in 1 .. n : \A q \in 1 .. n : s[q] = c <=> q = p

\* A list without repetition that is as long as there are centroids has them all.
LEMMA AllOnce ==
  ASSUME NEW n \in Nat \ {0}, NEW s \in Seq(0 .. n - 1), Once(s), Len(s) = n
  PROVE  EveryOnce(s, n, 0 .. n - 1)
<1>1. DOMAIN s = 1 .. n /\ \A p \in 1 .. n : s[p] \in 0 .. n - 1
  BY Elements
<1>2. \A p, q \in 1 .. n : s[p] = s[q] => p = q
  BY <1>1 DEF Once
<1>. DEFINE f == [p \in 1 .. n |-> s[p]]
<1>3. f \in Injection(1 .. n, 0 .. n - 1)
  BY <1>1, <1>2 DEF Injection, IsInjective
<1>4. /\ IsFiniteSet(1 .. n) /\ Cardinality(1 .. n) = n
      /\ IsFiniteSet(0 .. n - 1) /\ Cardinality(0 .. n - 1) = n
  BY FS_Interval
<1>5. f \in Surjection(1 .. n, 0 .. n - 1)
  <2>. HIDE DEF f
  <2>. QED
    BY <1>3, <1>4, FS_Injection
<1>6. \A c \in 0 .. n - 1 : \E p \in 1 .. n : f[p] = c
  <2>. HIDE DEF f
  <2>. QED
    BY <1>5 DEF Surjection
<1>7. ASSUME NEW c \in 0 .. n - 1 PROVE \E p \in 1 .. n : \A q \in 1 .. n : s[q] = c <=> q = p
  <2>1. PICK p \in 1 .. n : s[p] = c
    BY <1>6
  <2>. QED
    BY <1>2, <2>1
<1>. QED
  BY <1>7 DEF EveryOnce

\* In every training the order is computed and used as the invariant says.
THEOREM OrderInvariant == TrainingSpec => [](ICover /\ IUsed)
<1>1. TrainingInit => ICover /\ IUsed
  <2>1. TrainingInit => IUsed
    BY DEF TrainingInit, Init, IUsed
  <2>. QED
    BY <2>1, InitICover
<1>2. ASSUME IInv, IBefore, ICover, IUsed, [TrainingNext]_trainingVars
      PROVE  ICover' /\ IUsed'
  <2>0. k \in Nat \ {0}
    BY <1>2, RangeAssumption DEF IInv, IType
  <2>1. CASE Compute
    <3>1. k' = k /\ OrderNext /\ UNCHANGED <<order, pc, total>> /\ Centroid' = Centroid
      BY <2>1 DEF Compute, vars, input, Centroid
    <3>2. step' # "used"
      BY <3>1 DEF OrderNext, AddAffinity, GraphBuilt, FindNeighbours, AddGraphEdges,
                  GrowTree, HeapEmpty, Attach, Join, StartWalk, Visit, Walked, Refine,
                  Refined, Cut
    <3>. QED
      BY <1>2, <2>0, <3>1, <3>2, ComputeICover DEF IUsed
  <2>2. CASE UseOrder
    BY <1>2, <2>2, UseOrderIUsed
  <2>3. CASE Allocate \/ UNCHANGED trainingVars
    <3>1. /\ [Next]_vars
          /\ UNCHANGED <<step, points, options, rows, at, edges, in_mst, mst, stack, cycle>>
      BY <2>3 DEF Allocate, trainingVars, orderVars
    <3>2. Node' = Node /\ Centroid' = Centroid /\ k' = k
      BY <1>2, <3>1, NextIInv DEF Node, Centroid, input
    <3>3. OrderTypeOK' /\ IPoints'
      BY <1>2, <3>1, <3>2 DEF ICover, OrderTypeOK, IPoints
    <3>4. ITree' /\ IWalk' /\ ICycle'
      BY <1>2, <3>1, <3>2 DEF ICover, ITree, IWalk, ICycle
    <3>. QED
      BY <1>2, <3>1, <3>3, <3>4, AllocateIUsed DEF ICover
  <2>. QED
    BY <1>2, <2>1, <2>2, <2>3 DEF TrainingNext
<1>. QED
  BY <1>1, <1>2, TrainingInvariant, PTL DEF TrainingSpec

\* Whatever the places of the centroids, the graph's edges, ties and cuts, the computed
\* order has every centroid once: train_vortex_from_training_base never throws
\* "Centroid ordering failed", and allocate_ranges rejects no computed order.
THEOREM OrderIsComplete == TrainingSpec => []OrderCoversCentroids
<1>1. ASSUME IInv, ICover, step \in {"ordered", "used"}
      PROVE  /\ Len(cycle) = k
             /\ \A c \in Centroid :
                  \E p \in 1 .. k : \A q \in 1 .. k : cycle[q] = c <=> q = p
  <2>1. /\ Len(cycle) = k /\ Once(cycle) /\ cycle \in Seq(Node) /\ Node = Centroid
    BY <1>1 DEF ICover, ICycle, OrderTypeOK, IPoints, Centroid
  <2>3. k \in Nat \ {0}
    BY <1>1, Centroids DEF IInv
  <2>2. EveryOnce(cycle, k, Centroid)
    BY <2>1, <2>3, AllOnce DEF Centroid
  <2>. QED
    BY <2>1, <2>2 DEF EveryOnce
<1>2. IInv /\ ICover /\ IUsed => OrderCoversCentroids
  BY <1>1 DEF ICover, IUsed, OrderCoversCentroids
<1>. QED
  BY <1>2, OrderInvariant, TrainingInvariant, PTL

\* The validation at the end of allocate_ranges passes in every training, also with
\* the order that was computed.
THEOREM TrainingsValidate == TrainingSpec => []ValidationPasses
<1>1. IInv /\ IUsed => ValidationPasses
  BY DEF IInv, IType, IUsed, ValidationPasses, TypeOK
<1>. QED
  BY <1>1, OrderInvariant, TrainingInvariant, PTL

-----------------------------------------------------------------------------
(* What an exchange does to the length of the closed walk.                 *)

\* The legs g are the legs f with those between p and q turned around: two may
\* differ, the one from a, outside of that part, and the one from q.
LegsTurned(f, g, n, p, q, a) ==
  /\ p \in 1 .. n /\ q \in p .. n /\ a \in (1 .. n) \ (p .. q)
  /\ f \in [1 .. n -> Nat] /\ g \in [1 .. n -> Nat]
  /\ \A x \in p .. q - 1 : g[x] = f[p + q - 1 - x]
  /\ \A x \in (1 .. n) \ (p .. q) : x # a => g[x] = f[x]

\* The others have the same sum, in another order.
LEMMA TurnedSum ==
  ASSUME NEW n \in Nat, NEW p, NEW q, NEW a, NEW f, NEW g, LegsTurned(f, g, n, p, q, a)
  PROVE  SumOf(g, 1 .. n) + f[a] + f[q] = SumOf(f, 1 .. n) + g[a] + g[q]
<1>. /\ p \in 1 .. n /\ q \in p .. n /\ a \in (1 .. n) \ (p .. q)
     /\ f \in [1 .. n -> Nat] /\ g \in [1 .. n -> Nat]
     /\ \A x \in p .. q - 1 : g[x] = f[p + q - 1 - x]
     /\ \A x \in (1 .. n) \ (p .. q) : x # a => g[x] = f[x]
  BY DEF LegsTurned
<1>. DEFINE S == 1 .. n
            T == (S \ {a}) \ {q}
            by == [x \in T |-> IF x \in p .. q - 1 THEN p + q - 1 - x ELSE x]
<1>1. IsFiniteSet(S) /\ IsFiniteSet(S \ {a}) /\ IsFiniteSet(T)
  <2>1. IsFiniteSet(S)
    BY FS_Interval
  <2>. HIDE DEF S
  <2>. QED
    BY <2>1, FS_RemoveElement
<1>2. a \in S /\ q \in S \ {a} /\ a # q
  OBVIOUS
<1>3. \A x \in T : by[x] \in T /\ g[x] = f[by[x]] /\ f[x] \in Nat
  <2>. SUFFICES ASSUME NEW x \in T PROVE by[x] \in T /\ g[x] = f[by[x]] /\ f[x] \in Nat
    OBVIOUS
  <2>1. CASE x \in p .. q - 1
    <3>1. by[x] = p + q - 1 - x /\ p + q - 1 - x \in p .. q - 1
      BY <2>1
    <3>2. p + q - 1 - x # a /\ p + q - 1 - x # q /\ p + q - 1 - x \in S
      BY <3>1
    <3>. QED
      BY <2>1, <3>1, <3>2
  <2>2. CASE x \notin p .. q - 1
    <3>1. by[x] = x /\ x \in S \ (p .. q) /\ x # a
      BY <2>2
    <3>. QED
      BY <3>1
  <2>. QED
    BY <2>1, <2>2
<1>4. \A x, y \in T : by[x] = by[y] => x = y
  <2>. SUFFICES ASSUME NEW x \in T, NEW y \in T, by[x] = by[y] PROVE x = y
    OBVIOUS
  <2>1. /\ x \in Nat /\ y \in Nat /\ p \in Nat /\ q \in Nat /\ x # q /\ y # q
        /\ by[x] = IF x \in p .. q - 1 THEN p + q - 1 - x ELSE x
        /\ by[y] = IF y \in p .. q - 1 THEN p + q - 1 - y ELSE y
    OBVIOUS
  <2>2. CASE x \in p .. q - 1 /\ y \in p .. q - 1
    BY <2>1, <2>2
  <2>3. CASE x \in p .. q - 1 /\ y \notin p .. q - 1
    <3>1. p + q - 1 - x \in p .. q - 1
      BY <2>1, <2>3
    <3>. QED
      BY <2>1, <2>3, <3>1
  <2>4. CASE x \notin p .. q - 1 /\ y \in p .. q - 1
    <3>1. p + q - 1 - y \in p .. q - 1
      BY <2>1, <2>4
    <3>. QED
      BY <2>1, <2>4, <3>1
  <2>5. CASE x \notin p .. q - 1 /\ y \notin p .. q - 1
    BY <2>1, <2>5
  <2>. QED
    BY <2>2, <2>3, <2>4, <2>5
<1>5. by \in [T -> T]
  BY <1>3
<1>6. \A x \in S : f[x] \in Nat /\ g[x] \in Nat
  OBVIOUS
<1>7. SumOf(g, T) = SumOf(f, T)
  <2>1. \A x \in T : f[x] \in Nat /\ g[x] = f[by[x]]
    BY <1>3
  <2>. HIDE DEF by, T, S
  <2>. QED
    BY <1>1, <1>4, <1>5, <2>1, SumPermuted
<1>8. /\ SumOf(f, S) = f[a] + SumOf(f, S \ {a})
      /\ SumOf(f, S \ {a}) = f[q] + SumOf(f, T)
      /\ SumOf(g, S) = g[a] + SumOf(g, S \ {a})
      /\ SumOf(g, S \ {a}) = g[q] + SumOf(g, T)
      /\ SumOf(f, T) \in Nat
  <2>1. \A x \in T : f[x] \in Nat
    BY <1>6
  <2>2. \A x \in S \ {a} : f[x] \in Nat /\ g[x] \in Nat
    BY <1>6
  <2>. HIDE DEF S
  <2>. QED
    BY <1>1, <1>2, <1>6, <2>1, <2>2, SumRemove, SumNat
<1>9. f[a] \in Nat /\ f[q] \in Nat /\ g[a] \in Nat /\ g[q] \in Nat
  <2>1. a \in S /\ q \in S
    BY <1>2
  <2>. QED
    BY <1>6, <2>1
<1>. HIDE DEF T, S, by
<1>10. PICK s \in Nat, b \in Nat, c \in Nat, d \in Nat, e \in Nat :
         /\ s = SumOf(f, T) /\ b = f[a] /\ c = f[q] /\ d = g[a] /\ e = g[q]
  BY <1>8, <1>9
<1>11. SumOf(f, S) = b + (c + s) /\ SumOf(g, S) = d + (e + s)
  <2>1. /\ SumOf(f, S) = b + SumOf(f, S \ {a}) /\ SumOf(f, S \ {a}) = c + s
        /\ SumOf(g, S) = d + SumOf(g, S \ {a}) /\ SumOf(g, S \ {a}) = e + s
    BY <1>7, <1>8, <1>10, Zenon
  <2>. QED
    BY <2>1
<1>12. d + (e + s) + b + c = b + (c + s) + d + e
  OBVIOUS
<1>13. SumOf(g, S) + f[a] + f[q] = SumOf(f, S) + g[a] + g[q]
  BY <1>10, <1>11, <1>12, Zenon
<1>. QED
  BY <1>13 DEF S

\* Turned around as a whole, a list of numbers has the same sum.
LEMMA ReversedSum ==
  ASSUME NEW n \in Nat, NEW f \in [1 .. n -> Nat], NEW g \in [1 .. n -> Nat],
         \A x \in 1 .. n : g[x] = IF x = n THEN f[n] ELSE f[n - x]
  PROVE  SumOf(g, 1 .. n) = SumOf(f, 1 .. n)
<1>. DEFINE S == 1 .. n
            by == [x \in S |-> IF x = n THEN n ELSE n - x]
<1>1. IsFiniteSet(S) /\ by \in [S -> S]
  BY FS_Interval
<1>2. \A x, y \in S : by[x] = by[y] => x = y
  OBVIOUS
<1>3. \A x \in S : f[x] \in Nat /\ g[x] = f[by[x]]
  OBVIOUS
<1>4. SumOf(g, S) = SumOf(f, S)
  <2>. HIDE DEF S, by
  <2>. QED
    BY <1>1, <1>2, <1>3, SumPermuted
<1>. QED
  BY <1>4

\* The cost of a pair does not depend on its direction.
LEMMA SameBothWays ==
  ASSUME OrderTypeOK, IPoints, NEW a \in Node, NEW b \in Node
  PROVE  Cost(a, b) = Cost(b, a)
<1>1. raw_distance(a, b) = raw_distance(b, a)
  <2>1. /\ points[a][1] \in Int /\ points[a][2] \in Int
        /\ points[b][1] \in Int /\ points[b][2] \in Int
    BY DEF IPoints
  <2>2. PICK x \in Int, y \in Int : x = points[a][1] - points[b][1]
                                    /\ y = points[a][2] - points[b][2]
    BY <2>1
  <2>3. points[b][1] - points[a][1] = -x /\ points[b][2] - points[a][2] = -y
    BY <2>1, <2>2
  <2>4. (-x) * (-x) = x * x /\ (-y) * (-y) = y * y
    OBVIOUS
  <2>. QED
    BY <2>2, <2>3, <2>4 DEF raw_distance
<1>2. graph_affinity(a, b) = graph_affinity(b, a)
  <2>1. PICK x \in Int, y \in Int : x = row_affinity(a, b) /\ y = row_affinity(b, a)
    BY Affinity, OrderAssumption
  <2>. QED
    BY <2>1 DEF graph_affinity
<1>. QED
  BY <1>1, <1>2 DEF Cost

\* The position that follows p on a closed walk of n.
Follow(p, n) == (p % n) + 1

\* The costs of the legs of a closed walk.
Legs(w) == [p \in DOMAIN w |-> Cost(w[p], w[(p % Len(w)) + 1])]

\* The position that follows is the next one, or the first.
LEMMA Following ==
  ASSUME NEW n \in Nat \ {0}, NEW p \in 1 .. n
  PROVE  /\ Follow(p, n) = IF p = n THEN 1 ELSE p + 1
         /\ Follow(p, n) \in 1 .. n
<1>1. CASE p = n
  <2>1. n = n * 1 + 0 /\ 0 \in 0 .. n - 1
    OBVIOUS
  <2>2. n % n = 0
    BY <2>1, Quotient
  <2>. QED
    BY <1>1, <2>2 DEF Follow
<1>2. CASE p < n
  <2>1. p % n = p
    BY <1>2, Below
  <2>. QED
    BY <1>2, <2>1 DEF Follow
<1>. QED
  BY <1>1, <1>2

\* The length of a closed walk is the sum of its legs.
LEMMA LengthIsSum ==
  ASSUME OrderTypeOK, IPoints, NEW w \in Seq(Node)
  PROVE  /\ Len(w) \in Nat /\ DOMAIN w = 1 .. Len(w)
         /\ \A p \in 1 .. Len(w) : w[p] \in Node /\ w[Follow(p, Len(w))] \in Node
         /\ Legs(w) \in [1 .. Len(w) -> Nat]
         /\ \A p \in 1 .. Len(w) : Legs(w)[p] = Cost(w[p], w[Follow(p, Len(w))])
         /\ Length(w) = SumOf(Legs(w), 1 .. Len(w))
         /\ Length(w) \in Nat
<1>1. Len(w) \in Nat /\ DOMAIN w = 1 .. Len(w) /\ \A p \in 1 .. Len(w) : w[p] \in Node
  BY Elements
<1>2. \A p \in 1 .. Len(w) : w[Follow(p, Len(w))] \in Node
  <2>. SUFFICES ASSUME NEW p \in 1 .. Len(w) PROVE w[Follow(p, Len(w))] \in Node
    OBVIOUS
  <2>1. Len(w) \in Nat \ {0}
    BY <1>1
  <2>2. Follow(p, Len(w)) \in 1 .. Len(w)
    BY <2>1, Following
  <2>. QED
    BY <1>1, <2>2
<1>3. \A p \in 1 .. Len(w) : Legs(w)[p] = Cost(w[p], w[Follow(p, Len(w))])
  BY <1>1 DEF Legs, Follow
<1>4. Legs(w) \in [1 .. Len(w) -> Nat]
  <2>1. \A p \in 1 .. Len(w) : Cost(w[p], w[Follow(p, Len(w))]) \in Nat
    BY <1>1, <1>2, Costs
  <2>2. Legs(w) = [p \in 1 .. Len(w) |-> Cost(w[p], w[Follow(p, Len(w))])]
    BY <1>1 DEF Legs, Follow
  <2>. QED
    BY <2>1, <2>2
<1>5. Length(w) = SumOf(Legs(w), 1 .. Len(w))
  <2>1. Length(w) = SumFunction(Legs(w))
    BY DEF Length, Legs
  <2>2. DOMAIN Legs(w) = 1 .. Len(w)
    BY <1>4
  <2>. QED
    BY <2>1, <2>2, SumOfFunction
<1>6. SumOf(Legs(w), 1 .. Len(w)) \in Nat
  <2>1. IsFiniteSet(1 .. Len(w))
    BY <1>1, FS_Interval
  <2>2. \A p \in 1 .. Len(w) : Legs(w)[p] \in Nat
    BY <1>4
  <2>. QED
    BY <2>1, <2>2, SumNat
<1>. QED
  BY <1>1, <1>2, <1>3, <1>4, <1>5, <1>6

\* The walk with its part from p to q turned around.
Turn(w, p, q) ==
  [x \in DOMAIN w |-> IF x \in p .. q THEN w[p + q - x] ELSE w[x]]

\* It is a walk of the same centroids.
LEMMA TurnIsWalk ==
  ASSUME NEW S, NEW w \in Seq(S), NEW p \in 1 .. Len(w), NEW q \in p .. Len(w)
  PROVE  /\ Turn(w, p, q) \in Seq(S) /\ Len(Turn(w, p, q)) = Len(w)
         /\ \A x \in p .. q : Turn(w, p, q)[x] = w[p + q - x]
         /\ \A x \in (1 .. Len(w)) \ (p .. q) : Turn(w, p, q)[x] = w[x]
<1>1. Len(w) \in Nat /\ DOMAIN w = 1 .. Len(w) /\ \A x \in 1 .. Len(w) : w[x] \in S
  BY Elements
<1>2. PICK n \in Nat : n = Len(w)
  BY <1>1
<1>3. \A x \in p .. q : x \in 1 .. n /\ p + q - x \in 1 .. n
  BY <1>2
<1>4. Turn(w, p, q) \in [1 .. n -> S]
  BY <1>1, <1>2, <1>3 DEF Turn
<1>5. Turn(w, p, q) \in Seq(S) /\ Len(Turn(w, p, q)) = n
  BY <1>2, <1>4
<1>. QED
  BY <1>1, <1>2, <1>3, <1>5 DEF Turn

\* Turning a part around exchanges two legs and keeps the cost of the others: a is
\* the position before the part.
LEMMA TurnCost ==
  ASSUME OrderTypeOK, IPoints, NEW w \in Seq(Node),
         NEW p \in 1 .. Len(w), NEW q \in p .. Len(w), p # 1 \/ q # Len(w),
         NEW a, a = IF p = 1 THEN Len(w) ELSE p - 1
  PROVE  Length(Turn(w, p, q)) + Legs(w)[a] + Legs(w)[q]
           = Length(w) + Cost(w[a], w[q]) + Cost(w[p], w[Follow(q, Len(w))])
<1>1. PICK n \in Nat \ {0} : n = Len(w)
  BY LengthIsSum
<1>2. PICK v : v = Turn(w, p, q)
  OBVIOUS
<1>3. /\ v \in Seq(Node) /\ Len(v) = n
      /\ \A x \in p .. q : v[x] = w[p + q - x]
      /\ \A x \in (1 .. n) \ (p .. q) : v[x] = w[x]
  BY <1>1, <1>2, TurnIsWalk
<1>4. PICK f, g : f = Legs(w) /\ g = Legs(v)
  OBVIOUS
<1>5. /\ f \in [1 .. n -> Nat] /\ Length(w) = SumOf(f, 1 .. n)
      /\ \A x \in 1 .. n : f[x] = Cost(w[x], w[Follow(x, n)])
      /\ \A x \in 1 .. n : w[x] \in Node
  BY <1>1, <1>4, LengthIsSum
<1>6. /\ g \in [1 .. n -> Nat] /\ Length(v) = SumOf(g, 1 .. n)
      /\ \A x \in 1 .. n : g[x] = Cost(v[x], v[Follow(x, n)])
  BY <1>3, <1>4, LengthIsSum
<1>7. p \in 1 .. n /\ q \in p .. n /\ a \in (1 .. n) \ (p .. q)
  BY <1>1
<1>8. \A x \in 1 .. n : Follow(x, n) = IF x = n THEN 1 ELSE x + 1
  BY Following
<1>9. \A x \in p .. q - 1 : g[x] = f[p + q - 1 - x]
  <2>. SUFFICES ASSUME NEW x \in p .. q - 1 PROVE g[x] = f[p + q - 1 - x]
    OBVIOUS
  <2>1. PICK y \in p .. q - 1 : y = p + q - 1 - x
    OBVIOUS
  <2>2. x \in 1 .. n /\ y \in 1 .. n /\ x # n /\ y # n
    BY <1>7
  <2>3. Follow(x, n) = x + 1 /\ Follow(y, n) = y + 1
    BY <1>8, <2>2
  <2>4. p + q - x = y + 1 /\ p + q - (x + 1) = y /\ x \in p .. q /\ x + 1 \in p .. q
        /\ y + 1 \in 1 .. n
    BY <1>7, <2>1
  <2>5. v[x] = w[y + 1] /\ v[x + 1] = w[y]
    BY <1>3, <2>4
  <2>6. w[y] \in Node /\ w[y + 1] \in Node
    BY <1>5, <2>2, <2>4
  <2>7. Cost(w[y + 1], w[y]) = Cost(w[y], w[y + 1])
    BY <2>6, SameBothWays
  <2>. QED
    BY <1>5, <1>6, <2>1, <2>2, <2>3, <2>5, <2>7
<1>10. \A x \in (1 .. n) \ (p .. q) : x # a => g[x] = f[x]
  <2>. SUFFICES ASSUME NEW x \in (1 .. n) \ (p .. q), x # a PROVE g[x] = f[x]
    OBVIOUS
  <2>1. Follow(x, n) \in (1 .. n) \ (p .. q)
    BY <1>1, <1>7, <1>8
  <2>2. v[x] = w[x] /\ v[Follow(x, n)] = w[Follow(x, n)] /\ x \in 1 .. n
    BY <1>3, <2>1
  <2>3. g[x] = Cost(w[x], w[Follow(x, n)]) /\ f[x] = Cost(w[x], w[Follow(x, n)])
    BY <1>5, <1>6, <2>2
  <2>. QED
    BY <2>3
<1>11. SumOf(g, 1 .. n) + f[a] + f[q] = SumOf(f, 1 .. n) + g[a] + g[q]
  <2>1. LegsTurned(f, g, n, p, q, a)
    BY <1>5, <1>6, <1>7, <1>9, <1>10 DEF LegsTurned
  <2>2. n \in Nat
    OBVIOUS
  <2>. QED
    BY <2>1, <2>2, TurnedSum
<1>12. g[a] = Cost(w[a], w[q])
  <2>1. Follow(a, n) = p /\ a \in 1 .. n
    BY <1>1, <1>7, <1>8
  <2>2. p \in p .. q /\ p + q - p = q
    BY <1>7
  <2>3. v[a] = w[a] /\ v[p] = w[q]
    BY <1>3, <1>7, <2>2
  <2>. QED
    BY <1>6, <2>1, <2>3
<1>13. g[q] = Cost(w[p], w[Follow(q, n)])
  <2>1. Follow(q, n) \in (1 .. n) \ (p .. q)
    BY <1>1, <1>7, <1>8
  <2>2. q \in p .. q /\ p + q - q = p /\ q \in 1 .. n
    BY <1>7
  <2>3. v[q] = w[p] /\ v[Follow(q, n)] = w[Follow(q, n)]
    BY <1>3, <2>1, <2>2
  <2>. QED
    BY <1>6, <2>2, <2>3
<1>. QED
  BY <1>1, <1>2, <1>4, <1>5, <1>6, <1>11, <1>12, <1>13

\* Turned around as a whole, a walk is as long as before.
LEMMA ReversedCost ==
  ASSUME OrderTypeOK, IPoints, NEW w \in Seq(Node), w # <<>>
  PROVE  Length(Turn(w, 1, Len(w))) = Length(w)
<1>1. PICK n \in Nat \ {0} : n = Len(w)
  BY LengthIsSum, EmptySeq
<1>2. PICK v : v = Turn(w, 1, n)
  OBVIOUS
<1>3. /\ v \in Seq(Node) /\ Len(v) = n
      /\ \A x \in 1 .. n : v[x] = w[1 + n - x]
  <2>1. 1 \in 1 .. Len(w) /\ n \in 1 .. Len(w)
    BY <1>1
  <2>. QED
    BY <1>1, <1>2, <2>1, TurnIsWalk
<1>4. PICK f, g : f = Legs(w) /\ g = Legs(v)
  OBVIOUS
<1>5. /\ f \in [1 .. n -> Nat] /\ Length(w) = SumOf(f, 1 .. n)
      /\ \A x \in 1 .. n : f[x] = Cost(w[x], w[Follow(x, n)])
      /\ \A x \in 1 .. n : w[x] \in Node
  BY <1>1, <1>4, LengthIsSum
<1>6. /\ g \in [1 .. n -> Nat] /\ Length(v) = SumOf(g, 1 .. n)
      /\ \A x \in 1 .. n : g[x] = Cost(v[x], v[Follow(x, n)])
  BY <1>3, <1>4, LengthIsSum
<1>7. \A x \in 1 .. n : Follow(x, n) = IF x = n THEN 1 ELSE x + 1
  BY Following
<1>8. ASSUME NEW x \in 1 .. n PROVE g[x] = IF x = n THEN f[n] ELSE f[n - x]
  <2>1. CASE x = n
    <3>1. /\ Follow(n, n) = 1 /\ 1 + n - n = 1 /\ 1 + n - 1 = n /\ n \in 1 .. n
          /\ 1 \in 1 .. n
      BY <1>7
    <3>2. v[n] = w[1] /\ v[1] = w[n]
      BY <1>3, <3>1
    <3>3. Cost(w[1], w[n]) = Cost(w[n], w[1])
      BY <1>5, <3>1, SameBothWays
    <3>. QED
      BY <1>5, <1>6, <2>1, <3>1, <3>2, <3>3
  <2>2. CASE x # n
    <3>1. PICK y \in 1 .. n - 1 : y = n - x
      BY <2>2
    <3>2. /\ x + 1 \in 1 .. n /\ y \in 1 .. n /\ y + 1 \in 1 .. n
          /\ 1 + n - x = y + 1 /\ 1 + n - (x + 1) = y
      BY <2>2, <3>1
    <3>3. Follow(x, n) = x + 1 /\ Follow(y, n) = y + 1
      BY <1>7, <2>2, <3>1, <3>2
    <3>4. v[x] = w[y + 1] /\ v[x + 1] = w[y]
      BY <1>3, <3>2
    <3>5. Cost(w[y + 1], w[y]) = Cost(w[y], w[y + 1])
      BY <1>5, <3>2, SameBothWays
    <3>. QED
      BY <1>5, <1>6, <2>2, <3>1, <3>2, <3>3, <3>4, <3>5
  <2>. QED
    BY <2>1, <2>2
<1>9. SumOf(g, 1 .. n) = SumOf(f, 1 .. n)
  BY <1>5, <1>6, <1>8, ReversedSum
<1>. QED
  BY <1>1, <1>2, <1>5, <1>6, <1>9

\* What two_opt_refine_cycle calculates as the gain of an exchange is what the walk
\* gets shorter by.
LEMMA ExchangeGain ==
  ASSUME OrderTypeOK, IPoints, NEW e \in Exchanges
  PROVE  /\ e[1] + 1 \in 1 .. Len(cycle) /\ e[2] \in e[1] + 1 .. Len(cycle)
         /\ Gain(e) \in Int
         /\ Length(Turn(cycle, e[1] + 1, e[2])) = Length(cycle) - Gain(e)
<1>1. cycle \in Seq(Node)
  BY DEF OrderTypeOK
<1>2. PICK n \in Nat : n = Len(cycle)
  BY <1>1, LengthIsSum
<1>3. PICK a, q : a = e[1] /\ q = e[2]
  OBVIOUS
<1>4. /\ a \in 1 .. n /\ q \in 1 .. n /\ a + 2 <= q /\ ~ (a = 1 /\ q = n)
  BY <1>2, <1>3 DEF Exchanges
<1>5. PICK p : p = a + 1
  OBVIOUS
<1>6. /\ p \in 1 .. n /\ q \in p .. n /\ n # 0 /\ p # 1 /\ a = p - 1
  BY <1>4, <1>5
<1>7. Follow(a, n) = p /\ Follow(q, n) \in 1 .. n
  BY <1>4, <1>5, <1>6, Following
<1>8. PICK L : L = Legs(cycle)
  OBVIOUS
<1>9. /\ L[a] = Cost(cycle[a], cycle[p]) /\ L[q] = Cost(cycle[q], cycle[Follow(q, n)])
      /\ Length(cycle) \in Nat
  BY <1>1, <1>2, <1>4, <1>7, <1>8, LengthIsSum
<1>10. \A x \in 1 .. n : cycle[x] \in Node
  BY <1>1, <1>2, LengthIsSum
<1>11. PICK x \in Nat, y \in Nat, u \in Nat, z \in Nat :
         /\ x = L[a] /\ y = L[q]
         /\ u = Cost(cycle[a], cycle[q]) /\ z = Cost(cycle[p], cycle[Follow(q, n)])
  <2>1. /\ cycle[a] \in Node /\ cycle[p] \in Node /\ cycle[q] \in Node
        /\ cycle[Follow(q, n)] \in Node
    BY <1>4, <1>6, <1>7, <1>10
  <2>. QED
    BY <1>9, <2>1, Costs
<1>12. Length(Turn(cycle, p, q)) + x + y = Length(cycle) + u + z
  <2>1. p # 1 \/ q # Len(cycle)
    BY <1>6
  <2>2. a = IF p = 1 THEN Len(cycle) ELSE p - 1
    BY <1>6
  <2>3. /\ p \in 1 .. Len(cycle) /\ q \in p .. Len(cycle)
    BY <1>2, <1>6
  <2>4. Length(Turn(cycle, p, q)) + L[a] + L[q]
          = Length(cycle) + Cost(cycle[a], cycle[q]) + Cost(cycle[p], cycle[Follow(q, n)])
    BY <1>1, <1>2, <1>8, <2>1, <2>2, <2>3, TurnCost
  <2>. QED
    BY <1>11, <2>4
<1>13. Gain(e) = x + y - u - z
  <2>1. After(a) = p /\ After(q) = Follow(q, n)
    BY <1>2, <1>7 DEF After, Follow
  <2>. QED
    BY <1>3, <1>9, <1>11, <2>1 DEF Gain, EdgeCost
<1>14. Turn(cycle, p, q) \in Seq(Node)
  BY <1>1, <1>2, <1>6, TurnIsWalk
<1>15. Length(Turn(cycle, p, q)) \in Nat
  BY <1>14, LengthIsSum
<1>16. Length(Turn(cycle, p, q)) = Length(cycle) - Gain(e)
  <2>1. PICK l \in Nat, m \in Nat : l = Length(Turn(cycle, p, q)) /\ m = Length(cycle)
    BY <1>9, <1>15
  <2>2. l = m - (x + y - u - z)
    BY <1>12, <2>1
  <2>. QED
    BY <1>13, <2>1, <2>2
<1>17. Gain(e) \in Int
  BY <1>13
<1>. QED
  BY <1>2, <1>3, <1>5, <1>6, <1>16, <1>17

\* So an exchange that is made shortens the walk.
LEMMA RefineShortens ==
  ASSUME OrderTypeOK, IPoints, Refine
  PROVE  Length(cycle') < Length(cycle)
<1>1. PICK e \in Exchanges : Gain(e) > 0 /\ cycle' = Exchanged(e)
  BY DEF Refine
<1>2. cycle' = Turn(cycle, e[1] + 1, e[2])
  BY <1>1 DEF Exchanged, Turn
<1>3. PICK m \in Nat : m = Length(cycle)
  BY LengthIsSum DEF OrderTypeOK
<1>4. PICK g \in Int : g = Gain(e)
  BY ExchangeGain
<1>5. Length(cycle') = m - g
  BY <1>2, <1>3, <1>4, ExchangeGain
<1>. QED
  BY <1>1, <1>3, <1>4, <1>5

\* Turning around a part that begins the walk and is not nearly all of it exchanges
\* the legs behind it and before the walk's first centroid.
LEMMA FirstPartGain ==
  ASSUME OrderTypeOK, IPoints, NEW q \in 2 .. Len(cycle) - 2
  PROVE  /\ <<q, Len(cycle)>> \in Exchanges /\ Gain(<<q, Len(cycle)>>) \in Int
         /\ Length(Turn(cycle, 1, q)) = Length(cycle) - Gain(<<q, Len(cycle)>>)
<1>1. cycle \in Seq(Node)
  BY DEF OrderTypeOK
<1>2. PICK n \in Nat : n = Len(cycle)
  BY <1>1, LengthIsSum
<1>3. q \in 1 .. n /\ q + 1 \in 1 .. n /\ q + 2 <= n /\ n \in 1 .. n /\ 1 \in 1 .. n
  BY <1>2
<1>4. <<q, n>> \in Exchanges
  BY <1>2, <1>3 DEF Exchanges
<1>5. Follow(q, n) = q + 1 /\ Follow(n, n) = 1
  <2>1. n \in Nat \ {0} /\ q # n
    BY <1>2, <1>3
  <2>. QED
    BY <1>3, <2>1, Following
<1>6. PICK L : L = Legs(cycle)
  OBVIOUS
<1>7. /\ L[n] = Cost(cycle[n], cycle[1]) /\ L[q] = Cost(cycle[q], cycle[q + 1])
      /\ Length(cycle) \in Nat
  BY <1>1, <1>2, <1>3, <1>5, <1>6, LengthIsSum
<1>8. /\ cycle[n] \in Node /\ cycle[q] \in Node /\ cycle[1] \in Node
      /\ cycle[q + 1] \in Node
  BY <1>1, <1>2, <1>3, LengthIsSum
<1>9. PICK x \in Nat, y \in Nat, u \in Nat, z \in Nat :
        /\ x = L[n] /\ y = L[q]
        /\ u = Cost(cycle[n], cycle[q]) /\ z = Cost(cycle[1], cycle[q + 1])
  BY <1>7, <1>8, Costs
<1>10. Cost(cycle[q], cycle[n]) = u /\ Cost(cycle[q + 1], cycle[1]) = z
  BY <1>8, <1>9, SameBothWays
<1>11. Length(Turn(cycle, 1, q)) + x + y = Length(cycle) + u + z
  <2>1. 1 # 1 \/ q # Len(cycle)
    BY <1>2, <1>3
  <2>2. n = IF 1 = 1 THEN Len(cycle) ELSE 1 - 1
    BY <1>2
  <2>3. 1 \in 1 .. Len(cycle) /\ q \in 1 .. Len(cycle)
    BY <1>2, <1>3
  <2>4. Length(Turn(cycle, 1, q)) + L[n] + L[q]
          = Length(cycle) + Cost(cycle[n], cycle[q]) + Cost(cycle[1], cycle[Follow(q, n)])
    BY <1>1, <1>2, <1>6, <2>1, <2>2, <2>3, TurnCost
  <2>. QED
    BY <1>5, <1>9, <2>4
<1>12. Gain(<<q, n>>) = x + y - u - z
  <2>1. After(q) = q + 1 /\ After(n) = 1
    BY <1>2, <1>5 DEF After, Follow
  <2>2. EdgeCost(q) = y /\ EdgeCost(n) = x
    BY <1>7, <1>9, <2>1 DEF EdgeCost
  <2>3. Gain(<<q, n>>) = y + x - u - z
    BY <1>10, <2>1, <2>2 DEF Gain
  <2>. QED
    BY <2>3
<1>13. Turn(cycle, 1, q) \in Seq(Node)
  BY <1>1, <1>2, <1>3, TurnIsWalk
<1>14. PICK l \in Nat, m \in Nat : l = Length(Turn(cycle, 1, q)) /\ m = Length(cycle)
  BY <1>7, <1>13, LengthIsSum
<1>15. l = m - (x + y - u - z)
  <2>1. l + x + y = m + u + z
    BY <1>11, <1>14
  <2>. QED
    BY <2>1
<1>. QED
  BY <1>2, <1>4, <1>12, <1>14, <1>15

\* Turning around all but the first centroid, or all but the last one, leaves the walk
\* as long as it was.
LEMMA AllButOne ==
  ASSUME OrderTypeOK, IPoints, NEW p \in 1 .. 2, NEW q, Len(cycle) > 2,
         q = IF p = 1 THEN Len(cycle) - 1 ELSE Len(cycle)
  PROVE  Length(Turn(cycle, p, q)) = Length(cycle)
<1>1. cycle \in Seq(Node)
  BY DEF OrderTypeOK
<1>2. PICK n \in Nat : n = Len(cycle)
  BY <1>1, LengthIsSum
<1>3. PICK a : a = IF p = 1 THEN n ELSE p - 1
  OBVIOUS
<1>4. /\ p \in 1 .. n /\ q \in p .. n /\ a \in 1 .. n
      /\ p # 1 \/ q # n
      /\ Follow(a, n) = p /\ Follow(q, n) = a
  <2>0. n \in Nat \ {0}
    BY <1>2
  <2>1. \A x \in 1 .. n : Follow(x, n) = IF x = n THEN 1 ELSE x + 1
    BY <2>0, Following
  <2>2. CASE p = 1
    <3>1. q = n - 1 /\ a = n /\ n > 2
      BY <1>2, <1>3, <2>2
    <3>. QED
      BY <2>1, <2>2, <3>1
  <2>3. CASE p = 2
    <3>1. q = n /\ a = 1 /\ n > 2
      BY <1>2, <1>3, <2>3
    <3>. QED
      BY <2>1, <2>3, <3>1
  <2>. QED
    BY <2>2, <2>3
<1>5. PICK L : L = Legs(cycle)
  OBVIOUS
<1>6. /\ L[a] = Cost(cycle[a], cycle[p]) /\ L[q] = Cost(cycle[q], cycle[a])
      /\ Length(cycle) \in Nat
  BY <1>1, <1>2, <1>4, <1>5, LengthIsSum
<1>7. cycle[a] \in Node /\ cycle[p] \in Node /\ cycle[q] \in Node
  BY <1>1, <1>2, <1>4, LengthIsSum
<1>8. PICK x \in Nat, y \in Nat : x = L[a] /\ y = L[q]
  BY <1>6, <1>7, Costs
<1>9. Cost(cycle[a], cycle[q]) = y /\ Cost(cycle[p], cycle[a]) = x
  BY <1>6, <1>7, <1>8, SameBothWays
<1>10. Length(Turn(cycle, p, q)) + x + y = Length(cycle) + y + x
  <2>1. p # 1 \/ q # Len(cycle)
    BY <1>2, <1>4
  <2>2. a = IF p = 1 THEN Len(cycle) ELSE p - 1
    BY <1>2, <1>3
  <2>3. p \in 1 .. Len(cycle) /\ q \in p .. Len(cycle)
    BY <1>2, <1>4
  <2>4. Length(Turn(cycle, p, q)) + L[a] + L[q]
          = Length(cycle) + Cost(cycle[a], cycle[q]) + Cost(cycle[p], cycle[Follow(q, n)])
    BY <1>1, <1>2, <1>5, <2>1, <2>2, <2>3, TurnCost
  <2>. QED
    BY <1>4, <1>8, <1>9, <2>4
<1>11. Turn(cycle, p, q) \in Seq(Node)
  BY <1>1, <1>2, <1>4, TurnIsWalk
<1>12. PICK l \in Nat, m \in Nat : l = Length(Turn(cycle, p, q)) /\ m = Length(cycle)
  BY <1>6, <1>11, LengthIsSum
<1>13. l = m
  BY <1>10, <1>12
<1>. QED
  BY <1>12, <1>13

\* Where no exchange gains anything, no part of the walk can be turned around to
\* shorten it: the exchanges that are tried stand for all of them.
LEMMA NoExchangeMissed ==
  ASSUME OrderTypeOK, IPoints, \A e \in Exchanges : Gain(e) <= 0,
         NEW p \in DOMAIN cycle, NEW q \in DOMAIN cycle, p < q
  PROVE  Length(cycle) <= Length(Turn(cycle, p, q))
<1>1. cycle \in Seq(Node)
  BY DEF OrderTypeOK
<1>2. PICK n \in Nat, m \in Nat : n = Len(cycle) /\ m = Length(cycle)
  BY <1>1, LengthIsSum
<1>3. p \in 1 .. n /\ q \in 1 .. n
  BY <1>1, <1>2, LengthIsSum
<1>4. ASSUME NEW g \in Int, g <= 0, Length(Turn(cycle, p, q)) = m - g
      PROVE  Length(cycle) <= Length(Turn(cycle, p, q))
  BY <1>2, <1>4
<1>5. CASE p = 1 /\ q = n
  <2>1. cycle # <<>>
    BY <1>2, <1>3
  <2>2. Length(Turn(cycle, p, q)) = m - 0
    BY <1>1, <1>2, <1>5, <2>1, ReversedCost
  <2>. QED
    BY <1>4, <2>2
<1>6. CASE (p = 1 /\ q = n - 1) \/ (p = 2 /\ q = n)
  <2>1. /\ p \in 1 .. 2 /\ Len(cycle) > 2
        /\ q = IF p = 1 THEN Len(cycle) - 1 ELSE Len(cycle)
    BY <1>2, <1>3, <1>6
  <2>2. Length(Turn(cycle, p, q)) = m - 0
    BY <1>2, <2>1, AllButOne
  <2>. QED
    BY <1>4, <2>2
<1>7. CASE p = 1 /\ q < n - 1
  <2>1. q \in 2 .. Len(cycle) - 2
    BY <1>2, <1>3, <1>7
  <2>2. PICK g : g = Gain(<<q, n>>)
    OBVIOUS
  <2>3. g \in Int /\ g <= 0 /\ Length(Turn(cycle, 1, q)) = m - g
    BY <1>2, <2>1, <2>2, FirstPartGain
  <2>. QED
    BY <1>4, <1>7, <2>3
<1>8. CASE p > 1 /\ ~ (p = 2 /\ q = n)
  <2>1. PICK e : e = <<p - 1, q>>
    OBVIOUS
  <2>2. e \in Exchanges
    BY <1>2, <1>3, <1>8, <2>1 DEF Exchanges
  <2>3. e[1] + 1 = p /\ e[2] = q
    BY <1>3, <2>1
  <2>4. PICK g : g = Gain(e)
    OBVIOUS
  <2>5. g \in Int /\ g <= 0 /\ Length(Turn(cycle, p, q)) = m - g
    BY <1>2, <2>2, <2>3, <2>4, ExchangeGain
  <2>. QED
    BY <1>4, <2>5
<1>. QED
  BY <1>3, <1>5, <1>6, <1>7, <1>8

\* Neighbours in the order were neighbours in the walk; its last and its first
\* centroid are those that the cut parts.
LEMMA BehindFollows ==
  ASSUME NEW n \in Nat \ {0}, NEW c \in 1 .. n
  PROVE  /\ \A p \in 1 .. n - 1 : Behind(c, n)[p + 1] = Follow(Behind(c, n)[p], n)
         /\ Behind(c, n)[n] = c /\ Behind(c, n)[1] = Follow(c, n)
<1>1. ASSUME NEW p \in 1 .. n - 1
      PROVE  Behind(c, n)[p + 1] = Follow(Behind(c, n)[p], n)
  <2>1. PICK s \in Nat : s = c + p - 1
    OBVIOUS
  <2>2. ((s % n) + 1) % n = (s + 1) % n
    BY <2>1, ModAdd
  <2>3. p \in 1 .. n /\ p + 1 \in 1 .. n /\ c + (p + 1) - 1 = s + 1
    BY <2>1
  <2>4. Behind(c, n)[p] = (s % n) + 1
    BY <2>1, <2>3 DEF Behind
  <2>5. Behind(c, n)[p + 1] = ((s + 1) % n) + 1
    BY <2>3 DEF Behind
  <2>. QED
    BY <2>2, <2>4, <2>5 DEF Follow
<1>2. Behind(c, n)[n] = c
  <2>1. c + n - 1 = n * 1 + (c - 1) /\ c - 1 \in 0 .. n - 1 /\ n \in 1 .. n
    OBVIOUS
  <2>2. (n * 1 + (c - 1)) % n = c - 1
    BY <2>1, Quotient
  <2>3. ((c + n - 1) % n) = c - 1
    BY <2>1, <2>2
  <2>4. Behind(c, n)[n] = ((c + n - 1) % n) + 1
    BY <2>1 DEF Behind
  <2>. QED
    BY <2>3, <2>4
<1>3. Behind(c, n)[1] = Follow(c, n)
  <2>1. 1 \in 1 .. n /\ c + 1 - 1 = c
    OBVIOUS
  <2>. QED
    BY <2>1 DEF Behind, Follow
<1>. QED
  BY <1>1, <1>2, <1>3

\* The leg that the cut leaves out is a longest one.
LEMMA CutLeavesLongest ==
  ASSUME OrderTypeOK, IPoints, Cut, NEW p \in 1 .. Len(cycle) - 1
  PROVE  Cost(cycle'[p], cycle'[p + 1]) <= Cost(cycle'[Len(cycle)], cycle'[1])
<1>1. cycle \in Seq(Node)
  BY DEF OrderTypeOK
<1>2. PICK n \in Nat \ {0} : n = Len(cycle)
  BY <1>1, LengthIsSum
<1>3. DOMAIN cycle = 1 .. n
  BY <1>1, <1>2, LengthIsSum
<1>4. PICK c \in 1 .. n :
        /\ \A j \in 1 .. n : EdgeCost(c) > EdgeCost(j) \/ EdgeCost(c) = EdgeCost(j)
        /\ cycle' = [x \in 1 .. n |-> cycle[((c + x - 1) % n) + 1]]
  BY <1>2, <1>3 DEF Cut
<1>5. PICK by : by = Behind(c, n)
  OBVIOUS
<1>6. /\ by \in [1 .. n -> 1 .. n] /\ by[n] = c /\ by[1] = Follow(c, n)
      /\ \A x \in 1 .. n - 1 : by[x + 1] = Follow(by[x], n)
  BY <1>5, Turned, BehindFollows
<1>7. \A x \in 1 .. n : cycle'[x] = cycle[by[x]]
  BY <1>4, <1>5 DEF Behind
<1>8. \A x \in 1 .. n : EdgeCost(x) = Cost(cycle[x], cycle[Follow(x, n)]) /\ EdgeCost(x) \in Nat
  <2>. SUFFICES ASSUME NEW x \in 1 .. n
                PROVE  /\ EdgeCost(x) = Cost(cycle[x], cycle[Follow(x, n)])
                       /\ EdgeCost(x) \in Nat
    OBVIOUS
  <2>1. EdgeCost(x) = Cost(cycle[x], cycle[Follow(x, n)])
    BY <1>2 DEF EdgeCost, After, Follow
  <2>2. cycle[x] \in Node /\ cycle[Follow(x, n)] \in Node
    BY <1>1, <1>2, LengthIsSum
  <2>. QED
    BY <2>1, <2>2, Costs
<1>9. Cost(cycle'[n], cycle'[1]) = EdgeCost(c)
  <2>1. n \in 1 .. n /\ 1 \in 1 .. n
    OBVIOUS
  <2>2. cycle'[n] = cycle[c] /\ cycle'[1] = cycle[Follow(c, n)]
    BY <1>6, <1>7, <2>1
  <2>. QED
    BY <1>8, <2>2
<1>10. PICK x \in 1 .. n : x = by[p] /\ Cost(cycle'[p], cycle'[p + 1]) = EdgeCost(x)
  <2>1. p \in 1 .. n - 1 /\ p \in 1 .. n /\ p + 1 \in 1 .. n
    BY <1>2
  <2>2. by[p] \in 1 .. n /\ by[p + 1] = Follow(by[p], n)
    BY <1>6, <2>1
  <2>3. cycle'[p] = cycle[by[p]] /\ cycle'[p + 1] = cycle[Follow(by[p], n)]
    BY <1>7, <2>1, <2>2
  <2>. QED
    BY <1>8, <2>2, <2>3
<1>11. PICK u \in Nat, v \in Nat : u = EdgeCost(c) /\ v = EdgeCost(x)
  BY <1>4, <1>8, <1>10
<1>12. v <= u
  <2>1. EdgeCost(c) > EdgeCost(x) \/ EdgeCost(c) = EdgeCost(x)
    BY <1>4, Zenon
  <2>2. u > v \/ u = v
    BY <1>11, <2>1, Zenon
  <2>. QED
    BY <2>2
<1>. QED
  BY <1>2, <1>9, <1>10, <1>11, <1>12

\* The number of iterations stays as it was given.
IOptions == options.iterations \in Nat

\* In every training an exchange shortens the walk, none that would is missed while
\* iterations are left, and the order leaves out a longest leg of the walk.
THEOREM OrderIsImproved == TrainingSpec => OrderImproves
<1>1. TrainingInit => IOptions
  <2>. SUFFICES ASSUME TrainingInit PROVE IOptions
    OBVIOUS
  <2>1. CASE options = [knn |-> 1, iterations |-> 0, graph |-> FALSE]
    BY <2>1 DEF IOptions
  <2>2. CASE \E t \in Trainings : options = t.options
    BY <2>2, TrainingAssumption DEF IOptions
  <2>. QED
    BY <2>1, <2>2 DEF TrainingInit, OrderInit
<1>2. ASSUME IOptions, [TrainingNext]_trainingVars PROVE IOptions'
  <2>1. UNCHANGED options
    BY <1>2
    DEF TrainingNext, trainingVars, orderVars, Compute, UseOrder, Allocate, OrderNext,
        AddAffinity, GraphBuilt, FindNeighbours, AddGraphEdges, GrowTree, HeapEmpty,
        Attach, Join, StartWalk, Visit, Walked, Refine, Refined, Cut
  <2>. QED
    BY <1>2, <2>1 DEF IOptions
<1>. DEFINE Improves ==
       /\ step = "refine" /\ cycle' # cycle => Length(cycle') < Length(cycle)
       /\ step = "refine" /\ step' = "cut" /\ at < options.iterations =>
            \A p, q \in DOMAIN cycle : p < q =>
              Length(cycle) <=
                Length([n \in DOMAIN cycle |->
                          IF n \in p .. q THEN cycle[p + q - n] ELSE cycle[n]])
       /\ step = "cut" =>
            \A p \in 1 .. Len(cycle) - 1 :
              Cost(cycle'[p], cycle'[p + 1]) <= Cost(cycle'[Len(cycle)], cycle'[1])
<1>3. ASSUME ICover, IOptions, [TrainingNext]_trainingVars
      PROVE  [Improves]_trainingVars
  <2>. SUFFICES ASSUME TrainingNext PROVE Improves
    BY <1>3
  <2>0. OrderTypeOK /\ IPoints
    BY <1>3 DEF ICover
  <2>1. CASE step \notin {"refine", "cut"}
    BY <2>1
  <2>2. CASE step = "refine"
    <3>1. Refine \/ Refined
      BY <2>2
      DEF TrainingNext, Compute, UseOrder, Allocate, OrderNext, AddAffinity, GraphBuilt,
          FindNeighbours, AddGraphEdges, GrowTree, HeapEmpty, Attach, StartWalk, Visit,
          Walked, Cut
    <3>2. CASE Refine
      <4>1. step' = step
        BY <3>2 DEF Refine
      <4>. QED
        BY <2>0, <2>2, <3>2, <4>1, RefineShortens
    <3>3. CASE Refined
      <4>1. cycle' = cycle
        BY <3>3 DEF Refined
      <4>2. ASSUME at < options.iterations PROVE \A e \in Exchanges : Gain(e) <= 0
        <5>1. at \in Nat /\ options.iterations \in Nat
          BY <1>3, <2>0 DEF IOptions, OrderTypeOK
        <5>2. ~ (at >= options.iterations)
          BY <4>2, <5>1
        <5>. QED
          BY <3>3, <5>2 DEF Refined
      <4>3. ASSUME at < options.iterations, NEW p \in DOMAIN cycle, NEW q \in DOMAIN cycle,
                   p < q
            PROVE  Length(cycle) <= Length(Turn(cycle, p, q))
        BY <2>0, <4>2, <4>3, NoExchangeMissed
      <4>. QED
        BY <2>2, <4>1, <4>3 DEF Turn
    <3>. QED
      BY <3>1, <3>2, <3>3
  <2>3. CASE step = "cut"
    <3>1. Cut
      BY <2>3
      DEF TrainingNext, Compute, UseOrder, Allocate, OrderNext, AddAffinity, GraphBuilt,
          FindNeighbours, AddGraphEdges, GrowTree, HeapEmpty, Attach, StartWalk, Visit,
          Walked, Refine, Refined
    <3>. QED
      BY <2>0, <2>3, <3>1, CutLeavesLongest
  <2>. QED
    BY <2>1, <2>2, <2>3
<1>. QED
  BY <1>1, <1>2, <1>3, OrderInvariant, PTL DEF TrainingSpec, OrderImproves

=============================================================================
