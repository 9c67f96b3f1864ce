-------------------------- MODULE RangeAllocation --------------------------
(***************************************************************************)
(* allocate_ranges: the hash space is cut into one range per centroid, in  *)
(* the order of the centroids, each range proportional to the centroid's   *)
(* mass by the method of largest remainders; and the arithmetic by which   *)
(* VortexModel places a vector inside its centroid's range.                *)
(*                                                                         *)
(* Every loop of allocate_ranges is an action that handles one centroid.   *)
(* A 64-bit word has Word values, and a UInt256 is four of them.           *)
(***************************************************************************)
EXTENDS Integers, FiniteSets

CONSTANTS
  MaxCentroids,
  Masses,       \* masses of a centroid
  MaxTotal,     \* the largest uint64_t
  Word,         \* 2^64
  Spaces        \* 2^hash_bits, for hash_bits in [1, 256]

Modulus == Word * Word * Word * Word

ASSUME RangeAssumption ==
  /\ MaxCentroids \in Nat \ {0}
  /\ Masses \subseteq Nat
  /\ Word \in Nat /\ Word > 1
  /\ MaxTotal \in Nat /\ MaxTotal < Modulus
  /\ Spaces \subseteq 1 .. Modulus

VARIABLES
  k,              \* the number of centroids
  mass, order,    \* arguments: mass by centroid, centroid by position
  space,          \* argument: 2^hash_bits
  i,              \* position of the loop in hand
  total,          \* total_mass
  remainders,
  sum_remainders,
  given,          \* centroids that got one of the values left over
  range_size,
  range_start,
  range_full,
  cursor,
  pc

input == <<k, mass, order, space>>
table == <<range_size, range_start, range_full>>
vars  == <<input, table, i, total, remainders, sum_remainders, given, cursor, pc>>

Stage == {"order", "total", "quota", "extra", "place", "validate",
          "done", "rejected", "failed"}

Centroid == 0 .. k - 1

TypeOK ==
  /\ k \in 1 .. MaxCentroids
  /\ mass \in [Centroid -> Masses]
  /\ order \in [Centroid -> 0 .. k]
  /\ space \in Spaces
  /\ i \in 0 .. k
  /\ total \in Nat
  /\ remainders \in [Centroid -> Nat]
  /\ sum_remainders \in Nat
  /\ given \in SUBSET Centroid
  /\ range_size \in [Centroid -> 0 .. Modulus - 1]
  /\ range_start \in [Centroid -> 0 .. Modulus - 1]
  /\ range_full \in SUBSET Centroid
  /\ cursor \in 0 .. Modulus - 1
  /\ pc \in Stage

\* add and add_u64 of UInt256
Add(a, b) == (a + b) % Modulus

Zero == [c \in Centroid |-> 0]

Init ==
  /\ k \in 1 .. MaxCentroids
  /\ mass \in [Centroid -> Masses]
  /\ order \in [Centroid -> 0 .. k]
  /\ space \in Spaces
  /\ i = 0
  /\ total = 0
  /\ remainders = Zero
  /\ sum_remainders = 0
  /\ given = {}
  /\ range_size = Zero
  /\ range_start = Zero
  /\ range_full = {}
  /\ cursor = 0
  /\ pc = "order"

\* validate_centroid_order
CheckOrder ==
  /\ pc = "order"
  /\ pc' = IF /\ \A p \in Centroid : order[p] \in Centroid
              /\ \A p, q \in Centroid : order[p] = order[q] => p = q
             THEN "total" ELSE "rejected"
  /\ UNCHANGED <<input, table, i, total, remainders, sum_remainders, given, cursor>>

\* checked_total_mass
AddMass ==
  /\ pc = "total"
  /\ IF i < k
       THEN /\ total' = total + mass[i]
            /\ i' = i + 1
            /\ pc' = IF total' > MaxTotal THEN "rejected" ELSE pc
       ELSE /\ i' = 0
            /\ pc' = IF total = 0 THEN "rejected" ELSE "quota"
            /\ UNCHANGED total
  /\ UNCHANGED <<input, table, remainders, sum_remainders, given, cursor>>

\* A centroid that owns all the mass of a 256-bit space is only flagged, for
\* its size does not fit into a UInt256. (range_full = {}: full_range_assigned
\* is false.)
OwnsAll(c) == space = Modulus /\ mass[c] = total /\ range_full = {}

SetQuota ==
  LET c == order[i]
  IN /\ pc = "quota"
     /\ i < k
     /\ i' = i + 1
     /\ IF mass[c] = 0 \/ OwnsAll(c)
          THEN /\ range_full' = range_full \cup (IF mass[c] = 0 THEN {} ELSE {c})
               /\ UNCHANGED <<range_size, remainders, sum_remainders>>
          ELSE /\ range_size' =
                    [range_size EXCEPT ![c] = ((mass[c] * space) \div total) % Modulus]
               /\ remainders' = [remainders EXCEPT ![c] = (mass[c] * space) % total]
               /\ sum_remainders' = sum_remainders + remainders'[c]
               /\ UNCHANGED range_full
     /\ UNCHANGED <<input, range_start, total, given, cursor, pc>>

QuotasSet ==
  /\ pc = "quota"
  /\ i = k
  /\ i' = 0
  /\ pc' = "extra"
  /\ UNCHANGED <<input, table, total, remainders, sum_remainders, given, cursor>>

-----------------------------------------------------------------------------
(* What the quotients leave over goes to the largest remainders.           *)

Fractional == {c \in Centroid : mass[c] # 0 /\ c \notin range_full}

remainder_count == sum_remainders \div total

\* Mutant: the sort is ascending.
BeforeAscending(c, d) ==
  \/ remainders[c] < remainders[d]
  \/ remainders[c] = remainders[d] /\ c <= d

\* The order of the sort: larger remainders first, then lower indices.
Before(c, d) ==
  \/ remainders[c] > remainders[d]
  \/ remainders[c] = remainders[d] /\ c <= d

GiveOne ==
  /\ pc = "extra"
  /\ i < remainder_count
  /\ \E c \in Fractional \ given :
       /\ \A d \in Fractional \ given : Before(c, d)
       /\ range_size' = [range_size EXCEPT ![c] = Add(@, 1)]
       /\ given' = given \cup {c}
  /\ i' = i + 1
  /\ UNCHANGED <<input, range_start, range_full, total, remainders,
                 sum_remainders, cursor, pc>>

Given ==
  /\ pc = "extra"
  /\ i >= remainder_count \/ given = Fractional
  /\ i' = 0
  /\ pc' = "place"
  /\ UNCHANGED <<input, table, total, remainders, sum_remainders, given, cursor>>

-----------------------------------------------------------------------------
(* The ranges follow each other in the order of the centroids.             *)

\* Mutant: the ranges follow each other by index.
PlaceByIndex ==
  /\ pc = "place"
  /\ IF i < k
       THEN /\ range_start' = [range_start EXCEPT ![i] = cursor]
            /\ cursor' = Add(cursor, range_size[i])
            /\ i' = i + 1
            /\ UNCHANGED pc
       ELSE /\ i' = 0
            /\ cursor' = 0
            /\ pc' = "validate"
            /\ UNCHANGED range_start
  /\ UNCHANGED <<input, range_size, range_full, total, remainders,
                 sum_remainders, given>>

Place ==
  /\ pc = "place"
  /\ IF i < k
       THEN /\ range_start' = [range_start EXCEPT ![order[i]] = cursor]
            /\ cursor' = Add(cursor, range_size[order[i]])
            /\ i' = i + 1
            /\ UNCHANGED pc
       ELSE /\ i' = 0
            /\ cursor' = 0
            /\ pc' = "validate"
            /\ UNCHANGED range_start
  /\ UNCHANGED <<input, range_size, range_full, total, remainders,
                 sum_remainders, given>>

\* validate_allocated_ranges
Validate ==
  /\ pc = "validate"
  /\ IF i < k
       THEN /\ cursor' = Add(cursor, range_size[order[i]])
            /\ i' = i + 1
            /\ pc' = IF range_start[order[i]] = cursor THEN pc ELSE "failed"
       ELSE /\ pc' = IF \/ space < Modulus /\ cursor = space
                        \/ space = Modulus /\ Cardinality(range_full) <= 1
                       THEN "done" ELSE "failed"
            /\ UNCHANGED <<i, cursor>>
  /\ UNCHANGED <<input, table, total, remainders, sum_remainders, given>>

Ended == pc \in {"done", "rejected", "failed"} /\ UNCHANGED vars

Next ==
  \/ CheckOrder \/ AddMass \/ SetQuota \/ QuotasSet \/ GiveOne \/ Given
  \/ Place \/ Validate \/ Ended

Spec == Init /\ [][Next]_vars

-----------------------------------------------------------------------------
(* Placing a vector: q, a fraction in 64 bits, of its centroid's range.    *)

Fraction == 0 .. Word - 1

\* compute_active_from_ranges
Active == {c \in Centroid : c \in range_full \/ range_size[c] # 0}

\* Mutant: the product is rounded up.
ScaledUp(c, q) ==
  IF c \in range_full THEN q * Word * Word * Word
                      ELSE (range_size[c] * q + Word - 1) \div Word

\* mul_q64
Scaled(c, q) ==
  IF c \in range_full THEN q * Word * Word * Word
                      ELSE (range_size[c] * q) \div Word

\* hash_from_centroid; mask_bits keeps the low hash_bits bits.
Hash(c, q) == Add(range_start[c], Scaled(c, q)) % space

Low(n)     == n % Word
High(n)    == (n \div Word) % Word
\* Mutant: the size's second word is dropped.
Scaled64Low(c, q) == Low((Low(range_size[c]) * q) \div Word)

\* hash_from_centroid_u64, for hash_bits <= 64: the product's middle word from
\* two 64-bit words of the range's size.
Scaled64(c, q) ==
  Low((Low(range_size[c]) * q) \div Word + Low(High(range_size[c]) * q))
Hash64(c, q) == Low(Low(range_start[c]) + Scaled64(c, q)) % space

-----------------------------------------------------------------------------
(* Properties.                                                             *)

\* For arguments that pass the checks, the ranges that allocate_ranges builds
\* are contiguous and cover the hash space: its own validation never throws.
ValidationPasses == TypeOK /\ pc # "failed"

Width(c) == IF c \in range_full THEN space ELSE range_size[c]

\* A range is the centroid's share of the space up to one value, and a heavier
\* centroid never gets a smaller range.
SharesAreFair ==
  pc = "done" =>
    \A c \in Centroid :
      /\ Width(c) * total > mass[c] * space - total
      /\ Width(c) * total < mass[c] * space + total
      /\ \A d \in Centroid : mass[c] > mass[d] => Width(c) >= Width(d)

\* The hashes of two centroids never interleave: whatever the vectors'
\* fractions, the order of the hashes is that of the centroids; within one
\* centroid it is the order of the fractions.
HashesFollowOrder ==
  pc = "done" =>
    \A p, r \in Centroid : \A x, y \in Fraction :
      /\ {order[p], order[r]} \subseteq Active
      /\ p < r \/ (p = r /\ x <= y)
      => Hash(order[p], x) <= Hash(order[r], y)
           /\ (p < r => Hash(order[p], x) # Hash(order[r], y))

\* The 64-bit path computes the hash of the 256-bit path.
PathsAgree ==
  pc = "done" /\ space <= Word =>
    \A c \in Active : \A q \in Fraction : Hash64(c, q) = Hash(c, q)
=============================================================================
