---------------------------- MODULE SetsAndLists ----------------------------
(***************************************************************************)
(* Lemmas on sums over finite sets, as MapThenSumSet computes them (the    *)
(* bytes of the entries of a cache, the sizes of ranges, the legs of a     *)
(* walk), on lists, and on numbers: extremes of sets, ordered lists,       *)
(* quotients, and recursive functions on an interval.                      *)
(*                                                                         *)
(* MapThenSumSet takes the element to add first by CHOOSE, and is defined  *)
(* by recursion on the set.  That the recursion has a solution, and that   *)
(* the sum does not depend on the order, is an induction on the number of  *)
(* elements.  The set of the numbers it holds for stands for the induction *)
(* hypothesis here, and NatSets, a consequence of the well-foundedness of  *)
(* < on Nat, for the induction principle.                                  *)
(***************************************************************************)
EXTENDS Naturals, SequencesExt, FiniteSetTheorems, SequenceTheorems,
        WellFoundedInduction, TLAPS

\* The sum of f over S.
SumOf(f, S) == MapThenSumSet(LAMBDA x : f[x], S)

\* Induction: a set of numbers that has 0, and n + 1 with n, has them all.
LEMMA NatSets ==
  ASSUME NEW T \in SUBSET Nat, 0 \in T, \A n \in T : n + 1 \in T
  PROVE  T = Nat
<1>. SUFFICES ASSUME Nat \ T # {} PROVE FALSE
  OBVIOUS
<1>1. \E m \in Nat \ T : \A n \in Nat \ T : ~(<<n, m>> \in OpToRel(<, Nat))
  BY NatLessThanWellFounded, WFMin
<1>2. PICK m \in Nat \ T : \A n \in Nat \ T : ~(n < m)
  BY <1>1 DEF OpToRel
<1>3. m \in Nat /\ m # 0 /\ m \notin T
  BY <1>2
<1>4. m - 1 \in Nat /\ m - 1 < m /\ m = (m - 1) + 1
  BY <1>3
<1>. QED
  BY <1>2, <1>3, <1>4

-----------------------------------------------------------------------------
(* The recursion of MapThenSumSet, unfolded.                               *)

\* The element of s that is added first.
Picked(s) == CHOOSE x \in s : TRUE
\* g sums f over every set in D, by taking the first element off.
Rec(f, D, g) == g = [s \in D |-> IF s = {} THEN 0 ELSE f[Picked(s)] + g[s \ {Picked(s)}]]
\* The function that the definition of MapThenSumSet chooses.
Iter(f, S) == CHOOSE g : Rec(f, SUBSET S, g)

\* The sum is the value of that function.
LEMMA SumIsIter == ASSUME NEW f, NEW S PROVE SumOf(f, S) = Iter(f, S)[S]
  BY DEF SumOf, MapThenSumSet, MapThenFoldSet, Iter, Rec, Picked

\* The subsets of S that the induction has reached.
Small(S, n) == {s \in SUBSET S : Cardinality(s) <= n}

\* Taking the first element off a set leaves one that is smaller by one.
LEMMA Smaller ==
  ASSUME NEW S, IsFiniteSet(S), NEW n \in Nat, NEW s \in Small(S, n), s # {}
  PROVE  /\ Picked(s) \in s /\ IsFiniteSet(s)
         /\ s \ {Picked(s)} \in SUBSET S
         /\ n # 0 /\ s \ {Picked(s)} \in Small(S, n - 1)
<1>1. Picked(s) \in s
  BY DEF Picked
<1>2. IsFiniteSet(s) /\ Cardinality(s) \in Nat /\ Cardinality(s) <= n
  BY FS_Subset, FS_CardinalityType DEF Small
<1>3. Cardinality(s \ {Picked(s)}) = Cardinality(s) - 1
  BY <1>1, <1>2, FS_RemoveElement
<1>4. IsFiniteSet(s \ {Picked(s)}) /\ Cardinality(s \ {Picked(s)}) \in Nat
  BY <1>2, FS_RemoveElement, FS_CardinalityType
<1>. QED
  BY <1>1, <1>2, <1>3, <1>4 DEF Small

\* The recursion has a solution on the subsets of a finite set: CHOOSE finds one.
LEMMA RecExists ==
  ASSUME NEW S, IsFiniteSet(S), NEW f
  PROVE  Rec(f, SUBSET S, Iter(f, S))
<1>. DEFINE T == {n \in Nat : \E g : Rec(f, Small(S, n), g)}
<1>1. 0 \in T
  <2>1. Small(S, 0) \subseteq {{}}
    BY Smaller
  <2>. DEFINE g == [s \in Small(S, 0) |-> 0]
  <2>2. Rec(f, Small(S, 0), g)
    BY <2>1 DEF Rec
  <2>. QED
    BY <2>2
<1>2. ASSUME NEW n \in T PROVE n + 1 \in T
  <2>1. PICK g : Rec(f, Small(S, n), g)
    OBVIOUS
  <2>. DEFINE h == [s \in Small(S, n + 1) |->
                      IF s = {} THEN 0 ELSE f[Picked(s)] + g[s \ {Picked(s)}]]
  <2>2. \A s \in Small(S, n) : s \in Small(S, n + 1)
    BY FS_Subset, FS_CardinalityType DEF Small
  <2>3. \A s \in Small(S, n) : h[s] = g[s]
    BY <2>1, <2>2 DEF Rec
  <2>4. \A s \in Small(S, n + 1) : s # {} => s \ {Picked(s)} \in Small(S, n)
    <3>. SUFFICES ASSUME NEW s \in Small(S, n + 1), s # {}
                  PROVE  s \ {Picked(s)} \in Small(S, n)
      OBVIOUS
    <3>1. n + 1 \in Nat /\ (n + 1) - 1 = n
      OBVIOUS
    <3>. QED
      BY <3>1, Smaller
  <2>5. h = [s \in Small(S, n + 1) |-> IF s = {} THEN 0 ELSE f[Picked(s)] + h[s \ {Picked(s)}]]
    BY <2>3, <2>4
  <2>6. Rec(f, Small(S, n + 1), h)
    BY <2>5 DEF Rec
  <2>. QED
    BY <2>6
<1>3. T = Nat
  BY <1>1, <1>2, NatSets
<1>4. Cardinality(S) \in Nat /\ Small(S, Cardinality(S)) = SUBSET S
  BY FS_CardinalityType, FS_Subset DEF Small
<1>5. Cardinality(S) \in T
  BY <1>3, <1>4
<1>6. \E g : Rec(f, SUBSET S, g)
  <2>1. PICK g : Rec(f, Small(S, Cardinality(S)), g)
    BY <1>5
  <2>. QED
    BY <1>4, <2>1
<1>. QED
  BY <1>6 DEF Iter

\* The solution on the subsets of S sums over each of them as the sum over it alone.
LEMMA IterAgree ==
  ASSUME NEW S, IsFiniteSet(S), NEW f, NEW t \in SUBSET S
  PROVE  Iter(f, S)[t] = SumOf(f, t)
<1>1. IsFiniteSet(t)
  BY FS_Subset
<1>2. Rec(f, SUBSET S, Iter(f, S)) /\ Rec(f, SUBSET t, Iter(f, t))
  BY <1>1, RecExists
<1>. DEFINE T == {n \in Nat : \A s \in Small(t, n) : Iter(f, S)[s] = Iter(f, t)[s]}
<1>3. 0 \in T
  <2>1. \A s \in Small(t, 0) : s = {}
    BY <1>1, Smaller
  <2>2. Iter(f, S)[{}] = 0 /\ Iter(f, t)[{}] = 0
    BY <1>2 DEF Rec
  <2>. QED
    BY <2>1, <2>2
<1>4. ASSUME NEW n \in T PROVE n + 1 \in T
  <2>. SUFFICES ASSUME NEW s \in Small(t, n + 1) PROVE Iter(f, S)[s] = Iter(f, t)[s]
    OBVIOUS
  <2>1. s \in SUBSET t /\ s \in SUBSET S
    BY DEF Small
  <2>2. CASE s = {}
    BY <1>2, <2>1, <2>2 DEF Rec
  <2>3. CASE s # {}
    <3>1. n + 1 \in Nat /\ (n + 1) - 1 = n
      OBVIOUS
    <3>2. s \ {Picked(s)} \in Small(t, n)
      BY <1>1, <2>3, <3>1, Smaller
    <3>3. Iter(f, S)[s \ {Picked(s)}] = Iter(f, t)[s \ {Picked(s)}]
      BY <3>2
    <3>4. Iter(f, S)[s] = f[Picked(s)] + Iter(f, S)[s \ {Picked(s)}]
      BY <1>2, <2>1, <2>3 DEF Rec
    <3>5. Iter(f, t)[s] = f[Picked(s)] + Iter(f, t)[s \ {Picked(s)}]
      BY <1>2, <2>1, <2>3 DEF Rec
    <3>. QED
      BY <3>3, <3>4, <3>5
  <2>. QED
    BY <2>2, <2>3
<1>5. T = Nat
  BY <1>3, <1>4, NatSets
<1>6. Cardinality(t) \in Nat /\ t \in Small(t, Cardinality(t))
  BY <1>1, FS_CardinalityType DEF Small
<1>7. Iter(f, S)[t] = Iter(f, t)[t]
  BY <1>5, <1>6
<1>. QED
  BY <1>7, SumIsIter

\* The equations of the sum: nothing, or the first element and the rest.
LEMMA SumEquations ==
  ASSUME NEW S, IsFiniteSet(S), NEW f
  PROVE  /\ SumOf(f, {}) = 0
         /\ S # {} => SumOf(f, S) = f[Picked(S)] + SumOf(f, S \ {Picked(S)})
<1>1. Rec(f, SUBSET S, Iter(f, S))
  BY RecExists
<1>2. Iter(f, S)[{}] = 0
  BY <1>1 DEF Rec
<1>3. S # {} => Iter(f, S)[S] = f[Picked(S)] + Iter(f, S)[S \ {Picked(S)}]
  BY <1>1 DEF Rec
<1>. QED
  BY <1>2, <1>3, IterAgree

-----------------------------------------------------------------------------
(* What the models use.                                                    *)

\* Nothing adds up to 0.
LEMMA SumEmpty == \A f : SumOf(f, {}) = 0
  BY FS_EmptySet, SumEquations

\* A sum of naturals is a natural.
LEMMA SumNat ==
  ASSUME NEW S, IsFiniteSet(S), NEW f, \A x \in S : f[x] \in Nat
  PROVE  SumOf(f, S) \in Nat
<1>. DEFINE T == {n \in Nat : \A s \in Small(S, n) : SumOf(f, s) \in Nat}
<1>1. 0 \in T
  <2>1. \A s \in Small(S, 0) : s = {}
    BY Smaller
  <2>. QED
    BY <2>1, SumEmpty
<1>2. ASSUME NEW n \in T PROVE n + 1 \in T
  <2>. SUFFICES ASSUME NEW s \in Small(S, n + 1) PROVE SumOf(f, s) \in Nat
    OBVIOUS
  <2>1. n + 1 \in Nat /\ (n + 1) - 1 = n
    OBVIOUS
  <2>2. CASE s = {}
    BY <2>2, SumEmpty
  <2>3. CASE s # {}
    <3>1. Picked(s) \in S /\ IsFiniteSet(s) /\ s \ {Picked(s)} \in Small(S, n)
      BY <2>1, <2>3, Smaller DEF Small
    <3>2. SumOf(f, s) = f[Picked(s)] + SumOf(f, s \ {Picked(s)})
      BY <2>3, <3>1, SumEquations
    <3>3. SumOf(f, s \ {Picked(s)}) \in Nat /\ f[Picked(s)] \in Nat
      BY <3>1
    <3>. QED
      BY <3>2, <3>3
  <2>. QED
    BY <2>2, <2>3
<1>3. T = Nat
  BY <1>1, <1>2, NatSets
<1>4. Cardinality(S) \in Nat /\ S \in Small(S, Cardinality(S))
  BY FS_CardinalityType DEF Small
<1>5. Cardinality(S) \in T
  BY <1>3, <1>4
<1>. QED
  BY <1>4, <1>5

\* Any element may be added first: the order of the sum does not matter.
LEMMA SumRemove ==
  ASSUME NEW S, IsFiniteSet(S), NEW f, \A x \in S : f[x] \in Nat, NEW e \in S
  PROVE  SumOf(f, S) = f[e] + SumOf(f, S \ {e})
<1>. DEFINE T == {n \in Nat : \A s \in Small(S, n) : \A d \in s :
                                SumOf(f, s) = f[d] + SumOf(f, s \ {d})}
<1>1. 0 \in T
  <2>1. \A s \in Small(S, 0) : s = {}
    BY Smaller
  <2>. QED
    BY <2>1
<1>2. ASSUME NEW n \in T PROVE n + 1 \in T
  <2>. SUFFICES ASSUME NEW s \in Small(S, n + 1), NEW d \in s
                PROVE  SumOf(f, s) = f[d] + SumOf(f, s \ {d})
    OBVIOUS
  <2>1. n + 1 \in Nat /\ (n + 1) - 1 = n /\ s # {}
    OBVIOUS
  <2>2. PICK p : p = Picked(s)
    OBVIOUS
  <2>3. p \in s /\ IsFiniteSet(s) /\ s \in SUBSET S /\ s \ {p} \in Small(S, n)
    BY <2>1, <2>2, Smaller DEF Small
  <2>4. SumOf(f, s) = f[p] + SumOf(f, s \ {p})
    BY <2>1, <2>2, <2>3, SumEquations
  <2>5. CASE d = p
    BY <2>4, <2>5
  <2>6. CASE d # p
    <3>1. SumOf(f, s \ {p}) = f[d] + SumOf(f, (s \ {p}) \ {d})
      BY <2>3, <2>6
    <3>2. s \ {d} \in Small(S, n)
      <4>1. Cardinality(s) \in Nat /\ Cardinality(s) <= n + 1
        BY <2>3, FS_CardinalityType DEF Small
      <4>2. Cardinality(s \ {d}) = Cardinality(s) - 1
        BY <2>3, FS_RemoveElement
      <4>. QED
        BY <2>3, <4>1, <4>2 DEF Small
    <3>3. SumOf(f, s \ {d}) = f[p] + SumOf(f, (s \ {d}) \ {p})
      BY <2>3, <2>6, <3>2
    <3>4. (s \ {d}) \ {p} = (s \ {p}) \ {d}
      OBVIOUS
    <3>5. IsFiniteSet((s \ {p}) \ {d})
      BY <2>3, FS_RemoveElement
    <3>6. SumOf(f, (s \ {p}) \ {d}) \in Nat
      BY <2>3, <3>5, SumNat
    <3>7. f[p] \in Nat /\ f[d] \in Nat
      BY <2>3
    <3>8. PICK r \in Nat : r = SumOf(f, (s \ {p}) \ {d})
      BY <3>6
    <3>9. SumOf(f, s \ {p}) = f[d] + r
      BY <3>1, <3>8
    <3>10. SumOf(f, s \ {d}) = f[p] + r
      BY <3>3, <3>4, <3>8
    <3>11. f[p] + (f[d] + r) = f[d] + (f[p] + r)
      BY <3>7
    <3>. QED
      BY <2>4, <3>9, <3>10, <3>11
  <2>. QED
    BY <2>5, <2>6
<1>3. T = Nat
  BY <1>1, <1>2, NatSets
<1>4. Cardinality(S) \in Nat /\ S \in Small(S, Cardinality(S))
  BY FS_CardinalityType DEF Small
<1>5. Cardinality(S) \in T
  BY <1>3, <1>4
<1>. QED
  BY <1>4, <1>5

\* The sum over two disjoint sets is the sum of their sums.
LEMMA SumUnion ==
  ASSUME NEW A, IsFiniteSet(A), NEW B, IsFiniteSet(B), A \cap B = {},
         NEW f, \A x \in A \cup B : f[x] \in Nat
  PROVE  SumOf(f, A \cup B) = SumOf(f, A) + SumOf(f, B)
<1>. DEFINE T == {n \in Nat : \A s \in Small(A, n) :
                                SumOf(f, s \cup B) = SumOf(f, s) + SumOf(f, B)}
<1>1. SumOf(f, B) \in Nat
  BY SumNat
<1>2. 0 \in T
  <2>1. \A s \in Small(A, 0) : s = {} /\ s \cup B = B
    BY Smaller
  <2>2. SumOf(f, B) = SumOf(f, {}) + SumOf(f, B)
    BY <1>1, SumEmpty
  <2>. QED
    BY <2>1, <2>2
<1>3. ASSUME NEW n \in T PROVE n + 1 \in T
  <2>. SUFFICES ASSUME NEW s \in Small(A, n + 1)
                PROVE  SumOf(f, s \cup B) = SumOf(f, s) + SumOf(f, B)
    OBVIOUS
  <2>1. n + 1 \in Nat /\ (n + 1) - 1 = n
    OBVIOUS
  <2>2. CASE s = {}
    <3>1. s \cup B = B
      BY <2>2
    <3>2. SumOf(f, B) = SumOf(f, {}) + SumOf(f, B)
      BY <1>1, SumEmpty
    <3>. QED
      BY <2>2, <3>1, <3>2
  <2>3. CASE s # {}
    <3>1. PICK p : p = Picked(s)
      OBVIOUS
    <3>2. p \in s /\ IsFiniteSet(s) /\ s \in SUBSET A /\ s \ {p} \in Small(A, n)
      BY <2>1, <2>3, <3>1, Smaller DEF Small
    <3>3. IsFiniteSet(s \cup B)
      BY <3>2, FS_Union
    <3>4. SumOf(f, s \cup B) = f[p] + SumOf(f, (s \cup B) \ {p})
      BY <3>2, <3>3, SumRemove
    <3>5. (s \cup B) \ {p} = (s \ {p}) \cup B
      BY <3>2
    <3>6. SumOf(f, (s \ {p}) \cup B) = SumOf(f, s \ {p}) + SumOf(f, B)
      BY <3>2
    <3>7. SumOf(f, s) = f[p] + SumOf(f, s \ {p})
      BY <3>2, SumRemove
    <3>8. IsFiniteSet(s \ {p})
      BY <3>2, FS_RemoveElement
    <3>9. SumOf(f, s \ {p}) \in Nat /\ f[p] \in Nat
      BY <3>2, <3>8, SumNat
    <3>10. PICK u \in Nat, v \in Nat : u = SumOf(f, s \ {p}) /\ v = SumOf(f, B)
      BY <1>1, <3>9
    <3>11. SumOf(f, s \cup B) = f[p] + (u + v)
      BY <3>4, <3>5, <3>6, <3>10
    <3>12. SumOf(f, s) = f[p] + u
      BY <3>7, <3>10
    <3>13. f[p] + (u + v) = (f[p] + u) + v
      BY <3>9
    <3>. QED
      BY <3>10, <3>11, <3>12, <3>13
  <2>. QED
    BY <2>2, <2>3
<1>4. T = Nat
  BY <1>2, <1>3, NatSets
<1>5. Cardinality(A) \in Nat /\ A \in Small(A, Cardinality(A))
  BY FS_CardinalityType DEF Small
<1>6. Cardinality(A) \in T
  BY <1>4, <1>5
<1>. QED
  BY <1>5, <1>6

\* Functions that agree on a set have the same sum over it.
LEMMA SumSame ==
  ASSUME NEW S, IsFiniteSet(S), NEW f, NEW g, \A x \in S : f[x] = g[x]
  PROVE  SumOf(f, S) = SumOf(g, S)
<1>. DEFINE T == {n \in Nat : \A s \in Small(S, n) : SumOf(f, s) = SumOf(g, s)}
<1>1. 0 \in T
  <2>1. \A s \in Small(S, 0) : s = {}
    BY Smaller
  <2>. QED
    BY <2>1, SumEmpty
<1>2. ASSUME NEW n \in T PROVE n + 1 \in T
  <2>. SUFFICES ASSUME NEW s \in Small(S, n + 1), s # {} PROVE SumOf(f, s) = SumOf(g, s)
    BY SumEmpty
  <2>1. n + 1 \in Nat /\ (n + 1) - 1 = n
    OBVIOUS
  <2>2. Picked(s) \in S /\ IsFiniteSet(s) /\ s \ {Picked(s)} \in Small(S, n)
    BY <2>1, Smaller DEF Small
  <2>3. /\ SumOf(f, s) = f[Picked(s)] + SumOf(f, s \ {Picked(s)})
        /\ SumOf(g, s) = g[Picked(s)] + SumOf(g, s \ {Picked(s)})
    BY <2>2, SumEquations
  <2>. QED
    BY <2>2, <2>3
<1>3. T = Nat
  BY <1>1, <1>2, NatSets
<1>4. Cardinality(S) \in Nat /\ S \in Small(S, Cardinality(S))
  BY FS_CardinalityType DEF Small
<1>5. Cardinality(S) \in T
  BY <1>3, <1>4
<1>. QED
  BY <1>4, <1>5

\* The sum over a set that was only changed at e.
LEMMA SumUpdate ==
  ASSUME NEW S, IsFiniteSet(S), NEW e \in S, NEW f, NEW g,
         \A x \in S : f[x] \in Nat /\ g[x] \in Nat,
         \A x \in S \ {e} : g[x] = f[x]
  PROVE  SumOf(g, S) + f[e] = SumOf(f, S) + g[e]
<1>1. IsFiniteSet(S \ {e})
  BY FS_RemoveElement
<1>2. SumOf(f, S) = f[e] + SumOf(f, S \ {e}) /\ SumOf(g, S) = g[e] + SumOf(g, S \ {e})
  BY SumRemove
<1>3. SumOf(g, S \ {e}) = SumOf(f, S \ {e}) /\ SumOf(f, S \ {e}) \in Nat
  BY <1>1, SumSame, SumNat
<1>4. PICK r \in Nat : r = SumOf(f, S \ {e})
  BY <1>3
<1>5. SumOf(f, S) = f[e] + r /\ SumOf(g, S) = g[e] + r
  BY <1>2, <1>3, <1>4
<1>6. f[e] \in Nat /\ g[e] \in Nat
  OBVIOUS
<1>7. (g[e] + r) + f[e] = (f[e] + r) + g[e]
  BY <1>6
<1>. QED
  BY <1>5, <1>7

\* A part of a set sums to no more than the set does.
LEMMA SumPart ==
  ASSUME NEW S, IsFiniteSet(S), NEW P \in SUBSET S, NEW f, \A x \in S : f[x] \in Nat
  PROVE  SumOf(f, P) <= SumOf(f, S)
<1>1. IsFiniteSet(P) /\ IsFiniteSet(S \ P) /\ P \cap (S \ P) = {} /\ P \cup (S \ P) = S
  BY FS_Subset, FS_Difference
<1>2. SumOf(f, S) = SumOf(f, P) + SumOf(f, S \ P)
  BY <1>1, SumUnion
<1>3. SumOf(f, P) \in Nat /\ SumOf(f, S \ P) \in Nat
  BY <1>1, SumNat
<1>. QED
  BY <1>2, <1>3

\* Two elements are part of the sum.
LEMMA SumPair ==
  ASSUME NEW S, IsFiniteSet(S), NEW f, \A x \in S : f[x] \in Nat, NEW c \in S, NEW d \in S
  PROVE  f[c] <= SumOf(f, S) /\ (c # d => f[c] + f[d] <= SumOf(f, S))
<1>1. SumOf(f, S) = f[c] + SumOf(f, S \ {c}) /\ IsFiniteSet(S \ {c})
  BY SumRemove, FS_RemoveElement
<1>2. SumOf(f, S \ {c}) \in Nat /\ f[c] \in Nat /\ f[d] \in Nat
  BY <1>1, SumNat
<1>3. ASSUME c # d PROVE f[d] <= SumOf(f, S \ {c})
  <2>1. SumOf(f, S \ {c}) = f[d] + SumOf(f, (S \ {c}) \ {d})
    BY <1>1, <1>3, SumRemove
  <2>2. IsFiniteSet((S \ {c}) \ {d})
    BY <1>1, FS_RemoveElement
  <2>3. SumOf(f, (S \ {c}) \ {d}) \in Nat
    BY <2>2, SumNat
  <2>. QED
    BY <1>2, <2>1, <2>3
<1>. QED
  BY <1>1, <1>2, <1>3

\* What holds of every element, with the same factors, holds of the sums.
LEMMA SumLinear ==
  ASSUME NEW S, IsFiniteSet(S), NEW f, NEW g, NEW h, NEW d \in Nat, NEW a \in Nat,
         \A x \in S : /\ f[x] \in Nat /\ g[x] \in Nat /\ h[x] \in Nat
                      /\ f[x] * d = a * g[x] + h[x]
  PROVE  SumOf(f, S) * d = a * SumOf(g, S) + SumOf(h, S)
<1>. DEFINE T == {n \in Nat : \A s \in Small(S, n) :
                                SumOf(f, s) * d = a * SumOf(g, s) + SumOf(h, s)}
<1>1. 0 \in T
  <2>1. \A s \in Small(S, 0) : s = {}
    BY Smaller
  <2>2. 0 * d = a * 0 + 0
    OBVIOUS
  <2>. QED
    BY <2>1, <2>2, SumEmpty
<1>2. ASSUME NEW n \in T PROVE n + 1 \in T
  <2>. SUFFICES ASSUME NEW s \in Small(S, n + 1)
                PROVE  SumOf(f, s) * d = a * SumOf(g, s) + SumOf(h, s)
    OBVIOUS
  <2>1. n + 1 \in Nat /\ (n + 1) - 1 = n
    OBVIOUS
  <2>2. CASE s = {}
    <3>1. 0 * d = a * 0 + 0
      OBVIOUS
    <3>. QED
      BY <2>2, <3>1, SumEmpty
  <2>3. CASE s # {}
    <3>1. PICK p : p = Picked(s)
      OBVIOUS
    <3>2. p \in s /\ IsFiniteSet(s) /\ s \in SUBSET S /\ s \ {p} \in Small(S, n)
      BY <2>1, <2>3, <3>1, Smaller DEF Small
    <3>3. IsFiniteSet(s \ {p}) /\ \A x \in s \ {p} : x \in S
      BY <3>2, FS_RemoveElement, FS_Subset
    <3>4. PICK u \in Nat, v \in Nat, w \in Nat :
            u = SumOf(f, s \ {p}) /\ v = SumOf(g, s \ {p}) /\ w = SumOf(h, s \ {p})
      BY <3>3, SumNat
    <3>5. SumOf(f, s) = f[p] + u /\ SumOf(g, s) = g[p] + v /\ SumOf(h, s) = h[p] + w
      BY <2>3, <3>1, <3>2, <3>4, SumEquations
    <3>6. u * d = a * v + w
      BY <3>2, <3>4
    <3>7. PICK x \in Nat, y \in Nat, z \in Nat :
            x = f[p] /\ y = g[p] /\ z = h[p] /\ x * d = a * y + z
      BY <3>2
    <3>8. (x + u) * d = x * d + u * d /\ a * (y + v) = a * y + a * v
      OBVIOUS
    <3>9. x * d \in Nat /\ u * d \in Nat /\ a * y \in Nat /\ a * v \in Nat
      OBVIOUS
    <3>10. (x + u) * d = a * (y + v) + (z + w)
      <4>1. PICK xd \in Nat, ud \in Nat, ay \in Nat, av \in Nat :
              xd = x * d /\ ud = u * d /\ ay = a * y /\ av = a * v
        BY <3>9
      <4>2. xd + ud = (ay + av) + (z + w)
        BY <3>6, <3>7, <4>1
      <4>. QED
        BY <3>8, <4>1, <4>2
    <3>. QED
      BY <3>5, <3>7, <3>10
  <2>. QED
    BY <2>2, <2>3
<1>3. T = Nat
  BY <1>1, <1>2, NatSets
<1>4. Cardinality(S) \in Nat /\ S \in Small(S, Cardinality(S))
  BY FS_CardinalityType DEF Small
<1>5. Cardinality(S) \in T
  BY <1>3, <1>4
<1>. QED
  BY <1>4, <1>5

\* A sum is at most its largest element times the number of those that are not 0.
LEMMA SumBound ==
  ASSUME NEW S, IsFiniteSet(S), NEW f, NEW b \in Nat,
         \A x \in S : f[x] \in Nat /\ f[x] <= b
  PROVE  SumOf(f, S) <= b * Cardinality({x \in S : f[x] > 0})
<1>. DEFINE T == {n \in Nat : \A s \in Small(S, n) :
                                SumOf(f, s) <= b * Cardinality({x \in s : f[x] > 0})}
<1>1. 0 \in T
  <2>1. \A s \in Small(S, 0) : s = {} /\ {x \in s : f[x] > 0} = {}
    BY Smaller
  <2>2. 0 <= b * 0
    OBVIOUS
  <2>. QED
    BY <2>1, <2>2, SumEmpty, FS_EmptySet
<1>2. ASSUME NEW n \in T PROVE n + 1 \in T
  <2>. SUFFICES ASSUME NEW s \in Small(S, n + 1)
                PROVE  SumOf(f, s) <= b * Cardinality({x \in s : f[x] > 0})
    OBVIOUS
  <2>1. n + 1 \in Nat /\ (n + 1) - 1 = n
    OBVIOUS
  <2>2. CASE s = {}
    <3>1. {x \in s : f[x] > 0} = {} /\ 0 <= b * 0
      BY <2>2
    <3>. QED
      BY <2>2, <3>1, SumEmpty, FS_EmptySet
  <2>3. CASE s # {}
    <3>1. PICK p : p = Picked(s)
      OBVIOUS
    <3>2. p \in s /\ IsFiniteSet(s) /\ s \in SUBSET S /\ s \ {p} \in Small(S, n)
      BY <2>1, <2>3, <3>1, Smaller DEF Small
    <3>3. PICK M, N : M = {x \in s : f[x] > 0} /\ N = {x \in s \ {p} : f[x] > 0}
      OBVIOUS
    <3>4. IsFiniteSet(s \ {p}) /\ IsFiniteSet(N) /\ p \notin N
      BY <3>2, <3>3, FS_RemoveElement, FS_Subset
    <3>5. SumOf(f, s) = f[p] + SumOf(f, s \ {p})
      BY <2>3, <3>1, <3>2, SumEquations
    <3>6. PICK u \in Nat, m \in Nat, y \in Nat :
            u = SumOf(f, s \ {p}) /\ m = Cardinality(N) /\ y = f[p]
      BY <3>2, <3>4, SumNat, FS_CardinalityType
    <3>7. u <= b * m /\ y <= b
      BY <3>2, <3>3, <3>6
    <3>8. M = IF y > 0 THEN N \cup {p} ELSE N
      BY <3>2, <3>3, <3>6
    <3>9. Cardinality(N \cup {p}) = m + 1
      BY <3>4, <3>6, FS_AddElement
    <3>10. y + u <= b * (m + 1) /\ (y = 0 => y + u <= b * m)
      <4>1. b * (m + 1) = b * m + b /\ b * m \in Nat
        OBVIOUS
      <4>. QED
        BY <3>7, <4>1
    <3>11. SumOf(f, s) <= b * Cardinality(M)
      BY <3>5, <3>6, <3>8, <3>9, <3>10
    <3>. QED
      BY <3>3, <3>11
  <2>. QED
    BY <2>2, <2>3
<1>3. T = Nat
  BY <1>1, <1>2, NatSets
<1>4. Cardinality(S) \in Nat /\ S \in Small(S, Cardinality(S))
  BY FS_CardinalityType DEF Small
<1>5. Cardinality(S) \in T
  BY <1>3, <1>4
<1>. QED
  BY <1>4, <1>5

\* The order of the elements does not matter: the sum of f over S, taken along by.
LEMMA SumPermuted ==
  ASSUME NEW S, IsFiniteSet(S), NEW f, NEW g, NEW by \in [S -> S],
         \A x, y \in S : by[x] = by[y] => x = y,
         \A x \in S : f[x] \in Nat /\ g[x] = f[by[x]]
  PROVE  SumOf(g, S) = SumOf(f, S)
<1>. DEFINE Image(s) == {by[x] : x \in s}
            T == {n \in Nat : \A s \in Small(S, n) : SumOf(g, s) = SumOf(f, Image(s))}
<1>1. 0 \in T
  <2>1. \A s \in Small(S, 0) : s = {}
    BY Smaller
  <2>2. Image({}) = {}
    OBVIOUS
  <2>3. SumOf(g, {}) = 0 /\ SumOf(f, {}) = 0
    BY SumEmpty
  <2>. HIDE DEF Image
  <2>. QED
    BY <2>1, <2>2, <2>3
<1>2. ASSUME NEW n \in T PROVE n + 1 \in T
  <2>. SUFFICES ASSUME NEW s \in Small(S, n + 1), s # {}
                PROVE  SumOf(g, s) = SumOf(f, Image(s))
    <3>1. Image({}) = {}
      OBVIOUS
    <3>2. SumOf(g, {}) = 0 /\ SumOf(f, {}) = 0
      BY SumEmpty
    <3>3. n + 1 \in Nat
      OBVIOUS
    <3>. HIDE DEF Image
    <3>. QED
      BY <3>1, <3>2, <3>3
  <2>1. n + 1 \in Nat /\ (n + 1) - 1 = n
    OBVIOUS
  <2>2. PICK p : p = Picked(s)
    OBVIOUS
  <2>3. /\ p \in s /\ p \in S /\ IsFiniteSet(s) /\ s \in SUBSET S
        /\ s \ {p} \in Small(S, n)
    BY <2>1, <2>2, Smaller DEF Small
  <2>4. SumOf(g, s) = g[p] + SumOf(g, s \ {p})
    BY <2>2, <2>3, SumEquations
  <2>5. SumOf(g, s \ {p}) = SumOf(f, Image(s \ {p}))
    BY <2>3
  <2>6. /\ by[p] \in Image(s) /\ Image(s) \in SUBSET S
        /\ Image(s) \ {by[p]} = Image(s \ {p})
    BY <2>3
  <2>7. IsFiniteSet(Image(s)) /\ \A x \in Image(s) : f[x] \in Nat
    BY <2>6, FS_Subset
  <2>. HIDE DEF Image
  <2>8. SumOf(f, Image(s)) = f[by[p]] + SumOf(f, Image(s) \ {by[p]})
    BY <2>6, <2>7, SumRemove
  <2>. QED
    BY <2>3, <2>4, <2>5, <2>6, <2>8
<1>3. T = Nat
  <2>1. T \in SUBSET Nat
    OBVIOUS
  <2>. HIDE DEF T
  <2>. QED
    BY <1>1, <1>2, <2>1, NatSets
<1>4. Cardinality(S) \in Nat /\ S \in Small(S, Cardinality(S))
  BY FS_CardinalityType DEF Small
<1>5. SumOf(g, S) = SumOf(f, Image(S))
  BY <1>3, <1>4
<1>6. Image(S) = S
  <2>1. by \in Injection(S, S)
    BY DEF Injection, IsInjective
  <2>2. by \in Surjection(S, S)
    BY <2>1, FS_Injection
  <2>. QED
    BY <2>2 DEF Surjection
<1>. QED
  BY <1>5, <1>6

\* SumFunction is such a sum.
LEMMA SumOfFunction == \A f : SumFunction(f) = SumOf(f, DOMAIN f)
  BY DEF SumFunction, SumFunctionOnSet, FoldFunctionOnSet, SumOf, MapThenSumSet

-----------------------------------------------------------------------------
(* Lists.                                                                  *)

\* No element occurs twice in s.
Once(s) == \A p, q \in DOMAIN s : s[p] = s[q] => p = q

\* The elements of a sequence, by position.
LEMMA Elements ==
  ASSUME NEW S, NEW s \in Seq(S)
  PROVE  /\ Len(s) \in Nat /\ DOMAIN s = 1 .. Len(s) /\ ToSet(s) \subseteq S
         /\ \A p \in 1 .. Len(s) : s[p] \in ToSet(s) /\ s[p] \in S
         /\ \A x \in ToSet(s) : \E p \in 1 .. Len(s) : s[p] = x
<1>1. Len(s) \in Nat /\ s \in [1 .. Len(s) -> S] /\ DOMAIN s = 1 .. Len(s)
  BY LenProperties
<1>. QED
  BY <1>1 DEF ToSet

\* The stack without its top, and the top.
LEMMA Popped ==
  ASSUME NEW S, NEW s \in Seq(S), s # <<>>, Once(s)
  PROVE  /\ Last(s) \in S /\ Front(s) \in Seq(S) /\ Once(Front(s))
         /\ ToSet(s) = ToSet(Front(s)) \cup {Last(s)}
         /\ Last(s) \notin ToSet(Front(s))
<1>1. /\ Len(s) \in Nat \ {0} /\ DOMAIN s = 1 .. Len(s)
      /\ \A p \in 1 .. Len(s) : s[p] \in S
  BY Elements, EmptySeq
<1>2. /\ Front(s) \in Seq(S) /\ Len(Front(s)) = Len(s) - 1
      /\ \A p \in 1 .. Len(s) - 1 : Front(s)[p] = s[p]
  <2>1. \A p \in 1 .. Len(s) - 1 : s[p] \in S
    BY <1>1
  <2>2. 1 \in Int /\ Len(s) - 1 \in Int
    BY <1>1
  <2>3. /\ SubSeq(s, 1, Len(s) - 1) \in Seq(S)
        /\ Len(SubSeq(s, 1, Len(s) - 1))
             = IF 1 <= Len(s) - 1 THEN (Len(s) - 1) - 1 + 1 ELSE 0
        /\ \A p \in 1 .. (Len(s) - 1) - 1 + 1 :
             SubSeq(s, 1, Len(s) - 1)[p] = s[1 + p - 1]
    BY <2>1, <2>2, SubSeqProperties
  <2>. QED
    BY <1>1, <2>3 DEF Front
<1>3. DOMAIN Front(s) = 1 .. Len(s) - 1
  BY <1>2, Elements
<1>4. Once(Front(s))
  BY <1>1, <1>2, <1>3 DEF Once
<1>5. Last(s) = s[Len(s)] /\ Last(s) \in S
  BY <1>1 DEF Last
<1>6. ToSet(s) = ToSet(Front(s)) \cup {Last(s)}
  <2>1. PICK n \in Nat \ {0} : n = Len(s)
    BY <1>1
  <2>2. ASSUME NEW p \in 1 .. n PROVE s[p] \in ToSet(Front(s)) \cup {Last(s)}
    <3>1. CASE p = n
      BY <1>5, <2>1, <3>1
    <3>2. CASE p # n
      <4>1. p \in 1 .. Len(s) - 1
        BY <2>1, <3>2
      <4>. QED
        BY <1>2, <1>3, <4>1 DEF ToSet
    <3>. QED
      BY <3>1, <3>2
  <2>3. \A p \in 1 .. Len(s) - 1 : p \in 1 .. n
    BY <2>1
  <2>4. n \in 1 .. n
    BY <2>1
  <2>. QED
    BY <1>1, <1>2, <1>3, <1>5, <2>1, <2>2, <2>3, <2>4 DEF ToSet
<1>7. Last(s) \notin ToSet(Front(s))
  BY <1>1, <1>2, <1>3, <1>5 DEF ToSet, Once
<1>. QED
  BY <1>2, <1>4, <1>5, <1>6, <1>7

\* One more element at the end of the walk.
LEMMA Appended ==
  ASSUME NEW S, NEW s \in Seq(S), NEW x \in S, Once(s), x \notin ToSet(s)
  PROVE  /\ Append(s, x) \in Seq(S) /\ Once(Append(s, x))
         /\ ToSet(Append(s, x)) = ToSet(s) \cup {x}
<1>. DEFINE t == Append(s, x)
<1>1. /\ Len(s) \in Nat /\ DOMAIN s = 1 .. Len(s)
      /\ \A p \in 1 .. Len(s) : s[p] \in ToSet(s)
  BY Elements
<1>2. /\ t \in Seq(S) /\ Len(t) = Len(s) + 1
      /\ \A p \in 1 .. Len(s) : t[p] = s[p]
      /\ t[Len(s) + 1] = x
  BY AppendProperties
<1>3. DOMAIN t = 1 .. Len(s) + 1
  BY <1>2, Elements
<1>4. \A p \in 1 .. Len(s) + 1 : p \in 1 .. Len(s) \/ p = Len(s) + 1
  BY <1>1
<1>5. \A p \in 1 .. Len(s) : p \in 1 .. Len(s) + 1
  BY <1>1
<1>6. Once(t)
  BY <1>1, <1>2, <1>3, <1>4 DEF Once
<1>7. ToSet(t) = ToSet(s) \cup {x}
  <2>1. Len(s) + 1 \in 1 .. Len(s) + 1
    BY <1>1
  <2>. QED
    BY <1>1, <1>2, <1>3, <1>4, <1>5, <2>1 DEF ToSet
<1>. QED
  BY <1>2, <1>6, <1>7

\* Two parts of a stack.
LEMMA Stacked ==
  ASSUME NEW S, NEW s \in Seq(S), NEW t \in Seq(S), Once(s), Once(t),
         ToSet(s) \cap ToSet(t) = {}
  PROVE  /\ s \o t \in Seq(S) /\ Once(s \o t)
         /\ ToSet(s \o t) = ToSet(s) \cup ToSet(t)
<1>. DEFINE u == s \o t
<1>1. /\ Len(s) \in Nat /\ DOMAIN s = 1 .. Len(s)
      /\ \A p \in 1 .. Len(s) : s[p] \in ToSet(s)
  BY Elements
<1>2. /\ Len(t) \in Nat /\ DOMAIN t = 1 .. Len(t)
      /\ \A p \in 1 .. Len(t) : t[p] \in ToSet(t)
  BY Elements
<1>3. /\ u \in Seq(S) /\ Len(u) = Len(s) + Len(t)
      /\ \A p \in 1 .. Len(s) + Len(t) :
           u[p] = IF p <= Len(s) THEN s[p] ELSE t[p - Len(s)]
  BY ConcatProperties
<1>4. DOMAIN u = 1 .. Len(s) + Len(t)
  BY <1>3, Elements
<1>5. ASSUME NEW p \in DOMAIN u
      PROVE  \/ p \in 1 .. Len(s) /\ u[p] = s[p]
             \/ p - Len(s) \in 1 .. Len(t) /\ u[p] = t[p - Len(s)]
  BY <1>1, <1>2, <1>3, <1>4
<1>6. Once(u)
  <2>. SUFFICES ASSUME NEW p \in DOMAIN u, NEW q \in DOMAIN u, u[p] = u[q] PROVE p = q
    BY DEF Once
  <2>1. p \in Int /\ q \in Int
    BY <1>1, <1>2, <1>4
  <2>2. CASE p \in 1 .. Len(s) /\ u[p] = s[p] /\ q \in 1 .. Len(s) /\ u[q] = s[q]
    BY <1>1, <2>2 DEF Once
  <2>3. CASE /\ p - Len(s) \in 1 .. Len(t) /\ u[p] = t[p - Len(s)]
             /\ q - Len(s) \in 1 .. Len(t) /\ u[q] = t[q - Len(s)]
    <3>1. p - Len(s) = q - Len(s)
      BY <1>2, <2>3 DEF Once
    <3>. QED
      BY <1>1, <2>1, <3>1
  <2>4. CASE /\ p \in 1 .. Len(s) /\ u[p] = s[p]
             /\ q - Len(s) \in 1 .. Len(t) /\ u[q] = t[q - Len(s)]
    BY <1>1, <1>2, <2>4
  <2>5. CASE /\ q \in 1 .. Len(s) /\ u[q] = s[q]
             /\ p - Len(s) \in 1 .. Len(t) /\ u[p] = t[p - Len(s)]
    BY <1>1, <1>2, <2>5
  <2>. QED
    BY <1>5, <2>2, <2>3, <2>4, <2>5
<1>7. ToSet(u) \subseteq ToSet(s) \cup ToSet(t)
  BY <1>1, <1>2, <1>5 DEF ToSet
<1>8. ToSet(s) \subseteq ToSet(u)
  <2>1. \A p \in 1 .. Len(s) : p \in 1 .. Len(s) + Len(t) /\ u[p] = s[p]
    BY <1>1, <1>2, <1>3
  <2>. QED
    BY <1>1, <1>4, <2>1 DEF ToSet
<1>9. ToSet(t) \subseteq ToSet(u)
  <2>1. ASSUME NEW p \in 1 .. Len(t)
        PROVE  p + Len(s) \in 1 .. Len(s) + Len(t) /\ u[p + Len(s)] = t[p]
    <3>1. /\ p + Len(s) \in 1 .. Len(s) + Len(t) /\ ~(p + Len(s) <= Len(s))
          /\ (p + Len(s)) - Len(s) = p
      BY <1>1, <1>2
    <3>. QED
      BY <1>3, <3>1
  <2>. QED
    BY <1>2, <1>4, <2>1 DEF ToSet
<1>. QED
  BY <1>3, <1>6, <1>7, <1>8, <1>9

\* What is pushed is all of a set, each element once.
LEMMA Enumerated ==
  ASSUME NEW S, IsFiniteSet(S), NEW s \in SetToSeqs(S)
  PROVE  s \in Seq(S) /\ Once(s) /\ ToSet(s) = S
<1>1. Cardinality(S) \in Nat
  BY FS_CardinalityType
<1>2. /\ s \in [1 .. Cardinality(S) -> S]
      /\ \A p, q \in 1 .. Cardinality(S) : p # q => s[p] # s[q]
  BY DEF SetToSeqs
<1>3. s \in Seq(S) /\ DOMAIN s = 1 .. Cardinality(S)
  BY <1>1, <1>2
<1>4. Once(s)
  BY <1>2, <1>3 DEF Once
<1>5. ToSet(s) = S
  <2>1. s \in Injection(1 .. Cardinality(S), S)
    BY <1>2 DEF Injection, IsInjective
  <2>2. Cardinality(1 .. Cardinality(S)) = Cardinality(S)
    BY <1>1, FS_Interval
  <2>3. s \in Surjection(1 .. Cardinality(S), S)
    BY <2>1, <2>2, FS_Injection
  <2>. QED
    BY <1>3, <2>3 DEF Surjection, ToSet
<1>. QED
  BY <1>3, <1>4, <1>5

\* What a list that grows by one member has.
LEMMA AppendFacts ==
  ASSUME NEW S, NEW s \in Seq(S), NEW x \in S
  PROVE  /\ Append(s, x) \in Seq(S) /\ Len(s) \in Nat /\ Len(Append(s, x)) = Len(s) + 1
         /\ \A a \in 1 .. Len(s) : Append(s, x)[a] = s[a] /\ s[a] \in S
         /\ Append(s, x)[Len(s) + 1] = x
         /\ Append(s, x) # <<>>
         /\ s \o <<x>> = Append(s, x)
<1>1. /\ Append(s, x) \in Seq(S) /\ Len(s) \in Nat /\ Len(Append(s, x)) = Len(s) + 1
      /\ \A a \in 1 .. Len(s) : Append(s, x)[a] = s[a] /\ s[a] \in S
      /\ Append(s, x)[Len(s) + 1] = x
  BY LenProperties
<1>2. Append(s, x) # <<>>
  <2>1. Len(Append(s, x)) # 0 /\ Len(<<>>) = 0
    BY <1>1
  <2>. QED
    BY <2>1
<1>3. <<x>> \in Seq(S) /\ Len(<<x>>) = 1 /\ <<x>>[1] = x
  OBVIOUS
<1>4. /\ s \o <<x>> \in Seq(S) /\ Len(s \o <<x>>) = Len(s) + 1
      /\ \A i \in 1 .. Len(s) + 1 : (s \o <<x>>)[i] = IF i <= Len(s) THEN s[i] ELSE <<x>>[i - Len(s)]
  BY <1>3, ConcatProperties
<1>5. \A i \in 1 .. Len(s) + 1 : (s \o <<x>>)[i] = Append(s, x)[i]
  <2>. TAKE i \in 1 .. Len(s) + 1
  <2>1. CASE i <= Len(s)
    BY <1>1, <1>4, <2>1
  <2>2. CASE ~(i <= Len(s))
    <3>1. i = Len(s) + 1 /\ i - Len(s) = 1
      BY <1>1, <2>2
    <3>. QED
      BY <1>1, <1>3, <1>4, <2>2, <3>1
  <2>. QED
    BY <2>1, <2>2
<1>6. s \o <<x>> = Append(s, x)
  BY <1>1, <1>4, <1>5, SeqEqual
<1>. QED
  BY <1>1, <1>2, <1>6

\* i is a member of the list s.
Holds(s, i) == \E j \in DOMAIN s : s[j] = i

\* A list that grows holds what it held, and the new member.
LEMMA AppendHolds ==
  ASSUME NEW s \in Seq(Nat), NEW x \in Nat
  PROVE  /\ Append(s, x) \in Seq(Nat) /\ Append(s, x) # <<>>
         /\ Holds(Append(s, x), x)
         /\ \A i : Holds(s, i) => Holds(Append(s, x), i)
<1>1. /\ Append(s, x) \in Seq(Nat) /\ Len(s) \in Nat /\ Len(Append(s, x)) = Len(s) + 1
      /\ \A a \in 1 .. Len(s) : Append(s, x)[a] = s[a]
      /\ Append(s, x)[Len(s) + 1] = x /\ Append(s, x) # <<>>
  BY AppendFacts
<1>2. DOMAIN s = 1 .. Len(s) /\ DOMAIN Append(s, x) = 1 .. Len(s) + 1
  BY <1>1, LenProperties
<1>3. Len(s) + 1 \in 1 .. Len(s) + 1 /\ \A a \in 1 .. Len(s) : a \in 1 .. Len(s) + 1
  BY <1>1
<1>. QED
  BY <1>1, <1>2, <1>3 DEF Holds

\* ... and nothing else.
LEMMA ListGrows ==
  ASSUME NEW S, NEW s \in Seq(S), NEW x \in S
  PROVE  /\ Append(s, x) \in Seq(S)
         /\ \A j \in DOMAIN Append(s, x) :
              \/ Append(s, x)[j] = x
              \/ j \in DOMAIN s /\ Append(s, x)[j] = s[j]
         /\ Holds(Append(s, x), x)
         /\ \A i : Holds(s, i) => Holds(Append(s, x), i)
<1>1. /\ Append(s, x) \in Seq(S) /\ Len(s) \in Nat /\ Len(Append(s, x)) = Len(s) + 1
      /\ \A a \in 1 .. Len(s) : Append(s, x)[a] = s[a]
      /\ Append(s, x)[Len(s) + 1] = x
  BY AppendFacts
<1>2. DOMAIN s = 1 .. Len(s) /\ DOMAIN Append(s, x) = 1 .. Len(s) + 1
  BY <1>1, LenProperties
<1>3. /\ Len(s) + 1 \in 1 .. Len(s) + 1 /\ \A a \in 1 .. Len(s) : a \in 1 .. Len(s) + 1
      /\ \A a \in 1 .. Len(s) + 1 : a \in 1 .. Len(s) \/ a = Len(s) + 1
  BY <1>1
<1>. QED
  BY <1>1, <1>2, <1>3 DEF Holds

-----------------------------------------------------------------------------
(* Numbers.                                                                *)

\* An ordered list of numbers is ordered from any row to any later one.
LEMMA OrderedPairs ==
  ASSUME NEW n \in Nat, NEW s, \A i \in 1 .. n : s[i] \in Nat,
         \A i \in 2 .. n : s[i - 1] <= s[i]
  PROVE  \A i, j \in 1 .. n : i <= j => s[i] <= s[j]
<1>. DEFINE T == {m \in Nat : \A i, j \in 1 .. n : i <= j /\ j <= i + m => s[i] <= s[j]}
<1>1. 0 \in T
  <2>1. \A i, j \in 1 .. n : i <= j /\ j <= i + 0 => i = j
    OBVIOUS
  <2>. QED
    BY <2>1
<1>2. ASSUME NEW m \in T PROVE m + 1 \in T
  <2>1. m \in Nat /\ m + 1 \in Nat
    OBVIOUS
  <2>. SUFFICES ASSUME NEW i \in 1 .. n, NEW j \in 1 .. n, i <= j, j <= i + (m + 1)
                PROVE  s[i] <= s[j]
    BY <2>1
  <2>2. CASE i = j
    BY <2>2
  <2>3. CASE i # j
    <3>1. j - 1 \in 1 .. n /\ i <= j - 1 /\ j - 1 <= i + m /\ j \in 2 .. n
      BY <2>1, <2>3
    <3>2. s[i] <= s[j - 1] /\ s[j - 1] <= s[j]
      BY <3>1
    <3>. QED
      BY <3>1, <3>2
  <2>. QED
    BY <2>2, <2>3
<1>. HIDE DEF T
<1>3. T \in SUBSET Nat
  BY DEF T
<1>4. T = Nat
  BY <1>1, <1>2, <1>3, NatSets
<1>. SUFFICES ASSUME NEW i \in 1 .. n, NEW j \in 1 .. n, i <= j PROVE s[i] <= s[j]
  OBVIOUS
<1>5. n \in T
  BY <1>4
<1>. QED
  BY <1>5 DEF T

\* The least element of a set of numbers.
LEMMA MinOf ==
  ASSUME NEW S \in SUBSET Nat, S # {}
  PROVE  Min(S) \in S /\ \A y \in S : Min(S) <= y
<1>1. \E m \in S : \A n \in S : ~(<<n, m>> \in OpToRel(<, Nat))
  BY NatLessThanWellFounded, WFMin
<1>2. PICK m \in S : \A n \in S : ~(n < m)
  BY <1>1 DEF OpToRel
<1>3. \A n \in S : m <= n
  BY <1>2
<1>. QED
  BY <1>3 DEF Min

\* The greatest element of a set of numbers that are at most b.
LEMMA MaxOf ==
  ASSUME NEW S \in SUBSET Nat, S # {}, NEW b \in Nat, \A x \in S : x <= b
  PROVE  Max(S) \in S /\ \A y \in S : y <= Max(S)
<1>. DEFINE D == {b - x : x \in S}
<1>1. D \in SUBSET Nat /\ D # {}
  <2>1. \A x \in S : b - x \in Nat
    OBVIOUS
  <2>. QED
    BY <2>1
<1>2. Min(D) \in D /\ \A y \in D : Min(D) <= y
  BY <1>1, MinOf
<1>3. PICK m \in S : Min(D) = b - m
  BY <1>2
<1>4. \A y \in S : y <= m
  <2>. TAKE y \in S
  <2>1. b - y \in D
    OBVIOUS
  <2>2. b - m <= b - y
    BY <1>2, <1>3, <2>1
  <2>. QED
    BY <2>2
<1>5. \A y \in S : m >= y
  BY <1>4
<1>6. \E x \in S : \A y \in S : x >= y
  BY <1>5
<1>7. Max(S) \in S /\ \A y \in S : Max(S) >= y
  BY <1>6 DEF Max
<1>. QED
  BY <1>7

\* A product is divided by its factor.
LEMMA DivExact == \A y \in Nat, d \in Nat \ {0} : (y * d) \div d = y
  OBVIOUS

\* A division has a quotient and a remainder.
LEMMA Division ==
  ASSUME NEW a \in Nat, NEW b \in Nat \ {0}
  PROVE  /\ a \div b \in Nat /\ a % b \in 0 .. b - 1
         /\ a = b * (a \div b) + (a % b)
  OBVIOUS

\* The quotient and the remainder are the only ones.
LEMMA Quotient ==
  ASSUME NEW b \in Nat \ {0}, NEW q \in Nat, NEW r \in 0 .. b - 1
  PROVE  (b * q + r) \div b = q /\ (b * q + r) % b = r
  OBVIOUS

\* The fraction x of w parts of n is below n, and grows with x.
LEMMA Fractions ==
  ASSUME NEW w \in Nat \ {0}, NEW n \in Nat \ {0}, NEW x \in 0 .. w - 1
  PROVE  /\ (n * x) \div w \in Nat /\ (n * x) \div w < n
         /\ \A y \in 0 .. w - 1 : x <= y => (n * x) \div w <= (n * y) \div w
<1>1. n * x \in Nat
  OBVIOUS
<1>2. PICK q \in Nat, r \in 0 .. w - 1 : n * x = w * q + r /\ (n * x) \div w = q
  BY <1>1, Division
<1>3. q < n
  <2>. SUFFICES ASSUME q >= n PROVE FALSE
    OBVIOUS
  <2>1. n * x <= n * (w - 1) /\ n * (w - 1) = n * w - n /\ w * q >= w * n /\ w * n = n * w
    OBVIOUS
  <2>2. PICK a \in Int, b \in Int, c \in Int : a = n * x /\ b = n * w /\ c = w * q
    OBVIOUS
  <2>. QED
    BY <1>2, <2>1, <2>2
<1>4. ASSUME NEW y \in 0 .. w - 1, x <= y PROVE q <= (n * y) \div w
  <2>1. n * y \in Nat /\ n * x <= n * y
    BY <1>4
  <2>2. PICK u \in Nat, v \in 0 .. w - 1 : n * y = w * u + v /\ (n * y) \div w = u
    BY <2>1, Division
  <2>. SUFFICES ASSUME q >= u + 1 PROVE FALSE
    BY <2>2
  <2>3. w * q >= w * (u + 1) /\ w * (u + 1) = w * u + w
    OBVIOUS
  <2>4. PICK a \in Int, b \in Int : a = w * q /\ b = w * u
    OBVIOUS
  <2>. QED
    BY <1>2, <2>1, <2>2, <2>3, <2>4
<1>. QED
  BY <1>2, <1>3, <1>4

-----------------------------------------------------------------------------
(* Recursive functions on an interval.                                     *)

\* g starts with a and takes each next value from the one before it.
Iterates(step, a, lo, n, g) ==
  /\ g[lo] = a
  /\ \A i \in lo + 1 .. n : g[i] = step[<<g[i - 1], i>>]

\* Such a function exists, and has its values where step has.
LEMMA Recursion ==
  ASSUME NEW A, NEW a \in A, NEW step \in [A \X Nat -> A], NEW lo \in Nat, NEW n \in Nat, lo <= n
  PROVE  \E g \in [lo .. n -> A] : Iterates(step, a, lo, n, g)
<1>. DEFINE T == {m \in Nat : \E g \in [lo .. lo + m -> A] : Iterates(step, a, lo, lo + m, g)}
<1>1. 0 \in T
  <2>. DEFINE g == [i \in lo .. lo + 0 |-> a]
  <2>1. g \in [lo .. lo + 0 -> A] /\ g[lo] = a /\ lo + 1 .. lo + 0 = {}
    OBVIOUS
  <2>2. Iterates(step, a, lo, lo + 0, g)
    BY <2>1 DEF Iterates
  <2>. QED
    BY <2>1, <2>2
<1>2. ASSUME NEW m \in T PROVE m + 1 \in T
  <2>1. m \in Nat /\ m + 1 \in Nat
    OBVIOUS
  <2>2. PICK g \in [lo .. lo + m -> A] : Iterates(step, a, lo, lo + m, g)
    OBVIOUS
  <2>. DEFINE e == lo + (m + 1)
              v == step[<<g[lo + m], e>>]
              h == [i \in lo .. e |-> IF i = e THEN v ELSE g[i]]
  <2>3. lo + m \in lo .. lo + m /\ e \in Nat /\ e - 1 = lo + m
    BY <2>1
  <2>4. <<g[lo + m], e>> \in A \X Nat
    BY <2>2, <2>3
  <2>5. v \in A
    BY <2>4
  <2>. HIDE DEF v
  <2>6. \A i \in lo .. e : i # e => i \in lo .. lo + m
    BY <2>1
  <2>7. h \in [lo .. e -> A]
    BY <2>2, <2>5, <2>6
  <2>8. \A i \in lo .. lo + m : h[i] = g[i]
    BY <2>1
  <2>9. h[lo] = a
    BY <2>1, <2>2, <2>8 DEF Iterates
  <2>10. ASSUME NEW i \in lo + 1 .. e PROVE h[i] = step[<<h[i - 1], i>>]
    <3>1. i - 1 \in lo .. lo + m /\ h[i - 1] = g[i - 1]
      BY <2>1, <2>8
    <3>2. CASE i = e
      <4>1. i \in lo .. e /\ h[i] = v
        BY <2>1, <3>2
      <4>2. i - 1 = lo + m
        BY <2>3, <3>2
      <4>. QED
        BY <3>1, <3>2, <4>1, <4>2 DEF v
    <3>3. CASE i # e
      <4>1. i \in lo + 1 .. lo + m /\ i \in lo .. lo + m
        BY <2>1, <3>3
      <4>. QED
        BY <2>2, <2>8, <3>1, <4>1 DEF Iterates
    <3>. QED
      BY <3>2, <3>3
  <2>11. Iterates(step, a, lo, e, h)
    BY <2>9, <2>10 DEF Iterates
  <2>. QED
    BY <2>1, <2>7, <2>11
<1>. HIDE DEF T
<1>3. T \in SUBSET Nat
  BY DEF T
<1>4. T = Nat
  BY <1>1, <1>2, <1>3, NatSets
<1>5. n - lo \in Nat /\ lo + (n - lo) = n
  OBVIOUS
<1>6. n - lo \in T
  BY <1>4, <1>5
<1>. QED
  BY <1>5, <1>6 DEF T

\* A set of numbers that has lo, and i with i - 1 up to n, has all from lo to n.
LEMMA UpTo ==
  ASSUME NEW lo \in Nat, NEW n \in Nat, NEW U, lo \in U,
         \A i \in lo + 1 .. n : i - 1 \in U => i \in U
  PROVE  \A i \in lo .. n : i \in U
<1>. DEFINE T == {m \in Nat : lo + m <= n => lo + m \in U}
<1>1. 0 \in T
  OBVIOUS
<1>2. ASSUME NEW m \in T PROVE m + 1 \in T
  <2>1. m \in Nat /\ m + 1 \in Nat /\ lo + (m + 1) - 1 = lo + m
    OBVIOUS
  <2>. SUFFICES ASSUME lo + (m + 1) <= n PROVE lo + (m + 1) \in U
    BY <2>1
  <2>2. lo + m \in U /\ lo + (m + 1) \in lo + 1 .. n
    BY <2>1
  <2>. QED
    BY <2>1, <2>2
<1>. HIDE DEF T
<1>3. T \in SUBSET Nat
  BY DEF T
<1>4. T = Nat
  BY <1>1, <1>2, <1>3, NatSets
<1>. SUFFICES ASSUME NEW i \in lo .. n PROVE i \in U
  OBVIOUS
<1>5. i - lo \in T /\ lo + (i - lo) = i
  BY <1>4
<1>. QED
  BY <1>5 DEF T

=============================================================================
