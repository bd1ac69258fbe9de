---------------------------- MODULE SetInduction ----------------------------
(***************************************************************************)
(* Facts about finite sets that the proofs need and the library lacks: the *)
(* first and the last n elements by rank, and sums.  The induction is by   *)
(* minimal counterexample (MinimalSet), a set of sets in place of the      *)
(* predicate an induction theorem would take.                              *)
(***************************************************************************)
EXTENDS Integers, FiniteSets, FiniteSetsExt, FiniteSetTheorems, TLAPS

\* A non-empty family of subsets of a finite set has a minimal member: a
\* property that fails for a set fails for one all of whose parts have it.
LEMMA MinimalSet ==
    ASSUME NEW S, IsFiniteSet(S), NEW F, F \subseteq SUBSET S, F # {}
    PROVE  \E A \in F : \A B \in F : B \subseteq A => B = A
<1>1. IsWellFoundedOn(StrictSubsetOrdering(S), SUBSET S)
  BY FS_StrictSubsetOrderingWellFounded, FS_FiniteSubsetsOfFinite
<1>2. \E A \in F : \A B \in F : ~(<<B, A>> \in StrictSubsetOrdering(S))
  BY <1>1, WFMin
<1>3. \A A \in F, B \in F : B \subseteq A /\ B # A => <<B, A>> \in StrictSubsetOrdering(S)
  BY DEF StrictSubsetOrdering
<1> QED
  BY <1>2, <1>3

\* A finite non-empty set has an element of least rank.
LEMMA LeastElement ==
    ASSUME NEW S, IsFiniteSet(S), S # {}, NEW rank, \A e \in S : rank[e] \in Int
    PROVE  \E e \in S : \A f \in S : rank[e] <= rank[f]
<1> DEFINE Below(e) == {f \in S : rank[f] < rank[e]}
<1>1. PICK e \in S : \A f \in S : Below(f) \subseteq Below(e) => Below(f) = Below(e)
  <2> DEFINE F == {Below(x) : x \in S}
  <2>1. F \subseteq SUBSET S /\ F # {}
    OBVIOUS
  <2> HIDE DEF F
  <2>2. PICK A \in F : \A B \in F : B \subseteq A => B = A
    BY <2>1, MinimalSet
  <2>3. PICK e \in S : A = Below(e)
    BY DEF F
  <2>4. \A f \in S : Below(f) \in F
    BY DEF F
  <2> HIDE DEF Below
  <2> QED
    BY <2>2, <2>3, <2>4
<1>2. ASSUME NEW f \in S, rank[f] < rank[e] PROVE FALSE
  <2>1. Below(f) \subseteq Below(e)
    BY <1>2
  <2>2. f \in Below(e) /\ f \notin Below(f)
    BY <1>2
  <2> QED
    BY <1>1, <2>1, <2>2
<1> QED
  BY <1>2

-----------------------------------------------------------------------------
(* The elements of S that few others precede (or follow) in the order of   *)
(* rank.                                                                   *)

Foremost(S, rank, n) == {e \in S : Cardinality({f \in S : rank[f] < rank[e]}) < n}
Hindmost(S, rank, n) == {e \in S : Cardinality({f \in S : rank[f] > rank[e]}) < n}

\* The first n come before the others.
LEMMA ForemostPrecede ==
    ASSUME NEW S, IsFiniteSet(S), NEW rank, \A e \in S : rank[e] \in Int,
           NEW n \in Nat, NEW e \in Foremost(S, rank, n), NEW f \in S \ Foremost(S, rank, n)
    PROVE  rank[e] < rank[f]
<1> DEFINE B(x) == {y \in S : rank[y] < rank[x]}
<1>1. IsFiniteSet(B(e)) /\ IsFiniteSet(B(f))
  BY FS_Subset
<1>2. Cardinality(B(e)) \in Nat /\ Cardinality(B(f)) \in Nat
  BY <1>1, FS_CardinalityType
<1>3. Cardinality(B(e)) < n /\ ~(Cardinality(B(f)) < n)
  BY DEF Foremost
<1>4. ~(B(f) \subseteq B(e))
  <2> HIDE DEF B
  <2> QED BY <1>1, <1>2, <1>3, FS_Subset
<1> QED
  BY <1>4 DEF Foremost

\* The last n come after the others.
LEMMA HindmostFollow ==
    ASSUME NEW S, IsFiniteSet(S), NEW rank, \A e \in S : rank[e] \in Int,
           NEW n \in Nat, NEW e \in S \ Hindmost(S, rank, n), NEW f \in Hindmost(S, rank, n)
    PROVE  rank[e] < rank[f]
<1> DEFINE A(x) == {y \in S : rank[y] > rank[x]}
<1>1. IsFiniteSet(A(e)) /\ IsFiniteSet(A(f))
  BY FS_Subset
<1>2. Cardinality(A(e)) \in Nat /\ Cardinality(A(f)) \in Nat
  BY <1>1, FS_CardinalityType
<1>3. Cardinality(A(f)) < n /\ ~(Cardinality(A(e)) < n)
  BY DEF Hindmost
<1>4. ~(A(e) \subseteq A(f))
  <2> HIDE DEF A
  <2> QED BY <1>1, <1>2, <1>3, FS_Subset
<1> QED
  BY <1>4 DEF Hindmost

\* The last n are at most n, when no two have the same rank.
LEMMA HindmostBounded ==
    ASSUME NEW S, IsFiniteSet(S), NEW rank, \A e \in S : rank[e] \in Int,
           \A e, f \in S : rank[e] = rank[f] => e = f, NEW n \in Nat
    PROVE  Cardinality(Hindmost(S, rank, n)) <= n
<1> DEFINE B == Hindmost(S, rank, n)
<1>1. B \subseteq S /\ IsFiniteSet(B)
  BY FS_Subset DEF Hindmost
<1>2. CASE B = {}
  BY <1>2, FS_EmptySet
<1>3. CASE B # {}
  <2>1. PICK m \in B : \A f \in B : rank[m] <= rank[f]
    <3> HIDE DEF B
    <3> QED BY <1>1, <1>3, LeastElement
  <2> DEFINE A == {y \in S : rank[y] > rank[m]}
  <2>2. Cardinality(A) < n /\ IsFiniteSet(A)
    BY FS_Subset DEF Hindmost
  <2>3. B \ {m} \subseteq A
    BY <1>1, <2>1
  <2> HIDE DEF A, B
  <2>4. IsFiniteSet(B \ {m}) /\ Cardinality(B \ {m}) = Cardinality(B) - 1
    BY <1>1, FS_RemoveElement
  <2>5. Cardinality(B \ {m}) <= Cardinality(A)
    BY <2>2, <2>3, FS_Subset
  <2>6. Cardinality(A) \in Nat /\ Cardinality(B) \in Nat
    BY <1>1, <2>2, FS_CardinalityType
  <2> QED
    BY <2>2, <2>4, <2>5, <2>6 DEF B
<1> QED
  BY <1>2, <1>3

\* There is exactly one first.
LEMMA ForemostOne ==
    ASSUME NEW S, IsFiniteSet(S), S # {}, NEW rank, \A e \in S : rank[e] \in Int,
           \A e, f \in S : rank[e] = rank[f] => e = f
    PROVE  \E e \in S : Foremost(S, rank, 1) = {e}
<1>1. PICK m \in S : \A f \in S : rank[m] <= rank[f]
  BY LeastElement
<1> DEFINE B(x) == {y \in S : rank[y] < rank[x]}
<1>2. \A x \in S : IsFiniteSet(B(x)) /\ Cardinality(B(x)) \in Nat
  BY FS_Subset, FS_CardinalityType
<1>3. \A x \in S : Cardinality(B(x)) < 1 <=> B(x) = {}
  BY <1>2, FS_EmptySet
<1>4. \A x \in S : B(x) = {} <=> x = m
  BY <1>1
<1>5. Foremost(S, rank, 1) = {x \in S : Cardinality(B(x)) < 1}
  BY DEF Foremost
<1> HIDE DEF B
<1>6. Foremost(S, rank, 1) = {m}
  BY <1>3, <1>4, <1>5
<1> QED
  BY <1>6

-----------------------------------------------------------------------------
(* Natural numbers up to a bound, without an operator parameter.           *)
LEMMA UpTo ==
    ASSUME NEW n \in Nat, NEW P, 0 \in P, \A k \in 0..n-1 : k \in P => k + 1 \in P
    PROVE  n \in P
<1> SUFFICES ASSUME n \notin P PROVE FALSE
  OBVIOUS
<1> DEFINE Bad == {k \in 0..n : k \notin P}
           rank == [k \in Bad |-> k]
<1>1. IsFiniteSet(Bad) /\ Bad # {}
  <2>1. IsFiniteSet(0..n)
    BY FS_Interval
  <2>2. Bad \in SUBSET (0..n) /\ n \in Bad
    OBVIOUS
  <2> HIDE DEF Bad
  <2> QED
    BY <2>1, <2>2, FS_Subset
<1>2. PICK k \in Bad : \A j \in Bad : k <= j
  <2>1. \A k \in Bad : rank[k] \in Int
    OBVIOUS
  <2>2. \E e \in Bad : \A f \in Bad : rank[e] <= rank[f]
    <3> HIDE DEF Bad, rank
    <3> QED BY <1>1, <2>1, LeastElement
  <2> QED
    BY <2>2
<1>3. k # 0 /\ k - 1 \in 0..n-1
  OBVIOUS
<1>4. k - 1 \in P
  BY <1>2, <1>3
<1> QED
  BY <1>3, <1>4

-----------------------------------------------------------------------------
(* The sum of the values of w over a finite set.                           *)

SumOf(w, S) == MapThenSumSet(LAMBDA e : w[e], S)

Pick(s) == CHOOSE x \in s : TRUE

\* g satisfies the equation of the fold on the sets in F.
Sums(g, w, F) ==
    g = [s \in F |-> IF s = {} THEN 0 ELSE w[Pick(s)] + g[s \ {Pick(s)}]]

\* CHOOSE picks a member.
LEMMA PickIn == ASSUME NEW s, s # {} PROVE Pick(s) \in s
  BY DEF Pick

\* The equation of the fold has a solution on the subsets of a finite set: one
\* on the sets of at most n elements extends to those of n + 1.
LEMMA SumsExists ==
    ASSUME NEW S, IsFiniteSet(S), NEW w
    PROVE  \E g : Sums(g, w, SUBSET S)
<1> DEFINE L(n) == {s \in SUBSET S : Cardinality(s) <= n}
           P == {n \in Nat : \E g : Sums(g, w, L(n))}
<1>0. \A s \in SUBSET S : IsFiniteSet(s) /\ Cardinality(s) \in Nat
  BY FS_Subset, FS_CardinalityType
<1>1. 0 \in P
  <2> DEFINE g == [s \in L(0) |-> 0]
  <2>1. \A s \in L(0) : s = {}
    BY <1>0, FS_EmptySet
  <2>2. Sums(g, w, L(0))
    BY <2>1 DEF Sums
  <2> QED
    BY <2>2
<1>2. ASSUME NEW n \in Nat, n \in P PROVE n + 1 \in P
  <2>1. PICK g : Sums(g, w, L(n))
    BY <1>2
  <2> DEFINE h == [s \in L(n + 1) |-> IF s \in L(n) THEN g[s]
                                      ELSE w[Pick(s)] + g[s \ {Pick(s)}]]
  <2>2. ASSUME NEW s \in L(n + 1), s # {}
        PROVE  /\ s \ {Pick(s)} \in L(n)
               /\ s \ {Pick(s)} \in L(n + 1)
    BY <1>0, <2>2, PickIn, FS_RemoveElement
  <2>3. ASSUME NEW s \in L(n + 1)
        PROVE  h[s] = IF s = {} THEN 0 ELSE w[Pick(s)] + h[s \ {Pick(s)}]
    <3>1. CASE s = {}
      BY <3>1, <2>1, FS_EmptySet DEF Sums
    <3>2. CASE s # {} /\ s \in L(n)
      <4>1. h[s] = g[s]
        BY <3>2
      <4>2. g[s] = w[Pick(s)] + g[s \ {Pick(s)}]
        <5> HIDE DEF L
        <5> QED BY <3>2, <2>1 DEF Sums
      <4>3. h[s \ {Pick(s)}] = g[s \ {Pick(s)}]
        BY <3>2, <2>2
      <4> QED
        BY <3>2, <4>1, <4>2, <4>3
    <3>3. CASE s # {} /\ s \notin L(n)
      BY <3>3, <2>2
    <3> QED
      BY <3>1, <3>2, <3>3
  <2>4. Sums(h, w, L(n + 1))
    <3> HIDE DEF L
    <3> QED BY <2>3 DEF Sums
  <2>5. \E f : Sums(f, w, L(n + 1))
    BY <2>4
  <2> HIDE DEF L
  <2> QED
    BY <2>5
<1>3. Cardinality(S) \in P
  <2> HIDE DEF P
  <2> QED BY <1>0, <1>1, <1>2, UpTo
<1>4. L(Cardinality(S)) = SUBSET S
  BY FS_Subset, FS_CardinalityType
<1> QED
  BY <1>3, <1>4

\* Solutions agree on the sets they have in common.
LEMMA SumsUnique ==
    ASSUME NEW S, IsFiniteSet(S), NEW T \in SUBSET S, NEW w, NEW g, NEW h,
           Sums(g, w, SUBSET S), Sums(h, w, SUBSET T)
    PROVE  g[T] = h[T]
<1> DEFINE F == {s \in SUBSET T : g[s] # h[s]}
<1>1. F = {}
  <2> SUFFICES ASSUME F # {} PROVE FALSE
    OBVIOUS
  <2>1. IsFiniteSet(T) /\ F \subseteq SUBSET T
    BY FS_Subset
  <2>2. PICK s \in F : \A u \in F : u \subseteq s => u = s
    <3> HIDE DEF F
    <3> QED BY <2>1, MinimalSet
  <2>3. s \in SUBSET S /\ s \in SUBSET T
    OBVIOUS
  <2>4. /\ g[s] = IF s = {} THEN 0 ELSE w[Pick(s)] + g[s \ {Pick(s)}]
        /\ h[s] = IF s = {} THEN 0 ELSE w[Pick(s)] + h[s \ {Pick(s)}]
    BY <2>3 DEF Sums
  <2>5. CASE s # {}
    <3>1. Pick(s) \in s
      BY <2>5, PickIn
    <3>2. s \ {Pick(s)} \notin F
      BY <2>2, <3>1
    <3>3. g[s \ {Pick(s)}] = h[s \ {Pick(s)}]
      BY <3>2
    <3> QED
      BY <2>4, <2>5, <3>3
  <2> QED
    BY <2>4, <2>5
<1> QED
  BY <1>1

\* The fold satisfies its equation.
LEMMA SumOfDef ==
    ASSUME NEW S, IsFiniteSet(S), NEW w
    PROVE  SumOf(w, S) = IF S = {} THEN 0 ELSE w[Pick(S)] + SumOf(w, S \ {Pick(S)})
<1> DEFINE rec(T) == CHOOSE g : Sums(g, w, SUBSET T)
<1>1. \A T : SumOf(w, T) = rec(T)[T]
  BY DEF SumOf, MapThenSumSet, MapThenFoldSet, Sums, Pick
<1>2. \A T \in SUBSET S : Sums(rec(T), w, SUBSET T)
  <2>1. \A T \in SUBSET S : \E g : Sums(g, w, SUBSET T)
    BY FS_Subset, SumsExists
  <2> QED
    BY <2>1
<1> HIDE DEF rec
<1>3. rec(S)[S] = IF S = {} THEN 0 ELSE w[Pick(S)] + rec(S)[S \ {Pick(S)}]
  BY <1>2 DEF Sums
<1>4. rec(S)[S \ {Pick(S)}] = rec(S \ {Pick(S)})[S \ {Pick(S)}]
  <2> DEFINE T == S \ {Pick(S)}
  <2>1. T \in SUBSET S /\ Sums(rec(S), w, SUBSET S) /\ Sums(rec(T), w, SUBSET T)
    BY <1>2
  <2> HIDE DEF T
  <2>2. rec(S)[T] = rec(T)[T]
    BY <2>1, SumsUnique
  <2> QED
    BY <2>2 DEF T
<1> QED
  BY <1>1, <1>3, <1>4

\* A sum of integers is an integer.
LEMMA SumOfInt ==
    ASSUME NEW S, IsFiniteSet(S), NEW w, \A e \in S : w[e] \in Int
    PROVE  SumOf(w, S) \in Int
<1> DEFINE F == {s \in SUBSET S : SumOf(w, s) \notin Int}
<1>1. F = {}
  <2> SUFFICES ASSUME F # {} PROVE FALSE
    OBVIOUS
  <2>2. PICK s \in F : \A u \in F : u \subseteq s => u = s
    <3>1. F \subseteq SUBSET S
      OBVIOUS
    <3> HIDE DEF F
    <3> QED BY <3>1, MinimalSet
  <2>3. SumOf(w, s) = IF s = {} THEN 0 ELSE w[Pick(s)] + SumOf(w, s \ {Pick(s)})
    BY SumOfDef, FS_Subset
  <2>4. s # {}
    BY <2>3
  <2>5. Pick(s) \in s
    BY <2>4, PickIn
  <2>6. SumOf(w, s \ {Pick(s)}) \in Int
    BY <2>2, <2>5
  <2> QED
    BY <2>3, <2>4, <2>5, <2>6
<1> QED
  BY <1>1

\* The order in which the fold takes the elements does not matter.
LEMMA SumOfAny ==
    ASSUME NEW S, IsFiniteSet(S), NEW w, \A e \in S : w[e] \in Int, NEW x \in S
    PROVE  SumOf(w, S) = w[x] + SumOf(w, S \ {x})
<1> DEFINE F == {s \in SUBSET S : \E y \in s : SumOf(w, s) # w[y] + SumOf(w, s \ {y})}
<1>0. \A s \in SUBSET S : IsFiniteSet(s) /\ SumOf(w, s) \in Int
  BY FS_Subset, SumOfInt
<1>1. F = {}
  <2> SUFFICES ASSUME F # {} PROVE FALSE
    OBVIOUS
  <2>2. PICK s \in F : \A u \in F : u \subseteq s => u = s
    <3>1. F \subseteq SUBSET S
      OBVIOUS
    <3> HIDE DEF F
    <3> QED BY <3>1, MinimalSet
  <2>3. PICK y \in s : SumOf(w, s) # w[y] + SumOf(w, s \ {y})
    OBVIOUS
  <2> DEFINE x0 == Pick(s)
  <2>4. x0 \in s /\ SumOf(w, s) = w[x0] + SumOf(w, s \ {x0})
    BY <1>0, SumOfDef, PickIn
  <2> HIDE DEF x0
  <2>5. x0 # y
    BY <2>3, <2>4
  <2>6. s \ {x0} \notin F /\ s \ {y} \notin F
    BY <2>2, <2>4
  <2>7. /\ SumOf(w, s \ {x0}) = w[y] + SumOf(w, (s \ {x0}) \ {y})
        /\ SumOf(w, s \ {y}) = w[x0] + SumOf(w, (s \ {y}) \ {x0})
    BY <2>4, <2>5, <2>6
  <2>8. (s \ {y}) \ {x0} = (s \ {x0}) \ {y}
    OBVIOUS
  <2>9. SumOf(w, (s \ {x0}) \ {y}) \in Int /\ w[x0] \in Int /\ w[y] \in Int
    BY <1>0, <2>4
  <2>10. SumOf(w, s \ {y}) = w[x0] + SumOf(w, (s \ {x0}) \ {y})
    BY <2>7, <2>8
  <2> DEFINE r == SumOf(w, (s \ {x0}) \ {y})
  <2>11. w[x0] + (w[y] + r) = w[y] + (w[x0] + r)
    BY <2>9
  <2> HIDE DEF F
  <2> QED
    BY <2>3, <2>4, <2>7, <2>10, <2>11
<1> QED
  BY <1>1

\* What a proof needs of a sum: nothing, one more element, an integer.
LEMMA SumOfEmpty == ASSUME NEW w PROVE SumOf(w, {}) = 0
  BY SumOfDef, FS_EmptySet

\* Adding an element adds its weight.
LEMMA SumOfAdd ==
    ASSUME NEW S, IsFiniteSet(S), NEW x, x \notin S, NEW w,
           \A e \in S \cup {x} : w[e] \in Int
    PROVE  SumOf(w, S \cup {x}) = SumOf(w, S) + w[x]
<1>1. (S \cup {x}) \ {x} = S /\ IsFiniteSet(S \cup {x})
  BY FS_AddElement
<1>2. SumOf(w, S) \in Int
  BY SumOfInt
<1>3. SumOf(w, S \cup {x}) = w[x] + SumOf(w, S)
  BY <1>1, SumOfAny
<1> QED
  BY <1>2, <1>3
=============================================================================
