------------------------------ MODULE FoldLaws ------------------------------
(***************************************************************************)
(* What FoldLeft computes.  The operator that is folded is a parameter of  *)
(* the module, with two more arguments for what it depends on beside the   *)
(* accumulator and the element, so that an INSTANCE makes the law a fact   *)
(* about one fold of the model.                                            *)
(***************************************************************************)
EXTENDS Integers, SequencesExt, SetInduction

CONSTANT op(_, _, _, _)

Fold(c, d, base, seq) == FoldLeft(LAMBDA acc, x : op(c, d, acc, x), base, seq)

\* g holds the intermediate results of the fold, from base on.
Results(g, c, d, base, seq) ==
    /\ g[0] = base
    /\ \A k \in 1..Len(seq) : g[k] = op(c, d, g[k - 1], seq[k])
    /\ g[Len(seq)] = Fold(c, d, base, seq)

\* g satisfies the equation of the fold on the sets of indices in F.
Solves(g, c, d, base, seq, F) ==
    g = [s \in F |-> IF s = {} THEN base
                     ELSE op(c, d, g[s \ {Max(s)}], seq[Max(s)])]

\* The greatest index is one of the set.
LEMMA MaxIn ==
    ASSUME NEW n \in Nat, NEW s, s \subseteq 1..n, s # {}
    PROVE  Max(s) \in s /\ \A i \in s : i <= Max(s)
<1> DEFINE rank == [i \in s |-> -i]
<1>1. IsFiniteSet(s)
  <2>1. IsFiniteSet(1..n)
    BY FS_Interval
  <2> QED
    BY <2>1, FS_Subset
<1>2. \A i \in s : rank[i] = -i /\ i \in Int
  OBVIOUS
<1> HIDE DEF rank
<1>5. \A i \in s : rank[i] \in Int
  BY <1>2
<1>3. \E i \in s : \A j \in s : rank[i] <= rank[j]
  BY <1>1, <1>5, LeastElement
<1>4. \E i \in s : \A j \in s : i >= j
  BY <1>2, <1>3
<1> QED
  BY <1>2, <1>4 DEF Max

\* The equation has a solution: one for the indices up to m extends to m + 1.
LEMMA SolutionExists ==
    ASSUME NEW n \in Nat, NEW c, NEW d, NEW base, NEW seq
    PROVE  \E g : Solves(g, c, d, base, seq, SUBSET (1..n))
<1> DEFINE L(m) == SUBSET (1..m)
           P == {m \in Nat : \E g : Solves(g, c, d, base, seq, L(m))}
<1>1. 0 \in P
  <2> DEFINE g == [s \in L(0) |-> base]
  <2>1. \A s \in L(0) : s = {}
    OBVIOUS
  <2>2. Solves(g, c, d, base, seq, L(0))
    <3> HIDE DEF L
    <3> QED BY <2>1 DEF Solves
  <2> QED
    BY <2>2
<1>2. ASSUME NEW m \in Nat, m \in P PROVE m + 1 \in P
  <2>1. PICK g : Solves(g, c, d, base, seq, L(m))
    BY <1>2
  <2> DEFINE h == [s \in L(m + 1) |->
                     IF s \in L(m) THEN g[s]
                     ELSE op(c, d, g[s \ {Max(s)}], seq[Max(s)])]
  <2>2. ASSUME NEW s \in L(m + 1), s # {}
        PROVE  s \ {Max(s)} \in L(m) /\ s \ {Max(s)} \in L(m + 1)
    <3>0. s \subseteq 1..(m + 1) /\ m + 1 \in Nat
      BY <2>2
    <3>1. Max(s) \in s /\ \A i \in s : i <= Max(s)
      BY <2>2, <3>0, MaxIn
    <3>2. ASSUME NEW i \in s, i # Max(s) PROVE i \in 1..m
      <4>1. i \in 1..(m + 1) /\ Max(s) \in 1..(m + 1) /\ i <= Max(s)
        BY <3>0, <3>1
      <4> QED
        BY <3>2, <4>1
    <3>3. \A i \in s \ {Max(s)} : i \in 1..(m + 1)
      BY <3>0
    <3> QED
      BY <3>2, <3>3
  <2>3. ASSUME NEW s \in L(m + 1)
        PROVE  h[s] = IF s = {} THEN base
                      ELSE op(c, d, h[s \ {Max(s)}], seq[Max(s)])
    <3>0. {} \in L(m) /\ {} \in L(m + 1)
      OBVIOUS
    <3>1. CASE s = {}
      <4> HIDE DEF L
      <4>1. h[s] = g[s]
        BY <3>0, <3>1
      <4> QED BY <3>0, <3>1, <4>1, <2>1 DEF Solves
    <3>2. CASE s # {} /\ s \in L(m)
      <4> HIDE DEF L
      <4>1. h[s] = g[s] /\ h[s \ {Max(s)}] = g[s \ {Max(s)}]
        BY <3>2, <2>2
      <4>2. g[s] = op(c, d, g[s \ {Max(s)}], seq[Max(s)])
        BY <3>2, <2>1 DEF Solves
      <4> QED
        BY <3>2, <4>1, <4>2
    <3>3. CASE s # {} /\ s \notin L(m)
      <4> HIDE DEF L
      <4> QED BY <3>3, <2>2
    <3> QED
      BY <3>1, <3>2, <3>3
  <2>4. Solves(h, c, d, base, seq, L(m + 1))
    <3> HIDE DEF L
    <3> QED BY <2>3 DEF Solves
  <2>5. \E f : Solves(f, c, d, base, seq, L(m + 1))
    BY <2>4
  <2> HIDE DEF L
  <2> QED
    BY <2>5
<1>3. n \in P
  <2> HIDE DEF P
  <2> QED BY <1>1, <1>2, UpTo
<1> QED
  BY <1>3

\* A fold goes through the sequence from left to right.
LEMMA FoldResults ==
    ASSUME NEW n \in Nat, NEW seq, DOMAIN seq = 1..n, NEW c, NEW d, NEW base
    PROVE  \E g : Results(g, c, d, base, seq)
<1> DEFINE iter == CHOOSE g : Solves(g, c, d, base, seq, SUBSET (1..n))
           g == [k \in 0..n |-> iter[1..k]]
<1>0. Len(seq) = n
  OBVIOUS
<1>1. Fold(c, d, base, seq) = iter[1..n]
  BY DEF Fold, FoldLeft, MapThenFoldSet, Solves
<1>2. Solves(iter, c, d, base, seq, SUBSET (1..n))
  BY SolutionExists
<1> HIDE DEF iter
<1>3. g[0] = base
  <2>1. 1..0 = {}
    OBVIOUS
  <2>2. iter[{}] = base
    BY <1>2 DEF Solves
  <2> QED
    BY <2>1, <2>2
<1>4. ASSUME NEW k \in 1..n PROVE g[k] = op(c, d, g[k - 1], seq[k])
  <2>1. 1..k \subseteq 1..n /\ 1..k # {} /\ k \in 1..k /\ k \in Nat
    OBVIOUS
  <2>2. Max(1..k) \in 1..k /\ k <= Max(1..k)
    BY <2>1, MaxIn
  <2>3. Max(1..k) = k /\ (1..k) \ {k} = 1..(k - 1)
    BY <2>2
  <2>4. iter[1..k] = op(c, d, iter[1..(k - 1)], seq[k])
    BY <1>2, <2>1, <2>3 DEF Solves
  <2> QED
    BY <2>4
<1>5. g[n] = iter[1..n]
  OBVIOUS
<1> HIDE DEF g
<1>6. Results(g, c, d, base, seq)
  BY <1>0, <1>1, <1>3, <1>4, <1>5 DEF Results
<1> QED
  BY <1>6

\* One more element is one more step.
LEMMA FoldAppend ==
    ASSUME NEW n \in Nat, NEW seq, DOMAIN seq = 1..n,
           NEW longer, NEW x, DOMAIN longer = 1..n + 1, longer[n + 1] = x,
           \A i \in 1..n : longer[i] = seq[i],
           NEW c, NEW d, NEW base
    PROVE  Fold(c, d, base, longer) = op(c, d, Fold(c, d, base, seq), x)
<1>0. Len(seq) = n /\ Len(longer) = n + 1 /\ n + 1 \in Nat
  OBVIOUS
<1>1. PICK f : Results(f, c, d, base, seq)
  BY FoldResults
<1>2. PICK g : Results(g, c, d, base, longer)
  BY <1>0, FoldResults
<1> DEFINE P == {k \in 0..n : g[k] = f[k]}
<1>3. 0 \in P
  BY <1>1, <1>2 DEF Results
<1>4. ASSUME NEW k \in 0..n - 1, k \in P PROVE k + 1 \in P
  <2>1. k + 1 \in 1..n /\ k + 1 \in 1..n + 1 /\ (k + 1) - 1 = k
    OBVIOUS
  <2>2. f[k + 1] = op(c, d, f[k], seq[k + 1])
    BY <1>0, <1>1, <2>1 DEF Results
  <2>3. g[k + 1] = op(c, d, g[k], longer[k + 1])
    BY <1>0, <1>2, <2>1 DEF Results
  <2>4. g[k] = f[k] /\ longer[k + 1] = seq[k + 1]
    BY <1>4, <2>1
  <2>5. g[k + 1] = f[k + 1]
    BY <2>2, <2>3, <2>4
  <2> QED
    BY <2>1, <2>5
<1>5. g[n] = f[n]
  <2> HIDE DEF P
  <2>1. n \in P
    BY <1>3, <1>4, UpTo
  <2> QED
    BY <2>1 DEF P
<1>6. n + 1 \in 1..n + 1 /\ (n + 1) - 1 = n
  OBVIOUS
<1>7. g[n + 1] = op(c, d, g[n], longer[n + 1])
  BY <1>0, <1>2, <1>6 DEF Results
<1>8. g[n + 1] = Fold(c, d, base, longer) /\ f[n] = Fold(c, d, base, seq)
  BY <1>0, <1>1, <1>2 DEF Results
<1> QED
  BY <1>5, <1>7, <1>8
=============================================================================
