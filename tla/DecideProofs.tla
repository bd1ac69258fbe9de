---------------------------- MODULE DecideProofs ----------------------------
(***************************************************************************)
(* Laws of the pure part of an inspection, for every profile and request:  *)
(* each is proved by induction along the fold that defines it (FoldLaws).  *)
(***************************************************************************)
EXTENDS Decide, SetInduction, SequenceTheorems

(* The operators that are folded, with what they depend on as arguments.   *)
askOp(p, unused, ask, act) == deliver(ask, act, p)
onOp(ask, unused, groups, g) == Kept(groups, g, IsOn(g, ask))
phaseOp(frame, unused, kept, g) == Kept(kept, g, g.frame = frame)
bodyOp(unused, unusedToo, acc, op) == bodyStep(acc, op)
groupOp(seen, has, acc, g) == groupStep(acc, g, seen, has)
catOp(unused, unusedToo, acc, s) == acc \o s
rowOp(unused, unusedToo, n, row) == n + row.matches
hitOp(starts, m, found, i) == nextMatch(starts, m, found, i)

Asks   == INSTANCE FoldLaws WITH op <- askOp
Ons    == INSTANCE FoldLaws WITH op <- onOp
Phases == INSTANCE FoldLaws WITH op <- phaseOp
Bodies == INSTANCE FoldLaws WITH op <- bodyOp
Groups == INSTANCE FoldLaws WITH op <- groupOp
Cats   == INSTANCE FoldLaws WITH op <- catOp
Rows   == INSTANCE FoldLaws WITH op <- rowOp
Hits   == INSTANCE FoldLaws WITH op <- hitOp

-----------------------------------------------------------------------------
(* Lists.                                                                  *)

\* Length and indices of a list.
LEMMA ListFacts ==
    ASSUME NEW s, IsList(s)
    PROVE  Len(s) \in Nat /\ DOMAIN s = 1..Len(s) /\ (s = <<>> <=> ToSet(s) = {})
  BY DEF IsList, ToSet

\* The empty list.
LEMMA EmptyList == IsList(<<>>) /\ ToSet(<<>>) = {}
  BY DEF IsList, ToSet

\* append.
LEMMA AppendList ==
    ASSUME NEW s, IsList(s), NEW e
    PROVE  /\ IsList(Append(s, e)) /\ ToSet(Append(s, e)) = ToSet(s) \cup {e}
           /\ Append(s, e) # <<>>
<1> DEFINE S == ToSet(s) \cup {e}
           t == Append(s, e)
<1>1. s \in Seq(S)
  <2>1. \A i \in 1..Len(s) : s[i] \in S
    BY ListFacts DEF ToSet
  <2>2. s \in Seq(ToSet(s))
    BY DEF IsList
  <2> HIDE DEF S
  <2> QED
    BY <2>1, <2>2
<1>2. /\ t \in Seq(S) /\ Len(t) = Len(s) + 1 /\ Len(s) \in Nat
      /\ \A i \in 1..Len(s) : t[i] = s[i]
      /\ t[Len(s) + 1] = e
  BY <1>1, AppendProperties
<1>3. DOMAIN t = 1..Len(s) + 1 /\ DOMAIN s = 1..Len(s)
  BY <1>1, <1>2
<1> HIDE DEF t
<1>4. ToSet(t) = S
  <2>1. \A x : x \in ToSet(t) <=> \E i \in 1..Len(s) + 1 : x = t[i]
    BY <1>3 DEF ToSet
  <2>2. \A x : x \in ToSet(s) <=> \E i \in 1..Len(s) : x = s[i]
    BY <1>3 DEF ToSet
  <2>3. ASSUME NEW x \in ToSet(t) PROVE x \in S
    <3>1. PICK i \in 1..Len(s) + 1 : x = t[i]
      BY <2>1, <2>3
    <3>2. i \in 1..Len(s) \/ i = Len(s) + 1
      BY <1>2
    <3> QED
      BY <1>2, <2>2, <3>1, <3>2
  <2>4. ASSUME NEW x \in ToSet(s) PROVE x \in ToSet(t)
    <3>1. PICK i \in 1..Len(s) : x = s[i]
      BY <2>2, <2>4
    <3>2. i \in 1..Len(s) + 1
      BY <1>2
    <3> QED
      BY <1>2, <2>1, <3>1, <3>2
  <2>5. e \in ToSet(t)
    <3>1. Len(s) + 1 \in 1..Len(s) + 1
      BY <1>2
    <3> QED
      BY <1>2, <2>1, <3>1
  <2> QED
    BY <2>3, <2>4, <2>5
<1>5. t # <<>>
  BY <1>2
<1> QED
  BY <1>2, <1>4, <1>5 DEF IsList, t

-----------------------------------------------------------------------------
(* Which groups are looked at.                                             *)

\* A loop that appends some elements of s and leaves the others out.
LEMMA KeptOnes ==
    ASSUME NEW s, IsList(s), NEW K, NEW f, f[0] = <<>>,
           \A k \in 1..Len(s) : f[k] = IF k \in K THEN Append(f[k - 1], s[k]) ELSE f[k - 1]
    PROVE  /\ IsList(f[Len(s)])
           /\ \A x : x \in ToSet(f[Len(s)]) <=> \E i \in 1..Len(s) : i \in K /\ x = s[i]
<1> DEFINE P == {k \in 0..Len(s) :
                   /\ IsList(f[k])
                   /\ \A x : x \in ToSet(f[k]) <=> \E i \in 1..k : i \in K /\ x = s[i]}
<1>0. Len(s) \in Nat
  BY ListFacts
<1>1. 0 \in P
  BY <1>0, EmptyList
<1>2. ASSUME NEW k \in 0..Len(s) - 1, k \in P PROVE k + 1 \in P
  <2>0. k + 1 \in 1..Len(s) /\ k + 1 \in 0..Len(s) /\ (k + 1) - 1 = k
    BY <1>0
  <2>1. f[k + 1] = IF k + 1 \in K THEN Append(f[k], s[k + 1]) ELSE f[k]
    BY <2>0
  <2>2. IsList(f[k]) /\ \A x : x \in ToSet(f[k]) <=> \E i \in 1..k : i \in K /\ x = s[i]
    BY <1>2
  <2>3. \A i : i \in 1..k + 1 <=> i \in 1..k \/ i = k + 1
    BY <1>0
  <2>4. CASE k + 1 \in K
    <3>1. IsList(f[k + 1]) /\ ToSet(f[k + 1]) = ToSet(f[k]) \cup {s[k + 1]}
      BY <2>1, <2>2, <2>4, AppendList
    <3>2. \A x : x \in ToSet(f[k + 1]) <=> \E i \in 1..k + 1 : i \in K /\ x = s[i]
      BY <2>2, <2>3, <2>4, <3>1
    <3> QED
      BY <2>0, <3>1, <3>2
  <2>5. CASE k + 1 \notin K
    <3>1. f[k + 1] = f[k]
      BY <2>1, <2>5
    <3>2. \A x : x \in ToSet(f[k + 1]) <=> \E i \in 1..k + 1 : i \in K /\ x = s[i]
      BY <2>2, <2>3, <2>5, <3>1
    <3> QED
      BY <2>0, <2>2, <3>1, <3>2
  <2> QED
    BY <2>4, <2>5
<1>3. Len(s) \in P
  <2> HIDE DEF P
  <2> QED BY <1>0, <1>1, <1>2, UpTo
<1> QED
  BY <1>3

\* Ask.Active keeps the groups that are on.
LEMMA ActiveGroups ==
    ASSUME NEW ask, NEW p, IsList(p.groups)
    PROVE  /\ IsList(Active(ask, p))
           /\ \A g : g \in ToSet(Active(ask, p)) <=> g \in ToSet(p.groups) /\ IsOn(g, ask)
<1> DEFINE s == p.groups
           K == {k \in 1..Len(s) : IsOn(s[k], ask)}
<1>1. PICK f : Ons!Results(f, ask, 0, <<>>, s)
  BY ListFacts, Ons!FoldResults
<1>2. Ons!Fold(ask, 0, <<>>, s) = Active(ask, p)
  BY DEF Active, Ons!Fold, Ons!FoldLeft, Ons!MapThenFoldSet, Ons!Max, FoldLeft,
         MapThenFoldSet, Max, onOp
<1>3. /\ f[0] = <<>> /\ f[Len(s)] = Active(ask, p)
      /\ \A k \in 1..Len(s) : f[k] = Kept(f[k - 1], s[k], IsOn(s[k], ask))
  BY <1>1, <1>2 DEF Ons!Results, onOp
<1>4. \A k \in 1..Len(s) : k \in K <=> IsOn(s[k], ask)
  OBVIOUS
<1> HIDE DEF K
<1>5. \A k \in 1..Len(s) : f[k] = IF k \in K THEN Append(f[k - 1], s[k]) ELSE f[k - 1]
  BY <1>3, <1>4 DEF Kept
<1>6. /\ IsList(f[Len(s)])
      /\ \A x : x \in ToSet(f[Len(s)]) <=> \E i \in 1..Len(s) : i \in K /\ x = s[i]
  BY <1>3, <1>5, KeptOnes
<1>7. \A x : x \in ToSet(s) <=> \E i \in 1..Len(s) : x = s[i]
  BY ListFacts DEF ToSet
<1> QED
  BY <1>3, <1>4, <1>6, <1>7

\* ForPhase keeps the groups of the phase.
LEMMA PhaseGroups ==
    ASSUME NEW s, IsList(s), NEW frame
    PROVE  /\ IsList(ForPhase(s, frame))
           /\ \A g : g \in ToSet(ForPhase(s, frame)) <=> g \in ToSet(s) /\ g.frame = frame
<1> DEFINE K == {k \in 1..Len(s) : s[k].frame = frame}
<1>1. PICK f : Phases!Results(f, frame, 0, <<>>, s)
  BY ListFacts, Phases!FoldResults
<1>2. Phases!Fold(frame, 0, <<>>, s) = ForPhase(s, frame)
  BY DEF ForPhase, Phases!Fold, Phases!FoldLeft, Phases!MapThenFoldSet, Phases!Max,
         FoldLeft, MapThenFoldSet, Max, phaseOp
<1>3. /\ f[0] = <<>> /\ f[Len(s)] = ForPhase(s, frame)
      /\ \A k \in 1..Len(s) : f[k] = Kept(f[k - 1], s[k], s[k].frame = frame)
  BY <1>1, <1>2 DEF Phases!Results, phaseOp
<1>4. \A k \in 1..Len(s) : k \in K <=> (s[k].frame = frame)
  OBVIOUS
<1> HIDE DEF K
<1>5. \A k \in 1..Len(s) : f[k] = IF k \in K THEN Append(f[k - 1], s[k]) ELSE f[k - 1]
  BY <1>3, <1>4 DEF Kept
<1>6. /\ IsList(f[Len(s)])
      /\ \A x : x \in ToSet(f[Len(s)]) <=> \E i \in 1..Len(s) : i \in K /\ x = s[i]
  BY <1>3, <1>5, KeptOnes
<1>7. \A x : x \in ToSet(s) <=> \E i \in 1..Len(s) : x = s[i]
  BY ListFacts DEF ToSet
<1> QED
  BY <1>3, <1>4, <1>6, <1>7

-----------------------------------------------------------------------------
(* What the neighbours ask for.                                            *)

IsAsk(ask) ==
    ask = [skip |-> ask.skip, on |-> ask.on, off |-> ask.off, outcomes |-> ask.outcomes]

\* act turns the group called n on, or off.
TurnsOn(act, p, n) ==
    outcome(act, p) = "applied" /\ act.do # "skip" /\ act.set # "off" /\ act.group = n

TurnsOff(act, p, n) ==
    outcome(act, p) = "applied" /\ act.do # "skip" /\ act.set = "off" /\ act.group = n

\* One action is delivered.
LEMMA DeliverOne ==
    ASSUME NEW ask, IsAsk(ask), NEW act, NEW p
    PROVE  LET new == deliver(ask, act, p)
           IN  /\ IsAsk(new)
               /\ new.outcomes = Append(ask.outcomes, [act |-> act, outcome |-> outcome(act, p)])
               /\ \A n : n \in new.on <=> n \in ask.on \/ TurnsOn(act, p, n)
               /\ \A n : n \in new.off <=> n \in ask.off \/ TurnsOff(act, p, n)
               /\ new.skip <=> ask.skip \/ (outcome(act, p) = "applied" /\ act.do = "skip")
<1> DEFINE new == deliver(ask, act, p)
           o == [act |-> act, outcome |-> outcome(act, p)]
           list == Append(ask.outcomes, o)
<1>1. CASE outcome(act, p) # "applied"
  <2>1. new = [skip |-> ask.skip, on |-> ask.on, off |-> ask.off, outcomes |-> list]
    BY <1>1 DEF deliver, IsAsk
  <2> QED
    BY <1>1, <2>1 DEF IsAsk, TurnsOn, TurnsOff
<1>2. CASE outcome(act, p) = "applied" /\ act.do = "skip"
  <2>1. new = [skip |-> TRUE, on |-> ask.on, off |-> ask.off, outcomes |-> list]
    BY <1>2 DEF deliver, IsAsk
  <2> QED
    BY <1>2, <2>1 DEF IsAsk, TurnsOn, TurnsOff
<1>3. CASE outcome(act, p) = "applied" /\ act.do # "skip" /\ act.set = "off"
  <2>1. new = [skip |-> ask.skip, on |-> ask.on, off |-> ask.off \cup {act.group},
               outcomes |-> list]
    BY <1>3 DEF deliver, IsAsk
  <2> QED
    BY <1>3, <2>1 DEF IsAsk, TurnsOn, TurnsOff
<1>4. CASE outcome(act, p) = "applied" /\ act.do # "skip" /\ act.set # "off"
  <2>1. new = [skip |-> ask.skip, on |-> ask.on \cup {act.group}, off |-> ask.off,
               outcomes |-> list]
    BY <1>4 DEF deliver, IsAsk
  <2> QED
    BY <1>4, <2>1 DEF IsAsk, TurnsOn, TurnsOff
<1> QED
  BY <1>1, <1>2, <1>3, <1>4

\* EvaluatePrior: the actions are heard one and all, in whatever order they
\* come, and each has its outcome noted.
LEMMA PriorHeard ==
    ASSUME NEW prior, IsList(prior), NEW p
    PROVE  LET ask == EvaluatePrior(prior, p)
           IN  /\ IsList(ask.outcomes)
               /\ \A act \in ToSet(prior) :
                     [act |-> act, outcome |-> outcome(act, p)] \in ToSet(ask.outcomes)
               /\ \A n : n \in ask.on <=> \E act \in ToSet(prior) : TurnsOn(act, p, n)
               /\ \A n : n \in ask.off <=> \E act \in ToSet(prior) : TurnsOff(act, p, n)
               /\ ask.skip <=> \E act \in ToSet(prior) :
                                  outcome(act, p) = "applied" /\ act.do = "skip"
<1> DEFINE o(act) == [act |-> act, outcome |-> outcome(act, p)]
           Heard(ask, k) ==
              /\ IsAsk(ask) /\ IsList(ask.outcomes)
              /\ \A i \in 1..k : o(prior[i]) \in ToSet(ask.outcomes)
              /\ \A n : n \in ask.on <=> \E i \in 1..k : TurnsOn(prior[i], p, n)
              /\ \A n : n \in ask.off <=> \E i \in 1..k : TurnsOff(prior[i], p, n)
              /\ ask.skip <=> \E i \in 1..k :
                                 outcome(prior[i], p) = "applied" /\ prior[i].do = "skip"
<1>1. PICK f : Asks!Results(f, p, 0, NoAsk, prior)
  BY ListFacts, Asks!FoldResults
<1>2. Asks!Fold(p, 0, NoAsk, prior) = EvaluatePrior(prior, p)
  BY DEF EvaluatePrior, Asks!Fold, Asks!FoldLeft, Asks!MapThenFoldSet, Asks!Max, FoldLeft,
         MapThenFoldSet, Max, askOp
<1>3. /\ f[0] = NoAsk /\ f[Len(prior)] = EvaluatePrior(prior, p)
      /\ \A k \in 1..Len(prior) : f[k] = deliver(f[k - 1], prior[k], p)
  BY <1>1, <1>2 DEF Asks!Results, askOp
<1> DEFINE P == {k \in 0..Len(prior) : Heard(f[k], k)}
<1>4. Len(prior) \in Nat
  BY ListFacts
<1>5. 0 \in P
  BY <1>3, <1>4, EmptyList DEF NoAsk, IsAsk
<1>6. ASSUME NEW k \in 0..Len(prior) - 1, k \in P PROVE k + 1 \in P
  <2>0. k + 1 \in 1..Len(prior) /\ k + 1 \in 0..Len(prior) /\ (k + 1) - 1 = k
    BY <1>4
  <2>1. f[k + 1] = deliver(f[k], prior[k + 1], p)
    BY <1>3, <2>0
  <2>2. Heard(f[k], k)
    BY <1>6
  <2>3. \A i : i \in 1..k + 1 <=> i \in 1..k \/ i = k + 1
    BY <1>4
  <2> DEFINE new == f[k + 1]
             act == prior[k + 1]
  <2>4. /\ IsAsk(new) /\ new.outcomes = Append(f[k].outcomes, o(act))
        /\ \A n : n \in new.on <=> n \in f[k].on \/ TurnsOn(act, p, n)
        /\ \A n : n \in new.off <=> n \in f[k].off \/ TurnsOff(act, p, n)
        /\ new.skip <=> f[k].skip \/ (outcome(act, p) = "applied" /\ act.do = "skip")
    BY <2>1, <2>2, DeliverOne
  <2>5. IsList(new.outcomes) /\ ToSet(new.outcomes) = ToSet(f[k].outcomes) \cup {o(act)}
    BY <2>2, <2>4, AppendList
  <2> HIDE DEF o
  <2>6. \A i \in 1..k + 1 : o(prior[i]) \in ToSet(new.outcomes)
    BY <2>2, <2>3, <2>5
  <2>7. \A n : n \in new.on <=> \E i \in 1..k + 1 : TurnsOn(prior[i], p, n)
    BY <2>2, <2>3, <2>4
  <2>8. \A n : n \in new.off <=> \E i \in 1..k + 1 : TurnsOff(prior[i], p, n)
    BY <2>2, <2>3, <2>4
  <2>9. new.skip <=> \E i \in 1..k + 1 :
                        outcome(prior[i], p) = "applied" /\ prior[i].do = "skip"
    BY <2>2, <2>3, <2>4
  <2> QED
    BY <2>0, <2>4, <2>5, <2>6, <2>7, <2>8, <2>9
<1>7. Len(prior) \in P
  <2> HIDE DEF P
  <2> QED BY <1>4, <1>5, <1>6, UpTo
<1>8. Heard(EvaluatePrior(prior, p), Len(prior))
  BY <1>3, <1>7
<1>9. \A act : act \in ToSet(prior) <=> \E i \in 1..Len(prior) : act = prior[i]
  BY ListFacts DEF ToSet
<1> QED
  BY <1>8, <1>9

-----------------------------------------------------------------------------
(* What the groups do.                                                     *)

IsRow(row) == row = [group |-> row.group, matches |-> row.matches, skipped |-> row.skipped]

IsApplied(acc) ==
    acc = [groups |-> acc.groups, body |-> acc.body, changed |-> acc.changed,
           headers |-> acc.headers, rows |-> acc.rows, row |-> acc.row,
           spent |-> acc.spent, budget |-> acc.budget]

\* A body operation writes the body and the row of its group, no more.
SameButBody(acc, new) ==
    /\ IsApplied(new) /\ IsRow(new.row)
    /\ new.groups = acc.groups /\ new.rows = acc.rows
    /\ new.row.group = acc.row.group
    /\ new.row.skipped \in {acc.row.skipped, "budget"}
    /\ new.changed = acc.changed \/ new.changed = TRUE

\* One body operation.
LEMMA BodyStepOne ==
    ASSUME NEW acc, IsApplied(acc), IsRow(acc.row), NEW op
    PROVE  SameButBody(acc, bodyStep(acc, op))
<1> DEFINE new == bodyStep(acc, op)
           done == applyBodyOp(op, acc.body, acc.budget)
<1>1. CASE acc.budget <= 0
  <2>1. new = [groups |-> acc.groups, body |-> acc.body, changed |-> acc.changed,
               headers |-> acc.headers, rows |-> acc.rows,
               row |-> [acc.row EXCEPT !.skipped = "budget"],
               spent |-> TRUE, budget |-> acc.budget]
    BY <1>1 DEF bodyStep, IsApplied
  <2>2. [acc.row EXCEPT !.skipped = "budget"] =
          [group |-> acc.row.group, matches |-> acc.row.matches, skipped |-> "budget"]
    BY DEF IsRow
  <2> QED
    BY <2>1, <2>2 DEF SameButBody, IsApplied, IsRow
<1>2. CASE ~(acc.budget <= 0) /\ done.n = 0
  BY <1>2 DEF bodyStep, SameButBody
<1>3. CASE ~(acc.budget <= 0) /\ done.n # 0
  <2> HIDE DEF done
  <2>0. new = [acc EXCEPT !.body = done.body, !.changed = TRUE,
                          !.budget = acc.budget - done.n,
                          !.row = [acc.row EXCEPT !.matches = acc.row.matches + done.n]]
    BY <1>3 DEF bodyStep, done, IsApplied
  <2>1. new = [groups |-> acc.groups, body |-> done.body, changed |-> TRUE,
               headers |-> acc.headers, rows |-> acc.rows,
               row |-> [acc.row EXCEPT !.matches = acc.row.matches + done.n],
               spent |-> acc.spent, budget |-> acc.budget - done.n]
    BY <2>0 DEF IsApplied
  <2>2. [acc.row EXCEPT !.matches = acc.row.matches + done.n] =
          [group |-> acc.row.group, matches |-> acc.row.matches + done.n,
           skipped |-> acc.row.skipped]
    BY DEF IsRow
  <2> QED
    BY <2>1, <2>2 DEF SameButBody, IsApplied, IsRow
<1> QED
  BY <1>1, <1>2, <1>3

\* The loop over the body operations of a group, step by step.
LEMMA BodyResults ==
    ASSUME NEW acc, NEW ops, IsList(ops)
    PROVE  \E f : /\ f[0] = acc /\ f[Len(ops)] = bodySteps(acc, ops)
                  /\ \A k \in 1..Len(ops) : f[k] = bodyStep(f[k - 1], ops[k])
<1>1. PICK f : Bodies!Results(f, 0, 0, acc, ops)
  BY ListFacts, Bodies!FoldResults
<1>2. Bodies!Fold(0, 0, acc, ops) = bodySteps(acc, ops)
  BY DEF bodySteps, Bodies!Fold, Bodies!FoldLeft, Bodies!MapThenFoldSet, Bodies!Max,
         FoldLeft, MapThenFoldSet, Max, bodyOp
<1> QED
  BY <1>1, <1>2 DEF Bodies!Results, bodyOp

\* ... and all those of a group.
LEMMA BodySteps ==
    ASSUME NEW acc, IsApplied(acc), IsRow(acc.row), NEW ops, IsList(ops)
    PROVE  /\ SameButBody(acc, bodySteps(acc, ops))
           /\ ops = <<>> => bodySteps(acc, ops) = acc
<1>1. PICK f : /\ f[0] = acc /\ f[Len(ops)] = bodySteps(acc, ops)
               /\ \A k \in 1..Len(ops) : f[k] = bodyStep(f[k - 1], ops[k])
  BY BodyResults
<1> DEFINE P == {k \in 0..Len(ops) : SameButBody(acc, f[k])}
<1>2. Len(ops) \in Nat
  BY ListFacts
<1>3. 0 \in P
  BY <1>1, <1>2 DEF SameButBody
<1>4. ASSUME NEW k \in 0..Len(ops) - 1, k \in P PROVE k + 1 \in P
  <2>0. k + 1 \in 1..Len(ops) /\ k + 1 \in 0..Len(ops) /\ (k + 1) - 1 = k
    BY <1>2
  <2>1. SameButBody(acc, f[k])
    BY <1>4
  <2>2. SameButBody(f[k], bodyStep(f[k], ops[k + 1]))
    BY <2>1, BodyStepOne DEF SameButBody
  <2>3. SameButBody(acc, f[k + 1])
    BY <1>1, <2>0, <2>1, <2>2 DEF SameButBody
  <2> QED
    BY <2>0, <2>3
<1>5. Len(ops) \in P
  <2> HIDE DEF P
  <2> QED BY <1>2, <1>3, <1>4, UpTo
<1> QED
  BY <1>1, <1>5

\* A group gets a row of its own.
LEMMA NewRow ==
    ASSUME NEW acc, IsApplied(acc), NEW row
    PROVE  LET new == [acc EXCEPT !.row = row]
           IN  /\ IsApplied(new) /\ new.row = row /\ new.groups = acc.groups
               /\ new.rows = acc.rows /\ new.changed = acc.changed
<1> DEFINE new == [acc EXCEPT !.row = row]
<1>1. new = [groups |-> acc.groups, body |-> acc.body, changed |-> acc.changed,
             headers |-> acc.headers, rows |-> acc.rows, row |-> row,
             spent |-> acc.spent, budget |-> acc.budget]
  BY DEF IsApplied
<1> QED
  BY <1>1 DEF IsApplied

\* A group is applied, or it is left out and its row says why.
Applies(g, seen, has) == Matches(g, seen) /\ (HasBody(g) => has)

GroupDone(acc, new, g, seen, has) ==
    /\ IsApplied(new) /\ IsList(new.groups) /\ IsList(new.rows)
    /\ ToSet(new.groups) = ToSet(acc.groups)
                             \cup (IF Applies(g, seen, has) THEN {g.name} ELSE {})
    /\ \E row : /\ new.rows = Append(acc.rows, row) /\ row.group = g.name
                /\ row.skipped = "no_body" => Matches(g, seen) /\ HasBody(g) /\ ~has
    /\ new.changed = acc.changed \/ new.changed = TRUE
    /\ ~has => new.changed = acc.changed

\* One group of the loop in apply.
LEMMA GroupOne ==
    ASSUME NEW acc, IsApplied(acc), IsList(acc.groups), IsList(acc.rows),
           NEW g, IsList(g.body), NEW seen, NEW has
    PROVE  GroupDone(acc, groupStep(acc, g, seen, has), g, seen, has)
<1> DEFINE new == groupStep(acc, g, seen, has)
<1>1. ASSUME NEW why \in {"conditions", "no_body"},
             new = [acc EXCEPT !.rows = Append(acc.rows, Row(g, 0, why))]
      PROVE  /\ IsApplied(new) /\ IsList(new.groups) /\ IsList(new.rows)
             /\ new.groups = acc.groups /\ new.changed = acc.changed
             /\ \E row : /\ new.rows = Append(acc.rows, row) /\ row.group = g.name
                         /\ row.skipped = why
  <2> HIDE DEF new
  <2>1. IsApplied(new) /\ new.groups = acc.groups /\ new.changed = acc.changed
          /\ new.rows = Append(acc.rows, Row(g, 0, why))
    BY <1>1 DEF IsApplied
  <2>2. IsList(new.rows)
    BY <2>1, AppendList
  <2>3. Row(g, 0, why).group = g.name /\ Row(g, 0, why).skipped = why
    BY DEF Row
  <2> QED
    BY <2>1, <2>2, <2>3
<1>2. CASE ~Matches(g, seen)
  <2>1. new = [acc EXCEPT !.rows = Append(acc.rows, Row(g, 0, "conditions"))]
    BY <1>2 DEF groupStep
  <2> QED
    BY <1>1, <1>2, <2>1 DEF Applies, GroupDone
<1>3. CASE Matches(g, seen) /\ HasBody(g) /\ ~has
  <2>1. new = [acc EXCEPT !.rows = Append(acc.rows, Row(g, 0, "no_body"))]
    BY <1>3 DEF groupStep
  <2> QED
    BY <1>1, <1>3, <2>1 DEF Applies, GroupDone
<1>4. CASE Applies(g, seen, has)
  <2> DEFINE base == [acc EXCEPT !.row = Row(g, 0, "")]
             after == bodySteps(base, g.body)
  <2>1. new = [after EXCEPT !.headers = headerSteps(after.headers, g.headers),
                            !.groups = Append(after.groups, g.name),
                            !.rows = Append(after.rows, after.row)]
    BY <1>4 DEF groupStep, Applies
  <2>2. /\ IsApplied(base) /\ IsRow(base.row) /\ base.row.group = g.name
        /\ base.row.skipped = "" /\ base.groups = acc.groups /\ base.rows = acc.rows
        /\ base.changed = acc.changed
    <3>1. /\ IsApplied(base) /\ base.row = Row(g, 0, "") /\ base.groups = acc.groups
          /\ base.rows = acc.rows /\ base.changed = acc.changed
      BY NewRow
    <3>2. LET row == Row(g, 0, "")
          IN  IsRow(row) /\ row.group = g.name /\ row.skipped = ""
      BY DEF IsRow, Row
    <3> HIDE DEF base
    <3> QED
      BY <3>1, <3>2
  <2>3. SameButBody(base, after) /\ (~has => after = base)
    BY <1>4, <2>2, BodySteps DEF Applies, HasBody
  <2> HIDE DEF new, base, after
  <2>4. /\ IsApplied(new) /\ new.groups = Append(acc.groups, g.name)
        /\ new.rows = Append(acc.rows, after.row) /\ new.changed = after.changed
    <3>1. /\ IsApplied(after) /\ after.groups = acc.groups /\ after.rows = acc.rows
      BY <2>2, <2>3 DEF SameButBody
    <3> QED
      BY <2>1, <3>1 DEF IsApplied
  <2>5. /\ IsList(new.groups) /\ ToSet(new.groups) = ToSet(acc.groups) \cup {g.name}
        /\ IsList(new.rows)
    BY <2>4, AppendList
  <2>6. after.row.group = g.name /\ after.row.skipped # "no_body"
    BY <2>2, <2>3 DEF SameButBody
  <2>7. (new.changed = acc.changed \/ new.changed = TRUE) /\ (~has => new.changed = acc.changed)
    BY <2>2, <2>3, <2>4 DEF SameButBody
  <2> QED
    BY <1>4, <2>4, <2>5, <2>6, <2>7 DEF new, GroupDone
<1> QED
  BY <1>2, <1>3, <1>4 DEF Applies

ApplyDone(groups, seen, has, did) ==
    /\ IsList(did.groups) /\ IsList(did.rows) /\ did.changed \in BOOLEAN
    /\ \A n : n \in ToSet(did.groups)
               <=> \E g \in ToSet(groups) : Applies(g, seen, has) /\ g.name = n
    /\ \A row \in ToSet(did.rows) :
          row.skipped = "no_body" => ~has /\ bodyWanted(groups, seen)
    /\ ~has => did.changed = FALSE

\* Apply and ApplyFrame: the groups that are named are the ones that select the
\* message and have the body they want; a row says no_body only of a group that
\* wanted one, and without a body nothing of it is changed.
LEMMA ApplyLaw ==
    ASSUME NEW groups, IsList(groups), \A g \in ToSet(groups) : IsList(g.body),
           NEW seen, NEW has, NEW body
    PROVE  ApplyDone(groups, seen, has, apply(groups, seen, has, body))
<1> DEFINE base == Untouched(body)
           Done(acc, k) ==
              /\ IsApplied(acc) /\ IsList(acc.groups) /\ IsList(acc.rows)
              /\ acc.changed \in BOOLEAN
              /\ \A n : n \in ToSet(acc.groups)
                         <=> \E i \in 1..k : Applies(groups[i], seen, has) /\ groups[i].name = n
              /\ \A row \in ToSet(acc.rows) : row.skipped = "no_body" =>
                    ~has /\ \E i \in 1..k : HasBody(groups[i]) /\ Matches(groups[i], seen)
              /\ ~has => acc.changed = FALSE
<1>1. PICK f : Groups!Results(f, seen, has, base, groups)
  BY ListFacts, Groups!FoldResults
<1>2. Groups!Fold(seen, has, base, groups) = apply(groups, seen, has, body)
  BY DEF apply, Groups!Fold, Groups!FoldLeft, Groups!MapThenFoldSet, Groups!Max, FoldLeft,
         MapThenFoldSet, Max, groupOp
<1>3. /\ f[0] = base /\ f[Len(groups)] = apply(groups, seen, has, body)
      /\ \A k \in 1..Len(groups) : f[k] = groupStep(f[k - 1], groups[k], seen, has)
  BY <1>1, <1>2 DEF Groups!Results, groupOp
<1> DEFINE P == {k \in 0..Len(groups) : Done(f[k], k)}
<1>4. /\ Len(groups) \in Nat /\ DOMAIN groups = 1..Len(groups)
      /\ \A g : g \in ToSet(groups) <=> \E i \in 1..Len(groups) : g = groups[i]
  BY ListFacts DEF ToSet
<1>5. 0 \in P
  <2>1. /\ IsApplied(base) /\ base.groups = <<>> /\ base.rows = <<>>
        /\ base.changed = FALSE
    BY DEF Untouched, IsApplied
  <2>2. ToSet(base.groups) = {} /\ ToSet(base.rows) = {} /\ IsList(base.groups)
          /\ IsList(base.rows)
    BY <2>1, EmptyList
  <2> HIDE DEF base
  <2>3. base.changed \in BOOLEAN
    BY <2>1
  <2>4. \A n : ~(n \in ToSet(base.groups)) /\ \A i : ~(i \in 1..0)
    BY <2>2
  <2>5. Done(base, 0)
    BY <2>1, <2>2, <2>3, <2>4
  <2> HIDE DEF Done
  <2> QED
    BY <1>3, <1>4, <2>5
<1>6. ASSUME NEW k \in 0..Len(groups) - 1, k \in P PROVE k + 1 \in P
  <2>0. k + 1 \in 1..Len(groups) /\ k + 1 \in 0..Len(groups) /\ (k + 1) - 1 = k
    BY <1>4
  <2> DEFINE acc == f[k]
             new == f[k + 1]
             g == groups[k + 1]
  <2>1. new = groupStep(acc, g, seen, has)
    BY <1>3, <2>0
  <2>2. Done(acc, k)
    BY <1>6
  <2>3. \A i : i \in 1..k + 1 <=> i \in 1..k \/ i = k + 1
    BY <1>4
  <2>4. IsList(g.body)
    BY <1>4, <2>0
  <2>5. GroupDone(acc, new, g, seen, has)
    <3>1. IsApplied(acc) /\ IsList(acc.groups) /\ IsList(acc.rows)
      BY <2>2
    <3> HIDE DEF acc, new, g
    <3> QED
      BY <2>1, <2>4, <3>1, GroupOne
  <2> HIDE DEF acc, new
  <2>6. \A n : n \in ToSet(new.groups)
                <=> \E i \in 1..k + 1 : Applies(groups[i], seen, has) /\ groups[i].name = n
    BY <2>2, <2>3, <2>5 DEF GroupDone
  <2>7. \A row \in ToSet(new.rows) : row.skipped = "no_body" =>
           ~has /\ \E i \in 1..k + 1 : HasBody(groups[i]) /\ Matches(groups[i], seen)
    <3>1. PICK row : /\ new.rows = Append(acc.rows, row)
                     /\ row.skipped = "no_body" => Matches(g, seen) /\ HasBody(g) /\ ~has
      BY <2>5 DEF GroupDone
    <3>2. ToSet(new.rows) = ToSet(acc.rows) \cup {row}
      BY <2>2, <3>1, AppendList
    <3> QED
      BY <2>2, <2>3, <3>1, <3>2
  <2>8. new.changed \in BOOLEAN /\ (~has => new.changed = FALSE)
    BY <2>2, <2>5 DEF GroupDone
  <2>9. Done(new, k + 1)
    BY <2>5, <2>6, <2>7, <2>8 DEF GroupDone
  <2> QED
    BY <2>0, <2>9 DEF new
<1>7. Len(groups) \in P
  <2> HIDE DEF P
  <2> QED BY <1>4, <1>5, <1>6, UpTo
<1>8. Done(apply(groups, seen, has, body), Len(groups))
  BY <1>3, <1>7
<1> QED
  BY <1>4, <1>8 DEF bodyWanted, ApplyDone

-----------------------------------------------------------------------------
(* The budget of matches.                                                  *)

\* A sequence over any set is a list.
LEMMA SeqList ==
    ASSUME NEW S, NEW s \in Seq(S)
    PROVE  IsList(s)
<1>1. Len(s) \in Nat /\ DOMAIN s = 1..Len(s) /\ s = [i \in 1..Len(s) |-> s[i]]
  OBVIOUS
<1>2. \A i \in 1..Len(s) : s[i] \in ToSet(s)
  BY <1>1 DEF ToSet
<1> HIDE DEF ToSet
<1> QED
  BY <1>1, <1>2 DEF IsList

\* A list has its elements in every larger set.
LEMMA ListIn ==
    ASSUME NEW s, IsList(s), NEW S, ToSet(s) \subseteq S
    PROVE  s \in Seq(S)
<1>1. s \in Seq(ToSet(s))
  BY DEF IsList
<1> QED
  BY <1>1

\* Sequences over a set, joined, are a sequence over it.
LEMMA FlattenIn ==
    ASSUME NEW S, NEW n \in Nat, n # 0, NEW seqs, DOMAIN seqs = 1..n, Len(seqs) = n,
           \A i \in 1..n : seqs[i] \in Seq(S)
    PROVE  FlattenSeq(seqs) \in Seq(S)
<1> DEFINE E(h) == h = [i \in 1..n |-> IF i = 1 THEN seqs[i] ELSE h[i - 1] \o seqs[i]]
           flatten == CHOOSE h : E(h)
<1>1. PICK g : Cats!Results(g, 0, 0, <<>>, seqs)
  BY Cats!FoldResults
<1>2. g[0] = <<>> /\ \A k \in 1..n : g[k] = g[k - 1] \o seqs[k]
  BY <1>1 DEF Cats!Results, catOp
<1>3. E([i \in 1..n |-> g[i]])
  <2> DEFINE h == [i \in 1..n |-> g[i]]
  <2>1. g[1] = seqs[1]
    <3>1. g[1] = <<>> \o seqs[1]
      <4>1. 1 \in 1..n /\ 1 - 1 = 0
        OBVIOUS
      <4>2. g[1] = g[1 - 1] \o seqs[1]
        BY <1>2, <4>1
      <4> QED
        BY <1>2, <4>1, <4>2
    <3>2. seqs[1] \in Seq(S)
      OBVIOUS
    <3> QED
      BY <3>1, <3>2, ConcatEmptySeq
  <2>2. ASSUME NEW i \in 1..n, i # 1 PROVE g[i] = h[i - 1] \o seqs[i]
    <3>1. i - 1 \in 1..n
      BY <2>2
    <3>2. h[i - 1] = g[i - 1]
      BY <3>1
    <3> QED
      BY <1>2, <3>2
  <2>3. ASSUME NEW i \in 1..n PROVE h[i] = IF i = 1 THEN seqs[i] ELSE h[i - 1] \o seqs[i]
    BY <2>1, <2>2
  <2> QED
    BY <2>3
<1>4. E(flatten)
  <2> HIDE DEF E
  <2> QED
    BY <1>3
<1>5. FlattenSeq(seqs) = flatten[n]
  BY DEF FlattenSeq
<1> HIDE DEF flatten
<1>6. flatten[1] = seqs[1] /\ \A i \in 1..n : i # 1 => flatten[i] = flatten[i - 1] \o seqs[i]
  <2>1. \A i \in 1..n : flatten[i] = IF i = 1 THEN seqs[i] ELSE flatten[i - 1] \o seqs[i]
    BY <1>4
  <2>2. 1 \in 1..n
    OBVIOUS
  <2> QED
    BY <2>1, <2>2
<1> DEFINE P == {k \in Nat : k = 0 \/ (k \in 1..n /\ flatten[k] \in Seq(S))}
<1>7. ASSUME NEW k \in 0..n-1, k \in P PROVE k + 1 \in P
  <2>1. k + 1 \in 1..n /\ k + 1 \in Nat
    OBVIOUS
  <2>2. CASE k = 0
    BY <1>6, <2>1, <2>2
  <2>3. CASE k # 0
    <3>1. flatten[k] \in Seq(S) /\ (k + 1) - 1 = k /\ k + 1 # 1
      BY <1>7, <2>3
    <3>2. flatten[k + 1] = flatten[k] \o seqs[k + 1]
      BY <1>6, <2>1, <3>1
    <3>3. flatten[k + 1] \in Seq(S)
      BY <2>1, <3>1, <3>2, ConcatProperties
    <3> QED
      BY <2>1, <3>3
  <2> QED
    BY <2>2, <2>3
<1>8. n \in P
  <2>1. 0 \in P
    OBVIOUS
  <2> HIDE DEF P
  <2> QED BY <1>7, <2>1, UpTo
<1> QED
  BY <1>5, <1>8

\* A pattern or a text is a list of tokens.
LEMMA TokensList ==
    ASSUME NEW s
    PROVE  IsList(Tokens(s))
<1>1. CASE s \in DOMAIN Lit
  BY <1>1, DecideAssumption DEF Tokens, IsList
<1>2. CASE s \notin DOMAIN Lit
  <2>1. Tokens(s) \in Seq({s})
    BY <1>2 DEF Tokens
  <2> QED
    BY <2>1, SeqList
<1> QED
  BY <1>1, <1>2

\* A match is a place where the pattern is; the leftmost is one.
LEMMA FoundIn ==
    ASSUME NEW pattern, NEW body, IsList(body)
    PROVE  LET word == Tokens(pattern)
           IN  IF Len(word) = 0 THEN Found(pattern, body) = {0}
               ELSE /\ Found(pattern, body) \subseteq Starts(word, body)
                    /\ 1 \in Starts(word, body) => 1 \in Found(pattern, body)
<1> DEFINE word == Tokens(pattern)
           m == Len(word)
           n == Len(body)
           starts == Starts(word, body)
           idx == [i \in 1..n |-> i]
<1>1. n \in Nat /\ m \in Nat
  BY ListFacts, TokensList
<1>2. CASE m = 0
  <2>1. word = <<>>
    BY <1>2, ListFacts, TokensList, EmptySeq DEF IsList
  <2> QED
    BY <1>2, <2>1 DEF Found
<1>3. CASE m # 0
  <2>1. Found(pattern, body) = Hits!Fold(starts, m, {}, idx)
    <3>1. nonOverlapping(starts, m, n) = Hits!Fold(starts, m, {}, idx)
      <4> HIDE DEF starts, m, n
      <4> QED
        BY DEF nonOverlapping, Hits!Fold, Hits!FoldLeft, Hits!MapThenFoldSet, Hits!Max, FoldLeft,
               MapThenFoldSet, Max, hitOp
    <3>2. word # <<>>
      BY <1>3
    <3> HIDE DEF word, idx
    <3> QED
      BY <3>1, <3>2 DEF Found, word
  <2>2. DOMAIN idx = 1..n /\ Len(idx) = n /\ \A i \in 1..n : idx[i] = i
    BY <1>1
  <2>3. \A i \in starts : i \in 1..n
    BY <1>1, <1>3 DEF Starts
  <2> HIDE DEF starts, idx, m, n
  <2>4. PICK f : Hits!Results(f, starts, m, {}, idx)
    BY <1>1, <2>2, Hits!FoldResults
  <2>5. /\ f[0] = {} /\ f[n] = Found(pattern, body)
        /\ \A k \in 1..n : f[k] = nextMatch(starts, m, f[k - 1], k)
    BY <2>1, <2>2, <2>4 DEF Hits!Results, hitOp
  <2> DEFINE P == {k \in Nat : f[k] \subseteq starts /\ (1 \in starts /\ k # 0 => 1 \in f[k])}
  <2>6. 0 \in P
    BY <2>5
  <2>7. ASSUME NEW k \in 0..n - 1, k \in P PROVE k + 1 \in P
    <3>1. k + 1 \in 1..n /\ k + 1 \in Nat /\ (k + 1) - 1 = k
      BY <1>1
    <3>2. f[k + 1] = nextMatch(starts, m, f[k], k + 1)
      BY <2>5, <3>1
    <3>3. f[k] \subseteq starts /\ (1 \in starts /\ k # 0 => 1 \in f[k])
      BY <2>7
    <3>4. f[k + 1] \subseteq starts /\ f[k] \subseteq f[k + 1]
      BY <3>2, <3>3 DEF nextMatch
    <3>5. CASE k # 0
      BY <3>1, <3>3, <3>4, <3>5
    <3>6. CASE k = 0
      <4>1. f[1] = IF 1 \in starts THEN {1} ELSE {}
        BY <2>5, <3>2, <3>6 DEF nextMatch
      <4> QED
        BY <3>1, <3>4, <3>6, <4>1
    <3> QED
      BY <3>5, <3>6
  <2>8. n \in P
    <3> HIDE DEF P
    <3> QED BY <1>1, <2>6, <2>7, UpTo
  <2>9. Found(pattern, body) \subseteq starts /\ (1 \in starts => 1 \in Found(pattern, body))
    BY <1>1, <2>3, <2>5, <2>8
  <2> QED
    BY <1>3, <2>9 DEF starts, m
<1> QED
  BY <1>2, <1>3

\* Matches lie in the body.
LEMMA FoundWithin ==
    ASSUME NEW pattern, NEW body, IsList(body), NEW i \in Found(pattern, body)
    PROVE  /\ i \in 0..Len(body) /\ Len(body) \in Nat
           /\ i # 0 => i + Len(Tokens(pattern)) - 1 \in 0..Len(body)
<1> DEFINE m == Len(Tokens(pattern))
<1>1. Len(body) \in Nat /\ m \in Nat
  BY ListFacts, TokensList
<1>2. CASE m = 0
  <2>1. i = 0
    BY <1>2, FoundIn
  <2> QED
    BY <1>1, <2>1
<1>3. CASE m # 0
  <2>1. i \in 1..Len(body) - m + 1
    BY <1>3, FoundIn DEF Starts
  <2> HIDE DEF m
  <2> QED
    BY <1>1, <1>3, <2>1 DEF m
<1> QED
  BY <1>2, <1>3

\* A template makes a text of its own tokens and of what was matched.
LEMMA ExpandIn ==
    ASSUME NEW S, NEW to, IsList(to), ToSet(to) \subseteq S, NEW text \in Seq(S)
    PROVE  Expand(to, text) \in Seq(S)
<1> DEFINE piece(k) == IF to[k] = Submatch THEN text ELSE <<to[k]>>
           pieces == [k \in 1..Len(to) |-> piece(k)]
<1>1. Len(to) \in Nat /\ DOMAIN to = 1..Len(to)
  BY ListFacts
<1>2. Expand(to, text) = FlattenSeq(pieces)
  BY DEF Expand
<1>3. ASSUME NEW k \in 1..Len(to) PROVE pieces[k] \in Seq(S)
  <2>1. to[k] \in S
    BY <1>1 DEF ToSet
  <2>2. <<to[k]>> \in Seq(S)
    BY <2>1
  <2> QED
    BY <2>2
<1>4. DOMAIN pieces = 1..Len(to) /\ Len(pieces) = Len(to)
  BY <1>1
<1>5. CASE Len(to) = 0
  <2>1. pieces = <<>>
    BY <1>5
  <2>2. FlattenSeq(<<>>) = <<>>
    BY DEF FlattenSeq
  <2>3. <<>> \in Seq(S)
    OBVIOUS
  <2> QED
    BY <1>2, <2>1, <2>2, <2>3
<1>6. CASE Len(to) # 0
  <2> HIDE DEF pieces
  <2> QED
    BY <1>1, <1>2, <1>3, <1>4, <1>6, FlattenIn
<1> QED
  BY <1>5, <1>6

\* What was matched gives way to the text; the rest of the body stays.
LEMMA PiecesIn ==
    ASSUME NEW op, IsOp(op), NEW body, IsList(body), NEW budget, NEW S,
           ToSet(Tokens(op.text)) \subseteq S, ToSet(body) \subseteq S
    PROVE  applyBodyOp(op, body, budget).body \in Seq(S)
<1> DEFINE hits == FindAll(op.pattern, body, limit(op, budget))
           m == Len(Tokens(op.pattern))
           n == Len(body)
           to == Tokens(op.text)
           text(i) == IF i = 0 THEN <<>> ELSE SubSeq(body, i, i + m - 1)
           inside(i) == \E j \in hits : j <= i /\ i < j + m
           piece(i) == IF i \in hits THEN Rewritten(op, text(i))
                       ELSE IF i = 0 \/ inside(i) THEN <<>> ELSE <<body[i]>>
           pieces == [k \in 1..n + 1 |-> piece(k - 1)]
<1>1. n \in Nat /\ DOMAIN body = 1..n /\ m \in Nat
  BY ListFacts, TokensList
<1>2. applyBodyOp(op, body, budget).body = FlattenSeq(pieces)
  BY DEF applyBodyOp
<1>3. body \in Seq(S) /\ to \in Seq(S)
  BY ListIn, TokensList
<1>4. <<>> \in Seq(S)
  OBVIOUS
<1>5. ASSUME NEW i \in hits PROVE Rewritten(op, text(i)) \in Seq(S)
  <2>1. i \in 0..n /\ (i # 0 => i + m - 1 \in 0..n)
    BY FoundWithin DEF FindAll
  <2>2. text(i) \in Seq(S)
    <3>1. CASE i = 0
      BY <1>4, <3>1
    <3>2. CASE i # 0
      <4>1. i \in 1..Len(body) + 1 /\ i + m - 1 \in 0..Len(body)
        BY <1>1, <2>1, <3>2
      <4> HIDE DEF m
      <4>2. \A j \in i..i + m - 1 : body[j] \in S
        BY <1>1, <1>3, <2>1, <3>2
      <4>3. SubSeq(body, i, i + m - 1) \in Seq(S)
        BY <1>1, <1>3, <2>1, <3>2, <4>1, <4>2, SubSeqProperties
      <4> QED
        BY <3>2, <4>3
    <3> QED
      BY <3>1, <3>2
  <2> HIDE DEF text, to
  <2>3. to \o text(i) \in Seq(S) /\ text(i) \o to \in Seq(S)
    BY <1>3, <2>2, ConcatProperties
  <2>4. Expand(to, text(i)) \in Seq(S)
    BY <2>2, ExpandIn, TokensList DEF to
  <2> QED
    BY <1>4, <2>3, <2>4 DEF Rewritten, IsOp, to
<1>6. ASSUME NEW k \in 1..n + 1 PROVE piece(k - 1) \in Seq(S)
  <2>1. CASE k - 1 \in hits
    <3> HIDE DEF text, inside
    <3> QED
      BY <1>5, <2>1
  <2>2. CASE k - 1 \notin hits
    <3>1. CASE k - 1 = 0 \/ inside(k - 1)
      <4> HIDE DEF text, inside, hits
      <4> QED
        BY <1>4, <2>2, <3>1
    <3>2. CASE ~(k - 1 = 0 \/ inside(k - 1))
      <4>1. k - 1 \in 1..n
        BY <1>1, <3>2
      <4>2. <<body[k - 1]>> \in Seq(S)
        BY <1>1, <1>3, <4>1
      <4> HIDE DEF text, inside, hits
      <4> QED
        BY <2>2, <3>2, <4>2
    <3> QED
      BY <3>1, <3>2
  <2> QED
    BY <2>1, <2>2
<1> HIDE DEF piece
<1>7. DOMAIN pieces = 1..n + 1 /\ Len(pieces) = n + 1
  BY <1>1
<1>8. \A k \in 1..n + 1 : pieces[k] \in Seq(S)
  BY <1>6
<1>9. n + 1 \in Nat /\ n + 1 # 0
  BY <1>1
<1> HIDE DEF pieces, n
<1> QED
  BY <1>2, <1>7, <1>8, <1>9, FlattenIn

\* No more is found than was asked for.
LEMMA FoundBounded ==
    ASSUME NEW pattern, NEW body, IsList(body), NEW n \in Nat
    PROVE  /\ Cardinality(FindAll(pattern, body, n)) \in Nat
           /\ Cardinality(FindAll(pattern, body, n)) <= n
<1> DEFINE found == Found(pattern, body)
           rank == [i \in Int |-> 0 - i]
<1>1. found \subseteq 0..Len(body) /\ Len(body) \in Nat
  BY ListFacts, FoundWithin
<1>2. IsFiniteSet(found) /\ found \subseteq Int
  <2>1. IsFiniteSet(0..Len(body))
    BY <1>1, FS_Interval
  <2> HIDE DEF found
  <2>2. 0..Len(body) \subseteq Int
    BY <1>1
  <2>3. IsFiniteSet(found)
    BY <1>1, <2>1, FS_Subset
  <2> QED
    BY <1>1, <2>2, <2>3
<1>3. FindAll(pattern, body, n) = {i \in found : Cardinality({j \in found : j < i}) < n}
  BY DEF FindAll
<1> HIDE DEF found
<1>4. \A i \in found : {j \in found : j < i} = {j \in found : rank[j] > rank[i]}
  <2> SUFFICES ASSUME NEW i \in found, NEW j \in found PROVE j < i <=> rank[j] > rank[i]
    OBVIOUS
  <2>1. i \in Int /\ j \in Int
    BY <1>2
  <2> QED
    BY <2>1
<1>5. FindAll(pattern, body, n) = Hindmost(found, rank, n)
  BY <1>3, <1>4 DEF Hindmost
<1>6. /\ \A e \in found : rank[e] \in Int
      /\ \A e, f \in found : rank[e] = rank[f] => e = f
  BY <1>2
<1> HIDE DEF rank
<1>7. Cardinality(Hindmost(found, rank, n)) <= n
  BY <1>2, <1>6, HindmostBounded
<1>8. IsFiniteSet(Hindmost(found, rank, n))
  <2>1. Hindmost(found, rank, n) \subseteq found
    BY DEF Hindmost
  <2> QED
    BY <1>2, <2>1, FS_Subset
<1> QED
  BY <1>5, <1>7, <1>8, FS_CardinalityType

\* A body operation leaves a body, and finds no more than is left to find.
LEMMA OpBounded ==
    ASSUME NEW op, IsOp(op), NEW body, IsList(body), NEW budget \in Nat
    PROVE  LET done == applyBodyOp(op, body, budget)
           IN  IsList(done.body) /\ done.n \in Nat /\ done.n <= budget
<1> DEFINE hits == FindAll(op.pattern, body, limit(op, budget))
           done == applyBodyOp(op, body, budget)
           S == ToSet(body) \cup ToSet(Tokens(op.text))
<1>1. limit(op, budget) \in Nat /\ limit(op, budget) <= budget
  BY DEF limit, IsOp
<1>2. Cardinality(hits) \in Nat /\ Cardinality(hits) <= budget
  <2>1. Cardinality(hits) \in Nat /\ Cardinality(hits) <= limit(op, budget)
    BY <1>1, FoundBounded
  <2> HIDE DEF hits
  <2> QED
    BY <1>1, <2>1
<1>3. done.body \in Seq(S)
  BY PiecesIn
<1>4. done.n = Cardinality(hits)
  BY DEF applyBodyOp
<1> HIDE DEF hits, done, S
<1> QED
  BY <1>2, <1>3, <1>4, SeqList DEF done

\* What a row of the audit counts is taken from the budget.
Accounts(acc) ==
    /\ IsApplied(acc) /\ IsRow(acc.row) /\ IsList(acc.body)
    /\ acc.budget \in Nat /\ acc.row.matches \in Nat

Total(acc) == acc.budget + acc.row.matches

\* What a body operation writes.
Written(acc, new, done) ==
    /\ acc.budget <= 0 => /\ new.body = acc.body /\ new.budget = acc.budget
                          /\ new.row.matches = acc.row.matches /\ new.changed = acc.changed
    /\ ~(acc.budget <= 0) /\ done.n = 0 => new = acc
    /\ ~(acc.budget <= 0) /\ done.n # 0 =>
          /\ new.body = done.body /\ new.budget = acc.budget - done.n
          /\ new.row.matches = acc.row.matches + done.n /\ new.changed = TRUE

\* The fields a body operation writes.
LEMMA BodyFields ==
    ASSUME NEW acc, IsApplied(acc), IsRow(acc.row), NEW op
    PROVE  Written(acc, bodyStep(acc, op), applyBodyOp(op, acc.body, acc.budget))
<1> DEFINE new == bodyStep(acc, op)
           done == applyBodyOp(op, acc.body, acc.budget)
<1>1. CASE acc.budget <= 0
  <2>1. new = [groups |-> acc.groups, body |-> acc.body, changed |-> acc.changed,
               headers |-> acc.headers, rows |-> acc.rows,
               row |-> [acc.row EXCEPT !.skipped = "budget"],
               spent |-> TRUE, budget |-> acc.budget]
    BY <1>1 DEF bodyStep, IsApplied
  <2>2. [acc.row EXCEPT !.skipped = "budget"].matches = acc.row.matches
    BY DEF IsRow
  <2> HIDE DEF new
  <2>3. new.body = acc.body /\ new.budget = acc.budget /\ new.row.matches = acc.row.matches
          /\ new.changed = acc.changed
    BY <2>1, <2>2
  <2> QED
    BY <1>1, <2>3 DEF Written, new
<1>2. CASE ~(acc.budget <= 0) /\ done.n = 0
  BY <1>2 DEF bodyStep, Written
<1>3. CASE ~(acc.budget <= 0) /\ done.n # 0
  <2> HIDE DEF done
  <2>1. new = [acc EXCEPT !.body = done.body, !.changed = TRUE,
                          !.budget = acc.budget - done.n,
                          !.row = [acc.row EXCEPT !.matches = acc.row.matches + done.n]]
    BY <1>3 DEF bodyStep, done, IsApplied
  <2>2. new = [groups |-> acc.groups, body |-> done.body, changed |-> TRUE,
               headers |-> acc.headers, rows |-> acc.rows,
               row |-> [acc.row EXCEPT !.matches = acc.row.matches + done.n],
               spent |-> acc.spent, budget |-> acc.budget - done.n]
    BY <2>1 DEF IsApplied
  <2>3. [acc.row EXCEPT !.matches = acc.row.matches + done.n].matches
          = acc.row.matches + done.n
    BY DEF IsRow
  <2> HIDE DEF new
  <2>4. /\ new.body = done.body /\ new.budget = acc.budget - done.n
        /\ new.row.matches = acc.row.matches + done.n /\ new.changed = TRUE
    BY <2>2, <2>3
  <2> QED
    BY <1>3, <2>4 DEF Written, new, done
<1> QED
  BY <1>1, <1>2, <1>3

\* One body operation.
LEMMA BodyStepAccounts ==
    ASSUME NEW acc, Accounts(acc), NEW op, IsOp(op)
    PROVE  Accounts(bodyStep(acc, op)) /\ Total(bodyStep(acc, op)) = Total(acc)
<1> DEFINE new == bodyStep(acc, op)
           done == applyBodyOp(op, acc.body, acc.budget)
<1>1. IsApplied(new) /\ IsRow(new.row) /\ Written(acc, new, done)
  BY BodyStepOne, BodyFields DEF Accounts, SameButBody
<1>2. IsList(done.body) /\ done.n \in Nat /\ done.n <= acc.budget
  BY OpBounded DEF Accounts
<1> HIDE DEF new, done
<1>3. acc.budget \in Nat /\ acc.row.matches \in Nat /\ IsList(acc.body)
  BY DEF Accounts
<1>4. CASE acc.budget <= 0 \/ done.n = 0
  <2>1. /\ new.body = acc.body /\ new.budget = acc.budget
        /\ new.row.matches = acc.row.matches
    BY <1>1, <1>4 DEF Written
  <2> QED
    BY <1>1, <1>3, <2>1 DEF Accounts, Total, new
<1>5. CASE ~(acc.budget <= 0) /\ done.n # 0
  <2>1. /\ new.body = done.body /\ new.budget = acc.budget - done.n
        /\ new.row.matches = acc.row.matches + done.n
    BY <1>1, <1>5 DEF Written
  <2>2. /\ new.budget \in Nat /\ new.row.matches \in Nat
        /\ new.budget + new.row.matches = acc.budget + acc.row.matches
    BY <1>2, <1>3, <2>1
  <2> QED
    BY <1>1, <1>2, <2>1, <2>2 DEF Accounts, Total, new
<1> QED
  BY <1>4, <1>5

\* The operations of a group.
LEMMA BodyStepsAccount ==
    ASSUME NEW acc, Accounts(acc), NEW ops, IsList(ops), \A op \in ToSet(ops) : IsOp(op)
    PROVE  Accounts(bodySteps(acc, ops)) /\ Total(bodySteps(acc, ops)) = Total(acc)
<1>1. PICK f : /\ f[0] = acc /\ f[Len(ops)] = bodySteps(acc, ops)
               /\ \A k \in 1..Len(ops) : f[k] = bodyStep(f[k - 1], ops[k])
  BY BodyResults
<1> DEFINE P == {k \in 0..Len(ops) : Accounts(f[k]) /\ Total(f[k]) = Total(acc)}
<1>2. Len(ops) \in Nat /\ \A k \in 1..Len(ops) : IsOp(ops[k])
  BY ListFacts DEF ToSet
<1>3. 0 \in P
  BY <1>1, <1>2
<1>4. ASSUME NEW k \in 0..Len(ops) - 1, k \in P PROVE k + 1 \in P
  <2>0. k + 1 \in 1..Len(ops) /\ k + 1 \in 0..Len(ops) /\ (k + 1) - 1 = k
    BY <1>2
  <2>1. Accounts(f[k]) /\ Total(f[k]) = Total(acc)
    BY <1>4
  <2>2. f[k + 1] = bodyStep(f[k], ops[k + 1])
    BY <1>1, <2>0
  <2>3. Accounts(f[k + 1]) /\ Total(f[k + 1]) = Total(f[k])
    BY <1>2, <2>0, <2>1, <2>2, BodyStepAccounts
  <2> QED
    BY <2>0, <2>1, <2>3
<1>5. Len(ops) \in P
  <2> HIDE DEF P
  <2> QED BY <1>2, <1>3, <1>4, UpTo
<1> QED
  BY <1>1, <1>5

\* A row more is its matches more.
LEMMA MatchedAppend ==
    ASSUME NEW rows, IsList(rows), NEW row
    PROVE  Matched(Append(rows, row)) = Matched(rows) + row.matches
<1>1. \A s : Matched(s) = Rows!Fold(0, 0, 0, s)
  BY DEF Matched, Rows!Fold, Rows!FoldLeft, Rows!MapThenFoldSet, Rows!Max, FoldLeft,
         MapThenFoldSet, Max, rowOp
<1> DEFINE n == Len(rows)
           longer == Append(rows, row)
<1>2. n \in Nat /\ DOMAIN rows = 1..n
  BY ListFacts
<1>3. /\ DOMAIN longer = 1..n + 1 /\ longer[n + 1] = row
      /\ \A i \in 1..n : longer[i] = rows[i]
  BY <1>2, ListIn, AppendProperties, AppendList, ListFacts
<1> HIDE DEF n, longer
<1>4. Rows!Fold(0, 0, 0, longer) = rowOp(0, 0, Rows!Fold(0, 0, 0, rows), row)
  BY <1>2, <1>3, Rows!FoldAppend
<1> QED
  BY <1>1, <1>4 DEF rowOp, longer

\* Before the first row.
LEMMA MatchedNone == Matched(<<>>) = 0
<1>1. Matched(<<>>) = Rows!Fold(0, 0, 0, <<>>)
  BY DEF Matched, Rows!Fold, Rows!FoldLeft, Rows!MapThenFoldSet, Rows!Max, FoldLeft,
         MapThenFoldSet, Max, rowOp
<1>2. PICK g : Rows!Results(g, 0, 0, 0, <<>>)
  BY Rows!FoldResults
<1> QED
  BY <1>1, <1>2 DEF Rows!Results

\* The rows of the groups done so far and the budget left make up the budget.
Balanced(acc) ==
    /\ IsApplied(acc) /\ IsList(acc.groups) /\ IsList(acc.rows) /\ IsList(acc.body)
    /\ acc.budget \in Nat /\ Matched(acc.rows) \in Nat
    /\ Matched(acc.rows) + acc.budget = MatchBudget

\* A group starts with a row of its own, without matches.
LEMMA BaseAccounts ==
    ASSUME NEW acc, Balanced(acc), NEW g
    PROVE  LET base == [acc EXCEPT !.row = Row(g, 0, "")]
           IN  /\ Accounts(base) /\ Total(base) = acc.budget
               /\ base.rows = acc.rows /\ base.body = acc.body /\ base.budget = acc.budget
               /\ base.row.group = g.name /\ base.changed = acc.changed
<1> DEFINE base == [acc EXCEPT !.row = Row(g, 0, "")]
<1>1. /\ IsApplied(base) /\ base.row = Row(g, 0, "") /\ base.rows = acc.rows
      /\ base.changed = acc.changed
  BY NewRow DEF Balanced
<1>2. base.body = acc.body /\ base.budget = acc.budget
  BY DEF Balanced, IsApplied
<1>3. LET row == Row(g, 0, "")
      IN  IsRow(row) /\ row.matches = 0 /\ row.group = g.name
  BY DEF IsRow, Row
<1> HIDE DEF base
<1>4. IsRow(base.row) /\ base.row.matches = 0 /\ base.row.group = g.name
  BY <1>1, <1>3
<1>5. IsList(acc.body) /\ acc.budget \in Nat /\ acc.budget + 0 = acc.budget /\ 0 \in Nat
  BY DEF Balanced
<1>6. Accounts(base) /\ Total(base) = acc.budget
  BY <1>1, <1>2, <1>4, <1>5 DEF Accounts, Total
<1> QED
  BY <1>1, <1>2, <1>4, <1>6 DEF base

\* One group, applied or left out.
LEMMA GroupBalanced ==
    ASSUME NEW acc, Balanced(acc), NEW g, IsOps(g.body), NEW seen, NEW has
    PROVE  Balanced(groupStep(acc, g, seen, has))
<1> DEFINE new == groupStep(acc, g, seen, has)
<1>0. IsApplied(new) /\ IsList(new.groups) /\ IsList(new.rows)
  BY GroupOne DEF GroupDone, Balanced, IsOps
<1>1. ASSUME NEW why, new = [acc EXCEPT !.rows = Append(acc.rows, Row(g, 0, why))]
      PROVE  Balanced(new)
  <2> HIDE DEF new
  <2>1. /\ new.body = acc.body /\ new.budget = acc.budget
        /\ new.rows = Append(acc.rows, Row(g, 0, why))
    BY <1>1 DEF Balanced, IsApplied
  <2>2. Row(g, 0, why).matches = 0
    BY DEF Row
  <2>3. Matched(new.rows) = Matched(acc.rows) + 0
    BY <2>1, <2>2, MatchedAppend DEF Balanced
  <2> QED
    BY <1>0, <2>1, <2>3 DEF Balanced
<1>2. CASE ~Matches(g, seen)
  BY <1>1, <1>2 DEF groupStep
<1>3. CASE Matches(g, seen) /\ HasBody(g) /\ ~has
  BY <1>1, <1>3 DEF groupStep
<1>4. CASE Applies(g, seen, has)
  <2> DEFINE base == [acc EXCEPT !.row = Row(g, 0, "")]
             after == bodySteps(base, g.body)
  <2>1. new = [after EXCEPT !.headers = headerSteps(after.headers, g.headers),
                            !.groups = Append(after.groups, g.name),
                            !.rows = Append(after.rows, after.row)]
    BY <1>4 DEF groupStep, Applies
  <2>4. Accounts(base) /\ Total(base) = acc.budget /\ base.rows = acc.rows
    BY BaseAccounts
  <2> HIDE DEF new, base
  <2>5. Accounts(after) /\ Total(after) = acc.budget /\ after.rows = acc.rows
    <3>1. IsList(g.body) /\ \A op \in ToSet(g.body) : IsOp(op)
      BY DEF IsOps
    <3>2. Accounts(after) /\ Total(after) = Total(base)
      BY <2>4, <3>1, BodyStepsAccount
    <3>3. SameButBody(base, after)
      BY <2>4, <3>1, BodySteps DEF Accounts
    <3> QED
      BY <2>4, <3>2, <3>3 DEF SameButBody
  <2> HIDE DEF after
  <2>6. /\ new.body = after.body /\ new.budget = after.budget
        /\ new.rows = Append(acc.rows, after.row)
    BY <2>1, <2>5 DEF Accounts, IsApplied
  <2>7. Matched(new.rows) = Matched(acc.rows) + after.row.matches
    BY <2>6, MatchedAppend DEF Balanced
  <2>8. after.budget \in Nat /\ after.row.matches \in Nat /\ IsList(after.body)
          /\ after.budget + after.row.matches = acc.budget
    BY <2>5 DEF Accounts, Total
  <2>9. /\ acc.budget \in Nat /\ Matched(acc.rows) \in Nat
        /\ Matched(acc.rows) + acc.budget = MatchBudget
    BY DEF Balanced
  <2>10. Matched(new.rows) \in Nat /\ Matched(new.rows) + new.budget = MatchBudget
    BY <2>6, <2>7, <2>8, <2>9
  <2>11. Balanced(new)
    BY <1>0, <2>6, <2>8, <2>10 DEF Balanced
  <2> QED
    BY <2>11 DEF new
<1> QED
  BY <1>2, <1>3, <1>4 DEF Applies

\* Untouched, there is the whole budget and no row.
LEMMA UntouchedBalanced ==
    ASSUME NEW body, IsList(body)
    PROVE  Balanced(Untouched(body))
<1> DEFINE base == Untouched(body)
<1>1. /\ IsApplied(base) /\ base.groups = <<>> /\ base.rows = <<>> /\ base.body = body
      /\ base.budget = MatchBudget
  BY DEF Untouched, IsApplied
<1> HIDE DEF base
<1>2. Matched(base.rows) = 0
  BY <1>1, MatchedNone
<1>3. Balanced(base)
  <2>1. MatchBudget \in Nat /\ 0 + MatchBudget = MatchBudget /\ 0 \in Nat
    <3>1. MatchBudget \in Nat
      BY DecideAssumption, Zenon
    <3> QED
      BY <3>1
  <2>2. IsList(base.groups) /\ IsList(base.rows) /\ IsList(base.body)
    BY <1>1, EmptyList
  <2> QED
    BY <1>1, <1>2, <2>1, <2>2 DEF Balanced
<1> QED
  BY <1>3 DEF base

\* Apply and ApplyFrame keep to the budget and account for all of it.
LEMMA ApplyBalanced ==
    ASSUME NEW groups, IsList(groups), \A g \in ToSet(groups) : IsOps(g.body),
           NEW seen, NEW has, NEW body, IsList(body)
    PROVE  Balanced(apply(groups, seen, has, body))
<1> DEFINE base == Untouched(body)
<1>1. PICK f : Groups!Results(f, seen, has, base, groups)
  BY ListFacts, Groups!FoldResults
<1>2. Groups!Fold(seen, has, base, groups) = apply(groups, seen, has, body)
  BY DEF apply, Groups!Fold, Groups!FoldLeft, Groups!MapThenFoldSet, Groups!Max, FoldLeft,
         MapThenFoldSet, Max, groupOp
<1>3. /\ f[0] = base /\ f[Len(groups)] = apply(groups, seen, has, body)
      /\ \A k \in 1..Len(groups) : f[k] = groupStep(f[k - 1], groups[k], seen, has)
  BY <1>1, <1>2 DEF Groups!Results, groupOp
<1> DEFINE P == {k \in 0..Len(groups) : Balanced(f[k])}
<1>4. Len(groups) \in Nat /\ \A k \in 1..Len(groups) : IsOps(groups[k].body)
  BY ListFacts DEF ToSet
<1>5. 0 \in P
  BY <1>3, <1>4, UntouchedBalanced
<1>6. ASSUME NEW k \in 0..Len(groups) - 1, k \in P PROVE k + 1 \in P
  <2>0. k + 1 \in 1..Len(groups) /\ k + 1 \in 0..Len(groups) /\ (k + 1) - 1 = k
    BY <1>4
  <2>1. Balanced(f[k])
    BY <1>6
  <2>2. f[k + 1] = groupStep(f[k], groups[k + 1], seen, has)
    BY <1>3, <2>0
  <2>3. Balanced(f[k + 1])
    BY <1>4, <2>0, <2>1, <2>2, GroupBalanced
  <2> QED
    BY <2>0, <2>3
<1>7. Len(groups) \in P
  <2> HIDE DEF P
  <2> QED BY <1>4, <1>5, <1>6, UpTo
<1> QED
  BY <1>3, <1>7
=============================================================================
