-------------------------- MODULE AuditSinkProofs ---------------------------
(***************************************************************************)
(* Proofs about AuditSink, for every finite set of events, every set of    *)
(* senders, all sizes and all limits.                                      *)
(***************************************************************************)
EXTENDS AuditSink, SetInduction

USE DEF store, signal

-----------------------------------------------------------------------------
(* The inductive invariant, in three parts beside TypeOK.                  *)

\* Every event held or given up has a ticket, all its own.
Numbered ==
    /\ \A e \in Events : ticket[e] <= recorded
    /\ \A e, f \in Events : ticket[e] = ticket[f] /\ ticket[e] # 0 => e = f
    /\ \A e \in pending \cup taken \cup trimmed \cup early : ticket[e] # 0

\* What a flush has taken is older than what is pending, and so is what was cut.
Ordered ==
    /\ \A e \in taken, f \in pending : ticket[e] < ticket[f]
    /\ KeepsNewest

\* Only a flush holds a batch, the last flush follows stop, and after it
\* nothing of before Close is left.
Phased ==
    /\ taken # {} => Flushing
    /\ loop \in {"drain", "done"} => stop
    /\ NoneLeftBehind

SinkInv == TypeOK /\ Numbered /\ Ordered /\ Phased /\ FullIsFlushed

-----------------------------------------------------------------------------
(* The operators of the model in the terms of SetInduction.                *)

\* sizeOf is a sum over a finite set (SetInduction).
LEMMA SizeOfIsSum == ASSUME NEW S PROVE SizeOf(S) = SumOf(Size, S)
  BY DEF SizeOf, SumOf

\* What sizeOf returns for the empty slice, and after an append.
LEMMA SizeOfFacts ==
    /\ SizeOf({}) = 0
    /\ \A S \in SUBSET Events : SizeOf(S) \in Int
    /\ \A S \in SUBSET Events : \A e \in Events \ S :
          SizeOf(S \cup {e}) = SizeOf(S) + Size[e]
<1>1. SizeOf({}) = 0
  BY SizeOfIsSum, SumOfEmpty
<1>2. \A S \in SUBSET Events : IsFiniteSet(S) /\ \A e \in S : Size[e] \in Int
  BY SinkAssumption, FS_Subset
<1>3. ASSUME NEW S \in SUBSET Events PROVE SizeOf(S) \in Int
  BY <1>2, SizeOfIsSum, SumOfInt
<1>4. ASSUME NEW S \in SUBSET Events, NEW e \in Events \ S
      PROVE  SizeOf(S \cup {e}) = SizeOf(S) + Size[e]
  <2>1. IsFiniteSet(S) /\ \A f \in S \cup {e} : Size[f] \in Int
    BY <1>2, SinkAssumption
  <2> QED
    BY <2>1, SizeOfIsSum, SumOfAdd
<1> QED
  BY <1>1, <1>3, <1>4

\* Sets of events are finite.
LEMMA FiniteParts ==
    ASSUME NEW S \in SUBSET Events
    PROVE  IsFiniteSet(S) /\ Cardinality(S) \in Nat
  BY SinkAssumption, FS_Subset, FS_CardinalityType

\* The batch that flush takes is the front of the slice.
LEMMA OldestIsForemost ==
    ASSUME NEW S, NEW n PROVE Oldest(S, n) = Foremost(S, ticket, n)
  BY DEF Oldest, Foremost

\* What Add keeps at the limit is the back of the slice.
LEMMA TrimIsHindmost ==
    ASSUME NEW S PROVE Trim(S) = Hindmost(S, ticket', MaxPending)
  BY DEF Trim, Hindmost

-----------------------------------------------------------------------------
\* The invariant holds of an empty sink.
LEMMA SinkInit == Init => SinkInv
<1> SUFFICES ASSUME Init PROVE SinkInv
  OBVIOUS
<1>1. TypeOK
  BY SizeOfFacts DEF Init, TypeOK
<1>2. Numbered /\ Phased
  BY DEF Init, Numbered, Phased, NoneLeftBehind
<1>3. Ordered
  BY SinkAssumption, FS_EmptySet DEF Init, Ordered, KeepsNewest
<1>4. FullIsFlushed
  BY SinkAssumption, FS_EmptySet, SizeOfFacts DEF Init, FullIsFlushed
<1> QED
  BY <1>1, <1>2, <1>3, <1>4 DEF SinkInv

-----------------------------------------------------------------------------
(* Add.                                                                    *)

\* What the cut leaves and what it takes.
LEMMA AddCuts ==
    ASSUME SinkInv, NEW a \in Adders, NEW e \in Events, Add(a, e)
    PROVE  LET all == pending \cup {e}
           IN  /\ ticket' \in [Events -> Nat] /\ recorded' \in Nat
               /\ \A x \in Events : ticket'[x] = IF x = e THEN recorded + 1 ELSE ticket[x]
               /\ pending' = Trim(all) /\ pending' \subseteq all /\ e \in pending'
               /\ e \notin pending
               /\ Cardinality(pending') <= MaxPending
               /\ \A x \in all \ pending', y \in pending' : ticket'[x] < ticket'[y]
               /\ Cardinality(all) <= MaxPending => pending' = all
<1> DEFINE all == pending \cup {e}
<1> USE DEF SinkInv
<1>1. ticket' \in [Events -> Nat] /\ recorded' \in Nat
  BY DEF Add, TypeOK
<1>2. \A x \in Events : ticket'[x] = IF x = e THEN recorded + 1 ELSE ticket[x]
  BY DEF Add, TypeOK
<1>3. all \in SUBSET Events /\ IsFiniteSet(all) /\ Cardinality(all) \in Nat
  BY FiniteParts DEF TypeOK
<1>4. e \notin pending
  BY DEF Add, Numbered
<1>5. \A x \in pending : ticket'[x] < ticket'[e] /\ ticket'[x] = ticket[x]
  BY <1>2, <1>4 DEF Numbered, TypeOK
<1>6. \A x, y \in all : ticket'[x] = ticket'[y] => x = y
  BY <1>2, <1>3, <1>4, <1>5 DEF Numbered, TypeOK
<1>7. pending' = Trim(all) /\ pending' = Hindmost(all, ticket', MaxPending)
  BY TrimIsHindmost DEF Add
<1>8. pending' \subseteq all
  BY <1>7 DEF Hindmost
<1>9. \A x \in all : ticket'[x] \in Int
  BY <1>1, <1>3
<1>10. Cardinality(pending') <= MaxPending
  <2> HIDE DEF all
  <2> QED BY <1>3, <1>6, <1>7, <1>9, HindmostBounded, SinkAssumption
<1>11. \A x \in all \ pending', y \in pending' : ticket'[x] < ticket'[y]
  <2> HIDE DEF all
  <2> QED BY <1>3, <1>7, <1>9, HindmostFollow, SinkAssumption
<1> DEFINE A(x) == {f \in all : ticket'[f] > ticket'[x]}
<1>12. e \in pending'
  <2>1. A(e) = {}
    BY <1>5, <1>9
  <2>2. Cardinality(A(e)) < MaxPending
    BY <2>1, FS_EmptySet, SinkAssumption
  <2> QED
    BY <2>2, <1>7 DEF Hindmost
<1>13. ASSUME Cardinality(all) <= MaxPending PROVE pending' = all
  <2>1. ASSUME NEW x \in all PROVE x \in pending'
    <3>1. A(x) \subseteq all \ {x}
      BY <1>9
    <3>2. IsFiniteSet(all \ {x}) /\ Cardinality(all \ {x}) = Cardinality(all) - 1
      BY <1>3, <2>1, FS_RemoveElement
    <3>3. Cardinality(A(x)) <= Cardinality(all \ {x}) /\ IsFiniteSet(A(x))
      <4> HIDE DEF A, all
      <4> QED BY <3>1, <3>2, FS_Subset
    <3>4. Cardinality(A(x)) \in Nat
      BY <3>3, FS_CardinalityType
    <3>5. Cardinality(A(x)) < MaxPending
      BY <1>3, <1>13, <3>2, <3>3, <3>4, SinkAssumption
    <3> QED
      BY <1>7, <3>5 DEF Hindmost
  <2> QED
    BY <1>8, <2>1
<1> QED
  BY <1>1, <1>2, <1>4, <1>7, <1>8, <1>10, <1>11, <1>12, <1>13

\* Whoever fills the sink has still to kick it.
LEMMA AddKeeps ==
    ASSUME SinkInv, NEW a \in Adders, NEW e \in Events, Add(a, e)
    PROVE  SinkInv'
<1> DEFINE all == pending \cup {e}
<1> USE DEF SinkInv
<1>1. /\ ticket' \in [Events -> Nat] /\ recorded' \in Nat
      /\ \A x \in Events : ticket'[x] = IF x = e THEN recorded + 1 ELSE ticket[x]
      /\ pending' = Trim(all) /\ pending' \subseteq all /\ e \in pending'
      /\ e \notin pending
      /\ Cardinality(pending') <= MaxPending
      /\ \A x \in all \ pending', y \in pending' : ticket'[x] < ticket'[y]
      /\ Cardinality(all) <= MaxPending => pending' = all
  BY AddCuts
<1>2. /\ trimmed' = trimmed \cup (all \ pending')
      /\ size' = IF Cardinality(all) > MaxPending THEN SizeOf(pending') ELSE size + Size[e]
      /\ kicking' = IF Full' THEN kicking \cup {a} ELSE kicking
      /\ early' = IF stop THEN early ELSE early \cup {e}
      /\ UNCHANGED <<wake, stop, loop, taken, failed, sent>>
      /\ recorded' = recorded + 1 /\ ticket[e] = 0
  BY <1>1 DEF Add
<1>3. pending \subseteq Events /\ all \subseteq Events /\ pending' \subseteq Events
  BY <1>1 DEF TypeOK
<1>4. size' = SizeOf(pending')
  <2>1. CASE Cardinality(all) > MaxPending
    BY <1>2, <2>1
  <2>2. CASE ~(Cardinality(all) > MaxPending)
    <3>1. Cardinality(all) <= MaxPending
      BY <1>3, <2>2, FiniteParts, SinkAssumption
    <3>2. SizeOf(all) = SizeOf(pending) + Size[e]
      BY <1>1, <1>3, SizeOfFacts
    <3> QED
      BY <1>1, <1>2, <2>2, <3>1, <3>2 DEF TypeOK
  <2> QED
    BY <2>1, <2>2
<1>5. TypeOK'
  BY <1>1, <1>2, <1>3, <1>4 DEF TypeOK
<1>6. \A x \in Events : ticket[x] # 0 => x # e /\ ticket'[x] = ticket[x]
  BY <1>1, <1>2
<1>7. Numbered'
  <2>1. \A x \in Events : ticket'[x] <= recorded'
    BY <1>1, <1>2 DEF Numbered, TypeOK
  <2>2. \A x, y \in Events : ticket'[x] = ticket'[y] /\ ticket'[x] # 0 => x = y
    BY <1>1, <1>2 DEF Numbered, TypeOK
  <2>3. ticket'[e] # 0
    BY <1>1 DEF TypeOK
  <2>4. \A x \in (pending \cup taken \cup trimmed \cup early) \cup {e} : ticket'[x] # 0
    BY <1>3, <1>6, <2>3 DEF Numbered, TypeOK
  <2>5. (pending \cup taken \cup trimmed \cup early)'
           \subseteq (pending \cup taken \cup trimmed \cup early) \cup {e}
    BY <1>1, <1>2
  <2> QED
    BY <2>1, <2>2, <2>4, <2>5 DEF Numbered
<1>8. Ordered'
  <2>1. ASSUME NEW x \in taken \cup trimmed, NEW y \in pending' PROVE ticket'[x] < ticket'[y]
    <3>1. x \in Events /\ ticket[x] # 0 /\ ticket'[x] = ticket[x]
      BY <1>6 DEF Numbered, TypeOK
    <3>2. CASE y = e
      BY <1>1, <3>1, <3>2 DEF Numbered, TypeOK
    <3>3. CASE y \in pending
      <4>1. ticket'[y] = ticket[y] /\ ticket[x] < ticket[y]
        BY <1>3, <1>6, <3>3 DEF Numbered, Ordered, KeepsNewest
      <4> QED
        BY <3>1, <4>1
    <3> QED
      BY <1>1, <3>2, <3>3
  <2> QED
    BY <1>1, <1>2, <2>1 DEF Ordered, KeepsNewest
<1>9. Phased'
  <2>1. (taken # {} => Flushing)' /\ (loop \in {"drain", "done"} => stop)'
    BY <1>2 DEF Phased, Flushing
  <2>2. ASSUME loop' = "done" PROVE early' \cap (pending' \cup taken') = {}
    <3>1. stop /\ early' = early /\ early \cap (pending \cup taken) = {}
      BY <1>2, <2>2 DEF Phased, NoneLeftBehind
    <3>2. e \notin early
      BY <1>2 DEF Numbered
    <3> QED
      BY <1>1, <1>2, <3>1, <3>2
  <2> QED
    BY <2>1, <2>2 DEF Phased, NoneLeftBehind
<1>10. FullIsFlushed'
  BY <1>2, <1>4 DEF FullIsFlushed, Full
<1> QED
  BY <1>5, <1>7, <1>8, <1>9, <1>10

-----------------------------------------------------------------------------
(* The signals and the goroutine's select.  None of them touches the       *)
(* events: what must hold is that no full sink is left without a signal.   *)

\* The parts of the invariant that say nothing of the signals.
LEMMA HeldStill ==
    ASSUME SinkInv, UNCHANGED <<store, taken, failed, sent>>
    PROVE  /\ Numbered' /\ Ordered'
           /\ SizeOf(pending)' = SizeOf(pending)
           /\ (/\ kicking' \subseteq Adders /\ wake' \in BOOLEAN /\ stop' \in BOOLEAN
               /\ loop' \in {"back", "select", "flush", "drain", "done"}) => TypeOK'
  BY DEF SinkInv, TypeOK, Numbered, Ordered, KeepsNewest

\* kick: the adder leaves a token behind.
LEMMA KickKeeps ==
    ASSUME SinkInv, NEW a \in Adders, Kick(a) PROVE SinkInv'
<1>1. Numbered' /\ Ordered' /\ TypeOK'
  BY HeldStill DEF Kick, SinkInv, TypeOK
<1>2. Phased'
  BY DEF Kick, SinkInv, Phased, Flushing, NoneLeftBehind
<1>3. FullIsFlushed'
  BY DEF Kick, FullIsFlushed
<1> QED
  BY <1>1, <1>2, <1>3 DEF SinkInv

\* Close: from here on Add records no early event.
LEMMA CloseKeeps == ASSUME SinkInv, Close PROVE SinkInv'
<1>1. Numbered' /\ Ordered' /\ TypeOK' /\ SizeOf(pending)' = SizeOf(pending)
  BY HeldStill DEF Close, SinkInv, TypeOK
<1>2. Phased'
  BY DEF Close, SinkInv, Phased, Flushing, NoneLeftBehind
<1>3. FullIsFlushed'
  BY <1>1 DEF Close, SinkInv, FullIsFlushed, Flushing
<1> QED
  BY <1>1, <1>2, <1>3 DEF SinkInv

\* The branches of the goroutine's select, and the end of a flush.
LEMMA SelectsKeep ==
    ASSUME SinkInv, Select \/ SelectWake \/ SelectTick \/ SelectStop PROVE SinkInv'
<1> USE DEF Select, SelectWake, SelectTick, SelectStop
<1>1. /\ UNCHANGED <<store, taken, failed, sent, kicking, stop>>
      /\ \/ loop = "back" /\ loop' = "select" /\ wake' = wake
         \/ loop = "select" /\ loop' = "flush" /\ wake' \in BOOLEAN
         \/ loop = "select" /\ loop' = "drain" /\ stop /\ wake' = wake
  BY DEF SinkInv, TypeOK
<1> HIDE DEF Select, SelectWake, SelectTick, SelectStop
<1>2. Numbered' /\ Ordered' /\ TypeOK' /\ SizeOf(pending)' = SizeOf(pending)
  BY <1>1, HeldStill DEF SinkInv, TypeOK
<1>3. Phased'
  BY <1>1 DEF SinkInv, Phased, Flushing, NoneLeftBehind
<1>4. FullIsFlushed'
  BY <1>1, <1>2 DEF SinkInv, FullIsFlushed, Flushing
<1> QED
  BY <1>2, <1>3, <1>4 DEF SinkInv

-----------------------------------------------------------------------------
(* flush.                                                                  *)

\* The critical section of flush: the batch leaves pending for taken.
LEMMA TakeKeeps == ASSUME SinkInv, Take PROVE SinkInv'
<1> USE DEF SinkInv
<1>1. /\ taken = {} /\ Flushing
      /\ taken' = Foremost(pending, ticket, MaxItems)
      /\ pending' = pending \ taken' /\ size' = SizeOf(pending')
      /\ UNCHANGED <<signal, recorded, ticket, trimmed, early, loop, failed, sent>>
  BY OldestIsForemost DEF Take
<1>2. taken' \subseteq pending /\ pending' \subseteq pending /\ pending \subseteq Events
  BY <1>1 DEF Foremost, TypeOK
<1>3. TypeOK'
  BY <1>1, <1>2 DEF TypeOK
<1>4. Numbered'
  BY <1>1, <1>2 DEF Numbered
<1>5. Ordered'
  <2>1. IsFiniteSet(pending) /\ \A x \in pending : ticket[x] \in Int
    BY FiniteParts DEF TypeOK
  <2>2. \A x \in taken', y \in pending' : ticket[x] < ticket[y]
    BY <1>1, <2>1, ForemostPrecede, SinkAssumption
  <2>3. Cardinality(pending') <= Cardinality(pending)
    BY <1>2, <2>1, FS_Subset
  <2>4. Cardinality(pending') <= MaxPending
    BY <1>2, <2>3, FiniteParts, SinkAssumption DEF Ordered, KeepsNewest
  <2> QED
    BY <1>1, <1>2, <2>2, <2>4 DEF Ordered, KeepsNewest
<1>6. Phased'
  BY <1>1 DEF Phased, Flushing, NoneLeftBehind
<1>7. FullIsFlushed'
  BY <1>1 DEF FullIsFlushed, Flushing
<1> QED
  BY <1>3, <1>4, <1>5, <1>6, <1>7

\* A flush ends only on an empty sink, which is not full.
LEMMA FlushDoneKeeps == ASSUME SinkInv, FlushDone PROVE SinkInv'
<1>1. /\ UNCHANGED <<store, signal, taken, failed, sent>> /\ pending = {} /\ taken = {}
      /\ \/ loop = "flush" /\ loop' = "back"
         \/ loop = "drain" /\ loop' = "done"
  BY DEF FlushDone, Flushing
<1>2. Numbered' /\ Ordered' /\ TypeOK'
  BY <1>1, HeldStill DEF SinkInv, TypeOK
<1>3. Phased'
  BY <1>1 DEF SinkInv, Phased, NoneLeftBehind
<1>4. FullIsFlushed'
  BY <1>1, SinkAssumption, FS_EmptySet, SizeOfFacts DEF FullIsFlushed
<1> QED
  BY <1>2, <1>3, <1>4 DEF SinkInv

\* A Publish, which works or fails.
LEMMA SendKeeps == ASSUME SinkInv, Send PROVE SinkInv'
<1>1. /\ UNCHANGED <<store, signal, loop>> /\ taken' \subseteq taken /\ taken # {}
      /\ sent' \subseteq Events /\ failed' \subseteq Events
  BY DEF Send, NextGroup, SinkInv, TypeOK
<1>2. TypeOK' /\ Numbered' /\ Ordered'
  BY <1>1 DEF SinkInv, TypeOK, Numbered, Ordered, KeepsNewest
<1>3. Phased'
  BY <1>1 DEF SinkInv, Phased, Flushing, NoneLeftBehind
<1>4. FullIsFlushed'
  BY <1>1 DEF SinkInv, FullIsFlushed, Flushing
<1> QED
  BY <1>2, <1>3, <1>4 DEF SinkInv

-----------------------------------------------------------------------------
\* Every step keeps the invariant.
LEMMA SinkStep == ASSUME SinkInv, [Next]_vars PROVE SinkInv'
<1>1. ASSUME UNCHANGED vars PROVE SinkInv'
  BY <1>1 DEF vars, SinkInv, TypeOK, Numbered, Ordered, Phased, FullIsFlushed,
              KeepsNewest, NoneLeftBehind, Flushing
<1>2. CASE \E a \in Adders, e \in Events : Add(a, e)
  BY <1>2, AddKeeps
<1>3. CASE \E a \in Adders : Kick(a)
  BY <1>3, KickKeeps
<1>4. CASE Close
  BY <1>4, CloseKeeps
<1>5. CASE Loop
  BY <1>5, SelectsKeep, TakeKeeps, FlushDoneKeeps, SendKeeps DEF Loop
<1> QED
  BY <1>1, <1>2, <1>3, <1>4, <1>5 DEF Next

\* Under every interleaving of senders and goroutine the sink keeps its
\* inductive invariant: the order of the events held, the phases of the
\* goroutine and the signals (Add, kick, flush, Close of sink.go).
THEOREM SinkInvariant == Spec => []SinkInv
<1> QED
  BY SinkInit, SinkStep, PTL DEF Spec

\* The variables keep their types and s.size is always the size of what is
\* pending, although Add adds to it and flush computes it again.
THEOREM SinkTyped == Spec => []TypeOK
<1>1. SinkInv => TypeOK
  BY DEF SinkInv
<1> QED
  BY SinkInvariant, <1>1, PTL

\* A full sink has a token in s.wake, a sender about to put one there or a
\* flush under way (Add and kick against run).
THEOREM FullSinkFlushed == Spec => []FullIsFlushed
<1>1. SinkInv => FullIsFlushed
  BY DEF SinkInv
<1> QED
  BY SinkInvariant, <1>1, PTL

\* Add keeps at most maxPending events, and those it cuts are older than every
\* one that stays.
THEOREM NewestKept == Spec => []KeepsNewest
<1>1. SinkInv => KeepsNewest
  BY DEF SinkInv, Ordered
<1> QED
  BY SinkInvariant, <1>1, PTL

\* When Close returns, no event added before it is still in the sink.
THEOREM CloseLeavesNone == Spec => []NoneLeftBehind
<1>1. SinkInv => NoneLeftBehind
  BY DEF SinkInv, Phased
<1> QED
  BY SinkInvariant, <1>1, PTL

-----------------------------------------------------------------------------
(* The sink implements AuditTrail: Add is Record, a published or failed    *)
(* message is Leave, everything else is a stutter.                         *)

\* A new sink is an empty trail.
LEMMA TrailInit == Init => Trail!Init
  BY DEF Init, Trail!Init

\* Add gives up what it cuts, which no flush holds.
LEMMA AddRecords ==
    ASSUME SinkInv, NEW a \in Adders, NEW e \in Events, Add(a, e)
    PROVE  Trail!Record(e)
<1> DEFINE all == pending \cup {e}
           gone == all \ pending'
<1>1. /\ pending' = Trim(all) /\ pending' \subseteq all /\ e \in pending'
  BY AddCuts
<1>2. gone \subseteq pending
  BY <1>1
<1>3. gone \cap taken = {} /\ e \notin taken
  BY <1>2 DEF SinkInv, Ordered, Numbered, TypeOK, Add
<1>4. gone \in SUBSET (pending \cup taken)
  BY <1>2
<1>5. pending' \cup taken' = ((pending \cup taken) \ gone) \cup {e}
  BY <1>1, <1>2, <1>3 DEF Add
<1>6. trimmed' \cup failed' = (trimmed \cup failed) \cup gone
  BY <1>1 DEF Add
<1>7. /\ ticket[e] = 0 /\ recorded' = recorded + 1
      /\ ticket' = [ticket EXCEPT ![e] = recorded + 1] /\ sent' = sent
  BY DEF Add
<1> HIDE DEF gone, all
<1> QED
  BY <1>4, <1>5, <1>6, <1>7 DEF Trail!Record

\* A message carries the oldest event of the batch and all that share its
\* subject, so no older event of the subject stays behind.
LEMMA SendLeaves == ASSUME SinkInv, Send PROVE Trail!Leave
<1> DEFINE first == CHOOSE e \in taken : Oldest(taken, 1) = {e}
           B == {e \in taken : SubjectOf[e] = SubjectOf[first]}
<1>1. first \in taken
  <2>1. /\ IsFiniteSet(taken) /\ taken # {} /\ \A x \in taken : ticket[x] \in Int
        /\ \A x, y \in taken : ticket[x] = ticket[y] => x = y
    BY FiniteParts DEF Send, SinkInv, TypeOK, Numbered
  <2>2. \E x \in taken : Oldest(taken, 1) = {x}
    BY <2>1, ForemostOne, OldestIsForemost
  <2> QED
    BY <2>2
<1> HIDE DEF first
<1>2. NextGroup = B
  BY DEF NextGroup, first
<1>3. B # {} /\ B \subseteq taken
  BY <1>1
<1>4. \A x, y \in B : SubjectOf[x] = SubjectOf[y]
  OBVIOUS
<1>5. \A x \in B, y \in pending \cup taken :
         SubjectOf[y] = SubjectOf[x] => y \in B \/ ticket[x] < ticket[y]
  BY DEF SinkInv, Ordered
<1>6. Trail!Batch(B)
  <2> HIDE DEF B
  <2> QED BY <1>3, <1>4, <1>5 DEF Trail!Batch
<1>7. pending' \cup taken' = (pending \cup taken) \ B
  <2>1. pending \cap B = {}
    BY <1>3 DEF SinkInv, Ordered, TypeOK
  <2> HIDE DEF B
  <2> QED BY <1>2, <2>1 DEF Send
<1>8. /\ \/ sent' = sent \cup B /\ UNCHANGED (trimmed \cup failed)
         \/ trimmed' \cup failed' = (trimmed \cup failed) \cup B /\ UNCHANGED sent
      /\ UNCHANGED <<recorded, ticket>>
  <2> HIDE DEF B
  <2> QED BY <1>2 DEF Send
<1>9. B \in SUBSET (pending \cup taken)
  BY <1>3
<1> HIDE DEF B
<1> QED
  BY <1>6, <1>7, <1>8, <1>9 DEF Trail!Leave

\* A flush moves events from pending to taken: the same events are held.
LEMMA SinkStepIsTrail ==
    ASSUME SinkInv, [Next]_vars PROVE [Trail!Next]_(Trail!vars)
<1> USE DEF Trail!vars
<1>1. CASE UNCHANGED vars
  BY <1>1 DEF vars
<1>2. CASE \E a \in Adders, e \in Events : Add(a, e)
  BY <1>2, AddRecords DEF Trail!Next
<1>3. CASE \E a \in Adders : Kick(a)
  BY <1>3 DEF Kick
<1>4. CASE Close
  BY <1>4 DEF Close
<1>5. CASE Select \/ SelectWake \/ SelectTick \/ SelectStop \/ FlushDone
  BY <1>5 DEF Select, SelectWake, SelectTick, SelectStop, FlushDone
<1>6. CASE Take
  <2>1. taken = {} /\ taken' \subseteq pending /\ pending' = pending \ taken'
    BY <1>6 DEF Take, Oldest
  <2>2. pending' \cup taken' = pending \cup taken
    BY <2>1
  <2> QED
    BY <1>6, <2>2 DEF Take
<1>7. CASE Send
  BY <1>7, SendLeaves DEF Trail!Next
<1> QED
  BY <1>1, <1>2, <1>3, <1>4, <1>5, <1>6, <1>7 DEF Next, Loop

\* The sink keeps the audit trail: every event leaves at most once, in a
\* message of its own subject, after every older event of that subject still
\* held (Add, flush, groupBySubject and send of sink.go).
THEOREM SinkKeepsTrail == Spec => KeepsTrail
<1> QED
  BY TrailInit, SinkInvariant, SinkStepIsTrail, PTL DEF Spec, KeepsTrail, Trail!Spec
=============================================================================
