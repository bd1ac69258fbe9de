----------------------------- MODULE PoolProofs -----------------------------
(***************************************************************************)
(* Proofs about Pool, for every set of tasks and workers, every depth and  *)
(* every deadline; and, in the second part, about Shutdown: the pool keeps *)
(* its invariants inside the composition, and no answer leaves the process *)
(* without its audit event.                                                *)
(***************************************************************************)
EXTENDS Shutdown, FiniteSetTheorems, SequenceTheorems, TLAPS

(* The tuples the actions' UNCHANGED clauses are made of.                  *)
USE DEF bus, line, sync, hands, counts

-----------------------------------------------------------------------------
(* Type correctness.  A thread answers or queues "the task in hand", so the *)
(* types hold only because a thread has a task in hand wherever its code   *)
(* uses one: Control is part of the inductive invariant.                   *)

SubBusy == {"collect", "enter", "wait", "expire", "shed", "late", "limit"}

WorkerBusy == {"budget", "eval", "late"}

Control ==
    /\ pc[Sub] \in {"idle"} \cup SubBusy
    /\ pc[Sweep] \in {"sweep", "done"}
    /\ \A w \in Workers : pc[w] \in {"pop", "exit", "done"} \cup WorkerBusy
    /\ \A th \in Threads : cur[th] \in Tasks <=> pc[th] \in SubBusy \cup WorkerBusy
    /\ \A th \in Threads : pc[th] = "done" => dead[th] = {}
    /\ pc[Sub] \notin {"enter", "wait"} => dead[Sub] = {}
    /\ Sub \in waiters => pc[Sub] = "wait"
    /\ \A th \in tallied : dead[th] # {}

Basic == TypeOK /\ Control

LEMMA ThreadFacts ==
    /\ Sub \in Threads /\ Sweep \in Threads /\ Workers \subseteq Threads
    /\ Sub # Sweep /\ Sub \notin Workers /\ Sweep \notin Workers
    /\ \A th \in Threads : th = Sub \/ th = Sweep \/ th \in Workers
  BY PoolAssumption DEF Threads

LEMMA AnswerType ==
    ASSUME NEW f \in [Tasks -> Seq(Codes)], NEW t, NEW c \in Codes
    PROVE  [f EXCEPT ![t] = Append(@, c)] \in [Tasks -> Seq(Codes)]
<1>1. \A s \in Seq(Codes) : Append(s, c) \in Seq(Codes)
  BY AppendProperties
<1> QED
  BY <1>1

LEMMA CodesFacts == "evaluated" \in Codes /\ "deadline" \in Codes /\ "limit" \in Codes
  BY DEF Codes

LEMMA BasicInit == Init => Basic
<1> SUFFICES ASSUME Init PROVE Basic
  OBVIOUS
<1>1. replies \in [Tasks -> Seq(Codes)]
  BY DEF Init
<1>2. pc \in [Threads -> Labels]
  BY DEF Init, Labels
<1>3. /\ cur \in [Threads -> Tasks \cup {NoTask}]
      /\ dead \in [Threads -> SUBSET Tasks]
  BY DEF Init
<1>4. deadline \in [Tasks -> Int] /\ age \in [Tasks -> Nat] /\ ticket \in [Tasks -> Nat]
  BY DEF Init
<1>5. TypeOK
  BY <1>1, <1>2, <1>3, <1>4 DEF Init, TypeOK
<1>6. Control
  BY PoolAssumption, ThreadFacts DEF Init, Control, SubBusy, WorkerBusy
<1> QED
  BY <1>5, <1>6 DEF Basic

(* The variables that Submit's critical sections change.                   *)
SubTypes ==
    /\ q \subseteq Tasks /\ ticket \in [Tasks -> Nat] /\ accepted \in Nat
    /\ waiters \subseteq Workers \cup {Sub}
    /\ pc \in [Threads -> Labels]
    /\ cur \in [Threads -> Tasks \cup {NoTask}]
    /\ dead \in [Threads -> SUBSET Tasks]

LEMMA EnqueueBasic ==
    ASSUME Basic, pc[Sub] \in {"enter", "wait"}, dead[Sub] = {}, Sub \notin waiters,
           SubmitEnqueue, UNCHANGED tallied
    PROVE  SubTypes' /\ Control' /\ timedOut' \in BOOLEAN
<1> USE ThreadFacts
<1>1. cur[Sub] \in Tasks
  BY DEF Basic, Control, SubBusy
<1>2. waiters' \subseteq waiters
  BY DEF SubmitEnqueue, Enqueue, Signal
<1>3. SubTypes'
  BY <1>1, <1>2 DEF Basic, TypeOK, SubTypes, SubmitEnqueue, Enqueue, Goto, Labels
<1>4. Control'
  BY <1>2, PoolAssumption
     DEF Basic, Control, TypeOK, SubmitEnqueue, Goto, SubBusy, WorkerBusy
<1> QED
  BY <1>3, <1>4 DEF Basic, TypeOK, SubmitEnqueue

LEMMA GiveUpBasic ==
    ASSUME Basic, pc[Sub] \in {"enter", "wait"}, dead[Sub] = {}, Sub \notin waiters,
           NEW label \in {"expire", "shed"}, SubmitGiveUp(label), UNCHANGED tallied
    PROVE  SubTypes' /\ Control' /\ timedOut' \in BOOLEAN
<1> USE ThreadFacts
<1>3. SubTypes'
  BY DEF Basic, TypeOK, SubTypes, SubmitGiveUp, Goto, Labels
<1>4. Control'
  BY DEF Basic, Control, TypeOK, SubmitGiveUp, Goto, SubBusy, WorkerBusy
<1> QED
  BY <1>3, <1>4 DEF Basic, TypeOK, SubmitGiveUp

LEMMA WaitTurnBasic ==
    ASSUME Basic, pc[Sub] \in {"enter", "wait"}, dead[Sub] = {}, Sub \notin waiters, WaitTurn,
           UNCHANGED tallied
    PROVE  SubTypes' /\ Control'
<1> USE ThreadFacts
<1>3. SubTypes'
  BY DEF Basic, TypeOK, SubTypes, WaitTurn, ExpiredIn, Goto, Labels
<1>4. Control'
  BY DEF Basic, Control, TypeOK, WaitTurn, Goto, SubBusy, WorkerBusy
<1> QED
  BY <1>3, <1>4


LEMMA SubmitEnterBasic == ASSUME Basic, SubmitEnter PROVE Basic'
<1>0. pc[Sub] \in {"enter", "wait"} /\ dead[Sub] = {} /\ Sub \notin waiters
  BY DEF SubmitEnter, Basic, Control
<1>1. SubTypes' /\ Control' /\ timedOut' \in BOOLEAN
  BY <1>0, EnqueueBasic, GiveUpBasic, WaitTurnBasic DEF SubmitEnter
<1> QED
  BY <1>1 DEF Basic, TypeOK, SubTypes, SubmitEnter

LEMMA SubmitWaitBasic == ASSUME Basic, SubmitWait PROVE Basic'
<1>0. pc[Sub] \in {"enter", "wait"} /\ dead[Sub] = {} /\ Sub \notin waiters
  BY DEF SubmitWait, Basic, Control
<1>1. SubTypes' /\ Control' /\ timedOut' \in BOOLEAN
  BY <1>0, EnqueueBasic, GiveUpBasic, WaitTurnBasic DEF SubmitWait, Basic, TypeOK
<1>2. late' \in BOOLEAN
  BY DEF SubmitWait, TimerStop, Basic, TypeOK
<1> QED
  BY <1>1, <1>2 DEF Basic, TypeOK, SubTypes, SubmitWait

LEMMA PopBasic == ASSUME Basic, NEW w \in Workers, Pop(w) PROVE Basic'
<1> USE ThreadFacts
<1>1. q' \subseteq q
  BY DEF Pop, PopTask, PopClosed, PopExpired, PopSleep
<1>2. waiters' \subseteq waiters \cup {w}
  BY DEF Pop, PopTask, PopClosed, PopExpired, PopSleep, Broadcast
<1>3. dead' \in [Threads -> SUBSET Tasks]
  BY DEF Basic, TypeOK, Pop, ExpiredIn
<1>4. CASE PopTask(w, q \ ExpiredIn(q))
  <2>1. PICK t \in q : cur' = [cur EXCEPT ![w] = t]
    BY <1>4 DEF PopTask
  <2>2. TypeOK'
    BY <1>1, <1>2, <1>3, <1>4, <2>1 DEF Basic, TypeOK, Pop, PopTask, Goto, Labels
  <2>3. Control'
    BY <1>2, <1>4, <2>1
       DEF Basic, TypeOK, Control, Pop, PopTask, Goto, SubBusy, WorkerBusy
  <2> QED
    BY <2>2, <2>3 DEF Basic
<1>5. CASE PopClosed(w, q \ ExpiredIn(q))
  <2>2. TypeOK'
    BY <1>1, <1>2, <1>3, <1>5 DEF Basic, TypeOK, Pop, PopClosed, Goto, Labels
  <2>3. Control'
    BY <1>2, <1>5 DEF Basic, TypeOK, Control, Pop, PopClosed, Goto, SubBusy, WorkerBusy
  <2> QED
    BY <2>2, <2>3 DEF Basic
<1>6. CASE PopExpired(w, q \ ExpiredIn(q)) \/ PopSleep(w, q \ ExpiredIn(q))
  <2>2. TypeOK'
    BY <1>1, <1>2, <1>3, <1>6 DEF Basic, TypeOK, Pop, PopExpired, PopSleep
  <2>3. Control'
    BY <1>2, <1>6 DEF Basic, TypeOK, Control, Pop, PopExpired, PopSleep, SubBusy, WorkerBusy
  <2> QED
    BY <2>2, <2>3 DEF Basic
<1> QED
  BY <1>4, <1>5, <1>6 DEF Pop

LEMMA BudgetBasic == ASSUME Basic, NEW w \in Workers, Budget(w) PROVE Basic'
<1> USE ThreadFacts
<1>1. expired' \in Nat
  BY DEF Basic, TypeOK, Budget
<1>2. PICK label \in {"late", "eval"} : pc' = [pc EXCEPT ![w] = label]
  BY DEF Budget, Goto
<1>3. TypeOK'
  BY <1>1, <1>2 DEF Basic, TypeOK, Budget, Labels
<1>4. Control'
  BY <1>2 DEF Basic, TypeOK, Control, Budget, SubBusy, WorkerBusy
<1> QED
  BY <1>3, <1>4 DEF Basic

LEMMA BasicStep == Basic /\ [Next]_vars => Basic'
<1> SUFFICES ASSUME Basic, [Next]_vars PROVE Basic'
  OBVIOUS
<1> USE ThreadFacts, CodesFacts DEF Basic, Goto, Broadcast
<1>1. ASSUME NEW t \in Tasks, Arrive(t) PROVE Basic'
  <2>1. TypeOK'
    BY <1>1, PoolAssumption DEF TypeOK, Arrive
  <2>2. Control'
    BY <1>1, <2>1, PoolAssumption DEF TypeOK, Control, Arrive, SubBusy,
         WorkerBusy
  <2> QED
    BY <2>1, <2>2
<1>2. CASE Tick
  <2>1. TypeOK'
    BY <1>2 DEF TypeOK, Tick
  <2>2. Control'
    BY <1>2, <2>1, PoolAssumption DEF TypeOK, Control, Tick, SubBusy,
         WorkerBusy
  <2> QED
    BY <2>1, <2>2
<1>3. ASSUME NEW th \in Threads, ReplyDead(th) PROVE Basic'
  <2>1. replies' \in [Tasks -> Seq(Codes)]
    BY <1>3, AnswerType DEF TypeOK, ReplyDead, Reply
  <2>2. dead' \in [Threads -> SUBSET Tasks] /\ tallied' \subseteq Threads
    BY <1>3 DEF TypeOK, ReplyDead
  <2>3. UNCHANGED <<bus, line, sync, pc, cur, age, expired, shed>>
    BY <1>3 DEF ReplyDead
  <2>4. TypeOK'
    BY <2>1, <2>2, <2>3 DEF TypeOK, bus, line, sync
  <2>5. Control'
    BY <1>3, <2>4, PoolAssumption DEF TypeOK, Control, ReplyDead, Reply,
         SubBusy, WorkerBusy
  <2> QED
    BY <2>4, <2>5
<1>3a. ASSUME NEW th \in Threads, CountDead(th) PROVE Basic'
  <2>1. TypeOK'
    BY <1>3a DEF TypeOK, CountDead
  <2>2. Control'
    BY <1>3a, <2>1, PoolAssumption DEF TypeOK, Control, CountDead, SubBusy, WorkerBusy
  <2> QED
    BY <2>1, <2>2
<1>4. ASSUME NEW t \in Tasks, Submit(t) PROVE Basic'
  <2>1. TypeOK'
    BY <1>4, PoolAssumption DEF TypeOK, Control, Submit, Labels
  <2>2. Control'
    BY <1>4, <2>1, PoolAssumption DEF TypeOK, Control, Submit, SubBusy,
         WorkerBusy
  <2> QED
    BY <2>1, <2>2
<1>5. CASE SubmitCollect
  <2>1. TypeOK'
    BY <1>5, PoolAssumption DEF TypeOK, Control, SubmitCollect, TakeExpired,
         ExpiredIn, Labels
  <2>2. Control'
    BY <1>5, <2>1, PoolAssumption DEF TypeOK, Control, SubmitCollect,
         TakeExpired, ExpiredIn, SubBusy, WorkerBusy
  <2> QED
    BY <2>1, <2>2
<1>6. CASE SubmitEnter
  BY <1>6, SubmitEnterBasic
<1>7. CASE SubmitWait
  BY <1>7, SubmitWaitBasic
<1>8. CASE SubmitRefuse
  <2>1. replies' \in [Tasks -> Seq(Codes)]
    <3>1. ASSUME NEW c \in Codes, Reply(cur[Sub], c) PROVE replies' \in [Tasks -> Seq(Codes)]
      BY <3>1, AnswerType DEF TypeOK, Reply
    <3>2. Reply(cur[Sub], "deadline") \/ Reply(cur[Sub], "limit")
      BY <1>8 DEF SubmitRefuse
    <3> QED
      BY <3>1, <3>2 DEF Codes
  <2>2. TypeOK'
    BY <1>8, <2>1 DEF TypeOK, Control, SubmitRefuse, Reply, Labels
  <2>3. Control'
    BY <1>8, <2>2, PoolAssumption DEF TypeOK, Control, SubmitRefuse, Reply,
         SubBusy, WorkerBusy
  <2> QED
    BY <2>2, <2>3
<1>8a. CASE SubmitCount
  <2>1. PICK label \in {"late", "limit"} : pc' = [pc EXCEPT ![Sub] = label]
    BY <1>8a DEF SubmitCount
  <2>2. expired' \in Nat /\ shed' \in Nat /\ pc[Sub] \in {"expire", "shed"}
    BY <1>8a DEF TypeOK, SubmitCount
  <2>3. TypeOK'
    BY <1>8a, <2>1, <2>2 DEF TypeOK, SubmitCount, Labels
  <2>4. Control'
    BY <1>8a, <2>1, <2>2, <2>3, PoolAssumption
       DEF TypeOK, Control, SubmitCount, SubBusy, WorkerBusy
  <2> QED
    BY <2>3, <2>4
<1>9. CASE TimerFire \/ TimerLate
  <2>1. TypeOK'
    BY <1>9 DEF TypeOK, TimerFire, TimerLate
  <2>2. Control'
    BY <1>9, <2>1, PoolAssumption DEF TypeOK, Control, TimerFire,
         TimerLate, SubBusy, WorkerBusy
  <2> QED
    BY <2>1, <2>2
<1>10. ASSUME NEW w \in Workers, Pop(w) PROVE Basic'
  BY <1>10, PopBasic
<1>11. ASSUME NEW w \in Workers, Budget(w) PROVE Basic'
  BY <1>11, BudgetBasic
<1>12. ASSUME NEW w \in Workers, Finish(w) PROVE Basic'
  <2>1. replies' \in [Tasks -> Seq(Codes)]
    BY <1>12, AnswerType DEF TypeOK, Finish, Reply
  <2>2. TypeOK'
    BY <1>12, <2>1 DEF TypeOK, Control, Finish, Reply, Labels
  <2>3. Control'
    BY <1>12, <2>2, PoolAssumption DEF TypeOK, Control, Finish, Reply,
         SubBusy, WorkerBusy
  <2> QED
    BY <2>2, <2>3
<1>13. ASSUME NEW w \in Workers, WorkerExit(w) PROVE Basic'
  <2>1. TypeOK'
    BY <1>13 DEF TypeOK, WorkerExit, Labels
  <2>2. Control'
    BY <1>13, <2>1, PoolAssumption DEF TypeOK, Control, WorkerExit, SubBusy,
         WorkerBusy
  <2> QED
    BY <2>1, <2>2
<1>14. CASE SweepTick
  <2>1. TypeOK'
    BY <1>14 DEF TypeOK, SweepTick, TakeExpired, ExpiredIn
  <2>2. Control'
    BY <1>14, <2>1, PoolAssumption DEF TypeOK, Control, SweepTick,
         TakeExpired, ExpiredIn, SubBusy, WorkerBusy
  <2> QED
    BY <2>1, <2>2
<1>15. CASE SweepStop
  <2>1. TypeOK'
    BY <1>15 DEF TypeOK, SweepStop, Labels
  <2>2. Control'
    BY <1>15, <2>1, PoolAssumption DEF TypeOK, Control, SweepStop, SubBusy,
         WorkerBusy
  <2> QED
    BY <2>1, <2>2
<1>16. CASE CloseStop \/ CloseLock
  <2>1. TypeOK'
    BY <1>16 DEF TypeOK, CloseStop, CloseLock
  <2>2. Control'
    BY <1>16, <2>1, PoolAssumption DEF TypeOK, Control, CloseStop,
         CloseLock, SubBusy, WorkerBusy
  <2> QED
    BY <2>1, <2>2
<1>17. CASE UNCHANGED vars
  <2>1. TypeOK'
    BY <1>17 DEF TypeOK, vars
  <2>2. Control'
    BY <1>17, <2>1, PoolAssumption DEF TypeOK, Control, vars, SubBusy,
         WorkerBusy
  <2> QED
    BY <2>1, <2>2
<1> QED
  BY <1>1, <1>2, <1>3, <1>3a, <1>4, <1>5, <1>6, <1>7, <1>8, <1>8a, <1>9, <1>10,
     <1>11, <1>12, <1>13, <1>14, <1>15, <1>16, <1>17
     DEF Next, Work, SubStep, WorkerStep, ClearDead

LEMMA BasicCorrect == Spec => []Basic
  BY BasicInit, BasicStep, PTL DEF Spec

\* The pool's variables keep their types in every run (queue.go's Pool, Task).
THEOREM TypeCorrect == Spec => []TypeOK
  BY BasicCorrect, PTL DEF Basic

-----------------------------------------------------------------------------
(* The condition variable.                                                 *)

Wake == NoLostWakeup /\ SleepsForAReason

(* What every critical section but an append or a sleep does: it wakes      *)
(* everybody, or it changes neither the queue nor the sleepers.             *)
Calm == waiters' = {} \/ (waiters' = waiters /\ q' = q /\ closed' = closed)

LEMMA CalmKeepsWake == ASSUME Wake, Calm PROVE Wake'
  BY PoolAssumption DEF Wake, Calm, NoLostWakeup, SleepsForAReason, Full

LEMMA EnqueueKeepsWake ==
    ASSUME Basic, Wake, ~closed, Sub \notin waiters, SubmitEnqueue, UNCHANGED closed
    PROVE  Wake'
<1>1. CASE waiters = {}
  BY <1>1, PoolAssumption
     DEF Wake, NoLostWakeup, SleepsForAReason, SubmitEnqueue, Enqueue, Signal
<1>2. CASE waiters # {}
  <2>1. PICK w \in waiters : waiters' = waiters \ {w}
    BY <1>2 DEF SubmitEnqueue, Enqueue, Signal
  <2>2. w \in Workers
    BY DEF Basic, TypeOK
  <2> QED
    BY <2>1, <2>2 DEF Wake, NoLostWakeup, SleepsForAReason
<1> QED
  BY <1>1, <1>2

LEMMA WaitTurnKeepsWake ==
    ASSUME Basic, Wake, ~closed, Full, WaitTurn, UNCHANGED closed
    PROVE  Wake'
<1>1. CASE ExpiredIn(q) # {}
  BY <1>1, CalmKeepsWake DEF Calm, WaitTurn
<1>2. CASE ExpiredIn(q) = {}
  <2>1. q' = q /\ waiters' = waiters \cup {Sub}
    BY <1>2 DEF WaitTurn
  <2> QED
    BY <2>1, PoolAssumption DEF Wake, NoLostWakeup, SleepsForAReason, Full
<1> QED
  BY <1>1, <1>2

LEMMA PopKeepsWake ==
    ASSUME Basic, Wake, NEW w \in Workers, Pop(w)
    PROVE  Wake'
<1>1. CASE PopTask(w, q \ ExpiredIn(q)) \/ PopExpired(w, q \ ExpiredIn(q))
  BY <1>1, CalmKeepsWake DEF Calm, PopTask, PopExpired, Broadcast
<1>2. CASE PopClosed(w, q \ ExpiredIn(q))
  BY <1>2, CalmKeepsWake DEF Calm, Pop, PopClosed, Broadcast
<1>3. CASE PopSleep(w, q \ ExpiredIn(q))
  <2>1. q = {} /\ q' = {} /\ waiters' = waiters \cup {w} /\ ~closed'
    BY <1>3 DEF PopSleep, Pop
  <2>2. Sub \notin waiters
    BY <2>1, PoolAssumption, FS_EmptySet DEF Wake, SleepsForAReason, Full
  <2> QED
    BY <2>1, <2>2, PoolAssumption DEF Wake, NoLostWakeup, SleepsForAReason
<1> QED
  BY <1>1, <1>2, <1>3 DEF Pop

LEMMA WakeStep == Basic /\ Wake /\ [Next]_vars => Wake'
<1> SUFFICES ASSUME Basic, Wake, [Next]_vars PROVE Wake'
  OBVIOUS
<1>1. ASSUME NEW t \in Tasks, Arrive(t) \/ Submit(t) PROVE Wake'
  BY <1>1, CalmKeepsWake DEF Calm, Arrive, Submit
<1>2. CASE Tick \/ SubmitCount \/ SubmitRefuse \/ SweepStop \/ CloseStop
  BY <1>2, CalmKeepsWake
     DEF Calm, Tick, SubmitCount, SubmitRefuse, SweepStop, CloseStop
<1>3. ASSUME NEW th \in Threads, ClearDead(th) PROVE Wake'
  BY <1>3, CalmKeepsWake DEF Calm, ClearDead, CountDead, ReplyDead
<1>4. CASE SubmitCollect \/ SweepTick
  BY <1>4, CalmKeepsWake DEF Calm, SubmitCollect, SweepTick, TakeExpired, Broadcast
<1>5. CASE SubmitEnter
  <2>1. Sub \notin waiters
    BY <1>5 DEF SubmitEnter, Basic, Control
  <2> QED
    BY <1>5, <2>1, EnqueueKeepsWake, WaitTurnKeepsWake, CalmKeepsWake
       DEF SubmitEnter, SubmitGiveUp, Calm
<1>6. CASE SubmitWait
  BY <1>6, EnqueueKeepsWake, WaitTurnKeepsWake, CalmKeepsWake
     DEF SubmitWait, SubmitGiveUp, Calm
<1>7. CASE TimerFire \/ TimerLate \/ CloseLock
  BY <1>7, CalmKeepsWake DEF Calm, TimerFire, TimerLate, CloseLock, Broadcast
<1>8. ASSUME NEW w \in Workers, Pop(w) PROVE Wake'
  BY <1>8, PopKeepsWake
<1>9. ASSUME NEW w \in Workers, Budget(w) \/ Finish(w) \/ WorkerExit(w) PROVE Wake'
  BY <1>9, CalmKeepsWake DEF Calm, Budget, Finish, WorkerExit
<1>10. CASE UNCHANGED vars
  BY <1>10, CalmKeepsWake DEF Calm, vars
<1> QED
  BY <1>1, <1>2, <1>3, <1>4, <1>5, <1>6, <1>7, <1>8, <1>9, <1>10
     DEF Next, Work, SubStep, WorkerStep

LEMMA WakeCorrect == Spec => []Wake
<1>1. Init => Wake
  BY PoolAssumption DEF Init, Wake, NoLostWakeup, SleepsForAReason
<1> QED
  BY <1>1, WakeStep, BasicCorrect, PTL DEF Spec

\* No task waits while every worker sleeps, however the workers, a waiting
\* Submit, the sweeper, the timer and Close interleave on the one condition
\* variable (queue.go pop, submitWaitLocked, enqueueLocked).
THEOREM NoSleeperForgotten == Spec => []NoLostWakeup
  BY WakeCorrect, PTL DEF Wake

\* A Submit sleeps only for want of room, and Close leaves no sleeper behind
\* (queue.go submitWaitLocked, takeExpiredLocked, pop, Close).
THEOREM NoIdleSleep == Spec => []SleepsForAReason
  BY WakeCorrect, PTL DEF Wake

-----------------------------------------------------------------------------
(* The bound of the queue, and what Close leaves behind.                   *)

(* A worker leaves only a closed and empty pool, and a closed pool gets no  *)
(* task.                                                                    *)
Ended ==
    \A w \in Workers : pc[w] \in {"exit", "done"} => closed /\ q = {}

Bounded == QueueBounded /\ Ended

(* A step that appends nothing and by which no worker leaves.               *)
Shrinks ==
    /\ q' \subseteq q
    /\ closed => closed'
    /\ \A w \in Workers : pc'[w] \in {"exit", "done"} => pc[w] \in {"exit", "done"}

LEMMA ShrinkKeepsBounded == ASSUME Basic, Bounded, Shrinks PROVE Bounded'
<1>1. IsFiniteSet(q)
  BY PoolAssumption, FS_Subset DEF Basic, TypeOK
<1>2. Cardinality(q') <= Cardinality(q) /\ Cardinality(q') \in Nat /\ Cardinality(q) \in Nat
  BY <1>1, FS_Subset, FS_CardinalityType DEF Shrinks
<1>3. QueueBounded'
  BY <1>2, PoolAssumption DEF Bounded, QueueBounded
<1>4. Ended'
  BY DEF Bounded, Ended, Shrinks
<1> QED
  BY <1>3, <1>4 DEF Bounded

LEMMA EnqueueKeepsBounded ==
    ASSUME Basic, Bounded, ~closed, ~Full, SubmitEnqueue, UNCHANGED closed
    PROVE  Bounded'
<1>1. IsFiniteSet(q)
  BY PoolAssumption, FS_Subset DEF Basic, TypeOK
<1>2. /\ Cardinality(q) \in Nat
      /\ q' = q \cup {cur[Sub]}
  BY <1>1, FS_CardinalityType DEF SubmitEnqueue, Enqueue
<1>3. QueueBounded'
  <2>1. Cardinality(q \cup {cur[Sub]}) \in {Cardinality(q), Cardinality(q) + 1}
    BY <1>1, FS_AddElement
  <2> QED
    BY <1>2, <2>1, PoolAssumption DEF Full, QueueBounded
<1>4. \A w \in Workers : pc'[w] = pc[w]
  BY ThreadFacts DEF SubmitEnqueue, Goto, Basic, TypeOK
<1>5. Ended'
  BY <1>4 DEF Bounded, Ended
<1> QED
  BY <1>3, <1>5 DEF Bounded

LEMMA BoundedStep == Basic /\ Bounded /\ [Next]_vars => Bounded'
<1> SUFFICES ASSUME Basic, Bounded, [Next]_vars PROVE Bounded'
  OBVIOUS
<1> USE ShrinkKeepsBounded, ThreadFacts DEF Goto, Basic, TypeOK
<1>1. ASSUME NEW t \in Tasks, Arrive(t) PROVE Bounded'
  BY <1>1 DEF Shrinks, Arrive
<1>2. ASSUME NEW t \in Tasks, Submit(t) PROVE Bounded'
  BY <1>2 DEF Shrinks, Submit
<1>3. CASE Tick \/ CloseStop \/ CloseLock \/ TimerFire \/ TimerLate \/ SweepTick
  BY <1>3 DEF Shrinks, Tick, CloseStop, CloseLock, TimerFire, TimerLate, SweepTick,
              TakeExpired
<1>4. CASE SubmitCount \/ SubmitRefuse \/ SubmitCollect \/ SweepStop
  BY <1>4 DEF Shrinks, SubmitCount, SubmitRefuse, SubmitCollect, SweepStop, TakeExpired
<1>5. ASSUME NEW th \in Threads, ClearDead(th) PROVE Bounded'
  BY <1>5 DEF Shrinks, ClearDead, CountDead, ReplyDead
<1>6. CASE SubmitEnter
  BY <1>6, EnqueueKeepsBounded DEF SubmitEnter, SubmitGiveUp, WaitTurn, Shrinks
<1>7. CASE SubmitWait
  BY <1>7, EnqueueKeepsBounded DEF SubmitWait, SubmitGiveUp, WaitTurn, Shrinks
<1>8. ASSUME NEW w \in Workers, Pop(w) PROVE Bounded'
  <2>1. CASE PopClosed(w, q \ ExpiredIn(q))
    <3>1. q' = {} /\ closed'
      BY <1>8, <2>1 DEF Pop, PopClosed
    <3>2. QueueBounded'
      BY <3>1, FS_EmptySet, PoolAssumption DEF QueueBounded
    <3> QED
      BY <3>1, <3>2 DEF Bounded, Ended
  <2>2. CASE ~PopClosed(w, q \ ExpiredIn(q))
    BY <1>8, <2>2 DEF Pop, PopTask, PopExpired, PopSleep, Shrinks
  <2> QED
    BY <2>1, <2>2
<1>9. ASSUME NEW w \in Workers, Budget(w) \/ Finish(w) \/ WorkerExit(w) PROVE Bounded'
  BY <1>9 DEF Shrinks, Budget, Finish, WorkerExit
<1>10. CASE UNCHANGED vars
  BY <1>10 DEF Shrinks, vars
<1> QED
  BY <1>1, <1>2, <1>3, <1>4, <1>5, <1>6, <1>7, <1>8, <1>9, <1>10
     DEF Next, Work, SubStep, WorkerStep

LEMMA BoundedCorrect == Spec => []Bounded
<1>1. Init => QueueBounded
  BY FS_EmptySet, PoolAssumption DEF Init, QueueBounded
<1>2. Init => Ended
  BY ThreadFacts DEF Init, Ended
<1> QED
  BY <1>1, <1>2, BoundedStep, BasicCorrect, PTL DEF Spec, Bounded

\* The queue never holds more than queue_max tasks.
THEOREM NeverOverfull == Spec => []QueueBounded
  BY BoundedCorrect, PTL DEF Bounded

\* When Close's wg.Wait returns, nothing is left in the queue or in the hands of
\* a worker or the sweeper (queue.go Close, work, pop, sweep).
THEOREM ClosedMeansDrained == Spec => []DrainedOnClose
<1>1. ASSUME Basic, Bounded, JoinedAll
      PROVE  closed /\ q = {} /\ \A th \in Workers \cup {Sweep} : Held(th) = {}
  <2>1. closed /\ q = {}
    BY <1>1, PoolAssumption DEF JoinedAll, Bounded, Ended
  <2>2. ASSUME NEW th \in Workers \cup {Sweep} PROVE Held(th) = {}
    <3>1. pc[th] = "done" /\ th \in Threads
      BY <1>1, ThreadFacts DEF JoinedAll
    <3>2. cur[th] = NoTask /\ dead[th] = {}
      BY <1>1, <3>1 DEF Basic, Control, TypeOK, SubBusy, WorkerBusy
    <3> QED
      BY <3>2 DEF Held
  <2> QED
    BY <2>1, <2>2
<1> QED
  BY <1>1, BasicCorrect, BoundedCorrect, PTL DEF DrainedOnClose

-----------------------------------------------------------------------------
(* Ownership, and that a request is answered once.                         *)

(* Ownership: a request that is not answered is in exactly one place - not  *)
(* sent, dropped, buffered, queued, or in the hands of one thread.          *)
Shelved == fresh \cup lost \cup inbox \cup q

Apart ==
    /\ fresh \cap lost = {} /\ fresh \cap inbox = {} /\ fresh \cap q = {}
    /\ lost \cap inbox = {} /\ lost \cap q = {} /\ inbox \cap q = {}

HandsApart ==
    \A th \in Threads :
        /\ cur[th] \notin Shelved \cup dead[th]
        /\ dead[th] \cap Shelved = {}
        /\ \A o \in Threads \ {th} :
              /\ dead[th] \cap dead[o] = {}
              /\ cur[th] \notin dead[o]
              /\ cur[th] \in Tasks => cur[th] # cur[o]

Unanswered ==
    /\ \A t \in Shelved : replies[t] = << >>
    /\ \A th \in Threads :
          /\ \A t \in dead[th] : replies[t] = << >>
          /\ cur[th] \in Tasks => replies[cur[th]] = << >>

Placed ==
    \A t \in Tasks :
        \/ t \in Shelved
        \/ \E th \in Threads : t \in dead[th] \/ t = cur[th]
        \/ replies[t] # << >>

Owned == Apart /\ HandsApart /\ Unanswered /\ Placed /\ AtMostOneReply


LEMMA QueueToList ==
    ASSUME Basic, Owned, NEW th \in Threads, dead[th] = {}, NEW S \in SUBSET q,
           dead' = [dead EXCEPT ![th] = S], q' = q \ S,
           UNCHANGED <<fresh, lost, inbox, cur, replies>>
    PROVE  Owned'
<1> USE DEF Basic, TypeOK, Owned, Shelved
<1>1. Apart'
  BY DEF Apart
<1>2. HandsApart'
  <2>1. \A a \in Threads : dead'[a] = IF a = th THEN S ELSE dead[a]
    OBVIOUS
  <2>2. ASSUME NEW a \in Threads
        PROVE  cur[a] \notin Shelved' \cup dead'[a] /\ dead'[a] \cap Shelved' = {}
    BY <2>1 DEF HandsApart, Apart
  <2>3. ASSUME NEW a \in Threads, NEW o \in Threads \ {a}
        PROVE  dead'[a] \cap dead'[o] = {} /\ cur[a] \notin dead'[o]
    BY <2>1 DEF HandsApart
  <2> QED
    BY <2>2, <2>3 DEF HandsApart
<1>3. Unanswered'
  BY DEF Unanswered
<1>4. Placed'
  BY DEF Placed
<1> QED
  BY <1>1, <1>2, <1>3, <1>4 DEF AtMostOneReply

LEMMA BufferToHand ==
    ASSUME Basic, Owned, NEW t \in inbox, cur[Sub] \notin Tasks,
           inbox' = inbox \ {t}, cur' = [cur EXCEPT ![Sub] = t],
           UNCHANGED <<fresh, lost, q, dead, replies>>
    PROVE  Owned'
<1> USE ThreadFacts DEF Basic, TypeOK, Owned, Shelved
<1>1. Apart'
  BY DEF Apart
<1>2. HandsApart'
  BY DEF HandsApart, Unanswered, Apart
<1>3. Unanswered'
  BY DEF Unanswered
<1>4. Placed'
  BY DEF Placed
<1> QED
  BY <1>1, <1>2, <1>3, <1>4 DEF AtMostOneReply

LEMMA HandToQueue ==
    ASSUME Basic, Owned, cur[Sub] \in Tasks,
           q' = q \cup {cur[Sub]}, cur' = [cur EXCEPT ![Sub] = NoTask],
           UNCHANGED <<fresh, lost, inbox, dead, replies>>
    PROVE  Owned'
<1> USE ThreadFacts, PoolAssumption DEF Basic, TypeOK, Owned, Shelved
<1>1. Apart'
  BY DEF Apart, HandsApart
<1>2. HandsApart'
  BY DEF HandsApart
<1>3. Unanswered'
  BY DEF Unanswered
<1>4. Placed'
  BY DEF Placed
<1> QED
  BY <1>1, <1>2, <1>3, <1>4 DEF AtMostOneReply

LEMMA QueueToWorker ==
    ASSUME Basic, Owned, NEW w \in Workers, dead[w] = {}, cur[w] \notin Tasks,
           NEW S \in SUBSET q, NEW t \in q \ S,
           dead' = [dead EXCEPT ![w] = S], cur' = [cur EXCEPT ![w] = t],
           q' = (q \ S) \ {t},
           UNCHANGED <<fresh, lost, inbox, replies>>
    PROVE  Owned'
<1> USE ThreadFacts DEF Basic, TypeOK, Owned, Shelved
<1>1. Apart'
  BY DEF Apart
<1>2. HandsApart'
  <2>1. \A a \in Threads : /\ dead'[a] = IF a = w THEN S ELSE dead[a]
                           /\ cur'[a] = IF a = w THEN t ELSE cur[a]
    OBVIOUS
  <2>2. ASSUME NEW a \in Threads
        PROVE  cur'[a] \notin Shelved' \cup dead'[a] /\ dead'[a] \cap Shelved' = {}
    BY <2>1 DEF HandsApart, Apart
  <2>3. ASSUME NEW a \in Threads, NEW o \in Threads \ {a}
        PROVE  /\ dead'[a] \cap dead'[o] = {} /\ cur'[a] \notin dead'[o]
               /\ cur'[a] \in Tasks => cur'[a] # cur'[o]
    BY <2>1 DEF HandsApart
  <2> QED
    BY <2>2, <2>3 DEF HandsApart
<1>3. Unanswered'
  BY DEF Unanswered
<1>4. Placed'
  BY DEF Placed
<1> QED
  BY <1>1, <1>2, <1>3, <1>4 DEF AtMostOneReply

LEMMA AnswerEffect ==
    ASSUME Basic, NEW t \in Tasks, NEW c \in Codes, Reply(t, c), replies[t] = << >>
    PROVE  /\ replies'[t] # << >> /\ Len(replies'[t]) <= 1
           /\ \A u \in Tasks \ {t} : replies'[u] = replies[u]
<1>1. replies' = [replies EXCEPT ![t] = Append(<< >>, c)]
  BY DEF Reply
<1>2. replies'[t] = <<c>>
  BY <1>1 DEF Basic, TypeOK
<1> QED
  BY <1>1, <1>2 DEF Basic, TypeOK

LEMMA AnswerFromList ==
    ASSUME Basic, Owned, NEW th \in Threads, NEW t \in dead[th], NEW c \in Codes,
           Reply(t, c), dead' = [dead EXCEPT ![th] = @ \ {t}],
           UNCHANGED <<fresh, lost, inbox, q, cur>>
    PROVE  Owned'
<1> USE ThreadFacts DEF Basic, TypeOK, Owned, Shelved
<1>0. t \in Tasks /\ replies[t] = << >>
  BY DEF Unanswered
<1>1. /\ replies'[t] # << >> /\ Len(replies'[t]) <= 1
      /\ \A u \in Tasks \ {t} : replies'[u] = replies[u]
  BY <1>0, AnswerEffect
<1>2. Apart'
  BY DEF Apart
<1>3. HandsApart'
  BY DEF HandsApart
<1>4. Unanswered'
  BY <1>0, <1>1 DEF Unanswered, HandsApart
<1>5. Placed'
  BY <1>0, <1>1 DEF Placed
<1>6. ASSUME NEW u \in Tasks PROVE Len(replies'[u]) <= 1
  <2>1. CASE u = t
    BY <1>1, <2>1
  <2>2. CASE u # t
    <3>1. replies'[u] = replies[u]
      BY <1>1, <2>2
    <3>2. Len(replies[u]) <= 1
      BY DEF AtMostOneReply
    <3> QED
      BY <3>1, <3>2
  <2> QED
    BY <2>1, <2>2
<1> QED
  BY <1>2, <1>3, <1>4, <1>5, <1>6 DEF AtMostOneReply

LEMMA AnswerFromHand ==
    ASSUME Basic, Owned, NEW th \in Threads, cur[th] \in Tasks, NEW c \in Codes,
           Reply(cur[th], c), cur' = [cur EXCEPT ![th] = NoTask],
           UNCHANGED <<fresh, lost, inbox, q, dead>>
    PROVE  Owned'
<1> USE ThreadFacts, PoolAssumption DEF Basic, TypeOK, Owned, Shelved
<1>0. replies[cur[th]] = << >>
  BY DEF Unanswered
<1>1. /\ replies'[cur[th]] # << >> /\ Len(replies'[cur[th]]) <= 1
      /\ \A u \in Tasks \ {cur[th]} : replies'[u] = replies[u]
  BY <1>0, AnswerEffect
<1>2. Apart'
  BY DEF Apart
<1>3. HandsApart'
  BY DEF HandsApart
<1>4. Unanswered'
  BY <1>0, <1>1 DEF Unanswered, HandsApart
<1>5. Placed'
  BY <1>0, <1>1 DEF Placed
<1>6. ASSUME NEW u \in Tasks PROVE Len(replies'[u]) <= 1
  <2>1. CASE u = cur[th]
    BY <1>1, <2>1
  <2>2. CASE u # cur[th]
    <3>1. replies'[u] = replies[u]
      BY <1>1, <2>2
    <3>2. Len(replies[u]) <= 1
      BY DEF AtMostOneReply
    <3> QED
      BY <3>1, <3>2
  <2> QED
    BY <2>1, <2>2
<1> QED
  BY <1>2, <1>3, <1>4, <1>5, <1>6 DEF AtMostOneReply

LEMMA NoMove ==
    ASSUME Owned, UNCHANGED <<fresh, lost, inbox, q, dead, cur, replies>>
    PROVE  Owned'
  BY DEF Owned, Apart, HandsApart, Unanswered, Placed, Shelved, AtMostOneReply

LEMMA PopOwned == ASSUME Basic, Owned, NEW w \in Workers, Pop(w) PROVE Owned'
<1> DEFINE S == ExpiredIn(q)
<1>1. /\ w \in Threads /\ dead[w] = {} /\ cur[w] \notin Tasks /\ S \in SUBSET q
      /\ dead' = [dead EXCEPT ![w] = S]
      /\ UNCHANGED <<fresh, lost, inbox, replies>>
  BY ThreadFacts DEF Pop, Basic, Control, SubBusy, WorkerBusy, ExpiredIn
<1> HIDE DEF S
<1>2. CASE PopTask(w, q \ S)
  <2>1. PICK t \in q \ S : cur' = [cur EXCEPT ![w] = t] /\ q' = (q \ S) \ {t}
    BY <1>2 DEF PopTask
  <2> QED
    BY <1>1, <2>1, QueueToWorker
<1>3. CASE PopClosed(w, q \ S) \/ PopExpired(w, q \ S) \/ PopSleep(w, q \ S)
  <2>1. q' = q \ S /\ cur' = cur
    BY <1>3 DEF PopClosed, PopExpired, PopSleep
  <2> QED
    BY <1>1, <2>1, QueueToList
<1> QED
  BY <1>2, <1>3 DEF Pop, S

LEMMA SubmitOwned ==
    ASSUME Basic, Owned, dead[Sub] = {}, cur[Sub] \in Tasks,
           UNCHANGED <<fresh, lost, inbox, replies>>,
           \/ SubmitEnqueue \/ WaitTurn
           \/ \E label \in {"expire", "shed"} : SubmitGiveUp(label)
    PROVE  Owned'
<1>1. CASE SubmitEnqueue
  BY <1>1, HandToQueue DEF SubmitEnqueue, Enqueue
<1>2. CASE WaitTurn
  BY <1>2, QueueToList, ThreadFacts DEF WaitTurn, ExpiredIn
<1>3. ASSUME NEW label \in {"expire", "shed"}, SubmitGiveUp(label) PROVE Owned'
  BY <1>3, NoMove DEF SubmitGiveUp
<1> QED
  BY <1>1, <1>2, <1>3

LEMMA OwnedStep == Basic /\ Owned /\ [Next]_vars => Owned'
<1> SUFFICES ASSUME Basic, Owned, [Next]_vars PROVE Owned'
  OBVIOUS
<1> USE ThreadFacts
<1>1. ASSUME NEW t \in Tasks, Arrive(t) PROVE Owned'
  BY <1>1, PoolAssumption
     DEF Arrive, Basic, TypeOK, Owned, Apart, HandsApart, Unanswered, Placed, Shelved,
         AtMostOneReply
<1>2. ASSUME NEW th \in Threads, ClearDead(th) PROVE Owned'
  BY <1>2, AnswerFromList, NoMove, CodesFacts DEF ClearDead, CountDead, ReplyDead
<1>3. ASSUME NEW t \in Tasks, Submit(t) PROVE Owned'
  <2>1. cur[Sub] \notin Tasks
    BY <1>3 DEF Submit, Basic, Control, SubBusy, WorkerBusy
  <2> QED
    BY <1>3, <2>1, BufferToHand DEF Submit
<1>4. CASE SubmitCollect
  <2>1. dead[Sub] = {}
    BY <1>4 DEF SubmitCollect, Basic, Control
  <2> QED
    BY <1>4, <2>1, QueueToList DEF SubmitCollect, TakeExpired, ExpiredIn
<1>5. CASE SubmitEnter \/ SubmitWait
  <2>1. cur[Sub] \in Tasks /\ dead[Sub] = {}
    BY <1>5 DEF SubmitEnter, SubmitWait, Basic, Control, SubBusy
  <2> QED
    BY <1>5, <2>1, SubmitOwned DEF SubmitEnter, SubmitWait
<1>6. CASE SubmitRefuse
  <2>1. cur[Sub] \in Tasks
    BY <1>6 DEF SubmitRefuse, Basic, Control, SubBusy
  <2> QED
    BY <1>6, <2>1, AnswerFromHand, CodesFacts DEF SubmitRefuse
<1>6a. CASE SubmitCount
  BY <1>6a, NoMove DEF SubmitCount
<1>7. ASSUME NEW w \in Workers, Pop(w) PROVE Owned'
  BY <1>7, PopOwned
<1>8. ASSUME NEW w \in Workers, Finish(w) PROVE Owned'
  <2>1. cur[w] \in Tasks
    BY <1>8 DEF Finish, Basic, Control, WorkerBusy
  <2> QED
    BY <1>8, <2>1, AnswerFromHand, CodesFacts DEF Finish
<1>9. CASE SweepTick
  BY <1>9, QueueToList DEF SweepTick, TakeExpired, ExpiredIn
<1>10. ASSUME NEW w \in Workers, Budget(w) \/ WorkerExit(w) PROVE Owned'
  BY <1>10, NoMove DEF Budget, WorkerExit
<1>11. CASE Tick \/ TimerFire \/ TimerLate \/ SweepStop \/ CloseStop \/ CloseLock
  BY <1>11, NoMove DEF Tick, TimerFire, TimerLate, SweepStop, CloseStop, CloseLock
<1>12. CASE UNCHANGED vars
  BY <1>12, NoMove DEF vars
<1> QED
  BY <1>1, <1>2, <1>3, <1>4, <1>5, <1>6, <1>6a, <1>7, <1>8, <1>9, <1>10, <1>11, <1>12
     DEF Next, Work, SubStep, WorkerStep

LEMMA OwnedInit == Init => Owned
<1> SUFFICES ASSUME Init PROVE Owned
  OBVIOUS
<1>1. AtMostOneReply
  <2>1. \A t \in Tasks : replies[t] = << >>
    BY DEF Init
  <2> QED
    BY <2>1 DEF AtMostOneReply
<1>2. Apart /\ HandsApart /\ Placed
  BY PoolAssumption DEF Init, Apart, HandsApart, Placed, Shelved
<1>3. Unanswered
  BY PoolAssumption DEF Init, Unanswered, Shelved
<1> QED
  BY <1>1, <1>2, <1>3 DEF Owned

LEMMA OwnedCorrect == Spec => []Owned
  BY OwnedInit, OwnedStep, BasicCorrect, PTL DEF Spec

\* No request is answered twice, whichever threads race for it (queue.go
\* takeExpiredLocked, pop, replyDead, expire).
THEOREM AnsweredAtMostOnce == Spec => []AtMostOneReply
  BY OwnedCorrect, PTL DEF Owned

\* No request that the callback was given is dropped on the way: it is buffered,
\* queued, in a thread's hands or answered (queue.go Submit, pop, replyDead).
THEOREM NoneForgotten == Spec => []NothingForgotten
<1>1. Owned => NothingForgotten
  BY PoolAssumption DEF Owned, Placed, Shelved, NothingForgotten, InProcess, Held
<1> QED
  BY <1>1, OwnedCorrect, PTL

-----------------------------------------------------------------------------
(* The counters of the heartbeat.                                          *)

Got(c) == {t \in Tasks : \E i \in DOMAIN replies[t] : replies[t][i] = c}

\* The threads between counting the task in hand and answering it.
At(label) == {th \in Threads : pc[th] = label}

Counted ==
    /\ shed = Cardinality(Got("limit")) + Cardinality(At("limit"))
    /\ expired = Cardinality(Got("deadline")) + Cardinality(At("late"))
                    + Cardinality(tallied)

\* The sets that are counted are finite.
LEMMA CountedFinite ==
    ASSUME Basic
    PROVE  /\ \A c : IsFiniteSet(Got(c)) /\ Cardinality(Got(c)) \in Nat
           /\ \A l : IsFiniteSet(At(l)) /\ Cardinality(At(l)) \in Nat
           /\ IsFiniteSet(tallied) /\ Cardinality(tallied) \in Nat
<1>1. IsFiniteSet(Threads)
  <2>1. IsFiniteSet(Workers \cup {Sub})
    BY PoolAssumption, FS_AddElement
  <2>2. IsFiniteSet((Workers \cup {Sub}) \cup {Sweep})
    BY <2>1, FS_AddElement
  <2>3. Threads = (Workers \cup {Sub}) \cup {Sweep}
    BY DEF Threads
  <2> QED
    BY <2>2, <2>3
<1>2. /\ \A c : IsFiniteSet(Got(c))
      /\ \A l : IsFiniteSet(At(l))
      /\ IsFiniteSet(tallied)
  BY <1>1, PoolAssumption, FS_Subset DEF Got, At, Basic, TypeOK
<1> QED
  BY <1>2, FS_CardinalityType

\* One thread moves from label l to label m.
LEMMA Moves ==
    ASSUME Basic, NEW th \in Threads, NEW l, NEW m, pc[th] = l, Goto(th, m), m # l
    PROVE  /\ \A k : k # m /\ k # l => At(k)' = At(k)
           /\ Cardinality(At(m)') = Cardinality(At(m)) + 1
           /\ Cardinality(At(l)') = Cardinality(At(l)) - 1
<1>1. pc' = [pc EXCEPT ![th] = m] /\ pc \in [Threads -> Labels]
  BY DEF Goto, Basic, TypeOK
<1>2. \A o \in Threads : pc'[o] = IF o = th THEN m ELSE pc[o]
  BY <1>1
<1>3. \A k : k # m /\ k # l => At(k)' = At(k)
  BY <1>2 DEF At
<1>4. th \notin At(m) /\ At(m)' = At(m) \cup {th}
  BY <1>2 DEF At
<1>5. th \in At(l) /\ At(l)' = At(l) \ {th}
  BY <1>2 DEF At
<1>6. IsFiniteSet(At(m)) /\ IsFiniteSet(At(l))
  BY CountedFinite
<1>7. Cardinality(At(m) \cup {th}) = Cardinality(At(m)) + 1
  BY <1>4, <1>6, FS_AddElement
<1>8. Cardinality(At(l) \ {th}) = Cardinality(At(l)) - 1
  BY <1>5, <1>6, FS_RemoveElement
<1> QED
  BY <1>3, <1>4, <1>5, <1>7, <1>8

\* A first answer is counted once, under its own code.
LEMMA AnswerCounts ==
    ASSUME Basic, NEW t \in Tasks, NEW c \in Codes, Reply(t, c), replies[t] = << >>
    PROVE  /\ Cardinality(Got(c)') = Cardinality(Got(c)) + 1
           /\ \A d \in Codes \ {c} : Got(d)' = Got(d)
<1>1. replies' = [replies EXCEPT ![t] = <<c>>]
  BY DEF Reply
<1>2. replies'[t] = <<c>> /\ \A u \in Tasks \ {t} : replies'[u] = replies[u]
  BY <1>1 DEF Basic, TypeOK
<1>3. t \notin Got(c) /\ \A d : t \notin Got(d)
  BY DEF Got
<1>4. \A d : t \in Got(d)' <=> d = c
  <2>1. DOMAIN <<c>> = {1} /\ <<c>>[1] = c
    OBVIOUS
  <2> QED
    BY <1>2, <2>1 DEF Got
<1>5. \A d : \A u \in Tasks \ {t} : u \in Got(d)' <=> u \in Got(d)
  BY <1>2 DEF Got
<1>6. \A d : Got(d) \subseteq Tasks /\ Got(d)' \subseteq Tasks
  BY DEF Got
<1>7. Got(c)' = Got(c) \cup {t}
  BY <1>4, <1>5, <1>6
<1>8. ASSUME NEW d \in Codes \ {c} PROVE Got(d)' = Got(d)
  <2>1. t \notin Got(d) /\ t \notin Got(d)'
    BY <1>3, <1>4
  <2>2. \A u \in Tasks \ {t} : u \in Got(d)' <=> u \in Got(d)
    BY <1>5
  <2>3. Got(d) \subseteq Tasks /\ Got(d)' \subseteq Tasks
    BY <1>6
  <2>4. \A u : u \in Got(d)' <=> u \in Got(d)
    BY <2>1, <2>2, <2>3
  <2> QED
    BY <2>4
<1> QED
  BY <1>3, <1>7, <1>8, CountedFinite, FS_AddElement

\* The answers and the labels that count stay as they are.
Quiet == UNCHANGED replies /\ \A k \in {"late", "limit"} : At(k)' = At(k)

LEMMA QuietCounted ==
    ASSUME Counted, Quiet, UNCHANGED <<expired, shed, tallied>> PROVE Counted'
<1>1. \A c : Got(c)' = Got(c)
  BY DEF Got, Quiet
<1> QED
  BY <1>1 DEF Counted, Quiet

\* A task of the dead list: counted by expire, then answered.
LEMMA DeadCounted ==
    ASSUME Basic, Owned, Counted, NEW th \in Threads, ClearDead(th) PROVE Counted'
<1> USE CodesFacts
<1>0. \A k : At(k)' = At(k)
  BY DEF ClearDead, CountDead, ReplyDead, At
<1>1. CASE CountDead(th)
  <2>1. Cardinality(tallied') = Cardinality(tallied) + 1
    BY <1>1, CountedFinite, FS_AddElement DEF CountDead
  <2>2. \A c : Got(c)' = Got(c)
    BY <1>1 DEF CountDead, Got
  <2> QED
    BY <1>0, <1>1, <2>1, <2>2, CountedFinite DEF CountDead, Counted
<1>2. CASE ReplyDead(th)
  <2>1. PICK t \in dead[th] : Reply(t, "deadline")
    BY <1>2 DEF ReplyDead
  <2>2. t \in Tasks /\ replies[t] = << >>
    BY DEF Basic, TypeOK, Owned, Unanswered
  <2>3. /\ Cardinality(Got("deadline")') = Cardinality(Got("deadline")) + 1
        /\ Got("limit")' = Got("limit")
    BY <2>1, <2>2, AnswerCounts
  <2>4. Cardinality(tallied') = Cardinality(tallied) - 1
    BY <1>2, CountedFinite, FS_RemoveElement DEF ReplyDead
  <2> QED
    BY <1>0, <1>2, <2>3, <2>4, CountedFinite DEF ReplyDead, Counted
<1> QED
  BY <1>1, <1>2 DEF ClearDead

\* The task Submit has in hand: counted by expire or shedLimit, then answered.
LEMMA SubmitCounted ==
    ASSUME Basic, Owned, Counted, SubmitCount \/ SubmitRefuse PROVE Counted'
<1> USE ThreadFacts, CodesFacts
<1>1. CASE SubmitCount
  <2>1. UNCHANGED <<replies, tallied>> /\ \A c : Got(c)' = Got(c)
    BY <1>1 DEF SubmitCount, Got
  <2>2. CASE pc[Sub] = "expire"
    <3>1. Goto(Sub, "late") /\ expired' = expired + 1 /\ shed' = shed
      BY <1>1, <2>2 DEF SubmitCount
    <3>2. /\ At("limit")' = At("limit")
          /\ Cardinality(At("late")') = Cardinality(At("late")) + 1
      BY <2>2, <3>1, Moves
    <3> QED
      BY <2>1, <3>1, <3>2, CountedFinite DEF Counted
  <2>3. CASE pc[Sub] = "shed"
    <3>1. Goto(Sub, "limit") /\ expired' = expired /\ shed' = shed + 1
      BY <1>1, <2>3 DEF SubmitCount
    <3>2. /\ At("late")' = At("late")
          /\ Cardinality(At("limit")') = Cardinality(At("limit")) + 1
      BY <2>3, <3>1, Moves
    <3> QED
      BY <2>1, <3>1, <3>2, CountedFinite DEF Counted
  <2> QED
    BY <1>1, <2>2, <2>3 DEF SubmitCount
<1>2. CASE SubmitRefuse
  <2>1. /\ cur[Sub] \in Tasks /\ replies[cur[Sub]] = << >>
        /\ Goto(Sub, "idle") /\ UNCHANGED <<expired, shed, tallied>>
    BY <1>2 DEF SubmitRefuse, Basic, Control, SubBusy, Owned, Unanswered
  <2>2. CASE pc[Sub] = "late"
    <3>1. /\ Cardinality(Got("deadline")') = Cardinality(Got("deadline")) + 1
          /\ Got("limit")' = Got("limit")
      BY <1>2, <2>1, <2>2, AnswerCounts DEF SubmitRefuse
    <3>2. /\ At("limit")' = At("limit")
          /\ Cardinality(At("late")') = Cardinality(At("late")) - 1
      BY <2>1, <2>2, Moves
    <3> QED
      BY <2>1, <3>1, <3>2, CountedFinite DEF Counted
  <2>3. CASE pc[Sub] = "limit"
    <3>1. /\ Cardinality(Got("limit")') = Cardinality(Got("limit")) + 1
          /\ Got("deadline")' = Got("deadline")
      BY <1>2, <2>1, <2>3, AnswerCounts DEF SubmitRefuse
    <3>2. /\ At("late")' = At("late")
          /\ Cardinality(At("limit")') = Cardinality(At("limit")) - 1
      BY <2>1, <2>3, Moves
    <3> QED
      BY <2>1, <3>1, <3>2, CountedFinite DEF Counted
  <2> QED
    BY <1>2, <2>2, <2>3 DEF SubmitRefuse
<1> QED
  BY <1>1, <1>2

LEMMA BudgetCounted ==
    ASSUME Basic, Counted, NEW w \in Workers, Budget(w) PROVE Counted'
<1> USE ThreadFacts
<1>0. pc[w] = "budget" /\ UNCHANGED <<shed, tallied, replies>>
  BY DEF Budget
<1>1. CASE UNCHANGED expired /\ Goto(w, "eval")
  <2>1. Quiet
    BY <1>0, <1>1, Moves DEF Quiet
  <2> QED
    BY <1>0, <1>1, <2>1, QuietCounted
<1>2. CASE expired' = expired + 1 /\ Goto(w, "late")
  <2>1. /\ At("limit")' = At("limit")
        /\ Cardinality(At("late")') = Cardinality(At("late")) + 1
    BY <1>0, <1>2, Moves
  <2>2. \A c : Got(c)' = Got(c)
    BY <1>0 DEF Got
  <2> QED
    BY <1>0, <1>2, <2>1, <2>2, CountedFinite DEF Counted
<1> QED
  BY <1>1, <1>2 DEF Budget

LEMMA FinishCounted ==
    ASSUME Basic, Owned, Counted, NEW w \in Workers, Finish(w) PROVE Counted'
<1> USE ThreadFacts, CodesFacts
<1>0. /\ cur[w] \in Tasks /\ replies[cur[w]] = << >> /\ Goto(w, "pop")
      /\ UNCHANGED <<expired, shed, tallied>>
  BY DEF Finish, Basic, Control, WorkerBusy, Owned, Unanswered
<1>1. CASE pc[w] = "eval"
  <2>1. \A k \in {"late", "limit"} : At(k)' = At(k)
    BY <1>0, <1>1, Moves
  <2>2. \A d \in {"deadline", "limit"} : Got(d)' = Got(d)
    BY <1>0, <1>1, AnswerCounts DEF Finish
  <2> QED
    BY <1>0, <2>1, <2>2 DEF Counted
<1>2. CASE pc[w] = "late"
  <2>1. /\ At("limit")' = At("limit")
        /\ Cardinality(At("late")') = Cardinality(At("late")) - 1
    BY <1>0, <1>2, Moves
  <2>2. /\ Cardinality(Got("deadline")') = Cardinality(Got("deadline")) + 1
        /\ Got("limit")' = Got("limit")
    BY <1>0, <1>2, AnswerCounts DEF Finish
  <2> QED
    BY <1>0, <2>1, <2>2, CountedFinite DEF Counted
<1> QED
  BY <1>1, <1>2 DEF Finish

LEMMA CountedStep == Basic /\ Owned /\ Counted /\ [Next]_vars => Counted'
<1> SUFFICES ASSUME Basic, Owned, Counted, [Next]_vars PROVE Counted'
  OBVIOUS
<1> USE ThreadFacts
<1>0. pc \in [Threads -> Labels]
  BY DEF Basic, TypeOK
<1>1. ASSUME NEW th \in Threads, ClearDead(th) PROVE Counted'
  BY <1>1, DeadCounted
<1>2. CASE SubmitCount \/ SubmitRefuse
  BY <1>2, SubmitCounted
<1>4. ASSUME NEW w \in Workers, Budget(w) \/ Finish(w) PROVE Counted'
  BY <1>4, BudgetCounted, FinishCounted
<1>5. ASSUME NEW w \in Workers, Pop(w) \/ WorkerExit(w) PROVE Counted'
  <2>1. Quiet
    BY <1>0, <1>5
       DEF Pop, PopTask, PopClosed, PopExpired, PopSleep, WorkerExit, Goto, Quiet, At
  <2> QED
    BY <1>5, <2>1, QuietCounted DEF Pop, WorkerExit
<1>6. ASSUME NEW t \in Tasks, Arrive(t) \/ Submit(t) PROVE Counted'
  <2>1. Quiet
    BY <1>0, <1>6 DEF Arrive, Submit, Goto, Quiet, At
  <2> QED
    BY <1>6, <2>1, QuietCounted DEF Arrive, Submit
<1>7. CASE SubmitCollect \/ SubmitEnter \/ SubmitWait
  <2>1. Quiet
    BY <1>0, <1>7 DEF SubmitCollect, SubmitEnter, SubmitWait, SubmitEnqueue, SubmitGiveUp,
                      WaitTurn, Goto, Quiet, At
  <2> QED
    BY <1>7, <2>1, QuietCounted DEF SubmitCollect, SubmitEnter, SubmitWait
<1>8. CASE Tick \/ TimerFire \/ TimerLate \/ SweepTick \/ SweepStop \/ CloseStop
             \/ CloseLock \/ UNCHANGED vars
  <2>1. Quiet
    BY <1>0, <1>8 DEF Tick, TimerFire, TimerLate, SweepTick, SweepStop, CloseStop,
                      CloseLock, vars, Goto, Quiet, At
  <2> QED
    BY <1>8, <2>1, QuietCounted
       DEF Tick, TimerFire, TimerLate, SweepTick, SweepStop, CloseStop, CloseLock, vars
<1> QED
  BY <1>1, <1>2, <1>4, <1>5, <1>6, <1>7, <1>8 DEF Next, Work, SubStep, WorkerStep

\* The heartbeat's Expired and Shed are ahead of the answers by exactly the
\* tasks between their count and their answer: nothing is counted twice or by
\* two threads, and nothing is answered uncounted, whoever meets it (queue.go
\* expire, shedLimit, replyDead, budget).
THEOREM CountersExact == Spec => []CountersMatchReplies
<1>1. Init => Counted
  <2> SUFFICES ASSUME Init PROVE Counted
    OBVIOUS
  <2>1. \A c : Got(c) = {}
    BY DEF Init, Got
  <2>2. At("late") = {} /\ At("limit") = {} /\ tallied = {}
    BY DEF Init, At
  <2>3. Got("limit") = {} /\ Got("deadline") = {} /\ Cardinality({}) = 0
    BY <2>1, FS_EmptySet
  <2>4. shed = 0 /\ expired = 0
    BY DEF Init
  <2> QED
    BY <2>2, <2>3, <2>4 DEF Counted
<1>2. Counted => CountersMatchReplies
  BY DEF Counted, CountersMatchReplies, Got, At
<1> QED
  BY <1>1, <1>2, CountedStep, BasicCorrect, OwnedCorrect, PTL DEF Spec

-----------------------------------------------------------------------------
(* The refinement of RequestReply.                                         *)

Outstanding == {t \in Tasks \ (fresh \cup lost) : replies[t] = << >>}

LEMMA AnswerStep ==
    ASSUME Basic, NEW t \in Outstanding, NEW c \in Codes, Reply(t, c),
           UNCHANGED <<fresh, lost>>
    PROVE  RR!Answer(t, c)
<1>1. t \in Tasks /\ replies[t] = << >>
  BY DEF Outstanding
<1>2. /\ replies'[t] # << >>
      /\ \A u \in Tasks \ {t} : replies'[u] = replies[u]
  BY <1>1, AnswerEffect
<1>3. Outstanding' = Outstanding \ {t}
  BY <1>1, <1>2 DEF Outstanding
<1> QED
  BY <1>3 DEF RR!Answer, Outstanding, Reply

LEMMA AnyAnswerStep ==
    ASSUME Basic, NEW t \in Outstanding, NEW c \in Codes, Reply(t, c),
           UNCHANGED <<fresh, lost>>
    PROVE  RR!Next
<1>1. t \in Tasks
  BY DEF Outstanding
<1> QED
  BY <1>1, AnswerStep DEF RR!Next

LEMMA ArriveStep ==
    ASSUME Basic, Owned, NEW t \in Tasks, Arrive(t)
    PROVE  RR!Next
<1>1. replies[t] = << >> /\ t \notin lost /\ t \in fresh /\ t \notin Outstanding
  BY DEF Arrive, Owned, Unanswered, Apart, Shelved, Outstanding
<1>2. t \in RR!Fresh
  BY <1>1 DEF RR!Fresh, Outstanding
<1>3. fresh' = fresh \ {t} /\ UNCHANGED replies
  BY DEF Arrive
<1>4. CASE inbox' = inbox \cup {t} /\ UNCHANGED lost
  <2>1. Outstanding' = Outstanding \cup {t}
    BY <1>1, <1>3, <1>4 DEF Outstanding
  <2>2. RR!Ask(t)
    BY <1>2, <1>3, <1>4, <2>1 DEF RR!Ask, Outstanding
  <2> QED
    BY <2>2 DEF RR!Next
<1>5. CASE lost' = lost \cup {t} /\ UNCHANGED inbox
  <2>1. Outstanding' = Outstanding
    BY <1>1, <1>3, <1>5 DEF Outstanding
  <2>2. RR!Drop(t)
    BY <1>2, <1>3, <1>5, <2>1 DEF RR!Drop, Outstanding
  <2> QED
    BY <2>2 DEF RR!Next
<1> QED
  BY <1>4, <1>5 DEF Arrive

LEMMA StutterStep ==
    ASSUME UNCHANGED <<fresh, lost, replies>>
    PROVE  UNCHANGED RR!vars
  BY DEF RR!vars

LEMMA RefineStep == Basic /\ Owned /\ [Next]_vars => [RR!Next]_(RR!vars)
<1> SUFFICES ASSUME Basic, Owned, [Next]_vars, ~(UNCHANGED RR!vars) PROVE RR!Next
  OBVIOUS
<1> USE ThreadFacts, StutterStep, AnyAnswerStep, CodesFacts
<1>0. /\ \A th \in Threads : dead[th] \subseteq Outstanding
      /\ \A th \in Threads : cur[th] \in Tasks => cur[th] \in Outstanding
  BY DEF Basic, TypeOK, Owned, Unanswered, HandsApart, Shelved, Outstanding
<1>1. ASSUME NEW t \in Tasks, Arrive(t) PROVE RR!Next
  BY <1>1, ArriveStep
<1>2. ASSUME NEW th \in Threads, ClearDead(th) PROVE RR!Next
  BY <1>0, <1>2 DEF ClearDead, CountDead, ReplyDead
<1>3. ASSUME NEW t \in Tasks, Submit(t) PROVE RR!Next
  BY <1>3 DEF Submit
<1>4. CASE SubmitCollect \/ SubmitEnter \/ SubmitWait \/ SubmitCount
  BY <1>4 DEF SubmitCollect, SubmitEnter, SubmitWait, SubmitCount
<1>5. CASE SubmitRefuse
  <2>1. cur[Sub] \in Outstanding
    BY <1>0, <1>5 DEF SubmitRefuse, Basic, Control, SubBusy
  <2> QED
    BY <1>5, <2>1 DEF SubmitRefuse
<1>6. ASSUME NEW w \in Workers, Finish(w) PROVE RR!Next
  <2>1. cur[w] \in Outstanding
    BY <1>0, <1>6 DEF Finish, Basic, Control, WorkerBusy
  <2> QED
    BY <1>6, <2>1 DEF Finish
<1>7. ASSUME NEW w \in Workers, Pop(w) \/ Budget(w) \/ WorkerExit(w) PROVE RR!Next
  BY <1>7 DEF Pop, Budget, WorkerExit
<1>8. CASE Tick \/ TimerFire \/ TimerLate \/ SweepTick \/ SweepStop \/ CloseStop \/ CloseLock
  BY <1>8 DEF Tick, TimerFire, TimerLate, SweepTick, SweepStop, CloseStop, CloseLock
<1>9. CASE UNCHANGED vars
  BY <1>9 DEF vars
<1> QED
  BY <1>1, <1>2, <1>3, <1>4, <1>5, <1>6, <1>7, <1>8, <1>9
     DEF Next, Work, SubStep, WorkerStep

\* The pool implements the promise of RequestReply: what the subscription hands
\* over is answered once and with one of the three codes, what the client's
\* buffer drops is not answered (queue.go, with handler.go's evaluate and send).
THEOREM PoolImplementsRequestReply == Spec => AnswersOnce
<1>1. Init => RR!Init
  BY DEF Init, RR!Init
<1> QED
  BY <1>1, RefineStep, BasicCorrect, OwnedCorrect, PTL DEF Spec, AnswersOnce, RR!Spec

-----------------------------------------------------------------------------
(* The shutdown: the pool composed with main and the audit sink.           *)

USE DEF poolVars, sinkVars

\* The goroutines that Close waits for.
Joinable == Workers \cup {Sweep}

-----------------------------------------------------------------------------
(* Every step of the composition is a step of the pool or leaves it alone. *)

\* main and the sink never touch the pool but through CloseStop and CloseLock.
LEMMA PoolInside == ASSUME [SNext]_allVars PROVE [Next]_vars
<1>1. CASE UNCHANGED allVars
  BY <1>1 DEF allVars
<1>2. CASE BusStep \/ Clock
  BY <1>2 DEF BusStep, Clock, Next, Work
<1>3. CASE AuditLoop
  BY <1>3 DEF AuditLoop
<1>4. CASE Main
  BY <1>4 DEF Main, MainDrain, MainClosePool, MainJoined, MainCloseSink, MainExit, Next, Work
<1>5. ASSUME NEW th \in Threads, ThreadStep(th) PROVE [Next]_vars
  BY <1>5 DEF ThreadStep, Silent, Answering, Panicking, Audit, AuditKick, Next, Work, SubStep,
              WorkerStep, ClearDead
<1> QED
  BY <1>1, <1>2, <1>3, <1>4, <1>5 DEF SNext

\* Composed with main and the sink, the pool behaves as it does alone, and so
\* keeps every property proved of it.
THEOREM PoolComposed == SSpec => Spec
<1>1. SInit => Init
  BY DEF SInit
<1> QED
  BY <1>1, PoolInside, PTL DEF SSpec, Spec

-----------------------------------------------------------------------------
(* The way of a queued request to its audit event.  It is in the queue, in *)
(* the hands of a goroutine that Close waits for, owed an event by one, or *)
(* the sink had its event before stop was closed - or it is excused: the   *)
(* callback goroutine took it, which nobody waits for, or its evaluation   *)
(* panicked.                                                               *)

Traced ==
    \A t \in Tasks : ticket[t] # 0 =>
        \/ t \in q \cup excused \cup early
        \/ \E th \in Joinable : t \in dead[th] \/ t = cur[th] \/ t = owes[th]

\* Where main is tells what has ended.
MainInv ==
    /\ main \in {"serve", "drain", "close", "flush", "exit"}
    /\ stop => main \in {"flush", "exit"}
    /\ main \in {"close", "flush", "exit"} =>
          JoinedAll /\ closed /\ \A th \in Joinable : owes[th] = NoTask
    /\ main = "exit" => loop = "done"

OwesInv ==
    /\ owes \in [Threads -> Tasks \cup {NoTask}]
    /\ dead[Sub] \subseteq excused

\* The sink gives up nothing in silence, and after its last flush it holds
\* nothing from before stop.
SinkKeeps ==
    /\ place \in [Tasks -> Nat] /\ recorded \in Nat
    /\ \A t \in early : place[t] # 0
    /\ taken # {} => loop \in {"flush", "drain"}
    /\ loop \in {"drain", "done"} => stop
    /\ loop = "done" => early \cap (pending \cup taken) = {}
    /\ early \subseteq pending \cup taken \cup trimmed \cup failed \cup sent

DownInv == OwesInv /\ MainInv /\ SinkKeeps /\ Traced

\* DownInv holds at a start.
LEMMA DownInit == SInit => DownInv
<1> SUFFICES ASSUME SInit PROVE DownInv
  OBVIOUS
<1>1. Init /\ Sink!Init
  BY DEF SInit
<1>3. OwesInv /\ MainInv
  BY <1>1, ThreadFacts DEF SInit, Init, Sink!Init, OwesInv, MainInv
<1>4. SinkKeeps
  BY <1>1 DEF Sink!Init, SinkKeeps
<1>5. Traced
  BY <1>1 DEF Init, Traced
<1> QED
  BY <1>3, <1>4, <1>5 DEF DownInv

-----------------------------------------------------------------------------
(* Steps of the pool.                                                      *)

\* One goroutine moves requests along, each to a place where it is traced.
LEMMA TracedMove ==
    ASSUME Traced, NEW th \in Threads, excused \subseteq excused', early \subseteq early',
           \A t \in Tasks : ticket'[t] # 0 => ticket[t] # 0 \/ t \in q',
           \A t \in q : \/ t \in q' \cup excused'
                        \/ th \in Joinable /\ (t \in dead'[th] \/ t = cur'[th]),
           th \in Joinable =>
              \A t \in Tasks : t \in dead[th] \/ t = cur[th] \/ t = owes[th] =>
                 \/ t \in dead'[th] \/ t = cur'[th] \/ t = owes'[th] \/ t \in early',
           \A o \in Joinable \ {th} :
              dead'[o] = dead[o] /\ cur'[o] = cur[o] /\ owes'[o] = owes[o]
    PROVE  Traced'
<1> SUFFICES ASSUME NEW t \in Tasks, ticket'[t] # 0
             PROVE  \/ t \in q' \cup excused' \cup early'
                    \/ \E o \in Joinable : t \in dead'[o] \/ t = cur'[o] \/ t = owes'[o]
  BY DEF Traced
<1>1. \/ t \in q'
      \/ t \in q \cup excused \cup early
      \/ \E o \in Joinable : t \in dead[o] \/ t = cur[o] \/ t = owes[o]
  BY DEF Traced
<1>2. CASE t \in q' \/ t \in excused \cup early
  BY <1>2
<1>3. CASE t \in q
  BY <1>3
<1>4. ASSUME NEW o \in Joinable, t \in dead[o] \/ t = cur[o] \/ t = owes[o]
      PROVE  \/ t \in early'
             \/ t \in dead'[o] \/ t = cur'[o] \/ t = owes'[o]
  BY <1>4
<1> QED
  BY <1>1, <1>2, <1>3, <1>4

\* The callback goroutine takes expired requests for itself, or queues its own.
LEMMA SubTraced ==
    ASSUME Basic, DownInv, PoolStep({}), UNCHANGED owes,
           SubmitCollect \/ SubmitEnter \/ SubmitWait \/ SubmitCount \/ \E t \in Tasks : Submit(t)
    PROVE  Traced'
<1> USE ThreadFacts DEF Joinable
<1>0. /\ excused \subseteq excused' /\ dead'[Sub] \subseteq excused' /\ early' = early
      /\ cur \in [Threads -> Tasks \cup {NoTask}] /\ dead \in [Threads -> SUBSET Tasks]
      /\ ticket \in [Tasks -> Nat] /\ Sub \notin Joinable
  BY DEF PoolStep, Basic, TypeOK
<1>1. \A o \in Joinable : dead'[o] = dead[o] /\ cur'[o] = cur[o] /\ owes'[o] = owes[o]
  BY <1>0 DEF SubmitCollect, SubmitEnter, SubmitWait, SubmitCount, Submit, TakeExpired, SubmitEnqueue,
              SubmitGiveUp, WaitTurn
<1>2. \A t \in q : t \in q' \cup dead'[Sub]
  BY <1>0 DEF SubmitCollect, SubmitEnter, SubmitWait, SubmitCount, Submit, TakeExpired, SubmitEnqueue,
              SubmitGiveUp, WaitTurn, Enqueue
<1>3. \A t \in Tasks : ticket'[t] # 0 => ticket[t] # 0 \/ t \in q'
  BY <1>0 DEF SubmitCollect, SubmitEnter, SubmitWait, SubmitCount, Submit, TakeExpired, SubmitEnqueue,
              SubmitGiveUp, WaitTurn, Enqueue
<1> QED
  BY <1>0, <1>1, <1>2, <1>3, TracedMove DEF DownInv

\* A worker takes from the queue what it will answer.
LEMMA WorkerTraced ==
    ASSUME Basic, DownInv, PoolStep({}), UNCHANGED owes, NEW w \in Workers,
           Pop(w) \/ Budget(w) \/ WorkerExit(w)
    PROVE  Traced'
<1> USE ThreadFacts DEF Joinable
<1>0. /\ excused \subseteq excused' /\ early' = early
      /\ cur \in [Threads -> Tasks \cup {NoTask}] /\ dead \in [Threads -> SUBSET Tasks]
  BY DEF PoolStep, Basic, TypeOK
<1>1. \A o \in Joinable \ {w} : dead'[o] = dead[o] /\ cur'[o] = cur[o] /\ owes'[o] = owes[o]
  BY <1>0 DEF Pop, PopTask, PopClosed, PopExpired, PopSleep, Budget, WorkerExit
<1>2. \A t \in q : t \in q' \/ t \in dead'[w] \/ t = cur'[w]
  BY <1>0 DEF Pop, PopTask, PopClosed, PopExpired, PopSleep, Budget, WorkerExit
<1>3. \A t \in Tasks : t \in dead[w] \/ t = cur[w] \/ t = owes[w] =>
                          t \in dead'[w] \/ t = cur'[w] \/ t = owes'[w]
  <2>1. CASE Pop(w)
    <3>1. dead[w] = {} /\ cur[w] \notin Tasks
      BY <2>1 DEF Pop, Basic, Control, SubBusy, WorkerBusy
    <3> QED
      BY <3>1
  <2>2. CASE Budget(w) \/ WorkerExit(w)
    BY <2>2 DEF Budget, WorkerExit
  <2> QED
    BY <2>1, <2>2
<1>4. ticket' = ticket
  BY DEF Pop, Budget, WorkerExit
<1> QED
  BY <1>0, <1>1, <1>2, <1>3, <1>4, TracedMove DEF DownInv

\* So does the sweeper.
LEMMA SweepTraced ==
    ASSUME Basic, DownInv, PoolStep({}), UNCHANGED owes, SweepTick \/ SweepStop
    PROVE  Traced'
<1> USE ThreadFacts DEF Joinable
<1>0. /\ excused \subseteq excused' /\ early' = early
      /\ dead \in [Threads -> SUBSET Tasks] /\ UNCHANGED <<cur, ticket>>
  BY DEF PoolStep, Basic, TypeOK, SweepTick, SweepStop
<1>1. /\ \A o \in Joinable \ {Sweep} : dead'[o] = dead[o]
      /\ \A t \in q : t \in q' \/ t \in dead'[Sweep]
      /\ \A t \in dead[Sweep] : t \in dead'[Sweep]
  BY <1>0 DEF SweepTick, SweepStop, TakeExpired
<1> QED
  BY <1>0, <1>1, TracedMove DEF DownInv

\* A goroutine that counts a request it is about to answer keeps it.
LEMMA CountTraced ==
    ASSUME Basic, DownInv, PoolStep({}), UNCHANGED owes, NEW th \in Threads, CountDead(th)
    PROVE  Traced'
<1>1. excused \subseteq excused' /\ early' = early /\ UNCHANGED <<q, ticket, dead, cur>>
  BY DEF PoolStep, CountDead
<1> QED
  BY <1>1, TracedMove DEF DownInv

\* What is answered is owed an audit event by the one who answered it.
LEMMA AnswerTraced ==
    ASSUME Basic, DownInv, NEW th \in Threads, Answering(th)
    PROVE  Traced' /\ owes' \in [Threads -> Tasks \cup {NoTask}]
             /\ \A o \in Threads \ {th} : owes'[o] = owes[o]
<1> USE ThreadFacts DEF Joinable
<1>0. /\ excused \subseteq excused' /\ early' = early /\ owes \in [Threads -> Tasks \cup {NoTask}]
      /\ cur \in [Threads -> Tasks \cup {NoTask}] /\ dead \in [Threads -> SUBSET Tasks]
      /\ owes[th] = NoTask /\ NoTask \notin Tasks
  BY PoolAssumption DEF Answering, PoolStep, Basic, TypeOK, DownInv, OwesInv, Free
<1>1. q' = q /\ ticket' = ticket
  BY DEF Answering, ReplyDead, SubmitRefuse, Finish
<1>2. CASE ReplyDead(th) /\ \E t \in dead[th] \ dead'[th] : owes' = [owes EXCEPT ![th] = t]
  <2>1. PICK u \in dead[th] : u \notin dead'[th] /\ owes' = [owes EXCEPT ![th] = u]
    BY <1>2
  <2>2. PICK v \in dead[th] : dead' = [dead EXCEPT ![th] = @ \ {v}]
    BY <1>2 DEF ReplyDead
  <2>3. u = v /\ u \in Tasks /\ cur' = cur
    BY <1>0, <1>2, <2>1, <2>2 DEF ReplyDead
  <2>4. /\ \A o \in Threads \ {th} : dead'[o] = dead[o] /\ owes'[o] = owes[o]
        /\ dead'[th] = dead[th] \ {u} /\ owes'[th] = u
        /\ owes' \in [Threads -> Tasks \cup {NoTask}]
    BY <1>0, <2>1, <2>2, <2>3
  <2>5. \A t \in Tasks : t \in dead[th] \/ t = cur[th] \/ t = owes[th] =>
                            t \in dead'[th] \/ t = cur'[th] \/ t = owes'[th]
    BY <1>0, <2>3, <2>4
  <2>6. Traced'
    BY <1>0, <1>1, <2>3, <2>4, <2>5, TracedMove DEF DownInv
  <2> QED
    BY <2>4, <2>6
<1>3. CASE /\ (th = Sub /\ SubmitRefuse) \/ (th \in Workers /\ Finish(th))
           /\ owes' = [owes EXCEPT ![th] = cur[th]]
  <2>1. cur[th] \in Tasks
    BY <1>3 DEF SubmitRefuse, Finish, Basic, Control, SubBusy, WorkerBusy
  <2>2. cur' = [cur EXCEPT ![th] = NoTask] /\ dead' = dead
    BY <1>3 DEF SubmitRefuse, Finish
  <2>3. /\ \A o \in Threads \ {th} : cur'[o] = cur[o] /\ owes'[o] = owes[o]
        /\ owes'[th] = cur[th] /\ owes' \in [Threads -> Tasks \cup {NoTask}]
    BY <1>0, <1>3, <2>1, <2>2
  <2>4. \A t \in Tasks : t \in dead[th] \/ t = cur[th] \/ t = owes[th] =>
                            t \in dead'[th] \/ t = cur'[th] \/ t = owes'[th]
    BY <1>0, <2>2, <2>3
  <2>5. Traced'
    BY <1>0, <1>1, <2>2, <2>3, <2>4, TracedMove DEF DownInv
  <2> QED
    BY <2>3, <2>5
<1>4. \/ ReplyDead(th) /\ \E t \in dead[th] \ dead'[th] : owes' = [owes EXCEPT ![th] = t]
      \/ /\ (th = Sub /\ SubmitRefuse) \/ (th \in Workers /\ Finish(th))
         /\ owes' = [owes EXCEPT ![th] = cur[th]]
  BY DEF Answering
<1> QED
  BY <1>2, <1>3, <1>4

\* The rest of the invariant, after a step of the pool: goroutines that have
\* ended do nothing any more.
LEMMA PoolStepDown ==
    ASSUME Basic, DownInv, NEW S, PoolStep(S), Traced', owes' \in [Threads -> Tasks \cup {NoTask}],
           main \in {"close", "flush", "exit"} =>
              /\ JoinedAll' /\ closed'
              /\ \A th \in Joinable : owes'[th] = NoTask
    PROVE  DownInv'
<1>1. SinkKeeps'
  BY DEF DownInv, SinkKeeps, PoolStep
<1>2. OwesInv'
  BY DEF OwesInv, PoolStep
<1>3. MainInv'
  BY DEF DownInv, MainInv, PoolStep
<1> QED
  BY <1>1, <1>2, <1>3 DEF DownInv

\* A message arrives, or time passes.
LEMMA BusDown == ASSUME Basic, DownInv, BusStep \/ Clock PROVE DownInv'
<1>1. PoolStep({}) /\ UNCHANGED <<owes, q, ticket, pc, cur, dead, closed>>
  BY DEF BusStep, Clock, Arrive, Tick, TimerFire, TimerLate
<1>2. Traced'
  <2>1. excused \subseteq excused' /\ early' = early
    BY <1>1 DEF PoolStep
  <2> QED
    BY <1>1, <2>1, TracedMove, ThreadFacts DEF DownInv
<1> QED
  BY <1>1, <1>2, PoolStepDown DEF DownInv, OwesInv, MainInv, JoinedAll

\* A goroutine's step without an answer: one that has ended takes none.
LEMMA SilentDown ==
    ASSUME Basic, DownInv, NEW th \in Threads, Silent(th) PROVE DownInv'
<1> USE ThreadFacts
<1>1. PoolStep({}) /\ UNCHANGED owes
  BY DEF Silent
<1>2. Traced'
  BY <1>1, SubTraced, WorkerTraced, SweepTraced, CountTraced DEF Silent
<1>3. ASSUME JoinedAll, closed PROVE JoinedAll' /\ closed'
  <2>1. pc \in [Threads -> Labels]
    BY DEF Basic, TypeOK
  <2>2. th = Sub
    <3>1. th \in Workers \cup {Sweep} => dead[th] = {}
      BY <1>3 DEF JoinedAll, Basic, Control
    <3> QED
      BY <1>3, <3>1
         DEF JoinedAll, Silent, CountDead, Pop, Budget, WorkerExit, SweepTick, SweepStop
  <2>3. closed' /\ \A o \in Workers \cup {Sweep} : pc'[o] = pc[o]
    BY <1>3, <2>1, <2>2
       DEF Silent, CountDead, SubmitCollect, SubmitEnter, SubmitWait, SubmitCount, Submit,
           SubmitEnqueue, SubmitGiveUp, WaitTurn, Goto
  <2> QED
    BY <1>3, <2>3 DEF JoinedAll
<1> QED
  BY <1>1, <1>2, <1>3, PoolStepDown DEF DownInv, OwesInv, MainInv

\* A goroutine answers: none that has ended does.
LEMMA AnsweringDown ==
    ASSUME Basic, DownInv, NEW th \in Threads, Answering(th) PROVE DownInv'
<1> USE ThreadFacts
<1>1. PoolStep({})
  BY DEF Answering
<1>2. /\ Traced' /\ owes' \in [Threads -> Tasks \cup {NoTask}]
      /\ \A o \in Threads \ {th} : owes'[o] = owes[o]
  BY AnswerTraced
<1>3. ASSUME JoinedAll, closed
      PROVE  /\ JoinedAll' /\ closed'
             /\ \A o \in Joinable : owes'[o] = owes[o]
  <2>1. pc \in [Threads -> Labels]
    BY DEF Basic, TypeOK
  <2>2. th = Sub
    <3>1. th \in Workers \cup {Sweep} => dead[th] = {}
      BY <1>3 DEF JoinedAll, Basic, Control
    <3> QED
      BY <1>3, <3>1 DEF JoinedAll, Answering, ReplyDead, Finish
  <2>3. closed' /\ \A o \in Workers \cup {Sweep} : pc'[o] = pc[o]
    BY <1>3, <2>1, <2>2 DEF Answering, ReplyDead, SubmitRefuse, Goto
  <2> QED
    BY <1>2, <1>3, <2>2, <2>3 DEF JoinedAll, Joinable
<1> QED
  BY <1>1, <1>2, <1>3, PoolStepDown DEF DownInv, MainInv

\* An evaluation that panicked is answered, and excused.
LEMMA PanickingDown ==
    ASSUME Basic, DownInv, NEW th \in Threads, Panicking(th) PROVE DownInv'
<1> USE ThreadFacts DEF Joinable
<1>1. /\ th \in Workers /\ pc[th] = "eval" /\ PoolStep({cur[th]})
      /\ UNCHANGED <<owes, q, ticket, dead, closed>>
      /\ cur' = [cur EXCEPT ![th] = NoTask] /\ cur \in [Threads -> Tasks \cup {NoTask}]
  BY DEF Panicking, Finish, Basic, TypeOK
<1>2. excused \cup {cur[th]} \subseteq excused' /\ early' = early
  BY <1>1 DEF PoolStep
<1>3. ASSUME NEW t \in Tasks, ticket'[t] # 0
      PROVE  \/ t \in q' \cup excused' \cup early'
             \/ \E o \in Joinable : t \in dead'[o] \/ t = cur'[o] \/ t = owes'[o]
  <2>1. \A o \in Joinable : t = cur[o] => t = cur'[o] \/ o = th
    BY <1>1
  <2> QED
    BY <1>1, <1>2, <1>3, <2>1 DEF DownInv, Traced
<1>4. Traced'
  BY <1>3 DEF Traced
<1>5. main \notin {"close", "flush", "exit"}
  BY <1>1 DEF DownInv, MainInv, JoinedAll
<1> QED
  BY <1>1, <1>4, <1>5, PoolStepDown DEF DownInv, OwesInv

-----------------------------------------------------------------------------
(* Steps of the sink.                                                      *)

\* Add: an event that comes before stop is early, and what the limit cuts is
\* trimmed.
LEMMA AddKeeps ==
    ASSUME SinkKeeps, NEW th, NEW e \in Tasks, Sink!Add(th, e)
    PROVE  SinkKeeps' /\ early \subseteq early' /\ (stop \/ e \in early')
<1> DEFINE all == pending \cup {e}
<1>1. /\ place[e] = 0 /\ recorded' = recorded + 1
      /\ place' = [place EXCEPT ![e] = recorded']
      /\ pending' = Sink!Trim(all) /\ trimmed' = trimmed \cup (all \ Sink!Trim(all))
      /\ early' = IF stop THEN early ELSE early \cup {e}
      /\ UNCHANGED <<stop, loop, taken, failed, sent>>
  BY DEF Sink!Add
<1>2. pending' \subseteq all /\ all \subseteq pending' \cup trimmed' /\ trimmed \subseteq trimmed'
  BY <1>1 DEF Sink!Trim
<1>3. place' \in [Tasks -> Nat] /\ recorded' \in Nat /\ recorded' # 0
  BY <1>1 DEF SinkKeeps
<1>4. e \notin early
  BY <1>1 DEF SinkKeeps
<1>5. \A t \in early' : place'[t] # 0
  <2> SUFFICES ASSUME NEW t \in early' PROVE place'[t] # 0
    OBVIOUS
  <2>1. t = e \/ t \in early
    BY <1>1
  <2>2. CASE t = e
    BY <1>1, <1>3, <2>2 DEF SinkKeeps
  <2>3. CASE t \in early /\ t # e
    BY <1>1, <2>3 DEF SinkKeeps
  <2> QED
    BY <2>1, <2>2, <2>3
<1>6. (loop = "done" => early \cap (pending \cup taken) = {})'
  BY <1>1, <1>2, <1>4 DEF SinkKeeps
<1>7. (early \subseteq pending \cup taken \cup trimmed \cup failed \cup sent)'
  BY <1>1, <1>2 DEF SinkKeeps
<1> QED
  BY <1>1, <1>3, <1>5, <1>6, <1>7 DEF SinkKeeps

\* The goroutine moves events on and drops none.
LEMMA LoopKeeps ==
    ASSUME SinkKeeps, Sink!Loop PROVE SinkKeeps' /\ UNCHANGED <<early, stop>>
<1> USE DEF Sink!store, Sink!signal
<1>1. CASE Sink!Select \/ Sink!SelectWake \/ Sink!SelectTick \/ Sink!SelectStop
  BY <1>1 DEF Sink!Select, Sink!SelectWake, Sink!SelectTick, Sink!SelectStop, SinkKeeps
<1>2. CASE Sink!Take
  <2>1. taken' \subseteq pending /\ pending' = pending \ taken' /\ taken = {}
    BY <1>2 DEF Sink!Take, Sink!Oldest
  <2>2. UNCHANGED <<stop, recorded, place, trimmed, early, loop, failed, sent>>
    BY <1>2 DEF Sink!Take
  <2>3. loop \in {"flush", "drain"}
    BY <1>2 DEF Sink!Take, Sink!Flushing
  <2> QED
    BY <2>1, <2>2, <2>3 DEF SinkKeeps
<1>3. CASE Sink!FlushDone
  BY <1>3 DEF Sink!FlushDone, Sink!Flushing, SinkKeeps
<1>4. CASE Sink!Send
  <2>1. /\ taken # {} /\ taken' = taken \ Sink!NextGroup
        /\ taken \subseteq taken' \cup sent' \cup failed'
        /\ sent \subseteq sent' /\ failed \subseteq failed'
        /\ UNCHANGED <<pending, stop, recorded, place, trimmed, early, loop>>
    BY <1>4 DEF Sink!Send
  <2> QED
    BY <2>1 DEF SinkKeeps
<1> QED
  BY <1>1, <1>2, <1>3, <1>4 DEF Sink!Loop

\* A goroutine that Close waits for calls audit.Add before stop is closed, so
\* its event is early.
LEMMA AuditDown ==
    ASSUME Basic, DownInv, NEW th \in Threads, Audit(th) PROVE DownInv'
<1> USE ThreadFacts
<1>0. /\ owes \in [Threads -> Tasks \cup {NoTask}] /\ owes[th] \in Tasks
      /\ owes' = [owes EXCEPT ![th] = NoTask]
      /\ UNCHANGED <<q, ticket, dead, cur, pc, closed, main, excused>>
  BY DEF Audit, DownInv, OwesInv, vars
<1>1. SinkKeeps' /\ early \subseteq early' /\ (stop \/ owes[th] \in early')
  BY <1>0, AddKeeps DEF Audit, DownInv
<1>2. UNCHANGED <<stop, loop>>
  BY DEF Audit, Sink!Add
<1>3. th \in Joinable => owes[th] \in early'
  BY <1>0, <1>1, PoolAssumption DEF DownInv, MainInv
<1>4. Traced'
  BY <1>0, <1>1, <1>3, TracedMove DEF DownInv, Joinable
<1>5. OwesInv'
  BY <1>0 DEF DownInv, OwesInv
<1>6. MainInv'
  BY <1>0, <1>2 DEF DownInv, MainInv, JoinedAll, Joinable
<1> QED
  BY <1>1, <1>4, <1>5, <1>6 DEF DownInv

\* What a step leaves alone that concerns neither the pool nor what is owed.
LEMMA SinkStepDown ==
    ASSUME DownInv, SinkKeeps', UNCHANGED <<poolVars, owes, excused, early>>, MainInv'
    PROVE  DownInv'
<1>1. OwesInv'
  BY DEF DownInv, OwesInv, vars
<1>2. Traced'
  BY DEF DownInv, Traced, Joinable, vars
<1> QED
  BY <1>1, <1>2 DEF DownInv

\* The sink's own steps.
LEMMA SinkDown ==
    ASSUME DownInv, AuditLoop \/ \E th \in Threads : AuditKick(th) PROVE DownInv'
<1>1. SinkKeeps' /\ UNCHANGED <<early, stop>>
  BY LoopKeeps DEF AuditLoop, AuditKick, Sink!Kick, Sink!store, DownInv, SinkKeeps
<1>2. UNCHANGED <<poolVars, main, owes, excused>> /\ main # "exit"
  BY DEF AuditLoop, AuditKick, Running
<1>3. MainInv'
  BY <1>1, <1>2 DEF DownInv, MainInv, JoinedAll, vars
<1> QED
  BY <1>1, <1>2, <1>3, SinkStepDown

\* main's steps, in the order of run: drain, close the pool, close the sink.
LEMMA MainDown == ASSUME DownInv, Main PROVE DownInv'
<1>1. CASE MainClosePool
  <2>1. UNCHANGED <<q, ticket, dead, cur, pc, sinkVars, main, owes, excused>> /\ main = "drain"
    BY <1>1 DEF MainClosePool, CloseStop, CloseLock
  <2>2. OwesInv' /\ MainInv'
    BY <2>1 DEF DownInv, OwesInv, MainInv
  <2>3. SinkKeeps' /\ Traced'
    BY <2>1 DEF DownInv, SinkKeeps, Traced, Joinable
  <2> QED
    BY <2>2, <2>3 DEF DownInv
<1>2. ASSUME SinkKeeps', MainInv', UNCHANGED <<poolVars, owes, excused, early>> PROVE DownInv'
  BY <1>2, SinkStepDown
<1>3. CASE MainDrain \/ MainExit
  <2>1. UNCHANGED <<poolVars, sinkVars, owes, excused>>
    BY <1>3 DEF MainDrain, MainExit
  <2>2. MainInv'
    BY <1>3, <2>1 DEF MainDrain, MainExit, MainGoto, DownInv, MainInv, JoinedAll, vars
  <2>3. SinkKeeps'
    BY <2>1 DEF DownInv, SinkKeeps
  <2> QED
    BY <1>2, <2>1, <2>2, <2>3
<1>4. CASE MainJoined
  <2>1. UNCHANGED <<poolVars, sinkVars, owes, excused>>
    BY <1>4 DEF MainJoined
  <2>2. closed /\ JoinedAll /\ \A th \in Joinable : owes[th] = NoTask
    BY <1>4 DEF MainJoined, Joined, Free, Joinable
  <2>3. MainInv'
    BY <1>4, <2>1, <2>2 DEF MainJoined, MainGoto, DownInv, MainInv, JoinedAll, vars
  <2>4. SinkKeeps'
    BY <2>1 DEF DownInv, SinkKeeps
  <2> QED
    BY <1>2, <2>1, <2>3, <2>4
<1>5. CASE MainCloseSink
  <2>1. UNCHANGED <<poolVars, owes, excused, early, loop>>
    BY <1>5 DEF MainCloseSink, Sink!Close, Sink!store
  <2>2. MainInv'
    BY <1>5, <2>1 DEF MainCloseSink, MainGoto, DownInv, MainInv, JoinedAll, vars
  <2>3. SinkKeeps'
    BY <1>5 DEF MainCloseSink, Sink!Close, Sink!store, DownInv, SinkKeeps
  <2> QED
    BY <1>2, <2>1, <2>2, <2>3
<1> QED
  BY <1>1, <1>3, <1>4, <1>5 DEF Main

-----------------------------------------------------------------------------
(* The way down as a whole.                                                *)

\* Every step of the composition keeps DownInv.
LEMMA DownStep == Basic /\ DownInv /\ [SNext]_allVars => DownInv'
<1> SUFFICES ASSUME Basic, DownInv, [SNext]_allVars PROVE DownInv'
  OBVIOUS
<1>1. CASE UNCHANGED allVars
  BY <1>1 DEF allVars, vars, DownInv, OwesInv, MainInv, SinkKeeps, Traced, JoinedAll, Joinable
<1>2. CASE BusStep \/ Clock
  BY <1>2, BusDown
<1>3. CASE AuditLoop
  BY <1>3, SinkDown
<1>4. CASE Main
  BY <1>4, MainDown
<1>5. ASSUME NEW th \in Threads, ThreadStep(th) PROVE DownInv'
  BY <1>5, SilentDown, AnsweringDown, PanickingDown, AuditDown, SinkDown DEF ThreadStep
<1> QED
  BY <1>1, <1>2, <1>3, <1>4, <1>5 DEF SNext

\* DownInv is an invariant.
LEMMA DownCorrect == SSpec => [](Basic /\ DownInv)
  BY PoolComposed, BasicCorrect, DownInit, DownStep, PTL DEF SSpec

\* Every step of the composition is a step of the sink, or leaves it alone.
LEMMA SinkInside == ASSUME DownInv, [SNext]_allVars PROVE [Sink!Next]_(Sink!vars)
<1> USE DEF Sink!vars, Sink!store, Sink!signal
<1>1. CASE UNCHANGED sinkVars
  BY <1>1
<1>2. CASE Sink!Loop \/ Sink!Close
  BY <1>2 DEF Sink!Next
<1>3. ASSUME NEW th \in Threads, AuditKick(th) PROVE Sink!Next
  BY <1>3 DEF AuditKick, Sink!Next
<1>4. ASSUME NEW th \in Threads, Audit(th) PROVE Sink!Next
  <2>1. owes[th] \in Tasks /\ Sink!Add(th, owes[th])
    BY <1>4 DEF Audit, DownInv, OwesInv
  <2> QED
    BY <2>1 DEF Sink!Next
<1>5. ASSUME NEW th \in Threads, Silent(th) \/ Answering(th) \/ Panicking(th)
      PROVE  UNCHANGED sinkVars
  BY <1>5 DEF Silent, Answering, Panicking, PoolStep
<1>6. CASE BusStep \/ Clock \/ AuditLoop \/ Main
  BY <1>1, <1>2, <1>6 DEF BusStep, Clock, PoolStep, AuditLoop, Main, MainDrain,
                          MainClosePool, MainJoined, MainCloseSink, MainExit
<1>7. CASE UNCHANGED allVars
  BY <1>1, <1>7 DEF allVars
<1> QED
  BY <1>1, <1>3, <1>4, <1>5, <1>6, <1>7 DEF SNext, ThreadStep

\* Composed with main and the pool, the sink behaves as it does alone: the
\* goroutines of the pool call Add with one event each, and nobody else does.
THEOREM SinkComposed == SSpec => Sink!Spec
<1>1. SInit => Sink!Init
  BY DEF SInit
<1> QED
  BY <1>1, DownCorrect, SinkInside, PTL DEF SSpec, Sink!Spec

\* When the process ends, every queued request has been answered and its event
\* has left the sink, unless the callback goroutine took it as expired or its
\* evaluation panicked: main closes the sink after the pool, and Close of each
\* waits.
THEOREM ShutdownAudits == SSpec => []AnswersAreAudited
<1>1. Basic /\ DownInv /\ DrainedOnClose => AnswersAreAudited
  <2> SUFFICES ASSUME Basic, DownInv, DrainedOnClose, main = "exit",
                      NEW t \in Tasks, ticket[t] # 0
               PROVE  t \in trimmed \cup failed \cup sent \cup excused
    BY DEF AnswersAreAudited
  <2>1. JoinedAll /\ loop = "done" /\ \A th \in Joinable : owes[th] = NoTask
    BY DEF DownInv, MainInv
  <2>2. q = {} /\ \A th \in Joinable : t \notin dead[th] /\ t # cur[th] /\ t # owes[th]
    BY <2>1, PoolAssumption DEF DrainedOnClose, Held, Joinable
  <2>3. t \in excused \cup early
    BY <2>2 DEF DownInv, Traced
  <2> QED
    BY <2>1, <2>3 DEF DownInv, SinkKeeps
<1> QED
  BY <1>1, DownCorrect, PoolComposed, ClosedMeansDrained, PTL
=============================================================================
