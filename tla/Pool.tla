-------------------------------- MODULE Pool --------------------------------
(***************************************************************************)
(* The evaluation queue of the inspector (internal/queue/queue.go) between *)
(* the bus subscription that feeds it and the handler that answers.        *)
(*                                                                         *)
(* Threads: Sub, the one goroutine on which the bus client runs the        *)
(* subscription callback (so Submit is never called twice at a time); the  *)
(* Workers; Sweep, the 10 ms sweeper; the timer callback of a waiting      *)
(* Submit; and main, which closes the pool.  A critical section of p.mu is *)
(* one action; between two of them any other thread may run.  The handler  *)
(* is called outside the lock, so every answer is an action of its own.    *)
(*                                                                         *)
(* Time is relative: age[t] counts ticks since Submit stamped t, capped at *)
(* MaxAge.                                                                 *)
(***************************************************************************)
EXTENDS Integers, FiniteSets, Sequences

CONSTANTS Tasks,        \* requests that reach the pool
          Workers,      \* worker goroutines
          Sub, Sweep,   \* the callback goroutine and the sweeper
          NoTask,       \* "no task in hand"
          Depth,        \* queue_max
          FullWait,     \* queue_full = wait (TRUE) or drop (FALSE)
          Reserve,      \* WAF_REWRITE_RESERVE_MS, in ticks
          MinBudget,    \* WAF_REWRITE_MIN_BUDGET_MS, in ticks
          Deadlines,    \* the deadline_ms values requests carry, in ticks
          PendingLimit, \* the bus client's buffer for the subscription
          MaxAge        \* bound: no age is counted beyond it

Threads == Workers \cup {Sub, Sweep}

\* Evaluated in full; REWRITE_DEADLINE_EXCEEDED; REWRITE_QUEUE_LIMIT.
Codes == {"evaluated", "deadline", "limit"}

ASSUME PoolAssumption ==
    /\ Workers # {} /\ IsFiniteSet(Workers) /\ IsFiniteSet(Tasks)
    /\ Sub \notin Workers /\ Sweep \notin Workers /\ Sub # Sweep
    /\ NoTask \notin Tasks
    /\ Depth \in Nat \ {0} /\ PendingLimit \in Nat /\ MaxAge \in Nat
    /\ FullWait \in BOOLEAN
    /\ Reserve \in Nat /\ MinBudget \in Nat /\ Deadlines \subseteq Int

VARIABLES
    fresh,     \* requests not sent yet
    inbox,     \* the client's pending buffer (its order is not used)
    lost,      \* dropped by the client when the buffer was full
    q,         \* p.q: the queued tasks; their order is that of ticket
    ticket,    \* value of Accepted when the task was appended
    closed,    \* p.closed
    stopped,   \* p.stop is closed
    waiters,   \* threads inside p.cond.Wait
    pc,        \* where each thread is
    cur,       \* the task a thread has in hand
    dead,      \* expired tasks a thread took out of q and still has to answer
    timedOut,  \* submitWaitLocked's timedOut
    late,      \* a timer callback that lost its race with timer.Stop
    deadline,  \* Req.DeadlineMS
    age,       \* time since Task.enqueued
    accepted, expired, shed,   \* the pool's counters
    tallied,   \* threads that counted a task of their dead list, not answered yet
    replies    \* the answers the handler published for each task

bus    == <<fresh, inbox, lost, deadline>>
line   == <<q, ticket, accepted>>
sync   == <<closed, stopped, waiters, timedOut, late>>
hands  == <<pc, cur, dead>>
counts == <<expired, shed, tallied>>
vars   == <<bus, line, sync, hands, counts, age, replies>>

-----------------------------------------------------------------------------
(* Time left, the expired part of the queue, the head of the queue.        *)

\* leftAt: deadline - (now - enqueued) - reserve.
LeftAt(t) == deadline[t] - age[t] - Reserve

TooLate(t) == LeftAt(t) < MinBudget

\* The tasks takeExpiredLocked moves from p.q to its result.
ExpiredIn(Q) == {t \in Q : TooLate(t)}

\* p.q[0]: takeExpiredLocked and pop keep the order of the appends.
IsHead(t, Q) == t \in Q /\ \A u \in Q : ticket[t] <= ticket[u]

\* Mutant: the room check is off by one.
FullOffByOne == Cardinality(q) > Depth

Full == Cardinality(q) >= Depth

-----------------------------------------------------------------------------
(* Condition variable.                                                     *)

Broadcast == waiters' = {}

\* cond.Signal wakes one waiter.  Only the callback goroutine calls it, so the
\* waiter is a worker.
Signal == IF waiters = {} THEN UNCHANGED waiters
          ELSE \E w \in waiters : waiters' = waiters \ {w}

\* Mutant: "p.q = kept" is missing.
TakeExpiredKeeps(th) ==
    /\ dead' = [dead EXCEPT ![th] = ExpiredIn(q)]
    /\ UNCHANGED q
    /\ IF ExpiredIn(q) # {} THEN Broadcast ELSE UNCHANGED waiters

\* takeExpiredLocked, run by th: expired tasks leave p.q for th's list, and
\* everybody waiting is woken if there were any.
TakeExpired(th) ==
    /\ dead' = [dead EXCEPT ![th] = ExpiredIn(q)]
    /\ q' = q \ ExpiredIn(q)
    /\ IF ExpiredIn(q) # {} THEN Broadcast ELSE UNCHANGED waiters

\* Mutant: no Signal after the append.
EnqueueSilently(t) ==
    /\ q' = q \cup {t}
    /\ accepted' = accepted + 1
    /\ ticket' = [ticket EXCEPT ![t] = accepted']
    /\ UNCHANGED waiters

\* Mutant: the counter goes down.
EnqueueUncounts(t) ==
    /\ q' = q \cup {t}
    /\ accepted' = accepted - 1
    /\ ticket' = [ticket EXCEPT ![t] = accepted']
    /\ Signal

\* enqueueLocked.
Enqueue(t) ==
    /\ q' = q \cup {t}
    /\ accepted' = accepted + 1
    /\ ticket' = [ticket EXCEPT ![t] = accepted']
    /\ Signal

\* The handler publishes the answer of t.
Reply(t, c) == replies' = [replies EXCEPT ![t] = Append(@, c)]

Goto(th, label) == pc' = [pc EXCEPT ![th] = label]

-----------------------------------------------------------------------------
(* The bus client: a request arrives in the subscription's buffer, or is   *)
(* dropped silently when SetPendingLimits' bound is reached.               *)

Arrive(t) ==
    /\ t \in fresh
    /\ fresh' = fresh \ {t}
    /\ \E d \in Deadlines : deadline' = [deadline EXCEPT ![t] = d]
    /\ IF Cardinality(inbox) < PendingLimit
       THEN inbox' = inbox \cup {t} /\ UNCHANGED lost
       ELSE lost' = lost \cup {t} /\ UNCHANGED inbox
    /\ UNCHANGED <<line, sync, hands, counts, age, replies>>

\* The clock advances for every task that was stamped and is not answered.
Tick ==
    LET timed == {t \in Tasks \ (fresh \cup lost \cup inbox) :
                     replies[t] = << >>}
    IN  /\ \E t \in timed : age[t] < MaxAge
        /\ age' = [t \in Tasks |-> IF t \in timed /\ age[t] < MaxAge
                                   THEN age[t] + 1 ELSE age[t]]
        /\ UNCHANGED <<bus, line, sync, hands, counts, replies>>

-----------------------------------------------------------------------------
(* replyDead: the thread counts and answers the expired tasks it took, one *)
(* by one.  expire counts first; the heartbeat may read the counters before *)
(* the handler has answered.                                               *)

CountDead(th) ==
    /\ dead[th] # {} /\ th \notin tallied
    /\ tallied' = tallied \cup {th}
    /\ expired' = expired + 1
    /\ UNCHANGED <<bus, line, sync, hands, age, shed, replies>>

\* Mutant: the list is not advanced.
ReplyDeadAgain(th) ==
    /\ th \in tallied
    /\ \E t \in dead[th] : Reply(t, "deadline")
    /\ tallied' = tallied \ {th}
    /\ UNCHANGED <<bus, line, sync, hands, age, expired, shed>>

ReplyDead(th) ==
    /\ th \in tallied
    /\ \E t \in dead[th] :
          /\ Reply(t, "deadline")
          /\ dead' = [dead EXCEPT ![th] = @ \ {t}]
    /\ tallied' = tallied \ {th}
    /\ UNCHANGED <<bus, line, sync, pc, cur, age, expired, shed>>

ClearDead(th) == CountDead(th) \/ ReplyDead(th)

-----------------------------------------------------------------------------
(* Submit, on the subscription's goroutine.                                *)

\* Stamp t.enqueued; a task that is too late already is not queued at all.
Submit(t) ==
    /\ pc[Sub] = "idle"
    /\ t \in inbox
    /\ inbox' = inbox \ {t}
    /\ cur' = [cur EXCEPT ![Sub] = t]
    /\ age' = [age EXCEPT ![t] = 0]
    /\ Goto(Sub, IF deadline[t] - Reserve < MinBudget THEN "expire" ELSE "collect")
    /\ UNCHANGED <<line, sync, counts, fresh, lost, dead, deadline, replies>>

\* p.replyDead(p.collectExpired()) before the task is queued.
SubmitCollect ==
    /\ pc[Sub] = "collect"
    /\ TakeExpired(Sub)
    /\ Goto(Sub, "enter")
    /\ UNCHANGED <<bus, counts, ticket, closed, stopped, cur, timedOut, late,
                   age, accepted, replies>>

\* The task in hand goes into the queue and Submit returns.
SubmitEnqueue ==
    /\ Enqueue(cur[Sub])
    /\ cur' = [cur EXCEPT ![Sub] = NoTask]
    /\ Goto(Sub, "idle")
    /\ UNCHANGED <<dead, timedOut>>

\* Submit leaves the critical section to answer the task in hand itself.
SubmitGiveUp(label) ==
    /\ Goto(Sub, label)
    /\ UNCHANGED <<line, waiters, cur, dead, timedOut>>

\* Mutant: the result of takeExpiredLocked is thrown away.
WaitTurnForgets ==
    /\ q' = q \ ExpiredIn(q)
    /\ waiters' = IF ExpiredIn(q) # {} THEN {} ELSE waiters \cup {Sub}
    /\ Goto(Sub, "wait")
    /\ UNCHANGED <<ticket, cur, dead, accepted>>

\* One turn of submitWaitLocked's loop: answer what expired, or sleep.
WaitTurn ==
    /\ dead' = [dead EXCEPT ![Sub] = ExpiredIn(q)]
    /\ q' = q \ ExpiredIn(q)
    /\ waiters' = IF ExpiredIn(q) # {} THEN {} ELSE waiters \cup {Sub}
    /\ Goto(Sub, "wait")
    /\ UNCHANGED <<ticket, cur, accepted>>

\* The main critical section of Submit, with submitWaitLocked's first turn.
SubmitEnter ==
    /\ pc[Sub] = "enter"
    /\ dead[Sub] = {}
    /\ \/ closed /\ SubmitGiveUp("expire")
       \/ ~closed /\ ~Full /\ SubmitEnqueue
       \/ ~closed /\ Full /\ ~FullWait /\ SubmitGiveUp("shed")
       \/ ~closed /\ Full /\ FullWait /\ TooLate(cur[Sub]) /\ SubmitGiveUp("expire")
       \/ ~closed /\ Full /\ FullWait /\ ~TooLate(cur[Sub])
             /\ WaitTurn /\ timedOut' = FALSE
    /\ UNCHANGED <<bus, counts, closed, stopped, late, age, replies>>

\* The time for which submitWaitLocked armed its timer has passed.
TimerDue == LeftAt(cur[Sub]) <= 0

\* timer.Stop when the loop ends: the callback of a timer that is due may
\* already be on its way.
TimerStop ==
    \/ UNCHANGED late
    \/ TimerDue /\ ~timedOut /\ late' = TRUE

\* submitWaitLocked after a wake-up or after answering expired tasks.
SubmitWait ==
    /\ pc[Sub] = "wait"
    /\ Sub \notin waiters
    /\ dead[Sub] = {}
    /\ \/ /\ Full /\ ~timedOut /\ ~closed
          /\ WaitTurn
          /\ UNCHANGED <<timedOut, late>>
       \/ /\ ~Full /\ ~closed
          /\ SubmitEnqueue
          /\ TimerStop
       \/ /\ closed \/ (Full /\ timedOut)
          /\ SubmitGiveUp("expire")
          /\ TimerStop
    /\ UNCHANGED <<bus, counts, closed, stopped, age, replies>>

\* The callback of time.AfterFunc.
TimerFire ==
    /\ pc[Sub] = "wait"
    /\ ~timedOut
    /\ TimerDue
    /\ timedOut' = TRUE
    /\ Broadcast
    /\ UNCHANGED <<bus, line, hands, counts, closed, stopped, late, age,
                   replies>>

\* A callback that timer.Stop came too late for sets a variable nobody reads
\* any more and broadcasts.
TimerLate ==
    /\ late
    /\ late' = FALSE
    /\ Broadcast
    /\ UNCHANGED <<bus, line, hands, counts, closed, stopped, timedOut, age,
                   replies>>

\* expire(t, ...) or shedLimit(t): count the task in hand ...
SubmitCount ==
    /\ \/ pc[Sub] = "expire" /\ expired' = expired + 1 /\ UNCHANGED shed /\ Goto(Sub, "late")
       \/ pc[Sub] = "shed" /\ shed' = shed + 1 /\ UNCHANGED expired /\ Goto(Sub, "limit")
    /\ UNCHANGED <<bus, line, sync, cur, dead, tallied, age, replies>>

\* Mutant: expire returns without an answer.
SubmitRefuseMute ==
    /\ \/ pc[Sub] = "late" /\ UNCHANGED replies
       \/ pc[Sub] = "limit" /\ Reply(cur[Sub], "limit")
    /\ cur' = [cur EXCEPT ![Sub] = NoTask]
    /\ Goto(Sub, "idle")
    /\ UNCHANGED <<bus, line, sync, counts, dead, age>>

\* ... let the handler answer it, and return from the callback.
SubmitRefuse ==
    /\ \/ pc[Sub] = "late" /\ Reply(cur[Sub], "deadline")
       \/ pc[Sub] = "limit" /\ Reply(cur[Sub], "limit")
    /\ cur' = [cur EXCEPT ![Sub] = NoTask]
    /\ Goto(Sub, "idle")
    /\ UNCHANGED <<bus, line, sync, counts, dead, age>>

-----------------------------------------------------------------------------
(* Workers.                                                                *)

\* Mutant: nobody is told that there is room.
PopTaskSilently(w, kept) ==
    /\ \E t \in kept :
          /\ IsHead(t, kept)
          /\ cur' = [cur EXCEPT ![w] = t]
          /\ q' = kept \ {t}
    /\ UNCHANGED waiters
    /\ Goto(w, "budget")

\* pop takes the head of what has not expired.
PopTask(w, kept) ==
    /\ \E t \in kept :
          /\ IsHead(t, kept)
          /\ cur' = [cur EXCEPT ![w] = t]
          /\ q' = kept \ {t}
    /\ Broadcast
    /\ Goto(w, "budget")

\* Mutant: a closed pool is left although tasks are queued.
PopClosedEarly(w, kept) ==
    /\ closed
    /\ q' = kept
    /\ IF ExpiredIn(q) # {} THEN Broadcast ELSE UNCHANGED waiters
    /\ Goto(w, "exit")
    /\ UNCHANGED cur

\* pop returns ok = false: the pool is closed and empty.
PopClosed(w, kept) ==
    /\ kept = {} /\ closed
    /\ q' = kept
    /\ IF ExpiredIn(q) # {} THEN Broadcast ELSE UNCHANGED waiters
    /\ Goto(w, "exit")
    /\ UNCHANGED cur

\* pop returns only expired tasks to answer.
PopExpired(w, kept) ==
    /\ kept = {} /\ ~closed /\ ExpiredIn(q) # {}
    /\ q' = kept
    /\ Broadcast
    /\ UNCHANGED <<pc, cur>>

\* pop finds nothing at all and sleeps.
PopSleep(w, kept) ==
    /\ kept = {} /\ ~closed /\ ExpiredIn(q) = {}
    /\ q' = kept
    /\ waiters' = waiters \cup {w}
    /\ UNCHANGED <<pc, cur>>

Pop(w) ==
    /\ pc[w] = "pop"
    /\ w \notin waiters
    /\ dead[w] = {}
    /\ dead' = [dead EXCEPT ![w] = ExpiredIn(q)]
    /\ LET kept == q \ ExpiredIn(q)
       IN  \/ PopTask(w, kept) \/ PopClosed(w, kept)
           \/ PopExpired(w, kept) \/ PopSleep(w, kept)
    /\ UNCHANGED <<bus, counts, ticket, closed, stopped, timedOut, late, age,
                   accepted, replies>>

\* Mutant: the expired task is not counted.
BudgetUncounted(w) ==
    /\ pc[w] = "budget"
    /\ dead[w] = {}
    /\ Goto(w, IF TooLate(cur[w]) THEN "late" ELSE "eval")
    /\ UNCHANGED <<bus, line, sync, counts, cur, dead, age, replies>>

\* budget(t): a task may have run out of time since it was popped.
Budget(w) ==
    /\ pc[w] = "budget"
    /\ dead[w] = {}
    /\ \/ TooLate(cur[w]) /\ expired' = expired + 1 /\ Goto(w, "late")
       \/ ~TooLate(cur[w]) /\ UNCHANGED expired /\ Goto(w, "eval")
    /\ UNCHANGED <<bus, line, sync, cur, dead, tallied, age, shed, replies>>

\* p.handler returns: the worker's task has been answered.
Finish(w) ==
    /\ pc[w] \in {"eval", "late"}
    /\ Reply(cur[w], IF pc[w] = "eval" THEN "evaluated" ELSE "deadline")
    /\ cur' = [cur EXCEPT ![w] = NoTask]
    /\ Goto(w, "pop")
    /\ UNCHANGED <<bus, line, sync, counts, dead, age>>

WorkerExit(w) ==
    /\ pc[w] = "exit"
    /\ dead[w] = {}
    /\ Goto(w, "done")
    /\ UNCHANGED <<bus, line, sync, counts, cur, dead, age, replies>>

-----------------------------------------------------------------------------
(* The sweeper, and Close.                                                 *)

\* Mutant: the sweeper leaves the queue to the workers while one is at work.
SweepTickWhenIdle ==
    /\ pc[Sweep] = "sweep"
    /\ dead[Sweep] = {}
    /\ ExpiredIn(q) # {}
    /\ \A w \in Workers : cur[w] = NoTask
    /\ TakeExpired(Sweep)
    /\ UNCHANGED <<bus, counts, ticket, closed, stopped, pc, cur, timedOut,
                   late, age, accepted, replies>>

\* A tick of the sweeper; one that finds nothing expired changes nothing.
SweepTick ==
    /\ pc[Sweep] = "sweep"
    /\ dead[Sweep] = {}
    /\ ExpiredIn(q) # {}
    /\ TakeExpired(Sweep)
    /\ UNCHANGED <<bus, counts, ticket, closed, stopped, pc, cur, timedOut,
                   late, age, accepted, replies>>

SweepStop ==
    /\ pc[Sweep] = "sweep"
    /\ stopped
    /\ dead[Sweep] = {}
    /\ Goto(Sweep, "done")
    /\ UNCHANGED <<bus, line, sync, counts, cur, dead, age, replies>>

\* Close: close(p.stop) ...
CloseStop ==
    /\ ~stopped
    /\ stopped' = TRUE
    /\ UNCHANGED <<bus, line, hands, counts, closed, waiters, timedOut, late,
                   age, replies>>

\* Mutant: the sleepers are not woken.
CloseLockSilently ==
    /\ stopped
    /\ ~closed
    /\ closed' = TRUE
    /\ UNCHANGED <<bus, line, hands, counts, stopped, waiters, timedOut, late,
                   age, replies>>

\* ... then closed under the lock; wg.Wait returns in a state with JoinedAll.
CloseLock ==
    /\ stopped
    /\ ~closed
    /\ closed' = TRUE
    /\ Broadcast
    /\ UNCHANGED <<bus, line, hands, counts, stopped, timedOut, late, age,
                   replies>>

JoinedAll == \A th \in Workers \cup {Sweep} : pc[th] = "done"

-----------------------------------------------------------------------------
\* New: an empty open queue, every worker on its way into pop, the sweeper on.
Init ==
    /\ fresh = Tasks /\ inbox = {} /\ lost = {}
    /\ q = {} /\ ticket = [t \in Tasks |-> 0]
    /\ closed = FALSE /\ stopped = FALSE /\ waiters = {}
    /\ pc = [th \in Threads |-> IF th = Sub THEN "idle"
                                ELSE IF th = Sweep THEN "sweep" ELSE "pop"]
    /\ cur = [th \in Threads |-> NoTask]
    /\ dead = [th \in Threads |-> {}]
    /\ timedOut = FALSE /\ late = FALSE
    /\ deadline = [t \in Tasks |-> 0]
    /\ age = [t \in Tasks |-> 0]
    /\ accepted = 0 /\ expired = 0 /\ shed = 0 /\ tallied = {}
    /\ replies = [t \in Tasks |-> << >>]

SubStep ==
    \/ \E t \in Tasks : Submit(t)
    \/ SubmitCollect \/ SubmitEnter \/ SubmitWait \/ SubmitCount \/ SubmitRefuse

WorkerStep(w) == Pop(w) \/ Budget(w) \/ Finish(w) \/ WorkerExit(w)

\* Everything but the clock.
Work ==
    \/ \E t \in Tasks : Arrive(t)
    \/ \E th \in Threads : ClearDead(th)
    \/ SubStep \/ TimerFire \/ TimerLate
    \/ \E w \in Workers : WorkerStep(w)
    \/ SweepTick \/ SweepStop
    \/ CloseStop \/ CloseLock

Next == Tick \/ Work

Spec == Init /\ [][Next]_vars

(* Every goroutine that can run is scheduled eventually (sync.Mutex hands  *)
(* the lock to a starving goroutine), the clock and the runtime's timers   *)
(* advance, and the handler returns: its Redis calls are bounded by the    *)
(* task's budget and RE2 matching is linear.                               *)
Fairness ==
    /\ WF_vars(Tick) /\ WF_vars(TimerFire)
    /\ WF_vars(SubStep)
    /\ \A th \in Threads : WF_vars(ClearDead(th))
    /\ \A w \in Workers : WF_vars(WorkerStep(w))
    /\ WF_vars(SweepTick) /\ WF_vars(SweepStop)
    /\ WF_vars(CloseLock)

(* What SweepFreesQueue relies on: the clock and the sweeper.  Workers may *)
(* never come back from the handler.                                       *)
SweepSpec ==
    Spec /\ WF_vars(Tick) /\ WF_vars(SweepTick) /\ WF_vars(ClearDead(Sweep))

-----------------------------------------------------------------------------
(* Properties.                                                             *)

Held(th) == dead[th] \cup ({cur[th]} \ {NoTask})

InProcess == inbox \cup q \cup UNION {Held(th) : th \in Threads}

Labels == {"idle", "collect", "enter", "wait", "expire", "shed", "pop", "budget",
           "eval", "late", "limit", "exit", "done", "sweep"}

\* The variables have their types; no counter is negative and only workers and
\* a waiting Submit sleep on the condition variable.
TypeOK ==
    /\ fresh \subseteq Tasks /\ inbox \subseteq Tasks /\ lost \subseteq Tasks
    /\ q \subseteq Tasks
    /\ ticket \in [Tasks -> Nat]
    /\ closed \in BOOLEAN /\ stopped \in BOOLEAN
    /\ timedOut \in BOOLEAN /\ late \in BOOLEAN
    /\ waiters \subseteq Workers \cup {Sub}
    /\ pc \in [Threads -> Labels]
    /\ cur \in [Threads -> Tasks \cup {NoTask}]
    /\ dead \in [Threads -> SUBSET Tasks]
    /\ deadline \in [Tasks -> Int] /\ age \in [Tasks -> Nat]
    /\ accepted \in Nat /\ expired \in Nat /\ shed \in Nat /\ tallied \subseteq Threads
    /\ replies \in [Tasks -> Seq(Codes)]

\* No request is answered twice, whichever threads meet it: not by the sweep,
\* a pop or a Submit that took it as expired and a worker that popped it, not
\* by Close racing a waiting Submit (queue.go takeExpiredLocked, pop, expire).
AtMostOneReply == \A t \in Tasks : Len(replies[t]) <= 1

\* No request disappears: one that reached the callback's buffer is buffered,
\* queued or in the hands of a thread that has yet to answer it, or it has
\* been answered.
NothingForgotten ==
    \A t \in Tasks : t \in fresh \cup lost \cup InProcess \/ replies[t] # << >>

\* A task never waits in the queue while every worker sleeps in cond.Wait,
\* although enqueueLocked wakes one waiter only, and whoever takes expired tasks
\* out of the queue may leave a worker that was woken with nothing to do.
NoLostWakeup == q # {} => ~(Workers \subseteq waiters)

\* A Submit sleeps in submitWaitLocked only while the queue is full, and
\* nobody sleeps once the pool is closed.
SleepsForAReason ==
    /\ Sub \in waiters => Full
    /\ closed => waiters = {}

\* The queue never exceeds queue_max.
QueueBounded == Cardinality(q) <= Depth

\* When Close's wg.Wait returns, the queue is empty for good and neither a
\* worker nor the sweeper still owes an answer.
DrainedOnClose ==
    JoinedAll => /\ closed
                 /\ q = {}
                 /\ \A th \in Workers \cup {Sweep} : Held(th) = {}

\* The Expired and Shed counters of the heartbeat run ahead of the answers by
\* the tasks that are between expire's (or budget's, shedLimit's) Add and the
\* handler's answer, and by nothing else: no task is counted twice, or by two
\* threads, and none is answered uncounted.
CountersMatchReplies ==
    LET got(c) == {t \in Tasks : \E i \in DOMAIN replies[t] : replies[t][i] = c}
        at(label) == {th \in Threads : pc[th] = label}
    IN  /\ shed = Cardinality(got("limit")) + Cardinality(at("limit"))
        /\ expired = Cardinality(got("deadline")) + Cardinality(at("late"))
                      + Cardinality(tallied)

\* The pool implements the promise to the caller: every request handed over is
\* answered once, eventually (with fairness), and only then.
RR == INSTANCE RequestReply
        WITH outstanding <- {t \in Tasks \ (fresh \cup lost) : replies[t] = << >>}

AnswersOnce == RR!Spec

AnswersEventually == Fairness => RR!Fairness

\* Close terminates: once it has begun, all workers and the sweeper end.
CloseReturns == Fairness => (stopped ~> JoinedAll)

\* A queued task does not depend on the workers: even when all of them hang in
\* the handler, the sweeper takes it out of the queue (until Close stops it).
SweepFreesQueue == \A t \in Tasks : t \in q ~> (t \notin q \/ stopped)
=============================================================================
