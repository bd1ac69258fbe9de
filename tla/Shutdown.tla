------------------------------ MODULE Shutdown ------------------------------
(***************************************************************************)
(* The way down (cmd/inspector/main.go, the end of run): the subscription  *)
(* is drained without waiting for it, then the pool is closed, then the    *)
(* audit sink, and run returns, which closes the connection.  The module   *)
(* composes Pool and AuditSink: a thread that has answered a request       *)
(* (handler.send) goes on to audit.Add before it does anything else.       *)
(*                                                                         *)
(* The callback goroutine Sub is joined by nobody.  Messages may reach it  *)
(* until the end: those in flight when the subscription is drained.        *)
(***************************************************************************)
EXTENDS Pool

CONSTANTS MaxItems, MaxSize, MaxPending   \* limits of the sink

VARIABLES
    main,    \* "serve", "drain", "close", "flush", "exit"
    owes,    \* the answered request whose audit.Add a thread is about to call
    excused, \* history: tasks Sub took out of the queue as expired, and tasks
             \* whose evaluation panicked
    pending, size, recorded, place, kicking, wake, stop, loop, taken,
    trimmed, failed, sent, early          \* the sink

\* One audit event per answered request, on one subject, all of one size.
Sink == INSTANCE AuditSink
          WITH Events <- Tasks, Adders <- Threads, ticket <- place,
               SubjectOf <- [t \in Tasks |-> "waf.audit"],
               Size <- [t \in Tasks |-> 1]

poolVars == vars
sinkVars == <<pending, size, recorded, place, kicking, wake, stop, loop, taken,
              trimmed, failed, sent, early>>
allVars  == <<poolVars, sinkVars, main, owes, excused>>

-----------------------------------------------------------------------------
\* Nothing runs once the process has ended.
Running == main # "exit"

\* Not between the Publish of an answer and the end of audit.Add.
Free(th) == Running /\ owes[th] = NoTask /\ th \notin kicking

\* A step of the pool alone, with the tasks whose evaluation panicked in it.
PoolStep(panicked) ==
    /\ UNCHANGED <<sinkVars, main>>
    /\ excused' = excused \cup dead'[Sub] \cup panicked

BusStep ==
    /\ Running
    /\ \E t \in Tasks : Arrive(t)
    /\ PoolStep({}) /\ UNCHANGED owes

Clock ==
    /\ Running
    /\ Tick \/ TimerFire \/ TimerLate
    /\ PoolStep({}) /\ UNCHANGED owes

\* A thread's step in which nothing is answered.
Silent(th) ==
    /\ Free(th)
    /\ \/ CountDead(th)
       \/ th = Sub /\ (SubmitCollect \/ SubmitEnter \/ SubmitWait \/ SubmitCount
                          \/ \E t \in Tasks : Submit(t))
       \/ th \in Workers /\ (Pop(th) \/ Budget(th) \/ WorkerExit(th))
       \/ th = Sweep /\ (SweepTick \/ SweepStop)
    /\ PoolStep({}) /\ UNCHANGED owes

\* A step in which the handler publishes an answer; handler.send goes on to
\* audit.Add.
Answering(th) ==
    /\ Free(th)
    /\ \/ ReplyDead(th) /\ \E t \in dead[th] \ dead'[th] : owes' = [owes EXCEPT ![th] = t]
       \/ /\ \/ th = Sub /\ SubmitRefuse
             \/ th \in Workers /\ Finish(th)
          /\ owes' = [owes EXCEPT ![th] = cur[th]]
    /\ PoolStep({})

\* inspect panicked: recoverInto answers without a request, and Sink.Add has no
\* event to add.
Panicking(th) ==
    /\ Free(th)
    /\ th \in Workers /\ pc[th] = "eval" /\ Finish(th)
    /\ PoolStep({cur[th]}) /\ UNCHANGED owes

Audit(th) ==
    /\ Running /\ owes[th] # NoTask
    /\ Sink!Add(th, owes[th])
    /\ owes' = [owes EXCEPT ![th] = NoTask]
    /\ UNCHANGED <<poolVars, main, excused>>

AuditKick(th) ==
    Running /\ Sink!Kick(th) /\ UNCHANGED <<poolVars, main, owes, excused>>

AuditLoop == Running /\ Sink!Loop /\ UNCHANGED <<poolVars, main, owes, excused>>

-----------------------------------------------------------------------------
(* main.                                                                   *)

MainGoto(from, to) == main = from /\ main' = to

\* A signal; sub.Drain returns at once.
MainDrain ==
    /\ MainGoto("serve", "drain")
    /\ UNCHANGED <<poolVars, sinkVars, owes, excused>>

\* pool.Close: the two steps, then wg.Wait.
MainClosePool ==
    /\ main = "drain"
    /\ CloseStop \/ CloseLock
    /\ UNCHANGED <<sinkVars, main, owes, excused>>

\* The goroutines of the pool have ended: each is done, its audit included.
Joined == JoinedAll /\ \A th \in Workers \cup {Sweep} : Free(th)

MainJoined ==
    /\ closed /\ Joined
    /\ MainGoto("drain", "close")
    /\ UNCHANGED <<poolVars, sinkVars, owes, excused>>

\* auditSink.Close: close(s.stop), then wait for done.
MainCloseSink ==
    /\ MainGoto("close", "flush")
    /\ Sink!Close
    /\ UNCHANGED <<poolVars, owes, excused>>

\* Mutant: auditSink.Close does not wait for the goroutine.
MainExitUnwaited ==
    /\ MainGoto("flush", "exit")
    /\ UNCHANGED <<poolVars, sinkVars, owes, excused>>

\* run returns: nc.Close, and the process ends.
MainExit ==
    /\ loop = "done"
    /\ MainGoto("flush", "exit")
    /\ UNCHANGED <<poolVars, sinkVars, owes, excused>>

Main == MainDrain \/ MainClosePool \/ MainJoined \/ MainCloseSink \/ MainExit

-----------------------------------------------------------------------------
SInit ==
    /\ Init /\ Sink!Init
    /\ main = "serve" /\ excused = {}
    /\ owes = [th \in Threads |-> NoTask]

ThreadStep(th) ==
    Silent(th) \/ Answering(th) \/ Panicking(th) \/ Audit(th) \/ AuditKick(th)

SNext ==
    \/ BusStep \/ Clock \/ AuditLoop \/ Main
    \/ \E th \in Threads : ThreadStep(th)

SSpec == SInit /\ [][SNext]_allVars

(* As in Pool and AuditSink: goroutines that can run are scheduled, timers *)
(* fire, the handler returns.  No signal need ever come; once one has,     *)
(* main goes on.                                                           *)
SFairness ==
    /\ WF_allVars(Clock) /\ WF_allVars(AuditLoop)
    /\ \A th \in Threads : WF_allVars(ThreadStep(th))
    /\ WF_allVars(main # "serve" /\ Main)

SFairSpec == SSpec /\ SFairness

-----------------------------------------------------------------------------
(* Properties.                                                             *)

\* When the connection closes, every request that was ever queued has been
\* answered and its audit event has left the sink: sent, or given up where the
\* sink says so.  Two exceptions: a request the callback goroutine took out of
\* the queue as expired, since nobody waits for that goroutine, and one whose
\* evaluation panicked, whose answer has no event.
AnswersAreAudited ==
    main = "exit" => \A t \in Tasks : ticket[t] # 0
                        => t \in trimmed \cup failed \cup sent \cup excused

\* A signal ends the process, whatever the workers, the callback and the sink
\* are in the middle of.
SignalEnds == main = "drain" ~> main = "exit"
=============================================================================
