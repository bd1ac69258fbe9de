---------------------------- MODULE PoolArrival ----------------------------
(***************************************************************************)
(* Pool with a clock per request that starts when the request reaches the  *)
(* process, in the bus client's buffer, and not when Submit stamps it.     *)
(* A blocked Submit (queue_full wait) holds the callback goroutine, and    *)
(* what is buffered behind it grows old without the pool noticing.         *)
(***************************************************************************)
EXTENDS Pool

VARIABLE wait   \* time since the request arrived, answered requests excepted

InitArrival == Init /\ wait = [t \in Tasks |-> 0]

Arrived == {t \in Tasks \ (fresh \cup lost) : replies[t] = << >>}

\* The callback goroutine has nothing to do but wait.  Time passes only then,
\* so that what the run shows is not owed to a slow scheduler.
SubRests == Sub \in waiters \/ (pc[Sub] = "idle" /\ inbox = {})

NextArrival ==
    \/ /\ Tick /\ SubRests
       /\ wait' = [t \in Tasks |-> IF t \in Arrived THEN wait[t] + 1 ELSE wait[t]]
    \/ /\ Work
       /\ wait' = wait

SpecArrival == InitArrival /\ [][NextArrival]_<<vars, wait>>

\* A worker starts an evaluation only when the request has at least MinBudget
\* left before its deadline less the reserve, counted from its arrival
\* (Submit's stamp, budget).
TakenInTime ==
    [][\A w \in Workers :
          pc[w] = "budget" /\ pc'[w] = "eval"
             => deadline[cur[w]] - wait[cur[w]] - Reserve >= MinBudget]_<<vars, wait>>
=============================================================================
