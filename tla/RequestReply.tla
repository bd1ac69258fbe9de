---------------------------- MODULE RequestReply ----------------------------
(***************************************************************************)
(* What the inspector promises the module that calls it, and nothing else: *)
(* a request that the bus client handed over is answered once, with one of *)
(* the codes; a request the client's buffer had no room for is dropped     *)
(* without an answer.  Pool implements this specification.                 *)
(***************************************************************************)
EXTENDS Sequences

CONSTANTS Tasks,   \* the requests
          Codes    \* the answers a request can get

VARIABLES outstanding,   \* requests handed over and not answered yet
          lost,          \* requests the client buffer dropped
          replies        \* every answer published for each request

vars == <<outstanding, lost, replies>>

Fresh == {t \in Tasks \ (outstanding \cup lost) : replies[t] = << >>}

Init ==
    /\ outstanding = {}
    /\ lost = {}
    /\ replies = [t \in Tasks |-> << >>]

Ask(t) ==
    /\ t \in Fresh
    /\ outstanding' = outstanding \cup {t}
    /\ UNCHANGED <<lost, replies>>

Drop(t) ==
    /\ t \in Fresh
    /\ lost' = lost \cup {t}
    /\ UNCHANGED <<outstanding, replies>>

Answer(t, c) ==
    /\ t \in outstanding
    /\ outstanding' = outstanding \ {t}
    /\ replies' = [replies EXCEPT ![t] = Append(@, c)]
    /\ UNCHANGED lost

Next ==
    \E t \in Tasks : Ask(t) \/ Drop(t) \/ \E c \in Codes : Answer(t, c)

Spec == Init /\ [][Next]_vars

Fairness == \A t \in Tasks : WF_vars(\E c \in Codes : Answer(t, c))

FairSpec == Spec /\ Fairness
=============================================================================
