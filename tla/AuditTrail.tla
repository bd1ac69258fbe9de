----------------------------- MODULE AuditTrail -----------------------------
(***************************************************************************)
(* What the audit sink promises: an event handed to it leaves at most      *)
(* once, in a batch of its own subject, after every older event of that    *)
(* subject that is still held; an event that leaves no other way is lost   *)
(* for good.  AuditSink implements this specification.                     *)
(***************************************************************************)
EXTENDS Naturals

CONSTANTS Events,      \* audit events
          SubjectOf    \* the subject each event is published on

VARIABLES waiting,   \* events held
          recorded,  \* number of events handed over so far
          ticket,    \* the place of each event among them, 0 before
          sent,      \* events published
          lost       \* events given up

vars == <<waiting, recorded, ticket, sent, lost>>

Init ==
    /\ waiting = {} /\ sent = {} /\ lost = {}
    /\ recorded = 0 /\ ticket = [e \in Events |-> 0]

\* A new event is held; the sink may give up others to make room.
Record(e) ==
    /\ ticket[e] = 0
    /\ recorded' = recorded + 1
    /\ ticket' = [ticket EXCEPT ![e] = recorded + 1]
    /\ \E gone \in SUBSET waiting :
          /\ waiting' = (waiting \ gone) \cup {e}
          /\ lost' = lost \cup gone
    /\ UNCHANGED sent

\* A batch: some of the events held for one subject, the oldest of them.
Batch(B) ==
    /\ B # {}
    /\ \A e \in B, f \in waiting : 
          SubjectOf[f] = SubjectOf[e] => f \in B \/ ticket[e] < ticket[f]
    /\ \A e, f \in B : SubjectOf[e] = SubjectOf[f]

Leave ==
    \E B \in SUBSET waiting :
       /\ Batch(B)
       /\ waiting' = waiting \ B
       /\ \/ sent' = sent \cup B /\ UNCHANGED lost
          \/ lost' = lost \cup B /\ UNCHANGED sent
       /\ UNCHANGED <<recorded, ticket>>

Next == Leave \/ \E e \in Events : Record(e)

Spec == Init /\ [][Next]_vars
=============================================================================
