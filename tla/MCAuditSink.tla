---------------------------- MODULE MCAuditSink -----------------------------
(* Instances of AuditSink for TLC: large and small events, a subject for    *)
(* each kind; a large one is big enough to fill the sink alone.             *)
EXTENDS AuditSink

CONSTANTS Large, Small   \* how many events of each kind there are

MCEvents == ({"large"} \X (1..Large)) \cup ({"small"} \X (1..Small))

MCSubjectOf == [e \in MCEvents |-> e[1]]

MCSize == [e \in MCEvents |-> IF e[1] = "large" THEN 3 ELSE 1]

\* FairSpec with the events of one kind, which differ in nothing but their
\* names, added in one order.  Only renamings of behaviours are lost, and
\* unlike SYMMETRY this is sound for liveness too.
KindsInOrder ==
    \A e, f \in MCEvents :
       e[1] = f[1] /\ e[2] < f[2] /\ ticket'[f] # 0 => ticket'[e] # 0

MCNext == Next /\ KindsInOrder

MCSpec == Init /\ [][MCNext]_vars /\ Fairness
=============================================================================
