----------------------------- MODULE AuditSink ------------------------------
(***************************************************************************)
(* The audit sink (internal/audit/sink.go): senders append events under    *)
(* s.mu and wake the sink's goroutine when enough are pending; the         *)
(* goroutine takes them in batches and publishes one message per subject.  *)
(*                                                                         *)
(* A critical section of s.mu is one action, so is every Publish.  The     *)
(* wake channel holds one token.  A tick of the 50 ms timer that finds     *)
(* nothing pending changes nothing and is not an action.                   *)
(***************************************************************************)
EXTENDS Integers, FiniteSets, FiniteSetsExt

CONSTANTS Events,      \* audit events, each added once
          Adders,      \* goroutines that call Add
          SubjectOf,   \* the request's audit_subject
          Size,        \* len(body) + 2 of each event
          MaxItems,    \* maxItems
          MaxSize,     \* maxSize
          MaxPending   \* maxPending

ASSUME SinkAssumption ==
    /\ IsFiniteSet(Events)
    /\ Size \in [Events -> Nat \ {0}]
    /\ MaxItems \in Nat \ {0} /\ MaxPending \in Nat \ {0} /\ MaxSize \in Nat \ {0}

VARIABLES
    pending,   \* s.pending; its order is that of ticket
    size,      \* s.size
    recorded,  \* events appended so far
    ticket,    \* value of recorded when the event was appended, 0 before
    kicking,   \* adders that found the sink full and have not kicked it yet
    wake,      \* a token is in s.wake
    stop,      \* s.stop is closed
    loop,      \* where the sink's goroutine is
    taken,     \* the batch it has taken out and not published yet
    trimmed, failed, sent,  \* history: cut at the limit, publish failed, out
    early      \* history: events appended before stop was closed

store   == <<pending, size, recorded, ticket, trimmed, early>>
signal  == <<kicking, wake, stop>>
vars    == <<store, signal, loop, taken, failed, sent>>

-----------------------------------------------------------------------------
\* sizeOf.
SizeOf(S) == MapThenSumSet(LAMBDA e : Size[e], S)

\* The first n events of S.
Oldest(S, n) ==
    {e \in S : Cardinality({f \in S : ticket[f] < ticket[e]}) < n}

Full == Cardinality(pending) >= MaxItems \/ size >= MaxSize

\* Mutant: the cut keeps the front of the slice.
TrimKeepsOldest(S) ==
    {e \in S : Cardinality({f \in S : ticket'[f] < ticket'[e]}) < MaxPending}

\* What is left of S when the events over maxPending are cut from its front.
Trim(S) ==
    {e \in S : Cardinality({f \in S : ticket'[f] > ticket'[e]}) < MaxPending}

-----------------------------------------------------------------------------
(* Senders.                                                                *)

\* The critical section of Add: append, cut to the limit, look whether the
\* sink is full.
Add(a, e) ==
    /\ a \notin kicking
    /\ ticket[e] = 0
    /\ recorded' = recorded + 1
    /\ ticket' = [ticket EXCEPT ![e] = recorded']
    /\ LET all == pending \cup {e}
       IN  /\ pending' = Trim(all)
           /\ trimmed' = trimmed \cup (all \ Trim(all))
           /\ size' = IF Cardinality(all) > MaxPending THEN SizeOf(pending')
                                                       ELSE size + Size[e]
    /\ kicking' = IF Full' THEN kicking \cup {a} ELSE kicking
    /\ early' = IF stop THEN early ELSE early \cup {e}
    /\ UNCHANGED <<wake, stop, loop, taken, failed, sent>>

\* Mutant: a wake channel without a buffer: nobody hears the kick unless the
\* goroutine is waiting for it.
KickUnbuffered(a) ==
    /\ a \in kicking
    /\ kicking' = kicking \ {a}
    /\ wake' = (wake \/ loop = "select")
    /\ UNCHANGED <<store, stop, loop, taken, failed, sent>>

\* kick, after Add has left the critical section.
Kick(a) ==
    /\ a \in kicking
    /\ kicking' = kicking \ {a}
    /\ wake' = TRUE
    /\ UNCHANGED <<store, stop, loop, taken, failed, sent>>

\* Close; it returns in a state with loop = "done".
Close ==
    /\ ~stop
    /\ stop' = TRUE
    /\ UNCHANGED <<store, kicking, wake, loop, taken, failed, sent>>

-----------------------------------------------------------------------------
(* The goroutine.  "back": on its way to the select; "flush": in flush;    *)
(* "drain": in the flush that follows stop.                                *)

Select ==
    /\ loop = "back"
    /\ loop' = "select"
    /\ UNCHANGED <<store, signal, taken, failed, sent>>

SelectWake ==
    /\ loop = "select"
    /\ wake
    /\ wake' = FALSE
    /\ loop' = "flush"
    /\ UNCHANGED <<store, kicking, stop, taken, failed, sent>>

\* Mutant: the ticker flushes only a full sink.
SelectTickFull ==
    /\ loop = "select"
    /\ Full
    /\ loop' = "flush"
    /\ UNCHANGED <<store, signal, taken, failed, sent>>

SelectTick ==
    /\ loop = "select"
    /\ pending # {}
    /\ loop' = "flush"
    /\ UNCHANGED <<store, signal, taken, failed, sent>>

\* Mutant: stop returns at once.
SelectStopAtOnce ==
    /\ loop = "select"
    /\ stop
    /\ loop' = "done"
    /\ UNCHANGED <<store, signal, taken, failed, sent>>

\* Mutant: the return after the last flush is missing.
SelectStopStays ==
    /\ loop = "select"
    /\ stop
    /\ loop' = "flush"
    /\ UNCHANGED <<store, signal, taken, failed, sent>>

SelectStop ==
    /\ loop = "select"
    /\ stop
    /\ loop' = "drain"
    /\ UNCHANGED <<store, signal, taken, failed, sent>>

Flushing == loop \in {"flush", "drain"}

\* Mutant: the batch is copied and stays pending.
TakeCopies ==
    /\ Flushing /\ taken = {} /\ pending # {}
    /\ taken' = Oldest(pending, MaxItems)
    /\ UNCHANGED <<store, signal, loop, failed, sent>>

\* Mutant: s.size is not computed again.
TakeKeepsSize ==
    /\ Flushing /\ taken = {} /\ pending # {}
    /\ taken' = Oldest(pending, MaxItems)
    /\ pending' = pending \ taken'
    /\ UNCHANGED <<signal, size, recorded, ticket, trimmed, early, loop, failed, sent>>

\* The critical section of flush: the oldest maxItems events are taken.
Take ==
    /\ Flushing /\ taken = {} /\ pending # {}
    /\ taken' = Oldest(pending, MaxItems)
    /\ pending' = pending \ taken'
    /\ size' = SizeOf(pending')
    /\ UNCHANGED <<signal, recorded, ticket, trimmed, early, loop, failed, sent>>

\* The critical section of flush when it finds nothing: flush returns.
FlushDone ==
    /\ Flushing /\ taken = {} /\ pending = {}
    /\ loop' = IF loop = "drain" THEN "done" ELSE "back"
    /\ UNCHANGED <<store, signal, taken, failed, sent>>

\* groupBySubject: the next group is that of the oldest event left.
NextGroup ==
    LET first == CHOOSE e \in taken : Oldest(taken, 1) = {e}
    IN  {e \in taken : SubjectOf[e] = SubjectOf[first]}

\* publish and send: one message per subject.  A failed Publish is logged and
\* the group is gone.
Send ==
    /\ taken # {}
    /\ taken' = taken \ NextGroup
    /\ \/ sent' = sent \cup NextGroup /\ UNCHANGED failed
       \/ failed' = failed \cup NextGroup /\ UNCHANGED sent
    /\ UNCHANGED <<store, signal, loop>>

Loop == Select \/ SelectWake \/ SelectTick \/ SelectStop
           \/ Take \/ FlushDone \/ Send

-----------------------------------------------------------------------------
\* NewSink.
Init ==
    /\ pending = {} /\ size = 0 /\ recorded = 0
    /\ ticket = [e \in Events |-> 0]
    /\ kicking = {} /\ wake = FALSE /\ stop = FALSE
    /\ loop = "back" /\ taken = {}
    /\ trimmed = {} /\ failed = {} /\ sent = {} /\ early = {}

Next ==
    \/ \E a \in Adders, e \in Events : Add(a, e)
    \/ \E a \in Adders : Kick(a)
    \/ Close
    \/ Loop

Spec == Init /\ [][Next]_vars

(* The goroutine is scheduled while it can run; the ticker keeps ticking.  *)
(* The senders need not come back, and nobody need call Close.             *)
Fairness == WF_vars(Loop)

FairSpec == Spec /\ Fairness

-----------------------------------------------------------------------------
(* Properties.                                                             *)

\* The variables have their types, and s.size is the size of what is pending
\* although Add and flush maintain it in two ways.
TypeOK ==
    /\ pending \subseteq Events /\ taken \subseteq Events
    /\ size = SizeOf(pending)
    /\ recorded \in Nat /\ ticket \in [Events -> Nat]
    /\ kicking \subseteq Adders /\ wake \in BOOLEAN /\ stop \in BOOLEAN
    /\ loop \in {"back", "select", "flush", "drain", "done"}
    /\ trimmed \subseteq Events /\ failed \subseteq Events
    /\ sent \subseteq Events /\ early \subseteq Events

\* Reaching maxItems or maxSize gets the sink flushed without waiting for the
\* ticker, however Add, kick and the goroutine interleave: once the senders
\* have kicked, a full sink has a token in the wake channel or is being
\* flushed (until it has stopped).
FullIsFlushed ==
    (Cardinality(pending) >= MaxItems \/ SizeOf(pending) >= MaxSize)
       => kicking # {} \/ wake \/ Flushing \/ loop = "done"

\* At the limit the oldest pending events go and the newest stay (Add cuts the
\* front while a flush may hold still older ones).
KeepsNewest ==
    /\ Cardinality(pending) <= MaxPending
    /\ \A e \in trimmed, f \in pending : ticket[e] < ticket[f]

\* When Close has returned, every event that was added before it is out of the
\* sink's hands, whatever flush the goroutine was in when stop was closed.
NoneLeftBehind == loop = "done" => early \cap (pending \cup taken) = {}

\* The sink implements the audit trail: at most once, one subject per message,
\* in order per subject.
Trail == INSTANCE AuditTrail
           WITH waiting <- pending \cup taken, lost <- trimmed \cup failed

KeepsTrail == Trail!Spec

\* Every event added before Close leaves the sink eventually, whether or not
\* another event or Close ever follows.
EventsLeave == \A e \in Events : e \in early ~> e \notin pending \cup taken
=============================================================================
