------------------------------ MODULE Inspect ------------------------------
(***************************************************************************)
(* The inspection of a message (cmd/inspector/handler.go and frame.go):    *)
(* from the bus callback, through the loads from the buffer, to the reply. *)
(* The queue between the callback and the worker is module Pool; here a    *)
(* queued request may be taken up, or shed, at any moment.                 *)
(*                                                                         *)
(* Requests are handled concurrently.  A step of a request ends where the  *)
(* code waits for the buffer, so between two steps other requests move,    *)
(* generations of profiles are rolled out (Rollout) and objects of the     *)
(* buffer expire or change (Expire, Garble).                               *)
(***************************************************************************)
EXTENDS Decide

CONSTANTS Requests,   \* messages on the subject
          Messages,   \* what a message may say
          Snapshots,  \* generations: profile name -> profile
          Key         \* <node>:<rid> of each request

Keys == {Key[r] : r \in Requests}
Garbage == <<"garbage">>  \* what a damaged object of the buffer holds
Gone == <<"gone">>        \* a copy that was written and has expired

\* What Parse leaves of a message.
IsMessage(m) ==
    /\ m.kind \in {"malformed", "version", "release", "request", "response", "frame"}
    /\ m.inline \in DOMAIN SuffixOf \cup {"none"} /\ m.stored \in DOMAIN SuffixOf
    /\ IsList(m.prior) /\ IsList(m.captured)
    /\ {m.body.at, m.headers.at} \subseteq {"nil", "unavailable", "placed"}
    /\ m.body.digest \in {"none", "plain", "processed"}

ASSUME InspectAssumption ==
    /\ DOMAIN Key = Requests
    /\ \A m \in Messages : IsMessage(m)
    /\ \A s \in Snapshots : \A n \in DOMAIN s : IsProfile(s[n])

VARIABLES
    msg,     \* the messages
    wired,   \* REDIS_URL is set: there is a store to read from and to write to
    snap,    \* Store.Current()
    held,    \* the body objects of the buffer: key -> content
    hdrs,    \* the keys whose headers object is in the buffer
    out,     \* the copies written so far: key -> content (OutSuffix), or Gone
    pc,      \* where each request is
    prof,    \* the profile of each request under evaluation
    active,  \* its groups
    seen,    \* what Matches looks at
    applied, \* decide.Applied
    reply,   \* the reply that was sent
    event    \* the audit event that went with it

vars == <<msg, wired, snap, held, hdrs, out, pc, prof, active, seen, applied,
          reply, event>>

\* protocol.Parse and Config.Supports, as far as receive tells them apart.
Parse(r) == msg[r].kind # "malformed"
Supports(r) == msg[r].kind # "version"

-----------------------------------------------------------------------------
(* Replies: protocol.NewReply, ErrorReply, ShedReply, handler.plain.       *)

Bare(verdict, code) ==
    [verdict |-> verdict, code |-> code, groups |-> <<>>, headers |-> NoHeaders,
     named |-> FALSE, copy |-> <<>>]

plain(verdict, code) == Bare(verdict, code)
ErrorReply(code) == Bare("error", code)
NoReply == Bare("none", "")

FallbackReply(code) == Bare("error", code)

\* Mutant: the reply under construction is sent with the code of the failure.
failPerKeeps(p, code, did) ==
    IF p.mode = "observe" THEN plain("allow", code)
    ELSE [plain("deny", code) EXCEPT !.groups = did.groups, !.headers = did.headers]

failPer(p, code, did) ==
    IF p.mode = "observe" THEN plain("allow", code) ELSE plain("deny", code)

Rewrite(did) ==
    [plain("allow", "applied") EXCEPT !.groups = did.groups, !.headers = did.headers]

(* audit.Details.Engine: what the event says beside the verdict.           *)

NoDetails == [passive |-> FALSE, actions |-> <<>>, rows |-> <<>>, spent |-> FALSE,
              would |-> <<>>, did |-> <<>>, error |-> ""]

\* What inspect notes before it looks at any group.
Engine(r, p) ==
    [NoDetails EXCEPT !.passive = (p.mode = "observe"),
                      !.actions = EvaluatePrior(msg[r].prior, p).outcomes]

\* ... and once the groups have been applied.
EngineRows(r, did) ==
    [Engine(r, prof[r]) EXCEPT !.rows = did.rows, !.spent = did.spent]

NoEvent == [verdict |-> "none", engine |-> NoDetails]

\* Sink.Add and Build: nothing for a message that did not parse or names no
\* audit subject.
Build(r, re, det) ==
    IF Parse(r) /\ msg[r].audited THEN [verdict |-> re.verdict, engine |-> det] ELSE NoEvent

\* handler.send: the reply of r is published and the event handed to the sink,
\* and r's work is over.  A message without a reply subject gets neither.
send(r, re, det) ==
    IF msg[r].answerTo
    THEN /\ reply' = [reply EXCEPT ![r] = re]
         /\ event' = [event EXCEPT ![r] = Build(r, re, det)]
         /\ pc' = [pc EXCEPT ![r] = "sent"]
    ELSE pc' = [pc EXCEPT ![r] = "mute"] /\ UNCHANGED <<reply, event>>

-----------------------------------------------------------------------------
(* body.Loader.Load: the set of results a load may have.                   *)

Loaded == [fault |-> FALSE, available |-> TRUE, truncated |-> FALSE,
           has |-> FALSE, data |-> <<>>]
Fault == [Loaded EXCEPT !.fault = TRUE, !.available = FALSE]
Unavailable == [Loaded EXCEPT !.available = FALSE]
Read(loc, raw) ==
    [Loaded EXCEPT !.has = TRUE, !.data = raw, !.truncated = loc.truncated]

\* Mutant: the digest of the locator is not compared.
finishUnchecked(loc, raw, captured) == IF loc.enc THEN Fault ELSE Read(loc, raw)

\* No secret source is configured (bodyLoader), so an encrypted body faults.
finish(loc, raw, captured) ==
    IF \/ loc.enc
       \/ loc.digest = "processed" /\ raw # captured
       \/ loc.digest = "plain" /\ ~loc.truncated /\ raw # captured
    THEN Fault
    ELSE Read(loc, raw)

Load(loc, there, raw, captured) ==
    CASE loc.at = "nil" -> {Loaded}
      [] loc.at = "unavailable" -> {Unavailable}
      [] loc.at = "placed" ->
            IF wired /\ loc.driver = "redis" /\ there
            THEN {Fault, finish(loc, raw, captured)}
            ELSE {Fault}

LoadBody(r) ==
    LET k == Key[r]
    IN  Load(msg[r].body, k \in DOMAIN held,
             IF k \in DOMAIN held THEN held[k] ELSE <<>>, msg[r].captured)

\* The content types a load of the headers object may yield: "" when it
\* fails, is empty, is no array of pairs or has no content-type.
LoadType(r) ==
    {IF b.has THEN msg[r].stored ELSE "" :
        b \in Load(msg[r].headers, Key[r] \in hdrs, <<>>, <<>>)}

-----------------------------------------------------------------------------
NoProfile == [mode |-> "none", groups |-> <<>>, rules |-> {}]
NoSeen == [frame |-> FALSE, status |-> 0, ctype |-> "", direction |-> "", opcode |-> ""]

Init ==
    /\ msg \in [Requests -> Messages]
    /\ \A r, s \in Requests : Key[r] = Key[s] => msg[r].captured = msg[s].captured
    /\ wired \in BOOLEAN
    /\ snap \in Snapshots
    /\ held = [k \in Keys |-> msg[CHOOSE r \in Requests : Key[r] = k].captured]
    /\ hdrs = Keys
    /\ out = <<>>
    /\ pc = [r \in Requests |-> "wire"]
    /\ prof = [r \in Requests |-> NoProfile]
    /\ active = [r \in Requests |-> <<>>]
    /\ seen = [r \in Requests |-> NoSeen]
    /\ applied = [r \in Requests |-> Untouched(<<>>)]
    /\ reply = [r \in Requests |-> NoReply]
    /\ event = [r \in Requests |-> NoEvent]

given == <<msg, wired>>
buffer == <<held, hdrs, out>>
work == <<prof, active, seen, applied>>
answer == <<reply, event>>

\* handler.receive, the bus callback.
receive(r) ==
    /\ pc[r] = "wire"
    /\ CASE ~Parse(r) -> send(r, FallbackReply("malformed"), NoDetails)
         [] ~Supports(r) -> send(r, ErrorReply("version"), NoDetails)
         [] msg[r].kind = "release" -> /\ pc' = [pc EXCEPT ![r] = "ignored"]
                                       /\ UNCHANGED answer
         [] msg[r].kind = "request" -> send(r, ErrorReply("phase"), NoDetails)
         [] OTHER -> pc' = [pc EXCEPT ![r] = "queued"] /\ UNCHANGED answer
    /\ UNCHANGED <<given, snap, buffer, work>>

\* handler.evaluate with a shed reason: the pool gave the request up.
evaluateShed(r) ==
    /\ pc[r] = "queued"
    /\ send(r, ErrorReply("overload"), NoDetails)
    /\ UNCHANGED <<given, snap, buffer, work>>

needsType(groups) == \E i \in DOMAIN groups : groups[i].types # {}

\* The content-type among req.Response.Headers; "none" when it is not there.
inlineType(r, groups) ==
    IF needsType(groups) /\ msg[r].inline # "none" THEN msg[r].inline ELSE ""

Seen(r, ctype) ==
    [frame |-> msg[r].kind = "frame", status |-> msg[r].status, ctype |-> ctype,
     direction |-> msg[r].direction, opcode |-> msg[r].opcode]

\* handler.inspect up to its first load.
inspect(r) ==
    /\ pc[r] = "queued"
    /\ LET name == msg[r].profile
           p == snap[name]
           ask == EvaluatePrior(msg[r].prior, p)
           groups == ForPhase(Active(ask, p), msg[r].kind = "frame")
       IN  IF name \notin DOMAIN snap
           THEN send(r, ErrorReply("unknown_profile"), NoDetails) /\ UNCHANGED work
           ELSE /\ prof' = [prof EXCEPT ![r] = p]
                /\ UNCHANGED applied
                /\ IF p.mode = "off" \/ ask.skip \/ groups = <<>>
                   THEN /\ send(r, plain("allow", IF p.mode = "off" THEN "profile_off"
                                                  ELSE IF ask.skip THEN "skipped"
                                                  ELSE "noop"),
                                IF p.mode = "off" THEN NoDetails ELSE Engine(r, p))
                        /\ UNCHANGED <<active, seen>>
                   ELSE /\ active' = [active EXCEPT ![r] = groups]
                        /\ seen' = [seen EXCEPT ![r] = Seen(r, inlineType(r, groups))]
                        /\ pc' = [pc EXCEPT ![r] =
                                    IF needsType(groups) /\ msg[r].inline = "none"
                                    THEN "type" ELSE "body"]
                        /\ UNCHANGED answer
    /\ UNCHANGED <<given, snap, buffer>>

\* handler.contentType, when it has to ask the buffer.
contentType(r) ==
    /\ pc[r] = "type"
    /\ \E ctype \in LoadType(r) : seen' = [seen EXCEPT ![r].ctype = ctype]
    /\ pc' = [pc EXCEPT ![r] = "body"]
    /\ UNCHANGED <<given, snap, buffer, prof, active, applied, answer>>

WritesCopy(r) == pc' = [pc EXCEPT ![r] = "put"] /\ UNCHANGED answer

\* An observing profile is told what it would have applied.
observed(r, did) ==
    IF did.groups = <<>> THEN send(r, plain("allow", "noop"), EngineRows(r, did))
    ELSE send(r, plain("allow", "observe"), [EngineRows(r, did) EXCEPT !.would = did.groups])

noop(r, did) == send(r, plain("allow", "noop"), EngineRows(r, did))

rewritten(r, did, re) == send(r, re, [EngineRows(r, did) EXCEPT !.did = did.groups])

failed(r, did, code) ==
    send(r, failPer(prof[r], code, did), [EngineRows(r, did) EXCEPT !.error = code])

\* Mutant: an observing profile is looked at after the copy is written.
concludeLate(r, did, missing) ==
    IF did.groups = <<>> THEN noop(r, did)
    ELSE IF did.changed THEN WritesCopy(r)
    ELSE IF prof[r].mode = "observe" THEN observed(r, did) ELSE rewritten(r, did, Rewrite(did))

\* Mutant: a body that is not available counts as an empty one.
concludeOpen(r, did, missing) ==
    IF prof[r].mode = "observe" THEN observed(r, did)
    ELSE IF did.groups = <<>> THEN noop(r, did)
    ELSE IF did.changed THEN WritesCopy(r)
    ELSE rewritten(r, did, Rewrite(did))

\* What inspect does once the groups are applied, up to Put.
conclude(r, did, missing) ==
    IF missing /\ bodyWanted(active[r], seen[r]) THEN failed(r, did, "body_unavailable")
    ELSE IF prof[r].mode = "observe" THEN observed(r, did)
    ELSE IF did.groups = <<>> THEN noop(r, did)
    ELSE IF did.changed THEN WritesCopy(r)
    ELSE rewritten(r, did, Rewrite(did))

\* The same in inspectFrame: a frame that did not change is a noop, whatever
\* groups matched it.
concludeFrame(r, did, missing) ==
    IF missing /\ bodyWanted(active[r], seen[r]) THEN failed(r, did, "body_unavailable")
    ELSE IF prof[r].mode = "observe" THEN observed(r, did)
    ELSE IF did.groups = <<>> \/ ~did.changed THEN noop(r, did)
    ELSE WritesCopy(r)

\* decide.Apply or ApplyFrame on what was loaded.
Applied(r, b, missing) ==
    IF missing THEN apply(active[r], seen[r], FALSE, <<>>)
    ELSE apply(active[r], seen[r], b.has, b.data)

\* The load of a response body, if a group needs it, and what follows from it.
loadBody(r) ==
    /\ pc[r] = "body" /\ msg[r].kind = "response"
    /\ \E b \in IF groupsNeedBody(active[r]) THEN LoadBody(r) ELSE {Loaded} :
          IF b.fault
          THEN send(r, ErrorReply("store_unavailable"), Engine(r, prof[r])) /\ UNCHANGED applied
          ELSE LET missing == ~b.available \/ b.truncated
                   did == Applied(r, b, missing)
               IN  /\ applied' = [applied EXCEPT ![r] = did]
                   /\ conclude(r, did, missing)
    /\ UNCHANGED <<given, snap, buffer, prof, active, seen>>

\* The load of a frame, which every frame group needs.
inspectFrame(r) ==
    /\ pc[r] = "body" /\ msg[r].kind = "frame"
    /\ \E b \in LoadBody(r) :
          IF b.fault
          THEN send(r, ErrorReply("store_unavailable"), Engine(r, prof[r])) /\ UNCHANGED applied
          ELSE LET missing == ~b.available \/ b.truncated
                   did == Applied(r, b, missing)
               IN  /\ applied' = [applied EXCEPT ![r] = did]
                   /\ concludeFrame(r, did, missing)
    /\ UNCHANGED <<given, snap, buffer, prof, active, seen>>

\* writer.Put: done, failed, or failed for us but done all the same (the
\* answer came after the timeout).  Without a store there is no writer.
PutResults == IF wired THEN {"ok", "lost", "late"} ELSE {"no_writer"}

\* Mutant: the event says applied before Put is known to have worked.
putToldEarly(r) ==
    /\ pc[r] = "put"
    /\ \E res \in PutResults :
          /\ IF res = "ok"
             THEN rewritten(r, applied[r], [Rewrite(applied[r]) EXCEPT
                                              !.named = TRUE, !.copy = applied[r].body])
             ELSE rewritten(r, applied[r], failPer(prof[r], "store_error", applied[r]))
          /\ out' = IF res \in {"ok", "late"} THEN Put(out, Key[r], applied[r].body) ELSE out
    /\ UNCHANGED <<given, snap, held, hdrs, work>>

\* Mutant: the copy is named in the reply whatever Put returned.
putUnchecked(r) ==
    /\ pc[r] = "put"
    /\ \E res \in PutResults :
          /\ rewritten(r, applied[r], [Rewrite(applied[r]) EXCEPT
                                         !.named = TRUE, !.copy = applied[r].body])
          /\ out' = IF res \in {"ok", "late"} THEN Put(out, Key[r], applied[r].body) ELSE out
    /\ UNCHANGED <<given, snap, held, hdrs, work>>

\* The write of the copy and the reply that names it.
put(r) ==
    /\ pc[r] = "put"
    /\ \E res \in PutResults :
          /\ IF res = "ok"
             THEN rewritten(r, applied[r], [Rewrite(applied[r]) EXCEPT
                                              !.named = TRUE, !.copy = applied[r].body])
             ELSE failed(r, applied[r], "store_error")
          /\ out' = IF res \in {"ok", "late"} THEN Put(out, Key[r], applied[r].body) ELSE out
    /\ UNCHANGED <<given, snap, held, hdrs, work>>

Busy(r) == pc[r] \in {"wire", "queued", "type", "body", "put"}

\* recoverInto: the handler panicked; the copy may have been written.
recoverInto(r) ==
    /\ Busy(r)
    /\ IF msg[r].answerTo
       THEN /\ reply' = [reply EXCEPT ![r] = FallbackReply("internal_error")]
            /\ pc' = [pc EXCEPT ![r] = "sent"]
       ELSE pc' = [pc EXCEPT ![r] = "mute"] /\ UNCHANGED reply
    /\ \/ UNCHANGED out
       \/ pc[r] = "put" /\ wired /\ out' = Put(out, Key[r], applied[r].body)
    /\ UNCHANGED <<given, snap, held, hdrs, work, event>>

(* The health check (cmd/probe): its request, and what it wants to see.    *)

ProbeRequest ==
    LET nil == [at |-> "nil", driver |-> "", enc |-> FALSE, digest |-> "none",
                truncated |-> FALSE]
    IN  [kind |-> "response", profile |-> "_probe", prior |-> <<>>, status |-> 200,
         inline |-> "none", stored |-> "", direction |-> "", opcode |-> "",
         captured |-> <<>>, body |-> nil, headers |-> nil, answerTo |-> TRUE,
         audited |-> FALSE]

healthy(re) == re.verdict = "allow" /\ re.groups # <<>>

\* A generation is published (module Generations).
Rollout ==
    /\ snap' \in Snapshots \ {snap}
    /\ UNCHANGED <<given, buffer, pc, work, answer>>

\* An object of the buffer expires (a copy after OutTTL) or is evicted.
Expire(k) ==
    /\ \/ /\ held' = [x \in DOMAIN held \ {k} |-> held[x]]
          /\ UNCHANGED <<hdrs, out>>
       \/ /\ hdrs' = hdrs \ {k}
          /\ UNCHANGED <<held, out>>
       \/ /\ k \in DOMAIN out
          /\ out' = [out EXCEPT ![k] = Gone]
          /\ UNCHANGED <<held, hdrs>>
    /\ UNCHANGED <<given, snap, pc, work, answer>>

\* An object of the buffer is not what was captured.
Garble(k) ==
    /\ k \in DOMAIN held
    /\ held' = [held EXCEPT ![k] = Garbage]
    /\ UNCHANGED <<given, snap, hdrs, out, pc, work, answer>>

Step(r) ==
    \/ receive(r) \/ evaluateShed(r) \/ inspect(r)
    \/ contentType(r) \/ loadBody(r) \/ inspectFrame(r) \/ put(r)
    \/ recoverInto(r)

Next ==
    \/ \E r \in Requests : Step(r)
    \/ Rollout
    \/ \E k \in Keys : Expire(k) \/ Garble(k)

Spec == Init /\ [][Next]_vars

-----------------------------------------------------------------------------
(* Properties.                                                             *)

\* The state has its types; where a copy is written the request has a body
\* locator, so req.Store.Body.Key (handler.go:232) is not read through nil.
TypeOK ==
    /\ msg \in [Requests -> Messages] /\ wired \in BOOLEAN /\ snap \in Snapshots
    /\ DOMAIN held \subseteq Keys /\ hdrs \subseteq Keys /\ DOMAIN out \subseteq Keys
    /\ pc \in [Requests -> {"wire", "queued", "type", "body", "put", "sent", "mute", "ignored"}]
    /\ \A r \in Requests :
        /\ prof[r].mode \in {"none", "enforce", "observe", "off"}
        /\ seen[r].ctype \in DOMAIN SuffixOf
        /\ reply[r].verdict \in {"none", "allow", "deny", "error"}
        /\ reply[r].verdict = "none" <=> pc[r] # "sent"
        /\ pc[r] = "put" => msg[r].body.at = "placed"

Digested(r) == msg[r].body.digest # "none"
Sent(r, verdict) == pc[r] = "sent" /\ reply[r].verdict = verdict
Listed(r) == {g \in ToSet(active[r]) : g.name \in ToSet(reply[r].groups)}

\* An enforcing profile lets no response through for which the module named
\* a body and a matching group was left out because the body was not usable
\* (handler.go:198, frame.go:77).
NoneSkipped ==
    \A r \in Requests :
        Sent(r, "allow") /\ prof[r].mode = "enforce" /\ msg[r].body.at # "nil"
            => \A row \in ToSet(applied[r].rows) : row.skipped # "no_body"

\* A reply either carries the whole rewrite or nothing of it: no header
\* operation and no group name of a rewrite that was given up (handler.go:234).
AllOrNothing ==
    \A r \in Requests : pc[r] = "sent" =>
        IF reply[r].verdict = "allow" /\ reply[r].code = "applied"
        THEN /\ reply[r].groups # <<>>
             /\ reply[r].named <=> applied[r].changed
        ELSE /\ reply[r].groups = <<>> /\ reply[r].headers = NoHeaders
             /\ ~reply[r].named

\* The copy a reply names is the rewrite of what the module captured, even if
\* the object changed in the buffer, when the locator has a digest (body.go:103).
CopyOfCaptured ==
    \A r \in Requests : reply[r].named /\ Digested(r) =>
        reply[r].copy = apply(active[r], seen[r], TRUE, msg[r].captured).body

\* The object a reply names was written and holds what the reply says it holds,
\* until it expires (handler.go:240, 251).
CopyAsReported ==
    \A r \in Requests : reply[r].named =>
        Key[r] \in DOMAIN out /\ out[Key[r]] \in {reply[r].copy, Gone}

\* A request under an observing profile writes no copy, changes nothing and
\* is not denied, even when an enforcing generation is rolled out meanwhile.
ObserveChangesNothing ==
    \A r \in Requests : prof[r].mode = "observe" =>
        /\ Key[r] \notin DOMAIN out
        /\ reply[r].groups = <<>> /\ reply[r].verdict # "deny"

Asked(r, g, set) ==
    \E act \in ToSet(msg[r].prior) :
        /\ \E rule \in prof[r].rules : Accepts(rule, act)
        /\ act.do = "mutate" /\ act.scope = "request" /\ act.group = g.name
        /\ (act.set = "off") = (set = "off")

\* The groups under evaluation are the ones that the profile turns on by
\* default or an accepted neighbour turned on, less those an accepted
\* neighbour turned off, in whatever order the requests came (prior.go:48).
GroupsAsAsked ==
    \A r \in Requests : active[r] # <<>> =>
        \A g \in ToSet(prof[r].groups) :
            g \in ToSet(active[r]) <=>
                /\ g.frame = (msg[r].kind = "frame")
                /\ g.default \/ Asked(r, g, "on")
                /\ ~Asked(r, g, "off")

\* All the matches of a request together stay within the budget, and the
\* rows of the audit account for all of them (apply.go:54).
BudgetKept ==
    \A r \in Requests :
        /\ applied[r].budget >= 0
        /\ Matched(applied[r].rows) = MatchBudget - applied[r].budget

Unheard(r, act) ==
    /\ \E rule \in prof[r].rules : Accepts(rule, act)
    /\ act.do = "mutate" /\ act.scope = "request" /\ act.group \notin GroupNames(prof[r])

\* The audit event agrees with the reply: it says "applied" of exactly the
\* groups the reply carries, also when the write of the copy failed; an
\* observing profile's tells what would have been applied (README.md:124);
\* a request for a group nobody knows is told (README.md:54).  Only a message
\* that did not parse, one without a subject or a panic goes without one.
AuditTellsTruth ==
    \A r \in Requests : pc[r] = "sent" =>
        IF event[r] = NoEvent
        THEN ~Parse(r) \/ ~msg[r].audited \/ reply[r].code = "internal_error"
        ELSE LET e == event[r].engine
             IN  /\ e.did = reply[r].groups
                 /\ (e.would # <<>>) = (reply[r].code = "observe")
                 /\ e.would # <<>> => e.passive
                 /\ prof[r].mode # "off" =>
                       \A act \in ToSet(msg[r].prior) : Unheard(r, act) =>
                          [act |-> act, outcome |-> "unknown_group"] \in ToSet(e.actions)

\* A group only touches responses it selects: although the content type may
\* have to come from a headers object that cannot be read, no group is applied
\* to a response whose real type it does not name (handler.go:322).
OnlySelected ==
    \A r \in Requests : \A g \in Listed(r) : ~g.frame =>
        typeAllowed(g.types, IF msg[r].inline # "none" THEN msg[r].inline
                                                       ELSE msg[r].stored)

\* The health check passes whenever it is evaluated at all: without a store,
\* without a body and under every generation (README.md:127).
ProbePasses ==
    \A r \in Requests :
        pc[r] = "sent" /\ msg[r] = ProbeRequest
            /\ reply[r].code \notin {"overload", "internal_error"} => healthy(reply[r])
=============================================================================
