--------------------------- MODULE InspectProofs ---------------------------
(***************************************************************************)
(* The properties of an inspection, for every set of requests, messages,   *)
(* profiles and rollouts.                                                  *)
(*                                                                         *)
(* The invariant says of each request by itself how its place in the       *)
(* handler, the work done for it and what was sent for it fit together     *)
(* (Fit).  It names the request's own part of the state only, so that a    *)
(* step of another request cannot disturb it.                              *)
(***************************************************************************)
EXTENDS Inspect, DecideProofs, TLAPS

\* The groups inspect takes from a profile.
Chosen(m, p) == ForPhase(Active(EvaluatePrior(m.prior, p), p), m.kind = "frame")

SeenAs(m, ctype) ==
    [frame |-> m.kind = "frame", status |-> m.status, ctype |-> ctype,
     direction |-> m.direction, opcode |-> m.opcode]

\* The content type that was found: that of the message, one from the buffer,
\* or none.
TypeSeen(m, a, ctype) ==
    /\ ctype \in {m.inline, m.stored, ""} /\ ctype \in DOMAIN SuffixOf
    /\ needsType(a) /\ m.inline # "none" => ctype = m.inline
    /\ m.inline = "none" => ctype \in {m.stored, ""}

\* p is what some generation has under the name the message gives.
From(m, p) == \E s \in Snapshots : m.profile \in DOMAIN s /\ p = s[m.profile]

\* The profile, the groups and the look of a request under evaluation.
Picked(m, p, a, s) ==
    /\ m.kind \in {"response", "frame"}
    /\ From(m, p) /\ IsProfile(p) /\ p.mode \in {"enforce", "observe"}
    /\ a = Chosen(m, p)
    /\ s = SeenAs(m, s.ctype) /\ TypeSeen(m, a, s.ctype)

\* d is what the groups do to the body that was captured, if it has a digest;
\* and no group that wanted a body went without, unless there was none.
Clean(m, a, s, d) ==
    \E has \in BOOLEAN : \E data :
        /\ d = apply(a, s, has, data)
        /\ has => m.body.at = "placed" /\ (m.body.digest # "none" => data = m.captured)
        /\ ~has => m.body.at = "nil" \/ ~bodyWanted(a, s)

\* The reply that carries a rewrite.
Whole(d) ==
    [verdict |-> "allow", code |-> "applied", groups |-> d.groups, headers |-> d.headers,
     named |-> d.changed, copy |-> IF d.changed THEN d.body ELSE <<>>]

\* What a reply says follows from what was done.
Answer(m, p, a, s, d, re) ==
    /\ re.verdict \in {"allow", "deny", "error"}
    /\ \/ re = Bare(re.verdict, re.code) /\ re.code # "applied"
       \/ re = Whole(d) /\ p.mode = "enforce" /\ d.groups # <<>> /\ a # <<>>
    /\ re.verdict = "deny" => p.mode # "observe"
    /\ re.verdict = "allow" /\ p.mode = "enforce" /\ a # <<>> => Clean(m, a, s, d)

\* What an event says follows from the reply and the profile.
Told(m, p, re, e) ==
    /\ e.verdict = re.verdict
    /\ e.engine.did = re.groups
    /\ (e.engine.would # <<>>) <=> (re.code = "observe")
    /\ e.engine.would # <<>> => e.engine.passive = TRUE
    /\ \/ p = NoProfile \/ p.mode = "off"
       \/ e.engine.actions = EvaluatePrior(m.prior, p).outcomes

Noted(m, p, re, e) ==
    \/ e = NoEvent /\ (m.kind = "malformed" \/ ~m.audited \/ re.code = "internal_error")
    \/ Told(m, p, re, e)

Places == {"wire", "queued", "type", "body", "put", "sent", "mute", "ignored"}

\* The work of a request fits its place in the handler.
Working(m, c, p, a, s, d) ==
    /\ \/ a = <<>> /\ s = NoSeen /\ d = Untouched(<<>>) /\ (p = NoProfile \/ IsProfile(p))
       \/ a # <<>> /\ Picked(m, p, a, s)
    /\ c \in {"wire", "queued"} => p = NoProfile /\ a = <<>>
    /\ c = "queued" => m.kind \in {"response", "frame"}
    /\ c \in {"type", "body", "put"} => a # <<>>
    /\ c = "type" => m.inline = "none"
    /\ d = Untouched(<<>>) \/ \E has, data : IsList(data) /\ d = apply(a, s, has, data)
    /\ c \in {"wire", "queued", "type", "body"} => d = Untouched(<<>>)
    /\ c = "put" => p.mode = "enforce" /\ d.groups # <<>> /\ d.changed = TRUE
                      /\ Clean(m, a, s, d)

Answered(m, c, p, a, s, d, re, e) ==
    IF c = "sent" THEN Answer(m, p, a, s, d, re) /\ Noted(m, p, re, e)
                  ELSE re = NoReply /\ e = NoEvent

Fit(r) ==
    /\ pc[r] \in Places
    /\ Working(msg[r], pc[r], prof[r], active[r], seen[r], applied[r])
    /\ Answered(msg[r], pc[r], prof[r], active[r], seen[r], applied[r], reply[r], event[r])

Given ==
    /\ msg \in [Requests -> Messages] /\ wired \in BOOLEAN /\ snap \in Snapshots
    /\ DOMAIN held \subseteq Keys /\ hdrs \subseteq Keys /\ DOMAIN out \subseteq Keys
    /\ \A k \in DOMAIN held : IsList(held[k])
    /\ pc \in [Requests -> Places]
    /\ DOMAIN prof = Requests /\ DOMAIN active = Requests /\ DOMAIN seen = Requests
    /\ DOMAIN applied = Requests /\ DOMAIN reply = Requests /\ DOMAIN event = Requests

InspectInv == Given /\ \A r \in Requests : Fit(r)

-----------------------------------------------------------------------------
(* The steps the handler is made of.                                       *)

\* What belongs to request r is left alone.
Alone(r) ==
    /\ msg'[r] = msg[r] /\ pc'[r] = pc[r] /\ prof'[r] = prof[r] /\ active'[r] = active[r]
    /\ seen'[r] = seen[r] /\ applied'[r] = applied[r] /\ reply'[r] = reply[r]
    /\ event'[r] = event[r]

\* What is left alone keeps its fit.
LEMMA AloneFits ==
    ASSUME NEW r, Fit(r), Alone(r)
    PROVE  Fit(r)'
  BY DEF Fit, Alone

\* handler.send.
LEMMA SendOne ==
    ASSUME Given, NEW r \in Requests, NEW re, NEW det, send(r, re, det)
    PROVE  /\ \A q \in Requests \ {r} :
                 pc'[q] = pc[q] /\ reply'[q] = reply[q] /\ event'[q] = event[q]
           /\ \/ /\ pc'[r] = "sent" /\ reply'[r] = re
                 /\ event'[r] = Build(r, re, det)
              \/ pc'[r] = "mute" /\ reply'[r] = reply[r] /\ event'[r] = event[r]
           /\ pc' \in [Requests -> Places] /\ DOMAIN reply' = Requests
           /\ DOMAIN event' = Requests
<1>1. CASE msg[r].answerTo
  BY <1>1 DEF send, Given, Places
<1>2. CASE ~msg[r].answerTo
  BY <1>2 DEF send, Given, Places
<1> QED
  BY <1>1, <1>2

\* A request that is answered fits when its reply and its event do.
LEMMA SendFits ==
    ASSUME Given, NEW r \in Requests, Fit(r), pc[r] # "sent", UNCHANGED msg,
           NEW re, NEW det, send(r, re, det),
           Working(msg[r], "sent", prof'[r], active'[r], seen'[r], applied'[r]),
           Answer(msg[r], prof'[r], active'[r], seen'[r], applied'[r], re),
           Told(msg[r], prof'[r], re, [verdict |-> re.verdict, engine |-> det])
    PROVE  Fit(r)'
<1>1. CASE /\ pc'[r] = "sent" /\ reply'[r] = re
           /\ event'[r] = Build(r, re, det)
  <2>1. Noted(msg[r], prof'[r], re, Build(r, re, det))
    BY DEF Noted, Build, Parse
  <2> QED
    BY <1>1, <2>1 DEF Fit, Answered, Places
<1>2. CASE pc'[r] = "mute" /\ reply'[r] = reply[r] /\ event'[r] = event[r]
  <2>1. reply[r] = NoReply /\ event[r] = NoEvent
    BY DEF Fit, Answered
  <2>2. Working(msg[r], "mute", prof'[r], active'[r], seen'[r], applied'[r])
    BY DEF Working
  <2> QED
    BY <1>2, <2>1, <2>2 DEF Fit, Answered, Places
<1> QED
  BY <1>1, <1>2, SendOne

\* A request keeps fitting when it moves on to c without being answered.
LEMMA MoveFits ==
    ASSUME NEW r, Fit(r), pc[r] # "sent", UNCHANGED msg,
           NEW c \in Places, pc'[r] = c, c # "sent",
           reply'[r] = reply[r], event'[r] = event[r],
           Working(msg[r], c, prof'[r], active'[r], seen'[r], applied'[r])
    PROVE  Fit(r)'
<1>1. reply[r] = NoReply /\ event[r] = NoEvent
  BY DEF Fit, Answered
<1> QED
  BY <1>1 DEF Fit, Answered

-----------------------------------------------------------------------------
(* What is said of a request before any group is looked at.                *)

\* A reply without a rewrite, with an event that claims none.
LEMMA BareAnswer ==
    ASSUME NEW m, NEW p, NEW a, NEW s, NEW d, NEW code, code \notin {"applied", "observe"},
           NEW verdict \in {"allow", "error"}, NEW det,
           verdict = "allow" => a = <<>>,
           det.did = <<>>, det.would = <<>>,
           p = NoProfile \/ p.mode = "off" \/ det.actions = EvaluatePrior(m.prior, p).outcomes
    PROVE  LET re == Bare(verdict, code)
           IN  /\ Answer(m, p, a, s, d, re)
               /\ Told(m, p, re, [verdict |-> re.verdict, engine |-> det])
<1> DEFINE re == Bare(verdict, code)
<1>1. re.verdict = verdict /\ re.code = code /\ re.groups = <<>>
  BY DEF Bare
<1>2. Answer(m, p, a, s, d, re)
  BY <1>1 DEF Answer
<1>3. Told(m, p, re, [verdict |-> re.verdict, engine |-> det])
  BY <1>1 DEF Told
<1> QED
  BY <1>2, <1>3

\* An event without details claims nothing.
LEMMA NothingTold == NoDetails.did = <<>> /\ NoDetails.would = <<>>
  BY DEF NoDetails

IsDetails(e) ==
    e = [passive |-> e.passive, actions |-> e.actions, rows |-> e.rows, spent |-> e.spent,
         would |-> e.would, did |-> e.did, error |-> e.error]

\* What Engine notes.
LEMMA EngineTold ==
    ASSUME NEW r, NEW p
    PROVE  LET det == Engine(r, p)
           IN  /\ det.did = <<>> /\ det.would = <<>>
               /\ det.actions = EvaluatePrior(msg[r].prior, p).outcomes
               /\ p.mode = "observe" => det.passive = TRUE
               /\ IsDetails(det)
<1> DEFINE b == p.mode = "observe"
           l == EvaluatePrior(msg[r].prior, p).outcomes
           det == Engine(r, p)
<1>1. p.mode = "observe" => b = TRUE
  OBVIOUS
<1>2. det = [NoDetails EXCEPT !.passive = b, !.actions = l]
  BY DEF Engine
<1> HIDE DEF b, l, det
<1>3. det = [passive |-> b, actions |-> l, rows |-> <<>>, spent |-> FALSE,
             would |-> <<>>, did |-> <<>>, error |-> ""]
  BY <1>2 DEF NoDetails
<1>4. /\ det.did = <<>> /\ det.would = <<>> /\ det.actions = l /\ det.passive = b
      /\ IsDetails(det)
  BY <1>3 DEF IsDetails
<1> QED
  BY <1>1, <1>4 DEF l, det

-----------------------------------------------------------------------------
(* The actions of a request.                                               *)

\* After a step of r the state is well-formed, r fits, and the others were
\* left alone.
Keeps(r) == Given' /\ Fit(r)' /\ \A q \in Requests \ {r} : Alone(q)

\* A refusal: the work of the request has not begun.
LEMMA Refuses ==
    ASSUME InspectInv, NEW r \in Requests, pc[r] \in {"wire", "queued"}, NEW code,
           code \notin {"applied", "observe"}, send(r, Bare("error", code), NoDetails),
           UNCHANGED <<given, snap, buffer, work>>
    PROVE  Keeps(r)
<1> DEFINE re == Bare("error", code)
<1>1. Given /\ Fit(r)
  BY DEF InspectInv
<1>2. /\ Working(msg[r], pc[r], prof[r], active[r], seen[r], applied[r])
      /\ prof[r] = NoProfile /\ active[r] = <<>>
  BY <1>1 DEF Fit, Working
<1>3. Working(msg[r], "sent", prof[r], active[r], seen[r], applied[r])
  BY <1>2 DEF Working
<1>4. /\ Answer(msg[r], prof[r], active[r], seen[r], applied[r], re)
      /\ Told(msg[r], prof[r], re, [verdict |-> re.verdict, engine |-> NoDetails])
  BY <1>2, NothingTold, BareAnswer
<1> HIDE DEF re
<1>5. Fit(r)'
  BY <1>1, <1>3, <1>4, SendFits DEF re, given, work
<1>6. \A q \in Requests \ {r} : Alone(q)
  BY <1>1, SendOne DEF Alone, given, work
<1>7. Given'
  <2>1. /\ pc' \in [Requests -> Places] /\ DOMAIN reply' = Requests
        /\ DOMAIN event' = Requests
    BY <1>1, SendOne
  <2> QED
    BY <1>1, <2>1 DEF Given, given, buffer, work, Keys
<1> QED
  BY <1>5, <1>6, <1>7 DEF Keeps

\* handler.receive keeps the fit of its request.
LEMMA Receives ==
    ASSUME InspectInv, NEW r \in Requests, receive(r)
    PROVE  Keeps(r)
<1>0. /\ pc[r] = "wire" /\ UNCHANGED <<given, snap, buffer, work>> /\ Given /\ Fit(r)
      /\ msg[r].kind \in {"malformed", "version", "release", "request", "response", "frame"}
  BY InspectAssumption DEF receive, InspectInv, Given, IsMessage
<1>1. ASSUME NEW code \in {"malformed", "version", "phase"},
             send(r, Bare("error", code), NoDetails)
      PROVE  Keeps(r)
  BY <1>0, <1>1, Refuses
<1>2. ASSUME NEW c \in {"ignored", "queued"}, pc' = [pc EXCEPT ![r] = c], UNCHANGED answer,
             c = "queued" => msg[r].kind \in {"response", "frame"}
      PROVE  Keeps(r)
  <2>1. Working(msg[r], c, prof[r], active[r], seen[r], applied[r])
    BY <1>0, <1>2 DEF Fit, Working
  <2>2. pc'[r] = c /\ c \in Places /\ c # "sent" /\ \A q \in Requests \ {r} : pc'[q] = pc[q]
    BY <1>0, <1>2 DEF Given, Places
  <2>3. Fit(r)'
    BY <1>0, <1>2, <2>1, <2>2, MoveFits DEF answer, given, work
  <2>4. Given'
    BY <1>0, <1>2 DEF Given, given, buffer, work, answer, Places, Keys
  <2> QED
    BY <1>0, <1>2, <2>2, <2>3, <2>4 DEF Keeps, Alone, given, work, answer
<1>3. CASE ~Parse(r)
  <2>1. send(r, Bare("error", "malformed"), NoDetails)
    BY <1>3 DEF receive, FallbackReply, Parse, Supports
  <2> QED
    BY <1>1, <2>1
<1>4. CASE Parse(r) /\ ~Supports(r)
  <2>1. send(r, Bare("error", "version"), NoDetails)
    BY <1>4 DEF receive, ErrorReply, Parse, Supports
  <2> QED
    BY <1>1, <2>1
<1>5. CASE Parse(r) /\ Supports(r) /\ msg[r].kind = "release"
  <2>1. pc' = [pc EXCEPT ![r] = "ignored"] /\ UNCHANGED answer
    BY <1>5 DEF receive, Parse, Supports
  <2> QED
    BY <1>2, <2>1
<1>6. CASE Parse(r) /\ Supports(r) /\ msg[r].kind = "request"
  <2>1. send(r, Bare("error", "phase"), NoDetails)
    BY <1>6 DEF receive, ErrorReply, Parse, Supports
  <2> QED
    BY <1>1, <2>1
<1>7. CASE Parse(r) /\ Supports(r) /\ msg[r].kind \notin {"release", "request"}
  BY <1>0, <1>2, <1>7 DEF receive, Parse, Supports
<1> QED
  BY <1>3, <1>4, <1>5, <1>6, <1>7

\* evaluate with a shed reason.
LEMMA Sheds ==
    ASSUME InspectInv, NEW r \in Requests, evaluateShed(r)
    PROVE  Keeps(r)
  BY Refuses DEF evaluateShed, ErrorReply

\* handler.inspect: refused, passed at once, or the groups are chosen.
LEMMA Inspects ==
    ASSUME InspectInv, NEW r \in Requests, inspect(r)
    PROVE  Keeps(r)
<1> DEFINE name == msg[r].profile
           p == snap[name]
           ask == EvaluatePrior(msg[r].prior, p)
           groups == ForPhase(Active(ask, p), msg[r].kind = "frame")
<1>0. /\ pc[r] = "queued" /\ UNCHANGED <<given, snap, buffer>> /\ Given /\ Fit(r)
      /\ IsMessage(msg[r])
  BY InspectAssumption DEF inspect, InspectInv, Given
<1>1. /\ prof[r] = NoProfile /\ active[r] = <<>> /\ seen[r] = NoSeen
      /\ applied[r] = Untouched(<<>>) /\ msg[r].kind \in {"response", "frame"}
  BY <1>0 DEF Fit, Working, Picked
<1>2. CASE name \notin DOMAIN snap
  <2>1. send(r, Bare("error", "unknown_profile"), NoDetails) /\ UNCHANGED work
    BY <1>2 DEF inspect, ErrorReply
  <2> QED
    BY <1>0, <2>1, Refuses
<1>3. ASSUME name \in DOMAIN snap PROVE From(msg[r], p) /\ IsProfile(p)
  BY <1>0, <1>3, InspectAssumption DEF Given, From
<1>4. CASE name \in DOMAIN snap /\ (p.mode = "off" \/ ask.skip \/ groups = <<>>)
  <2> DEFINE code == IF p.mode = "off" THEN "profile_off"
                     ELSE IF ask.skip THEN "skipped" ELSE "noop"
             det == IF p.mode = "off" THEN NoDetails ELSE Engine(r, p)
             re == Bare("allow", code)
  <2>1. /\ send(r, re, det) /\ prof' = [prof EXCEPT ![r] = p]
        /\ UNCHANGED <<applied, active, seen>>
    BY <1>4 DEF inspect, plain
  <2>2. /\ prof'[r] = p /\ DOMAIN prof' = Requests
        /\ \A q \in Requests \ {r} : prof'[q] = prof[q]
    BY <1>0, <2>1 DEF Given
  <2>3. code \notin {"applied", "observe"}
    OBVIOUS
  <2>4. /\ det.did = <<>> /\ det.would = <<>>
        /\ p.mode = "off" \/ det.actions = EvaluatePrior(msg[r].prior, p).outcomes
    <3>1. CASE p.mode = "off"
      BY <3>1, NothingTold
    <3>2. CASE p.mode # "off"
      BY <3>2, EngineTold
    <3> QED
      BY <3>1, <3>2
  <2> HIDE DEF code, det, p
  <2>5. /\ Answer(msg[r], p, active[r], seen[r], applied[r], re)
        /\ Told(msg[r], p, re, [verdict |-> re.verdict, engine |-> det])
    BY <1>1, <2>3, <2>4, BareAnswer
  <2> HIDE DEF re
  <2>6. Working(msg[r], "sent", p, active[r], seen[r], applied[r])
    BY <1>1, <1>3, <1>4 DEF Working
  <2>7. Fit(r)'
    BY <1>0, <2>1, <2>2, <2>5, <2>6, SendFits DEF given
  <2>8. \A q \in Requests \ {r} : Alone(q)
    BY <1>0, <2>1, <2>2, SendOne DEF Alone, given
  <2>9. Given'
    <3>1. /\ pc' \in [Requests -> Places] /\ DOMAIN reply' = Requests
          /\ DOMAIN event' = Requests
      BY <1>0, <2>1, SendOne
    <3> QED
      BY <1>0, <2>1, <2>2, <3>1 DEF Given, given, buffer, Keys
  <2> QED
    BY <2>7, <2>8, <2>9 DEF Keeps
<1>5. CASE name \in DOMAIN snap /\ ~(p.mode = "off" \/ ask.skip \/ groups = <<>>)
  <2> DEFINE c == IF needsType(groups) /\ msg[r].inline = "none" THEN "type" ELSE "body"
             ct == inlineType(r, groups)
  <2>1. /\ prof' = [prof EXCEPT ![r] = p] /\ UNCHANGED applied
        /\ active' = [active EXCEPT ![r] = groups]
        /\ seen' = [seen EXCEPT ![r] = Seen(r, ct)]
        /\ pc' = [pc EXCEPT ![r] = c] /\ UNCHANGED answer
    BY <1>5 DEF inspect
  <2>2. p.mode \in {"enforce", "observe"} /\ groups # <<>> /\ groups = Chosen(msg[r], p)
    BY <1>3, <1>5 DEF IsProfile, Chosen
  <2>3. Seen(r, ct) = SeenAs(msg[r], ct) /\ SeenAs(msg[r], ct).ctype = ct
    BY DEF Seen, SeenAs
  <2>4. TypeSeen(msg[r], groups, ct)
    BY <1>0, DecideAssumption DEF TypeSeen, inlineType, IsMessage
  <2>5. c \in {"type", "body"} /\ (c = "type" => msg[r].inline = "none")
    OBVIOUS
  <2> HIDE DEF c, ct, groups, p
  <2>6. Picked(msg[r], p, groups, Seen(r, ct))
    BY <1>1, <1>3, <1>5, <2>2, <2>3, <2>4 DEF Picked
  <2>7. Working(msg[r], c, p, groups, Seen(r, ct), applied[r])
    BY <1>1, <2>2, <2>5, <2>6 DEF Working
  <2>8. /\ prof'[r] = p /\ active'[r] = groups /\ seen'[r] = Seen(r, ct) /\ pc'[r] = c
        /\ \A q \in Requests \ {r} : /\ prof'[q] = prof[q] /\ active'[q] = active[q]
                                     /\ seen'[q] = seen[q] /\ pc'[q] = pc[q]
    BY <1>0, <2>1 DEF Given
  <2>9. Fit(r)'
    BY <1>0, <2>1, <2>5, <2>7, <2>8, MoveFits DEF given, answer, Places
  <2>10. Given'
    <3>1. pc' \in [Requests -> Places] /\ DOMAIN prof' = Requests
            /\ DOMAIN active' = Requests /\ DOMAIN seen' = Requests
      BY <1>0, <2>1, <2>5 DEF Given, Places
    <3> QED
      BY <1>0, <2>1, <3>1 DEF Given, given, buffer, answer, Keys
  <2> QED
    BY <1>0, <2>1, <2>8, <2>9, <2>10 DEF Keeps, Alone, given, answer
<1> QED
  BY <1>2, <1>4, <1>5

\* handler.contentType: the type is that of the buffer, or none.
LEMMA AsksType ==
    ASSUME InspectInv, NEW r \in Requests, contentType(r)
    PROVE  Keeps(r)
<1>0. /\ pc[r] = "type" /\ Given /\ Fit(r) /\ IsMessage(msg[r])
      /\ UNCHANGED <<given, snap, buffer, prof, active, applied, answer>>
      /\ pc' = [pc EXCEPT ![r] = "body"]
  BY InspectAssumption DEF contentType, InspectInv, Given
<1>1. PICK ct \in LoadType(r) : seen' = [seen EXCEPT ![r].ctype = ct]
  BY DEF contentType
<1>2. ct \in {msg[r].stored, ""}
  BY DEF LoadType
<1>3. /\ seen'[r] = [seen[r] EXCEPT !.ctype = ct] /\ DOMAIN seen' = Requests
      /\ \A q \in Requests \ {r} : seen'[q] = seen[q]
  BY <1>0, <1>1 DEF Given
<1>4. /\ active[r] # <<>> /\ Picked(msg[r], prof[r], active[r], seen[r])
      /\ applied[r] = Untouched(<<>>) /\ msg[r].inline = "none"
  BY <1>0 DEF Fit, Working
<1>5. seen'[r] = SeenAs(msg[r], ct) /\ SeenAs(msg[r], ct).ctype = ct
  BY <1>3, <1>4 DEF Picked, SeenAs
<1>6. TypeSeen(msg[r], active[r], ct)
  BY <1>0, <1>2, <1>4, DecideAssumption DEF TypeSeen, IsMessage
<1>7. Picked(msg[r], prof[r], active[r], seen'[r])
  BY <1>4, <1>5, <1>6 DEF Picked
<1>8. Working(msg[r], "body", prof[r], active[r], seen'[r], applied[r])
  BY <1>4, <1>7 DEF Working
<1>9. pc'[r] = "body" /\ \A q \in Requests \ {r} : pc'[q] = pc[q]
  BY <1>0 DEF Given
<1>10. Fit(r)'
  BY <1>0, <1>8, <1>9, MoveFits DEF given, answer, Places
<1>11. Given'
  <2>1. pc' \in [Requests -> Places]
    BY <1>0 DEF Given, Places
  <2> QED
    BY <1>0, <1>3, <2>1 DEF Given, given, buffer, answer, Keys
<1> QED
  BY <1>0, <1>3, <1>9, <1>10, <1>11 DEF Keeps, Alone, given, answer

-----------------------------------------------------------------------------
(* The end of an evaluation: from the load of the body to the reply.       *)

\* What a load of the body that did not fault yields.
LEMMA BodyLoaded ==
    ASSUME Given, NEW r \in Requests, IsMessage(msg[r]), NEW b \in LoadBody(r), ~b.fault
    PROVE  LET loc == msg[r].body
           IN  \/ b = Loaded /\ loc.at = "nil"
               \/ b = Unavailable
               \/ /\ loc.at = "placed"
                  /\ \E raw : /\ IsList(raw) /\ b = Read(loc, raw)
                              /\ (loc.digest # "none" /\ ~loc.truncated => raw = msg[r].captured)
<1> DEFINE loc == msg[r].body
           there == Key[r] \in DOMAIN held
           raw == IF there THEN held[Key[r]] ELSE <<>>
<1>1. b \in Load(loc, there, raw, msg[r].captured)
  BY DEF LoadBody
<1>2. IsList(raw)
  BY EmptyList DEF Given
<1>3. loc.at \in {"nil", "unavailable", "placed"} /\ loc.digest \in {"none", "plain", "processed"}
  BY DEF IsMessage
<1> HIDE DEF loc, there, raw
<1>4. CASE loc.at = "nil"
  BY <1>1, <1>4 DEF Load, loc
<1>5. CASE loc.at = "unavailable"
  BY <1>1, <1>5 DEF Load
<1>6. CASE loc.at = "placed"
  <2>1. b \in {Fault, finish(loc, raw, msg[r].captured)}
    BY <1>1, <1>6 DEF Load
  <2>2. Fault.fault = TRUE
    BY DEF Fault, Loaded
  <2>3. b = finish(loc, raw, msg[r].captured) /\ b # Fault
    BY <2>1, <2>2
  <2>4. /\ b = Read(loc, raw)
        /\ loc.digest # "none" /\ ~loc.truncated => raw = msg[r].captured
    BY <1>3, <2>3 DEF finish
  <2> QED
    BY <1>2, <1>6, <2>4 DEF loc
<1> QED
  BY <1>3, <1>4, <1>5, <1>6

\* decide.Apply on what was loaded: the evaluation is clean unless a group
\* that wants the body went without.
LEMMA Evaluates ==
    ASSUME Given, NEW r \in Requests, IsMessage(msg[r]), NEW b, ~b.fault,
           b \in LoadBody(r) \/ (b = Loaded /\ ~groupsNeedBody(active[r]))
    PROVE  LET missing == ~b.available \/ b.truncated
               did == Applied(r, b, missing)
           IN  /\ \E has, data : IsList(data) /\ did = apply(active[r], seen[r], has, data)
               /\ (missing /\ bodyWanted(active[r], seen[r]))
                    \/ Clean(msg[r], active[r], seen[r], did)
<1> DEFINE a == active[r]
           s == seen[r]
           m == msg[r]
           missing == ~b.available \/ b.truncated
           did == Applied(r, b, missing)
<1>1. ASSUME did = apply(a, s, FALSE, <<>>), m.body.at = "nil" \/ ~bodyWanted(a, s)
      PROVE  Clean(m, a, s, did)
  BY <1>1 DEF Clean
<1>2. ASSUME did = apply(a, s, FALSE, <<>>)
      PROVE  \E has, data : IsList(data) /\ did = apply(a, s, has, data)
  BY <1>2, EmptyList
<1>3. CASE b = Loaded
  <2>1. b.available = TRUE /\ b.truncated = FALSE /\ b.has = FALSE /\ b.data = <<>>
    BY <1>3 DEF Loaded
  <2>2. did = apply(a, s, FALSE, <<>>)
    BY <2>1 DEF Applied
  <2>3. m.body.at = "nil" \/ ~bodyWanted(a, s)
    <3>1. CASE b \in LoadBody(r)
      <4>1. Unavailable.available = FALSE /\ \A loc, raw : Read(loc, raw).has = TRUE
        BY DEF Unavailable, Read, Loaded
      <4> QED
        BY <2>1, <3>1, <4>1, BodyLoaded
    <3>2. CASE ~groupsNeedBody(a)
      BY <3>2 DEF groupsNeedBody, bodyWanted
    <3> QED
      BY <3>1, <3>2
  <2> QED
    BY <1>1, <1>2, <2>2, <2>3
<1>4. CASE missing
  <2>1. did = apply(a, s, FALSE, <<>>)
    BY <1>4 DEF Applied
  <2> QED
    BY <1>1, <1>2, <1>4, <2>1
<1>5. CASE b # Loaded /\ ~missing
  <2>1. Unavailable.available = FALSE
    BY DEF Unavailable, Loaded
  <2>2. PICK raw : /\ m.body.at = "placed" /\ IsList(raw) /\ b = Read(m.body, raw)
                   /\ m.body.digest # "none" /\ ~m.body.truncated => raw = m.captured
    BY <1>5, <2>1, BodyLoaded
  <2>3. b.has = TRUE /\ b.data = raw /\ b.truncated = m.body.truncated
    BY <2>2 DEF Read, Loaded
  <2>4. did = apply(a, s, TRUE, raw)
    BY <1>5, <2>3 DEF Applied
  <2>5. ~m.body.truncated
    BY <1>5, <2>3
  <2> HIDE DEF did
  <2>6. Clean(m, a, s, did)
    BY <2>2, <2>4, <2>5 DEF Clean
  <2>7. \E has, data : IsList(data) /\ did = apply(a, s, has, data)
    BY <2>2, <2>4
  <2> QED
    BY <2>6, <2>7 DEF did
<1> QED
  BY <1>3, <1>4, <1>5

\* The groups have been applied, with the result did.
Ends(r, did) ==
    /\ Given /\ Fit(r) /\ pc[r] \in {"body", "put"}
    /\ UNCHANGED <<msg, prof, active, seen>> /\ applied'[r] = did
    /\ Working(msg[r], "sent", prof[r], active[r], seen[r], did)

\* A request whose evaluation ends with this reply and these details fits.
LEMMA Ended ==
    ASSUME NEW r \in Requests, NEW did, Ends(r, did), NEW re, NEW det, send(r, re, det),
           Answer(msg[r], prof[r], active[r], seen[r], did, re),
           Told(msg[r], prof[r], re, [verdict |-> re.verdict, engine |-> det])
    PROVE  Fit(r)'
  BY SendFits DEF Ends

\* Details are filled in: nothing else is written.
LEMMA RowsFilled ==
    ASSUME NEW e, IsDetails(e), NEW x, NEW y, NEW new,
           new = [e EXCEPT !.rows = x, !.spent = y]
    PROVE  /\ IsDetails(new) /\ new.passive = e.passive /\ new.actions = e.actions
           /\ new.would = e.would /\ new.did = e.did
<1> DEFINE mid == [e EXCEPT !.rows = x]
<1>1. /\ IsDetails(mid) /\ mid.passive = e.passive /\ mid.actions = e.actions
      /\ mid.would = e.would /\ mid.did = e.did
  BY DEF IsDetails
<1>2. new = [mid EXCEPT !.spent = y]
  OBVIOUS
<1> HIDE DEF mid
<1> QED
  BY <1>1, <1>2 DEF IsDetails

\* What EngineRows notes.
LEMMA RowsTold ==
    ASSUME NEW r, NEW did
    PROVE  LET det == EngineRows(r, did)
           IN  /\ det.did = <<>> /\ det.would = <<>>
               /\ det.actions = EvaluatePrior(msg[r].prior, prof[r]).outcomes
               /\ prof[r].mode = "observe" => det.passive = TRUE
               /\ IsDetails(det)
<1> DEFINE e == Engine(r, prof[r])
           det == EngineRows(r, did)
<1>1. /\ e.actions = EvaluatePrior(msg[r].prior, prof[r]).outcomes
      /\ prof[r].mode = "observe" => e.passive = TRUE
      /\ e.did = <<>> /\ e.would = <<>> /\ IsDetails(e)
  BY EngineTold
<1>2. det = [e EXCEPT !.rows = did.rows, !.spent = did.spent]
  BY DEF EngineRows
<1> HIDE DEF e, det
<1>3. /\ IsDetails(det) /\ det.passive = e.passive /\ det.actions = e.actions
      /\ det.would = e.would /\ det.did = e.did
  BY <1>1, <1>2, RowsFilled
<1> QED
  BY <1>1, <1>3 DEF det

\* failPer: denied, or allowed by an observing profile.
LEMMA Fails ==
    ASSUME NEW r \in Requests, NEW did, Ends(r, did),
           NEW code \in {"body_unavailable", "store_error"}, failed(r, did, code)
    PROVE  Fit(r)'
<1> DEFINE re == failPer(prof[r], code, did)
           e == EngineRows(r, did)
           det == [e EXCEPT !.error = code]
<1>1. send(r, re, det)
  BY DEF failed
<1>2. \/ re = Bare("allow", code) /\ prof[r].mode = "observe"
      \/ re = Bare("deny", code) /\ prof[r].mode # "observe"
  BY DEF failPer, plain
<1> HIDE DEF re
<1>3. /\ re.verdict \in {"allow", "deny"} /\ re.code = code /\ re.groups = <<>>
      /\ re = Bare(re.verdict, re.code)
      /\ re.verdict = "deny" => prof[r].mode # "observe"
      /\ re.verdict = "allow" => prof[r].mode = "observe"
  <2>1. \A v : LET b == Bare(v, code) IN b.verdict = v /\ b.code = code /\ b.groups = <<>>
    BY DEF Bare
  <2> QED
    BY <1>2, <2>1
<1>4. /\ e.actions = EvaluatePrior(msg[r].prior, prof[r]).outcomes
      /\ IsDetails(e) /\ e.did = <<>> /\ e.would = <<>>
  BY RowsTold
<1> HIDE DEF e
<1>41. /\ det.did = <<>> /\ det.would = <<>>
       /\ det.actions = EvaluatePrior(msg[r].prior, prof[r]).outcomes
  BY <1>4 DEF IsDetails
<1> HIDE DEF det
<1>5. Answer(msg[r], prof[r], active[r], seen[r], did, re)
  BY <1>3 DEF Answer
<1>6. Told(msg[r], prof[r], re, [verdict |-> re.verdict, engine |-> det])
  BY <1>3, <1>41 DEF Told
<1> QED
  BY <1>1, <1>5, <1>6, Ended

\* The reply that nothing was applied.
LEMMA Noops ==
    ASSUME NEW r \in Requests, NEW did, Ends(r, did), noop(r, did),
           Clean(msg[r], active[r], seen[r], did)
    PROVE  Fit(r)'
<1> DEFINE re == Bare("allow", "noop")
           det == EngineRows(r, did)
<1>1. send(r, re, det)
  BY DEF noop, plain
<1>2. re.verdict = "allow" /\ re.code = "noop" /\ re.groups = <<>>
  BY DEF Bare
<1>3. /\ det.did = <<>> /\ det.would = <<>>
      /\ det.actions = EvaluatePrior(msg[r].prior, prof[r]).outcomes
  BY RowsTold
<1> HIDE DEF det
<1>4. Answer(msg[r], prof[r], active[r], seen[r], did, re)
  BY <1>2 DEF Answer
<1>5. Told(msg[r], prof[r], re, [verdict |-> re.verdict, engine |-> det])
  BY <1>2, <1>3 DEF Told
<1> QED
  BY <1>1, <1>4, <1>5, Ended

\* The reply of an observing profile.
LEMMA Observes ==
    ASSUME NEW r \in Requests, NEW did, Ends(r, did), observed(r, did),
           prof[r].mode = "observe", Clean(msg[r], active[r], seen[r], did)
    PROVE  Fit(r)'
<1>1. CASE did.groups = <<>>
  BY <1>1, Noops DEF observed, noop
<1>2. CASE did.groups # <<>>
  <2> DEFINE re == Bare("allow", "observe")
             e == EngineRows(r, did)
             det == [e EXCEPT !.would = did.groups]
  <2>1. send(r, re, det)
    BY <1>2 DEF observed, plain
  <2>2. re.verdict = "allow" /\ re.code = "observe" /\ re.groups = <<>>
    BY DEF Bare
  <2>3. /\ e.did = <<>> /\ e.passive = TRUE
        /\ e.actions = EvaluatePrior(msg[r].prior, prof[r]).outcomes
        /\ IsDetails(e) /\ e.did = <<>> /\ e.would = <<>>
    BY RowsTold
  <2> HIDE DEF e
  <2>4. /\ det.did = <<>> /\ det.would = did.groups /\ det.passive = TRUE
        /\ det.actions = EvaluatePrior(msg[r].prior, prof[r]).outcomes
    BY <2>3 DEF IsDetails
  <2> HIDE DEF det
  <2>5. Answer(msg[r], prof[r], active[r], seen[r], did, re)
    BY <2>2 DEF Answer
  <2>6. Told(msg[r], prof[r], re, [verdict |-> re.verdict, engine |-> det])
    BY <1>2, <2>2, <2>4 DEF Told
  <2> QED
    BY <2>1, <2>5, <2>6, Ended
<1> QED
  BY <1>1, <1>2

\* The reply that carries a rewrite.
LEMMA Rewrites ==
    ASSUME NEW r \in Requests, NEW did, Ends(r, did), rewritten(r, did, Whole(did)),
           prof[r].mode = "enforce", Clean(msg[r], active[r], seen[r], did),
           did.groups # <<>>
    PROVE  Fit(r)'
<1> DEFINE re == Whole(did)
           e == EngineRows(r, did)
           det == [e EXCEPT !.did = did.groups]
<1>1. send(r, re, det)
  BY DEF rewritten
<1>2. re.verdict = "allow" /\ re.code = "applied" /\ re.groups = did.groups
  BY DEF Whole
<1>3. /\ e.would = <<>>
      /\ e.actions = EvaluatePrior(msg[r].prior, prof[r]).outcomes
      /\ IsDetails(e) /\ e.did = <<>> /\ e.would = <<>>
  BY RowsTold
<1> HIDE DEF e
<1>4. /\ det.did = did.groups /\ det.would = <<>>
      /\ det.actions = EvaluatePrior(msg[r].prior, prof[r]).outcomes
  BY <1>3 DEF IsDetails
<1>5. active[r] # <<>>
  BY DEF Ends, Fit, Working
<1> HIDE DEF det
<1>6. Answer(msg[r], prof[r], active[r], seen[r], did, re)
  BY <1>2, <1>5 DEF Answer
<1>7. Told(msg[r], prof[r], re, [verdict |-> re.verdict, engine |-> det])
  BY <1>2, <1>4 DEF Told
<1> QED
  BY <1>1, <1>6, <1>7, Ended

\* The copy is to be written: nothing is answered yet.
LEMMA GoesToWrite ==
    ASSUME NEW r \in Requests, NEW did, Ends(r, did), WritesCopy(r),
           prof[r].mode = "enforce", Clean(msg[r], active[r], seen[r], did),
           did.groups # <<>>, did.changed = TRUE
    PROVE  Fit(r)'
<1>1. pc'[r] = "put" /\ reply'[r] = reply[r] /\ event'[r] = event[r]
  BY DEF WritesCopy, Ends, Given, answer
<1>2. active[r] # <<>> /\ pc[r] # "sent" /\ Fit(r)
  BY DEF Ends, Fit, Working
<1>3. Working(msg[r], "put", prof[r], active[r], seen[r], did)
  BY <1>2 DEF Ends, Working
<1> QED
  BY <1>1, <1>2, <1>3, MoveFits DEF Ends, Places

IsReply(re) ==
    re = [verdict |-> re.verdict, code |-> re.code, groups |-> re.groups,
          headers |-> re.headers, named |-> re.named, copy |-> re.copy]

\* Replies with equal fields are equal.
LEMMA SameReply ==
    ASSUME NEW re, IsReply(re), NEW new, IsReply(new), re.verdict = new.verdict,
           re.code = new.code, re.groups = new.groups, re.headers = new.headers,
           re.named = new.named, re.copy = new.copy
    PROVE  re = new
  BY DEF IsReply

WithGroups(re, groups, headers) == [re EXCEPT !.groups = groups, !.headers = headers]
Naming(re, named, copy) == [re EXCEPT !.named = named, !.copy = copy]

\* A reply is filled in: nothing else is written.
LEMMA GroupsFilled ==
    ASSUME NEW re, IsReply(re), NEW x, NEW y, NEW new,
           new = WithGroups(re, x, y)
    PROVE  /\ IsReply(new) /\ new.verdict = re.verdict /\ new.code = re.code
           /\ new.groups = x /\ new.headers = y /\ new.named = re.named
           /\ new.copy = re.copy
<1> DEFINE mid == [re EXCEPT !.groups = x]
<1>1. /\ IsReply(mid) /\ mid.verdict = re.verdict /\ mid.code = re.code
      /\ mid.groups = x /\ mid.named = re.named /\ mid.copy = re.copy
  BY DEF IsReply
<1>2. new = [mid EXCEPT !.headers = y]
  BY DEF WithGroups
<1> HIDE DEF mid
<1> QED
  BY <1>1, <1>2 DEF IsReply

\* ... with the name of a copy: nothing else is written.
LEMMA CopyFilled ==
    ASSUME NEW re, IsReply(re), NEW x, NEW y, NEW new,
           new = Naming(re, x, y)
    PROVE  /\ IsReply(new) /\ new.verdict = re.verdict /\ new.code = re.code
           /\ new.groups = re.groups /\ new.headers = re.headers /\ new.named = x
           /\ new.copy = y
<1> DEFINE mid == [re EXCEPT !.named = x]
<1>1. /\ IsReply(mid) /\ mid.verdict = re.verdict /\ mid.code = re.code
      /\ mid.groups = re.groups /\ mid.headers = re.headers /\ mid.named = x
  BY DEF IsReply
<1>2. new = [mid EXCEPT !.copy = y]
  BY DEF Naming
<1> HIDE DEF mid
<1> QED
  BY <1>1, <1>2 DEF IsReply

\* The fields of a rewrite, before a copy is named.
LEMMA RewriteFields ==
    ASSUME NEW did
    PROVE  LET re == Rewrite(did)
           IN  /\ IsReply(re) /\ re.verdict = "allow" /\ re.code = "applied"
               /\ re.groups = did.groups /\ re.headers = did.headers /\ re.named = FALSE
               /\ re.copy = <<>>
<1> DEFINE base == Bare("allow", "applied")
           re == Rewrite(did)
<1>1. /\ IsReply(base) /\ base.verdict = "allow" /\ base.code = "applied"
      /\ base.named = FALSE /\ base.copy = <<>>
  BY DEF Bare, IsReply
<1>2. re = WithGroups(base, did.groups, did.headers)
  BY DEF Rewrite, plain, WithGroups
<1> HIDE DEF base, re
<1>3. /\ IsReply(re) /\ re.verdict = base.verdict /\ re.code = base.code
      /\ re.groups = did.groups /\ re.headers = did.headers /\ re.named = base.named
      /\ re.copy = base.copy
  BY <1>1, <1>2, GroupsFilled
<1> QED
  BY <1>1, <1>3 DEF re

\* A rewrite that changed no body is sent whole ...
LEMMA HeadersOnly ==
    ASSUME NEW did, did.changed = FALSE
    PROVE  Rewrite(did) = Whole(did)
<1> DEFINE all == Whole(did)
<1>1. /\ IsReply(all) /\ all.verdict = "allow" /\ all.code = "applied"
      /\ all.groups = did.groups /\ all.headers = did.headers /\ all.named = did.changed
      /\ all.copy = <<>>
  BY DEF Whole, IsReply
<1> HIDE DEF all
<1>2. Rewrite(did) = all
  BY <1>1, RewriteFields, SameReply
<1> QED
  BY <1>2 DEF all

\* ... and one that did, with its copy.
LEMMA WithCopy ==
    ASSUME NEW did, did.changed = TRUE
    PROVE  [Rewrite(did) EXCEPT !.named = TRUE, !.copy = did.body] = Whole(did)
<1> DEFINE all == Whole(did)
           base == Rewrite(did)
           re == [base EXCEPT !.named = TRUE, !.copy = did.body]
<1>1. /\ IsReply(all) /\ all.verdict = "allow" /\ all.code = "applied"
      /\ all.groups = did.groups /\ all.headers = did.headers /\ all.named = did.changed
      /\ all.copy = did.body
  BY DEF Whole, IsReply
<1>2. /\ IsReply(base) /\ base.verdict = "allow" /\ base.code = "applied"
      /\ base.groups = did.groups /\ base.headers = did.headers
  BY RewriteFields
<1> DEFINE yes == TRUE
<1>25. re = Naming(base, yes, did.body)
  BY DEF Naming
<1> HIDE DEF base, all, re, yes
<1>3. /\ IsReply(re) /\ re.verdict = base.verdict /\ re.code = base.code
      /\ re.groups = base.groups /\ re.headers = base.headers /\ re.named = yes
      /\ re.copy = did.body
  BY <1>2, <1>25, CopyFilled
<1>4. re = all
  BY <1>1, <1>2, <1>3, SameReply DEF yes
<1> QED
  BY <1>4 DEF all, re, base

\* What follows the groups, for a response and for a frame.
LEMMA Concludes ==
    ASSUME NEW r \in Requests, NEW did, Ends(r, did), NEW missing,
           conclude(r, did, missing) \/ concludeFrame(r, did, missing),
           (missing /\ bodyWanted(active[r], seen[r]))
               \/ Clean(msg[r], active[r], seen[r], did),
           did.changed \in BOOLEAN
    PROVE  Fit(r)'
<1>0. prof[r].mode \in {"enforce", "observe"}
  BY DEF Ends, Fit, Working, Picked
<1>1. CASE missing /\ bodyWanted(active[r], seen[r])
  BY <1>1, Fails DEF conclude, concludeFrame
<1>2. CASE ~(missing /\ bodyWanted(active[r], seen[r])) /\ prof[r].mode = "observe"
  BY <1>2, Observes DEF conclude, concludeFrame
<1>3. CASE ~(missing /\ bodyWanted(active[r], seen[r])) /\ prof[r].mode = "enforce"
  <2>1. CASE noop(r, did)
    BY <1>3, <2>1, Noops
  <2>2. CASE WritesCopy(r) /\ did.groups # <<>> /\ did.changed
    BY <1>3, <2>2, GoesToWrite
  <2>3. CASE rewritten(r, did, Rewrite(did)) /\ did.groups # <<>> /\ ~did.changed
    <3>1. Rewrite(did) = Whole(did)
      BY <2>3, HeadersOnly
    <3> QED
      BY <1>3, <2>3, <3>1, Rewrites
  <2> QED
    BY <1>3, <2>1, <2>2, <2>3 DEF conclude, concludeFrame
<1> QED
  BY <1>0, <1>1, <1>2, <1>3

\* The load of the body and what follows: what is common to loadBody and
\* inspectFrame.
LEMMA Loads ==
    ASSUME InspectInv, NEW r \in Requests, pc[r] = "body", NEW b,
           b \in LoadBody(r) \/ (b = Loaded /\ ~groupsNeedBody(active[r])),
           UNCHANGED <<given, snap, buffer, prof, active, seen>>,
           IF b.fault
           THEN send(r, ErrorReply("store_unavailable"), Engine(r, prof[r])) /\ UNCHANGED applied
           ELSE LET missing == ~b.available \/ b.truncated
                    did == Applied(r, b, missing)
                IN  /\ applied' = [applied EXCEPT ![r] = did]
                    /\ conclude(r, did, missing) \/ concludeFrame(r, did, missing)
    PROVE  Fit(r)'
<1>0. /\ Given /\ Fit(r) /\ IsMessage(msg[r]) /\ active[r] # <<>>
      /\ Working(msg[r], "body", prof[r], active[r], seen[r], applied[r])
      /\ Picked(msg[r], prof[r], active[r], seen[r])
  BY InspectAssumption DEF InspectInv, Given, Fit, Working
<1>1. CASE b.fault
  <2> DEFINE re == Bare("error", "store_unavailable")
             det == Engine(r, prof[r])
  <2>1. send(r, re, det) /\ UNCHANGED applied
    BY <1>1 DEF ErrorReply
  <2>2. /\ det.did = <<>> /\ det.would = <<>>
        /\ det.actions = EvaluatePrior(msg[r].prior, prof[r]).outcomes
    BY EngineTold
  <2> HIDE DEF det
  <2>3. /\ Answer(msg[r], prof[r], active[r], seen[r], applied[r], re)
        /\ Told(msg[r], prof[r], re, [verdict |-> re.verdict, engine |-> det])
    BY <2>2, BareAnswer
  <2> HIDE DEF re
  <2>4. Working(msg[r], "sent", prof[r], active[r], seen[r], applied[r])
    BY <1>0 DEF Working
  <2> QED
    BY <1>0, <2>1, <2>3, <2>4, SendFits DEF given
<1>2. CASE ~b.fault
  <2> DEFINE missing == ~b.available \/ b.truncated
             did == Applied(r, b, missing)
  <2>1. /\ applied' = [applied EXCEPT ![r] = did]
        /\ conclude(r, did, missing) \/ concludeFrame(r, did, missing)
    BY <1>2
  <2>2. /\ \E has, data : IsList(data) /\ did = apply(active[r], seen[r], has, data)
        /\ (missing /\ bodyWanted(active[r], seen[r]))
              \/ Clean(msg[r], active[r], seen[r], did)
    BY <1>0, <1>2, Evaluates
  <2> HIDE DEF did, missing
  <2>3. Working(msg[r], "sent", prof[r], active[r], seen[r], did)
    BY <1>0, <2>2 DEF Working
  <2>4. Ends(r, did)
    BY <1>0, <2>1, <2>3 DEF Ends, Given, given
  <2>5. did.changed \in BOOLEAN
    <3>1. IsList(active[r]) /\ \A g \in ToSet(active[r]) : IsList(g.body)
      <4>1. IsProfile(prof[r]) /\ active[r] = Chosen(msg[r], prof[r])
        BY <1>0 DEF Picked
      <4> QED
        BY <4>1, ActiveGroups, PhaseGroups DEF Chosen, IsProfile, IsOps
    <3>2. PICK has, data : did = apply(active[r], seen[r], has, data)
      BY <2>2
    <3>3. apply(active[r], seen[r], has, data).changed \in BOOLEAN
      BY <3>1, ApplyLaw DEF ApplyDone
    <3> QED
      BY <3>2, <3>3
  <2> QED
    BY <2>1, <2>2, <2>4, <2>5, Concludes
<1> QED
  BY <1>1, <1>2

\* The step moves and answers nobody but r.
Own(r) ==
    /\ pc' \in [Requests -> Places] /\ DOMAIN reply' = Requests /\ DOMAIN event' = Requests
    /\ \A q \in Requests \ {r} :
          pc'[q] = pc[q] /\ reply'[q] = reply[q] /\ event'[q] = event[q]

\* send writes the answer of its own request only.
LEMMA SendOwn ==
    ASSUME Given, NEW r \in Requests, NEW re, NEW det, send(r, re, det)
    PROVE  Own(r)
  BY SendOne DEF Own

\* ... and so do conclude and concludeFrame.
LEMMA ConcludeOwn ==
    ASSUME Given, NEW r \in Requests, NEW did, NEW missing,
           conclude(r, did, missing) \/ concludeFrame(r, did, missing)
    PROVE  Own(r)
<1>1. ASSUME WritesCopy(r) PROVE Own(r)
  BY <1>1 DEF WritesCopy, Own, Given, Places, answer
<1>2. ASSUME failed(r, did, "body_unavailable") PROVE Own(r)
  BY <1>2, SendOwn DEF failed
<1>3. ASSUME noop(r, did) PROVE Own(r)
  BY <1>3, SendOwn DEF noop
<1>4. ASSUME observed(r, did) PROVE Own(r)
  BY <1>4, SendOwn DEF observed
<1>5. ASSUME rewritten(r, did, Rewrite(did)) PROVE Own(r)
  BY <1>5, SendOwn DEF rewritten
<1> QED
  BY <1>1, <1>2, <1>3, <1>4, <1>5 DEF conclude, concludeFrame

\* loadBody and inspectFrame.
LEMMA LoadsKeep ==
    ASSUME InspectInv, NEW r \in Requests, loadBody(r) \/ inspectFrame(r)
    PROVE  Keeps(r)
<1> DEFINE missing(b) == ~b.available \/ b.truncated
           did(b) == Applied(r, b, missing(b))
<1>1. /\ Given /\ pc[r] = "body"
      /\ UNCHANGED <<given, snap, buffer, prof, active, seen>>
  BY DEF loadBody, inspectFrame, InspectInv
<1>2. PICK b : /\ b \in LoadBody(r) \/ (b = Loaded /\ ~groupsNeedBody(active[r]))
               /\ IF b.fault
                  THEN /\ send(r, ErrorReply("store_unavailable"), Engine(r, prof[r]))
                       /\ UNCHANGED applied
                  ELSE /\ applied' = [applied EXCEPT ![r] = did(b)]
                       /\ \/ conclude(r, did(b), missing(b))
                          \/ concludeFrame(r, did(b), missing(b))
  BY DEF loadBody, inspectFrame
<1>3. Fit(r)'
  BY <1>1, <1>2, Loads
<1>4. Own(r)
  BY <1>1, <1>2, SendOwn, ConcludeOwn
<1> HIDE DEF did, missing
<1>5. DOMAIN applied' = Requests /\ \A q \in Requests \ {r} : applied'[q] = applied[q]
  BY <1>1, <1>2 DEF Given
<1>6. Given'
  BY <1>1, <1>4, <1>5 DEF Given, Own, given, buffer, Keys
<1> QED
  BY <1>1, <1>3, <1>4, <1>5, <1>6 DEF Keeps, Alone, Own, given

\* writer.Put adds one object.
LEMMA PutDomain ==
    ASSUME NEW f, NEW k, NEW v
    PROVE  /\ DOMAIN Put(f, k, v) = DOMAIN f \cup {k} /\ Put(f, k, v)[k] = v
           /\ \A x \in DOMAIN f : x # k => Put(f, k, v)[x] = f[x]
  BY DEF Put

\* put keeps the fit of its request.
LEMMA Writes ==
    ASSUME InspectInv, NEW r \in Requests, put(r)
    PROVE  Keeps(r)
<1> DEFINE did == applied[r]
<1>1. /\ Given /\ Fit(r) /\ pc[r] = "put" /\ UNCHANGED <<given, snap, held, hdrs, work>>
  BY DEF put, InspectInv
<1>2. PICK res \in PutResults :
        /\ IF res = "ok"
           THEN rewritten(r, did, [Rewrite(did) EXCEPT !.named = TRUE, !.copy = did.body])
           ELSE failed(r, did, "store_error")
        /\ out' = IF res \in {"ok", "late"} THEN Put(out, Key[r], did.body) ELSE out
  BY DEF put
<1>3. /\ prof[r].mode = "enforce" /\ did.groups # <<>> /\ did.changed = TRUE
      /\ Clean(msg[r], active[r], seen[r], did)
      /\ Working(msg[r], "put", prof[r], active[r], seen[r], did)
  BY <1>1 DEF Fit, Working
<1>4. Ends(r, did)
  <2>1. Working(msg[r], "sent", prof[r], active[r], seen[r], did)
    BY <1>3 DEF Working
  <2> QED
    BY <1>1, <2>1 DEF Ends, given, work
<1>5. ASSUME res = "ok" PROVE Fit(r)' /\ Own(r)
  <2>1. rewritten(r, did, Whole(did))
    BY <1>2, <1>3, <1>5, WithCopy
  <2>2. Fit(r)'
    BY <1>3, <1>4, <2>1, Rewrites
  <2>3. Own(r)
    BY <1>1, <2>1, SendOwn DEF rewritten
  <2> QED
    BY <2>2, <2>3
<1>6. ASSUME res # "ok" PROVE Fit(r)' /\ Own(r)
  <2>1. failed(r, did, "store_error")
    BY <1>2, <1>6
  <2>2. Fit(r)'
    BY <1>4, <2>1, Fails
  <2>3. Own(r)
    BY <1>1, <2>1, SendOwn DEF failed
  <2> QED
    BY <2>2, <2>3
<1>7. Given'
  <2>1. Own(r)
    BY <1>5, <1>6
  <2>2. DOMAIN out' \subseteq Keys
    <3>1. out' = out \/ DOMAIN out' = DOMAIN out \cup {Key[r]}
      BY <1>2, PutDomain
    <3> QED
      BY <1>1, <3>1 DEF Given, Keys
  <2> QED
    BY <1>1, <2>1, <2>2 DEF Given, Own, given, work, Keys
<1> QED
  BY <1>1, <1>5, <1>6, <1>7 DEF Keeps, Alone, Own, given, work

\* recoverInto: a panic is answered with internal_error and tells no event.
LEMMA Recovers ==
    ASSUME InspectInv, NEW r \in Requests, recoverInto(r)
    PROVE  Keeps(r)
<1> DEFINE re == Bare("error", "internal_error")
<1>1. /\ Given /\ Fit(r) /\ pc[r] \notin {"sent", "mute", "ignored"}
      /\ UNCHANGED <<given, snap, held, hdrs, work, event>>
  BY DEF recoverInto, Busy, InspectInv
<1>2. \A c \in {"sent", "mute"} :
         Working(msg[r], c, prof[r], active[r], seen[r], applied[r])
  BY <1>1 DEF Fit, Working
<1>3. Answer(msg[r], prof[r], active[r], seen[r], applied[r], re) /\ re.code = "internal_error"
  BY DEF Answer, Bare
<1>4. event[r] = NoEvent /\ reply[r] = NoReply
  BY <1>1 DEF Fit, Answered
<1>5. Own(r) /\ (\/ pc'[r] = "sent" /\ reply'[r] = re
                 \/ pc'[r] = "mute" /\ reply'[r] = reply[r])
  <2>1. CASE msg[r].answerTo
    BY <1>1, <2>1 DEF recoverInto, FallbackReply, Own, Given, Places
  <2>2. CASE ~msg[r].answerTo
    BY <1>1, <2>2 DEF recoverInto, Own, Given, Places
  <2> QED
    BY <2>1, <2>2
<1> HIDE DEF re
<1>6. Fit(r)'
  BY <1>1, <1>2, <1>3, <1>4, <1>5 DEF Fit, Answered, Noted, Places, given, work
<1>7. DOMAIN out' \subseteq Keys
  <2>1. out' = out \/ DOMAIN out' = DOMAIN out \cup {Key[r]}
    <3>1. out' = out \/ out' = Put(out, Key[r], applied[r].body)
      BY DEF recoverInto
    <3>2. DOMAIN Put(out, Key[r], applied[r].body) = DOMAIN out \cup {Key[r]}
      BY DEF Put
    <3> QED
      BY <3>1, <3>2
  <2> QED
    BY <1>1, <2>1 DEF Given, Keys
<1>8. Given'
  BY <1>1, <1>5, <1>7 DEF Given, Own, given, work, Keys
<1> QED
  BY <1>1, <1>5, <1>6, <1>8 DEF Keeps, Alone, Own, given, work

\* What the rest of the system does touches no request.
LEMMA Surroundings ==
    ASSUME InspectInv, Rollout \/ \E k \in Keys : Expire(k) \/ Garble(k)
    PROVE  Given' /\ \A r \in Requests : Alone(r)
<1>1. CASE Rollout
  BY <1>1 DEF InspectInv, Given, Rollout, Alone, given, buffer, work, answer, Keys
<1>2. ASSUME NEW k \in Keys, Expire(k)
      PROVE  Given' /\ \A r \in Requests : Alone(r)
  <2>1. /\ DOMAIN held' \subseteq DOMAIN held /\ \A x \in DOMAIN held' : held'[x] = held[x]
        /\ hdrs' \subseteq hdrs
    BY <1>2 DEF Expire
  <2> QED
    BY <1>2, <2>1 DEF InspectInv, Given, Expire, Alone, given, work, answer, Keys
<1>3. ASSUME NEW k \in Keys, Garble(k)
      PROVE  Given' /\ \A r \in Requests : Alone(r)
  <2>1. IsList(Garbage)
    <3>1. Append(<<>>, "garbage") = Garbage
      BY DEF Garbage
    <3> QED
      BY <3>1, EmptyList, AppendList
  <2>2. DOMAIN held' = DOMAIN held /\ \A x \in DOMAIN held' : held'[x] \in {held[x], Garbage}
    BY <1>3 DEF Garble
  <2> QED
    BY <1>3, <2>1, <2>2 DEF InspectInv, Given, Garble, Alone, given, work, answer, Keys
<1> QED
  BY <1>1, <1>2, <1>3

\* Before the first step every request fits.
LEMMA InitFits == Init => InspectInv
<1> SUFFICES ASSUME Init PROVE InspectInv
  OBVIOUS
<1>1. Given
  <2>1. \A k \in DOMAIN held : IsList(held[k])
    <3> SUFFICES ASSUME NEW k \in Keys PROVE IsList(held[k])
      BY DEF Init
    <3> DEFINE r == CHOOSE q \in Requests : Key[q] = k
    <3>1. r \in Requests
      BY DEF Keys
    <3>2. held[k] = msg[r].captured
      BY DEF Init
    <3> QED
      BY <3>1, <3>2, InspectAssumption DEF Init, IsMessage
  <2>2. DOMAIN held = Keys /\ hdrs = Keys /\ DOMAIN out = {}
    BY DEF Init
  <2> QED
    BY <2>1, <2>2 DEF Init, Given, Places
<1>2. ASSUME NEW r \in Requests PROVE Fit(r)
  <2>1. Working(msg[r], "wire", NoProfile, <<>>, NoSeen, Untouched(<<>>))
    BY DEF Working
  <2>2. /\ pc[r] = "wire" /\ prof[r] = NoProfile /\ active[r] = <<>> /\ seen[r] = NoSeen
        /\ applied[r] = Untouched(<<>>) /\ reply[r] = NoReply /\ event[r] = NoEvent
    BY DEF Init
  <2> QED
    BY <2>1, <2>2 DEF Fit, Answered, Places
<1> QED
  BY <1>1, <1>2 DEF InspectInv

\* Every step keeps every request fitting.
LEMMA StepFits == InspectInv /\ [Next]_vars => InspectInv'
<1> SUFFICES ASSUME InspectInv, [Next]_vars PROVE InspectInv'
  OBVIOUS
<1>0. \A r \in Requests : Fit(r)
  BY DEF InspectInv
<1>1. ASSUME NEW r \in Requests, Step(r) PROVE InspectInv'
  <2>1. Keeps(r)
    BY <1>1, Receives, Sheds, Inspects, AsksType, LoadsKeep, Writes, Recovers DEF Step
  <2>2. \A q \in Requests \ {r} : Fit(q)'
    BY <1>0, <2>1, AloneFits DEF Keeps
  <2> QED
    BY <2>1, <2>2 DEF Keeps, InspectInv
<1>2. CASE Rollout \/ \E k \in Keys : Expire(k) \/ Garble(k)
  <2>1. Given' /\ \A r \in Requests : Alone(r)
    BY <1>2, Surroundings
  <2>2. \A r \in Requests : Fit(r)'
    BY <1>0, <2>1, AloneFits
  <2> QED
    BY <2>1, <2>2 DEF InspectInv
<1>3. CASE UNCHANGED vars
  <2>1. \A r \in Requests : Alone(r)
    BY <1>3 DEF vars, Alone
  <2>2. \A r \in Requests : Fit(r)'
    BY <1>0, <2>1, AloneFits
  <2>3. Given'
    BY <1>3 DEF vars, InspectInv, Given, Keys
  <2> QED
    BY <2>2, <2>3 DEF InspectInv
<1> QED
  BY <1>1, <1>2, <1>3 DEF Next

\* InspectInv, the invariant the theorems below rest on.
THEOREM InspectInvariant == Spec => []InspectInv
  BY InitFits, StepFits, PTL DEF Spec

-----------------------------------------------------------------------------
(* The properties.                                                         *)

\* The groups under evaluation are groups of a validated profile.
LEMMA ActiveOnes ==
    ASSUME NEW m, NEW p, NEW a, NEW s, Picked(m, p, a, s)
    PROVE  /\ IsList(a)
           /\ \A g \in ToSet(a) : g \in ToSet(p.groups) /\ IsList(g.body) /\ IsOps(g.body)
           /\ \A g, h \in ToSet(a) : g.name = h.name => g = h
           /\ \A g : g \in ToSet(a) <=>
                 /\ g \in ToSet(p.groups) /\ IsOn(g, EvaluatePrior(m.prior, p))
                 /\ g.frame = (m.kind = "frame")
<1> DEFINE on == Active(EvaluatePrior(m.prior, p), p)
           fr == m.kind = "frame"
<1>1. IsProfile(p) /\ a = ForPhase(on, fr)
  BY DEF Picked, Chosen
<1>2. /\ IsList(on)
      /\ \A g : g \in ToSet(on) <=> g \in ToSet(p.groups) /\ IsOn(g, EvaluatePrior(m.prior, p))
  BY <1>1, ActiveGroups DEF IsProfile
<1> HIDE DEF on, fr
<1>3. IsList(a) /\ \A g : g \in ToSet(a) <=> g \in ToSet(on) /\ g.frame = fr
  BY <1>1, <1>2, PhaseGroups
<1> QED
  BY <1>1, <1>2, <1>3 DEF IsProfile, IsOps, fr

\* What a clean evaluation is worth.
Worth(m, a, s, d) ==
    /\ d.changed \in BOOLEAN
    /\ d.changed => m.body.at = "placed"
    /\ d.changed /\ m.body.digest # "none" => d = apply(a, s, TRUE, m.captured)
    /\ m.body.at # "nil" => \A row \in ToSet(d.rows) : row.skipped # "no_body"
    /\ \A n \in ToSet(d.groups) : \E g \in ToSet(a) : g.name = n /\ Matches(g, s)

\* A clean evaluation is worth that.
LEMMA CleanOne ==
    ASSUME NEW m, NEW p, NEW a, NEW s, Picked(m, p, a, s), NEW d, Clean(m, a, s, d)
    PROVE  Worth(m, a, s, d)
<1>1. PICK has \in BOOLEAN : \E data :
        /\ d = apply(a, s, has, data)
        /\ has => m.body.at = "placed" /\ (m.body.digest # "none" => data = m.captured)
        /\ ~has => m.body.at = "nil" \/ ~bodyWanted(a, s)
  BY DEF Clean
<1>2. IsList(a) /\ \A g \in ToSet(a) : IsList(g.body)
  BY ActiveOnes
<1> PICK data :
        /\ d = apply(a, s, has, data)
        /\ has => m.body.at = "placed" /\ (m.body.digest # "none" => data = m.captured)
        /\ ~has => m.body.at = "nil" \/ ~bodyWanted(a, s)
  BY <1>1
<1>3. ApplyDone(a, s, has, d)
  BY <1>2, ApplyLaw
<1>4. d.changed => has = TRUE
  BY <1>1, <1>3 DEF ApplyDone
<1> QED
  BY <1>1, <1>3, <1>4 DEF Applies, ApplyDone, Worth

\* The fields of a whole rewrite.
LEMMA WholeFields ==
    ASSUME NEW d
    PROVE  LET re == Whole(d)
           IN  /\ re.verdict = "allow" /\ re.code = "applied" /\ re.groups = d.groups
               /\ re.named = d.changed /\ (d.changed => re.copy = d.body)
<1>1. /\ Whole(d).verdict = "allow" /\ Whole(d).code = "applied" /\ Whole(d).groups = d.groups
      /\ Whole(d).copy = IF d.changed THEN d.body ELSE <<>>
  BY DEF Whole
<1>2. Whole(d).named = d.changed
  BY DEF Whole
<1> QED
  BY <1>1, <1>2

\* The state of the handler has its types, and a copy is only written for a
\* request that has a body locator (handler.go:232).
THEOREM InspectTyped == Spec => []TypeOK
<1>1. InspectInv => TypeOK
  <2> SUFFICES ASSUME InspectInv PROVE TypeOK
    OBVIOUS
  <2>0. Given /\ \A r \in Requests : Fit(r)
    BY DEF InspectInv
  <2>1. ASSUME NEW r \in Requests
        PROVE  /\ prof[r].mode \in {"none", "enforce", "observe", "off"}
               /\ seen[r].ctype \in DOMAIN SuffixOf
    <3>1. Working(msg[r], pc[r], prof[r], active[r], seen[r], applied[r])
      BY <2>0 DEF Fit
    <3>2. NoProfile.mode = "none" /\ NoSeen.ctype = ""
      BY DEF NoProfile, NoSeen
    <3>3. CASE active[r] = <<>>
      <4>1. seen[r] = NoSeen /\ (prof[r] = NoProfile \/ IsProfile(prof[r]))
        BY <3>1, <3>3 DEF Working
      <4> QED
        BY <3>2, <4>1, DecideAssumption DEF IsProfile
    <3>4. CASE active[r] # <<>>
      <4>1. Picked(msg[r], prof[r], active[r], seen[r])
        BY <3>1, <3>4 DEF Working
      <4> QED
        BY <4>1 DEF Picked, TypeSeen
    <3> QED
      BY <3>3, <3>4
  <2>2. ASSUME NEW r \in Requests
        PROVE  /\ reply[r].verdict \in {"none", "allow", "deny", "error"}
               /\ reply[r].verdict = "none" <=> pc[r] # "sent"
    <3>1. NoReply.verdict = "none"
      BY DEF NoReply, Bare
    <3>2. Answered(msg[r], pc[r], prof[r], active[r], seen[r], applied[r], reply[r], event[r])
      BY <2>0 DEF Fit
    <3>3. CASE pc[r] = "sent"
      BY <3>2, <3>3 DEF Answered, Answer
    <3>4. CASE pc[r] # "sent"
      BY <3>1, <3>2, <3>4 DEF Answered
    <3> QED
      BY <3>3, <3>4
  <2>3. ASSUME NEW r \in Requests, pc[r] = "put" PROVE msg[r].body.at = "placed"
    <3>1. /\ Picked(msg[r], prof[r], active[r], seen[r]) /\ applied[r].changed = TRUE
          /\ Clean(msg[r], active[r], seen[r], applied[r])
      BY <2>0, <2>3 DEF Fit, Working
    <3> QED
      BY <3>1, CleanOne DEF Worth
  <2> QED
    BY <2>0, <2>1, <2>2, <2>3 DEF TypeOK, Given, Places
<1> QED
  BY <1>1, InspectInvariant, PTL

\* An enforcing profile lets nothing through for which a group that wanted
\* the body went without, whatever the load of the body came to
\* (handler.go:198, frame.go:77).
THEOREM NothingSkipped == Spec => []NoneSkipped
<1>1. InspectInv => NoneSkipped
  <2> SUFFICES ASSUME InspectInv, NEW r \in Requests, Sent(r, "allow"),
                      prof[r].mode = "enforce", msg[r].body.at # "nil",
                      NEW row \in ToSet(applied[r].rows)
               PROVE  row.skipped # "no_body"
    BY DEF NoneSkipped
  <2>1. Fit(r)
    BY DEF InspectInv
  <2>2. CASE active[r] = <<>>
    <3>1. applied[r] = Untouched(<<>>)
      BY <2>1, <2>2 DEF Fit, Working
    <3>2. applied[r].rows = <<>>
      BY <3>1 DEF Untouched
    <3> QED
      BY <3>2, EmptyList
  <2>3. CASE active[r] # <<>>
    <3>1. /\ Picked(msg[r], prof[r], active[r], seen[r])
          /\ Clean(msg[r], active[r], seen[r], applied[r])
      BY <2>1, <2>3 DEF Fit, Working, Answered, Answer, Sent
    <3>2. Worth(msg[r], active[r], seen[r], applied[r])
      BY <3>1, CleanOne
    <3> QED
      BY <3>2 DEF Worth
  <2> QED
    BY <2>2, <2>3
<1> QED
  BY <1>1, InspectInvariant, PTL

\* A reply carries the whole rewrite, or nothing of it (handler.go:234).
THEOREM WholeOrNothing == Spec => []AllOrNothing
<1>1. InspectInv => AllOrNothing
  <2> SUFFICES ASSUME InspectInv, NEW r \in Requests, pc[r] = "sent"
               PROVE  IF reply[r].verdict = "allow" /\ reply[r].code = "applied"
                      THEN /\ reply[r].groups # <<>>
                           /\ reply[r].named <=> applied[r].changed
                      ELSE /\ reply[r].groups = <<>> /\ reply[r].headers = NoHeaders
                           /\ ~reply[r].named
    BY DEF AllOrNothing
  <2>1. Fit(r)
    BY DEF InspectInv
  <2> DEFINE re == reply[r]
             d == applied[r]
  <2>2. \/ re = Bare(re.verdict, re.code) /\ re.code # "applied"
        \/ re = Whole(d) /\ d.groups # <<>>
    BY <2>1 DEF Fit, Answered, Answer
  <2> HIDE DEF re, d
  <2>3. CASE re = Bare(re.verdict, re.code) /\ re.code # "applied"
    <3>1. re.groups = <<>> /\ re.headers = NoHeaders /\ re.named = FALSE
      BY <2>3 DEF Bare
    <3> QED
      BY <2>3, <3>1 DEF re
  <2>4. CASE re = Whole(d) /\ d.groups # <<>>
    <3>1. /\ re.groups = d.groups /\ re.named = d.changed
          /\ re.verdict = "allow" /\ re.code = "applied"
      BY <2>4 DEF Whole
    <3> QED
      BY <2>4, <3>1 DEF re, d
  <2> QED
    BY <2>2, <2>3, <2>4
<1> QED
  BY <1>1, InspectInvariant, PTL

\* The copy a reply names is the rewrite of what was captured (body.go:103).
THEOREM CapturedCopied == Spec => []CopyOfCaptured
<1>1. InspectInv => CopyOfCaptured
  <2> SUFFICES ASSUME InspectInv, NEW r \in Requests, reply[r].named, Digested(r)
               PROVE  reply[r].copy = apply(active[r], seen[r], TRUE, msg[r].captured).body
    BY DEF CopyOfCaptured
  <2>1. Fit(r)
    BY DEF InspectInv
  <2> DEFINE re == reply[r]
             d == applied[r]
  <2>2. \A v, c : Bare(v, c).named = FALSE
    BY DEF Bare
  <2>3. /\ pc[r] = "sent" /\ re = Whole(d) /\ prof[r].mode = "enforce"
        /\ active[r] # <<>>
    BY <2>1, <2>2 DEF Fit, Answered, Answer, NoReply
  <2>4. re.named = d.changed /\ re.verdict = "allow" /\ (d.changed => re.copy = d.body)
    BY <2>3, WholeFields
  <2>5. /\ Picked(msg[r], prof[r], active[r], seen[r])
        /\ Clean(msg[r], active[r], seen[r], d)
    BY <2>1, <2>3, <2>4 DEF Fit, Working, Answered, Answer
  <2>6. Worth(msg[r], active[r], seen[r], d)
    BY <2>5, CleanOne
  <2> HIDE DEF re, d
  <2>7. d = apply(active[r], seen[r], TRUE, msg[r].captured)
    BY <2>4, <2>6 DEF Worth, Digested, re
  <2> QED
    BY <2>4, <2>7 DEF re
<1> QED
  BY <1>1, InspectInvariant, PTL

\* What an accepted neighbour asks about a group it names is delivered.
LEMMA AskedDelivered ==
    ASSUME NEW r, IsList(msg[r].prior), NEW g \in ToSet(prof[r].groups), IsList(prof[r].groups)
    PROVE  LET ask == EvaluatePrior(msg[r].prior, prof[r])
           IN  /\ g.name \in ask.on <=> Asked(r, g, "on")
               /\ g.name \in ask.off <=> Asked(r, g, "off")
<1> DEFINE p == prof[r]
           prior == msg[r].prior
           ask == EvaluatePrior(prior, p)
<1>1. g.name \in GroupNames(p)
  BY DEF GroupNames, ToSet
<1>2. ASSUME NEW act
      PROVE  TurnsOn(act, p, g.name) <=>
                /\ \E rule \in p.rules : Accepts(rule, act)
                /\ act.do = "mutate" /\ act.scope = "request" /\ act.group = g.name
                /\ act.set # "off"
  BY <1>1 DEF TurnsOn, outcome
<1>3. ASSUME NEW act
      PROVE  TurnsOff(act, p, g.name) <=>
                /\ \E rule \in p.rules : Accepts(rule, act)
                /\ act.do = "mutate" /\ act.scope = "request" /\ act.group = g.name
                /\ act.set = "off"
  BY <1>1 DEF TurnsOff, outcome
<1>4. /\ \A n : n \in ask.on <=> \E act \in ToSet(prior) : TurnsOn(act, p, n)
      /\ \A n : n \in ask.off <=> \E act \in ToSet(prior) : TurnsOff(act, p, n)
  BY PriorHeard
<1> HIDE DEF ask
<1>5. g.name \in ask.on <=> Asked(r, g, "on")
  BY <1>2, <1>4 DEF Asked
<1>6. g.name \in ask.off <=> Asked(r, g, "off")
  BY <1>3, <1>4 DEF Asked
<1> QED
  BY <1>5, <1>6 DEF ask

\* The groups under evaluation are the ones the profile and the accepted
\* neighbours want, in whatever order the neighbours spoke (prior.go:48).
THEOREM AskedGroups == Spec => []GroupsAsAsked
<1>1. InspectInv => GroupsAsAsked
  <2> SUFFICES ASSUME InspectInv, NEW r \in Requests, active[r] # <<>>,
                      NEW g \in ToSet(prof[r].groups)
               PROVE  g \in ToSet(active[r]) <=>
                         /\ g.frame = (msg[r].kind = "frame")
                         /\ g.default \/ Asked(r, g, "on")
                         /\ ~Asked(r, g, "off")
    BY DEF GroupsAsAsked
  <2>1. Fit(r) /\ IsMessage(msg[r])
    BY InspectAssumption DEF InspectInv, Given
  <2>2. Picked(msg[r], prof[r], active[r], seen[r])
    BY <2>1 DEF Fit, Working
  <2>3. g \in ToSet(active[r]) <=>
           /\ IsOn(g, EvaluatePrior(msg[r].prior, prof[r]))
           /\ g.frame = (msg[r].kind = "frame")
    BY <2>2, ActiveOnes
  <2>4. IsList(msg[r].prior) /\ IsList(prof[r].groups)
    BY <2>1, <2>2 DEF IsMessage, Picked, IsProfile
  <2> DEFINE ask == EvaluatePrior(msg[r].prior, prof[r])
  <2>5. /\ g.name \in ask.on <=> Asked(r, g, "on")
        /\ g.name \in ask.off <=> Asked(r, g, "off")
    BY <2>4, AskedDelivered
  <2> HIDE DEF ask
  <2>6. IsOn(g, ask) <=> (g.default \/ Asked(r, g, "on")) /\ ~Asked(r, g, "off")
    BY <2>5 DEF IsOn
  <2> QED
    BY <2>3, <2>6 DEF ask
<1> QED
  BY <1>1, InspectInvariant, PTL

\* All the matches of a request stay within config.MatchBudget, whatever limits
\* the operations have of their own, and the rows of the audit account for every
\* one of them (apply.go:54, 103).
THEOREM BudgetHeld == Spec => []BudgetKept
<1>1. InspectInv => BudgetKept
  <2> SUFFICES ASSUME InspectInv, NEW r \in Requests
               PROVE  /\ applied[r].budget >= 0
                      /\ Matched(applied[r].rows) = MatchBudget - applied[r].budget
    BY DEF BudgetKept
  <2>1. Working(msg[r], pc[r], prof[r], active[r], seen[r], applied[r])
    BY DEF InspectInv, Fit
  <2>2. Balanced(applied[r])
    <3>1. CASE applied[r] = Untouched(<<>>)
      BY <3>1, EmptyList, UntouchedBalanced
    <3>2. CASE applied[r] # Untouched(<<>>)
      <4>1. Picked(msg[r], prof[r], active[r], seen[r])
        BY <2>1, <3>2 DEF Working
      <4>2. PICK has, data : IsList(data) /\ applied[r] = apply(active[r], seen[r], has, data)
        BY <2>1, <3>2 DEF Working
      <4>3. IsList(active[r]) /\ \A g \in ToSet(active[r]) : IsOps(g.body)
        BY <4>1, ActiveOnes
      <4> QED
        BY <4>2, <4>3, ApplyBalanced
    <3> QED
      BY <3>1, <3>2
  <2>3. MatchBudget \in Nat
    BY DecideAssumption, Zenon
  <2> QED
    BY <2>2, <2>3 DEF Balanced
<1> QED
  BY <1>1, InspectInvariant, PTL

\* The event says "applied" of exactly the groups the reply carries, tells what
\* an observing profile would have applied and every request for a group nobody
\* knows; and it goes without saying only for a message that did not parse, has
\* no subject or made the handler panic (README.md:54, 124).
THEOREM AuditTruth == Spec => []AuditTellsTruth
<1>1. InspectInv => AuditTellsTruth
  <2> SUFFICES ASSUME InspectInv, NEW r \in Requests, pc[r] = "sent"
               PROVE  IF event[r] = NoEvent
                      THEN ~Parse(r) \/ ~msg[r].audited \/ reply[r].code = "internal_error"
                      ELSE LET e == event[r].engine
                           IN  /\ e.did = reply[r].groups
                               /\ (e.would # <<>>) = (reply[r].code = "observe")
                               /\ e.would # <<>> => e.passive
                               /\ prof[r].mode # "off" =>
                                     \A act \in ToSet(msg[r].prior) : Unheard(r, act) =>
                                        [act |-> act, outcome |-> "unknown_group"]
                                           \in ToSet(e.actions)
    BY DEF AuditTellsTruth
  <2>1. Fit(r) /\ IsMessage(msg[r])
    BY InspectAssumption DEF InspectInv, Given
  <2>2. Answer(msg[r], prof[r], active[r], seen[r], applied[r], reply[r])
    BY <2>1 DEF Fit, Answered
  <2>3. Noted(msg[r], prof[r], reply[r], event[r])
    BY <2>1 DEF Fit, Answered
  <2>4. CASE event[r] = NoEvent
    <3>1. NoEvent.verdict = "none"
      BY DEF NoEvent
    <3>2. ~Told(msg[r], prof[r], reply[r], event[r])
      BY <2>2, <2>4, <3>1 DEF Told, Answer
    <3> QED
      BY <2>3, <2>4, <3>2 DEF Noted, Parse
  <2>5. CASE event[r] # NoEvent
    <3> DEFINE e == event[r].engine
    <3>1. Told(msg[r], prof[r], reply[r], event[r])
      BY <2>3, <2>5 DEF Noted
    <3>2. /\ e.did = reply[r].groups /\ ((e.would # <<>>) <=> (reply[r].code = "observe"))
          /\ e.would # <<>> => e.passive = TRUE
          /\ \/ prof[r] = NoProfile \/ prof[r].mode = "off"
             \/ e.actions = EvaluatePrior(msg[r].prior, prof[r]).outcomes
      BY <3>1 DEF Told
    <3> HIDE DEF e
    <3>3. ASSUME prof[r].mode # "off", NEW act \in ToSet(msg[r].prior), Unheard(r, act)
          PROVE  [act |-> act, outcome |-> "unknown_group"] \in ToSet(e.actions)
      <4>1. prof[r] # NoProfile
        BY <3>3 DEF Unheard, NoProfile
      <4>2. outcome(act, prof[r]) = "unknown_group"
        BY <3>3 DEF Unheard, outcome
      <4>3. [act |-> act, outcome |-> outcome(act, prof[r])]
               \in ToSet(EvaluatePrior(msg[r].prior, prof[r]).outcomes)
        BY <2>1, PriorHeard DEF IsMessage
      <4> QED
        BY <3>2, <3>3, <4>1, <4>2, <4>3
    <3>4. (e.would # <<>>) = (reply[r].code = "observe")
      BY <3>2
    <3> QED
      BY <2>5, <3>2, <3>3, <3>4 DEF e
  <2> QED
    BY <2>4, <2>5
<1> QED
  BY <1>1, InspectInvariant, PTL

\* No group is selected by a blank content type, which Validate lets pass.
NoBlankType ==
    \A s \in Snapshots : \A n \in DOMAIN s : \A g \in ToSet(s[n].groups) : "" \notin g.types

\* A group only touches responses whose real content type it names, although
\* the headers object may not be readable (handler.go:322).
THEOREM SelectedOnly == Spec => [](NoBlankType => OnlySelected)
<1>1. InspectInv => (NoBlankType => OnlySelected)
  <2> SUFFICES ASSUME NoBlankType, InspectInv, NEW r \in Requests, NEW g \in Listed(r),
                      ~g.frame
               PROVE  typeAllowed(g.types, IF msg[r].inline # "none" THEN msg[r].inline
                                                                     ELSE msg[r].stored)
    BY DEF OnlySelected
  <2> DEFINE m == msg[r]
             a == active[r]
             s == seen[r]
             d == applied[r]
  <2>1. Fit(r) /\ g \in ToSet(a) /\ g.name \in ToSet(reply[r].groups)
    BY DEF InspectInv, Listed
  <2>2. /\ reply[r] = Whole(d) /\ prof[r].mode = "enforce" /\ a # <<>> /\ pc[r] = "sent"
    <3>1. \A v, c : Bare(v, c).groups = <<>>
      BY DEF Bare
    <3>2. ToSet(reply[r].groups) # {}
      BY <2>1
    <3>3. reply[r].groups # <<>>
      BY <3>2, EmptyList
    <3> QED
      BY <2>1, <3>1, <3>3 DEF Fit, Answered, Answer, NoReply
  <2>3. Picked(m, prof[r], a, s)
    BY <2>1, <2>2 DEF Fit, Working
  <2>4. Worth(m, a, s, d) /\ reply[r].groups = d.groups
    <3>1. reply[r].verdict = "allow" /\ reply[r].groups = d.groups
      BY <2>2, WholeFields
    <3>2. Clean(m, a, s, d)
      BY <2>1, <2>2, <3>1 DEF Fit, Answered, Answer
    <3> QED
      BY <2>3, <3>1, <3>2, CleanOne
  <2>5. PICK h \in ToSet(a) : h.name = g.name /\ Matches(h, s)
    BY <2>1, <2>4 DEF Worth
  <2>6. h = g /\ g \in ToSet(prof[r].groups) /\ g.frame = (m.kind = "frame")
    BY <2>1, <2>3, <2>5, ActiveOnes
  <2> HIDE DEF m, a, s, d
  <2>7. s.frame = FALSE /\ TypeSeen(m, a, s.ctype)
    <3>1. s = SeenAs(m, s.ctype) /\ m.kind # "frame" /\ TypeSeen(m, a, s.ctype)
      BY <2>3, <2>6 DEF Picked
    <3>2. s.frame = (m.kind = "frame")
      BY <3>1 DEF SeenAs
    <3> QED
      BY <3>1, <3>2
  <2>8. typeAllowed(g.types, s.ctype)
    BY <2>5, <2>6, <2>7 DEF Matches
  <2>9. "" \notin g.types
    BY <2>3, <2>6 DEF Picked, From, NoBlankType
  <2>10. g.types = {} \/ s.ctype # ""
    BY <2>8, <2>9, DecideAssumption DEF typeAllowed
  <2>11. g.types # {} => needsType(a)
    BY <2>1 DEF needsType, ToSet
  <2> QED
    BY <2>7, <2>8, <2>10, <2>11 DEF typeAllowed, TypeSeen, m
<1> QED
  BY <1>1, InspectInvariant, PTL

-----------------------------------------------------------------------------
(* The copies in the buffer.  A copy is written under the key of its       *)
(* request, so what a reply says of it holds as long as no two requests    *)
(* have one key: Parse accepts two messages of one node and rid.           *)

OwnKey == \A r, q \in Requests : Key[r] = Key[q] => r = q

\* A copy that is named was written, and a copy was written by the last step of
\* a request under an enforcing profile.
Copied(r) ==
    /\ reply[r].named => Key[r] \in DOMAIN out /\ out[Key[r]] \in {reply[r].copy, Gone}
    /\ Key[r] \in DOMAIN out => pc[r] \in {"sent", "mute"} /\ prof[r].mode = "enforce"

CopyInv == OwnKey => \A r \in Requests : Copied(r)

\* A bare reply names no copy.
LEMMA BareUnnamed ==
    ASSUME NEW verdict, NEW code
    PROVE  Bare(verdict, code).named = FALSE
  BY DEF Bare

\* handler.send names no copy that the reply does not name.
LEMMA SendUnnamed ==
    ASSUME Given, NEW r \in Requests, Fit(r), pc[r] # "sent",
           NEW re, NEW det, send(r, re, det), re.named = FALSE
    PROVE  reply'[r].named = FALSE
<1>1. reply[r].named = FALSE
  BY BareUnnamed DEF Fit, Answered, NoReply
<1> QED
  BY <1>1, SendOne

\* Only put names a copy, and nobody else writes one.
LEMMA StepUnnamed ==
    ASSUME InspectInv, NEW r \in Requests, Step(r), pc[r] # "put"
    PROVE  reply'[r].named = FALSE /\ out' = out
<1>0. Given /\ Fit(r)
  BY DEF InspectInv
<1>1. pc[r] # "sent"
  BY DEF Step, receive, evaluateShed, inspect, contentType, loadBody, inspectFrame, put,
         recoverInto, Busy
<1>2. reply[r].named = FALSE
  BY <1>0, <1>1, BareUnnamed DEF Fit, Answered, NoReply
<1>3. ASSUME NEW verdict, NEW code, NEW det, send(r, Bare(verdict, code), det)
      PROVE  reply'[r].named = FALSE
  BY <1>0, <1>1, <1>3, SendUnnamed, BareUnnamed
<1>4. CASE receive(r)
  <2>1. reply' = reply \/ \E code : send(r, Bare("error", code), NoDetails)
    <3>1. \/ send(r, FallbackReply("malformed"), NoDetails)
          \/ send(r, ErrorReply("version"), NoDetails)
          \/ send(r, ErrorReply("phase"), NoDetails)
          \/ UNCHANGED answer
      BY <1>0, <1>4, InspectAssumption
         DEF receive, Parse, Supports, Given, IsMessage
    <3> QED
      BY <3>1 DEF FallbackReply, ErrorReply, answer
  <2> QED
    BY <1>2, <1>3, <1>4, <2>1 DEF receive, buffer
<1>5. CASE evaluateShed(r)
  BY <1>3, <1>5 DEF evaluateShed, ErrorReply, buffer
<1>6. CASE inspect(r)
  <2>1. reply' = reply \/ \E verdict, code, det : send(r, Bare(verdict, code), det)
    BY <1>6 DEF inspect, ErrorReply, plain, answer
  <2> QED
    BY <1>2, <1>3, <1>6, <2>1 DEF inspect, buffer
<1>7. CASE contentType(r)
  BY <1>2, <1>7 DEF contentType, buffer, answer
<1>8. CASE loadBody(r) \/ inspectFrame(r)
  <2>1. ASSUME NEW did, NEW missing,
               conclude(r, did, missing) \/ concludeFrame(r, did, missing)
        PROVE  reply'[r].named = FALSE
    <3>1. CASE WritesCopy(r)
      BY <1>2, <3>1 DEF WritesCopy, answer
    <3>2. CASE failed(r, did, "body_unavailable")
      BY <1>3, <3>2 DEF failed, failPer, plain
    <3>3. CASE noop(r, did)
      BY <1>3, <3>3 DEF noop, plain
    <3>4. CASE observed(r, did)
      BY <1>3, <3>4 DEF observed, plain
    <3>5. CASE rewritten(r, did, Rewrite(did))
      <4>1. Rewrite(did).named = FALSE
        BY RewriteFields
      <4> QED
        BY <1>0, <1>1, <3>5, <4>1, SendUnnamed DEF rewritten
    <3> QED
      BY <2>1, <3>1, <3>2, <3>3, <3>4, <3>5 DEF conclude, concludeFrame
  <2>2. \/ send(r, ErrorReply("store_unavailable"), Engine(r, prof[r]))
        \/ \E did, missing : conclude(r, did, missing) \/ concludeFrame(r, did, missing)
    BY <1>8 DEF loadBody, inspectFrame
  <2> QED
    BY <1>3, <1>8, <2>1, <2>2 DEF loadBody, inspectFrame, ErrorReply, buffer
<1>9. CASE recoverInto(r)
  <2>1. out' = out /\ (reply'[r] = reply[r] \/ reply'[r] = Bare("error", "internal_error"))
    BY <1>0, <1>9 DEF recoverInto, FallbackReply, Given
  <2> QED
    BY <1>2, <2>1, BareUnnamed
<1> QED
  BY <1>4, <1>5, <1>6, <1>7, <1>8, <1>9 DEF Step, put

\* The last step of a request that writes its copy.
LEMMA PutCopies ==
    ASSUME InspectInv, NEW r \in Requests, Step(r), pc[r] = "put"
    PROVE  /\ pc'[r] \in {"sent", "mute"} /\ prof'[r].mode = "enforce"
           /\ out' = out \/ out' = Put(out, Key[r], applied[r].body)
           /\ \/ reply'[r].named = FALSE
              \/ out' = Put(out, Key[r], applied[r].body) /\ reply'[r].copy = applied[r].body
<1> DEFINE did == applied[r]
<1>0. Given /\ Fit(r)
  BY DEF InspectInv
<1>1. prof[r].mode = "enforce" /\ did.changed = TRUE
  BY <1>0 DEF Fit, Working
<1>2. reply[r].named = FALSE
  BY <1>0, BareUnnamed DEF Fit, Answered, NoReply
<1>3. CASE put(r)
  <2>1. PICK res \in PutResults :
          /\ IF res = "ok"
             THEN rewritten(r, did, [Rewrite(did) EXCEPT !.named = TRUE, !.copy = did.body])
             ELSE failed(r, did, "store_error")
          /\ out' = IF res \in {"ok", "late"} THEN Put(out, Key[r], did.body) ELSE out
    BY <1>3 DEF put
  <2>2. prof' = prof
    BY <1>3 DEF put, work
  <2>3. CASE res = "ok"
    <3>1. rewritten(r, did, Whole(did))
      BY <1>1, <2>1, <2>3, WithCopy
    <3>2. pc'[r] \in {"sent", "mute"} /\ (reply'[r] = Whole(did) \/ reply'[r] = reply[r])
      BY <1>0, <3>1, SendOne DEF rewritten
    <3>3. Whole(did).copy = did.body
      BY <1>1, WholeFields
    <3> QED
      BY <1>1, <1>2, <2>1, <2>2, <2>3, <3>2, <3>3
  <2>4. CASE res # "ok"
    <3>1. failed(r, did, "store_error")
      BY <2>1, <2>4
    <3>2. failPer(prof[r], "store_error", did).named = FALSE
      BY BareUnnamed DEF failPer, plain
    <3>3. pc'[r] \in {"sent", "mute"} /\ reply'[r].named = FALSE
      BY <1>0, <3>1, <3>2, SendOne, SendUnnamed DEF failed
    <3> QED
      BY <1>1, <2>1, <2>2, <3>3
  <2> QED
    BY <2>3, <2>4
<1>4. CASE recoverInto(r)
  <2>1. /\ out' = out \/ out' = Put(out, Key[r], did.body)
        /\ prof' = prof /\ pc'[r] \in {"sent", "mute"}
        /\ reply'[r] = reply[r] \/ reply'[r] = Bare("error", "internal_error")
    BY <1>0, <1>4 DEF recoverInto, FallbackReply, Given, work
  <2> QED
    BY <1>1, <1>2, <2>1, BareUnnamed
<1> QED
  BY <1>3, <1>4 DEF Step, receive, evaluateShed, inspect, contentType, loadBody, inspectFrame

\* There is no copy before the first step.
LEMMA InitCopied == Init => CopyInv
<1> SUFFICES ASSUME Init, NEW r \in Requests PROVE Copied(r)
  BY DEF CopyInv
<1>1. reply[r] = NoReply /\ DOMAIN out = {}
  BY DEF Init
<1>2. NoReply.named = FALSE
  BY BareUnnamed DEF NoReply
<1> QED
  BY <1>1, <1>2 DEF Copied

\* Every step keeps the copies as reported, given InspectInv.
LEMMA StepCopied == InspectInv /\ CopyInv /\ [Next]_vars => CopyInv'
<1> SUFFICES ASSUME InspectInv, CopyInv, [Next]_vars, OwnKey, NEW q \in Requests
             PROVE  Copied(q)'
  BY DEF CopyInv, OwnKey
<1>0. Copied(q) /\ Given /\ Fit(q)
  BY DEF CopyInv, InspectInv
<1>1. ASSUME out' = out, Alone(q) PROVE Copied(q)'
  BY <1>0, <1>1 DEF Copied, Alone
<1>2. ASSUME NEW r \in Requests, Step(r), r # q PROVE Copied(q)'
  <2>1. Alone(q)
    <3>1. Keeps(r)
      BY <1>2, Receives, Sheds, Inspects, AsksType, LoadsKeep, Writes, Recovers DEF Step
    <3> QED
      BY <1>2, <3>1 DEF Keeps
  <2>2. CASE out' = out
    BY <1>1, <2>1, <2>2
  <2>3. CASE out' = Put(out, Key[r], applied[r].body)
    <3>1. Key[r] # Key[q]
      BY <1>2 DEF OwnKey
    <3>2. /\ Key[q] \in DOMAIN out' <=> Key[q] \in DOMAIN out
          /\ Key[q] \in DOMAIN out => out'[Key[q]] = out[Key[q]]
      BY <2>3, <3>1 DEF Put
    <3> QED
      BY <1>0, <2>1, <3>2 DEF Copied, Alone
  <2> QED
    BY <1>2, <2>2, <2>3, StepUnnamed, PutCopies
<1>3. ASSUME Step(q) PROVE Copied(q)'
  <2>1. CASE pc[q] # "put"
    <3>1. reply'[q].named = FALSE /\ out' = out
      BY <1>3, <2>1, StepUnnamed
    <3>2. pc[q] \notin {"sent", "mute"}
      BY <1>3 DEF Step, receive, evaluateShed, inspect, contentType, loadBody,
                  inspectFrame, put, recoverInto, Busy
    <3> QED
      BY <1>0, <3>1, <3>2 DEF Copied
  <2>2. CASE pc[q] = "put"
    <3> DEFINE v == applied[q].body
    <3>1. /\ pc'[q] \in {"sent", "mute"} /\ prof'[q].mode = "enforce"
          /\ \/ reply'[q].named = FALSE
             \/ out' = Put(out, Key[q], v) /\ reply'[q].copy = v
      BY <1>3, <2>2, PutCopies
    <3>2. Key[q] \in DOMAIN Put(out, Key[q], v) /\ Put(out, Key[q], v)[Key[q]] = v
      BY DEF Put
    <3> QED
      BY <3>1, <3>2 DEF Copied
  <2> QED
    BY <2>1, <2>2
<1>4. CASE Rollout \/ \E k \in Keys : Expire(k) \/ Garble(k)
  <2>1. Alone(q)
    BY <1>4, Surroundings
  <2>2. CASE out' = out
    BY <1>1, <2>1, <2>2
  <2>3. ASSUME NEW k \in DOMAIN out, out' = [out EXCEPT ![k] = Gone] PROVE Copied(q)'
    <3>1. /\ DOMAIN out' = DOMAIN out
          /\ \A x \in DOMAIN out : out'[x] \in {out[x], Gone}
      BY <2>3
    <3>2. /\ pc'[q] = pc[q] /\ prof'[q] = prof[q] /\ reply'[q] = reply[q]
      BY <2>1 DEF Alone
    <3> QED
      BY <1>0, <3>1, <3>2 DEF Copied
  <2> QED
    BY <1>4, <2>2, <2>3 DEF Rollout, Expire, Garble, buffer
<1>5. CASE UNCHANGED vars
  BY <1>1, <1>5 DEF vars, Alone
<1> QED
  BY <1>2, <1>3, <1>4, <1>5 DEF Next

\* Both invariants hold always.
LEMMA CopyInvariant == Spec => [](InspectInv /\ CopyInv)
<1>1. InspectInv /\ CopyInv /\ [Next]_vars => InspectInv' /\ CopyInv'
  BY StepFits, StepCopied
<1> QED
  BY <1>1, InitFits, InitCopied, PTL DEF Spec

\* The object a reply names was written and holds what the reply says until it
\* expires, also when Put came late or a panic was recovered, as long as no two
\* requests have one key (handler.go:240, 251).
THEOREM CopyReported == Spec => [](OwnKey => CopyAsReported)
<1>1. CopyInv => (OwnKey => CopyAsReported)
  BY DEF CopyInv, Copied, CopyAsReported
<1> QED
  BY <1>1, CopyInvariant, PTL

\* An observing profile writes no copy, changes nothing and denies nobody,
\* whatever generation is rolled out meanwhile (handler.go:213).
THEOREM ObserverIsPassive == Spec => [](OwnKey => ObserveChangesNothing)
<1>1. InspectInv /\ CopyInv => (OwnKey => ObserveChangesNothing)
  <2> SUFFICES ASSUME InspectInv, CopyInv, OwnKey, NEW r \in Requests,
                      prof[r].mode = "observe"
               PROVE  /\ Key[r] \notin DOMAIN out
                      /\ reply[r].groups = <<>> /\ reply[r].verdict # "deny"
    BY DEF ObserveChangesNothing
  <2>1. Fit(r) /\ Copied(r)
    BY DEF InspectInv, CopyInv
  <2>2. Key[r] \notin DOMAIN out
    BY <2>1 DEF Copied
  <2>3. \A v, c : Bare(v, c).groups = <<>> /\ Bare(v, c).verdict = v
    BY DEF Bare
  <2>4. reply[r].groups = <<>> /\ reply[r].verdict # "deny"
    <3>1. CASE pc[r] # "sent"
      <4>1. reply[r] = Bare("none", "")
        BY <2>1, <3>1 DEF Fit, Answered, NoReply
      <4>2. Bare("none", "").groups = <<>>
        BY <2>3
      <4>3. Bare("none", "").verdict = "none"
        BY <2>3
      <4> QED
        BY <4>1, <4>2, <4>3
    <3>2. CASE pc[r] = "sent"
      <4>1. Answer(msg[r], prof[r], active[r], seen[r], applied[r], reply[r])
        BY <2>1, <3>2 DEF Fit, Answered
      <4>2. reply[r] = Bare(reply[r].verdict, reply[r].code) /\ reply[r].verdict # "deny"
        BY <4>1 DEF Answer
      <4> QED
        BY <2>3, <4>2
    <3> QED
      BY <3>1, <3>2
  <2> QED
    BY <2>2, <2>4
<1> QED
  BY <1>1, CopyInvariant, PTL

-----------------------------------------------------------------------------
(* The health check.                                                       *)

\* A group of header operations that selects every response, as the one of
\* profiles/_probe/profile.yaml.
Unconditional(g) ==
    g.default /\ g.frame = FALSE /\ g.status = {} /\ g.types = {} /\ g.body = <<>>

\* Every generation carries a _probe like the image's.
ProbeServed ==
    \A s \in Snapshots :
        /\ "_probe" \in DOMAIN s /\ s["_probe"].mode = "enforce"
        /\ s["_probe"].groups # <<>>
        /\ \A g \in ToSet(s["_probe"].groups) : Unconditional(g)

\* Where the request of the health check can be, and what it can have got.
Probed(r) ==
    /\ pc[r] \in {"wire", "queued", "body", "sent"}
    /\ pc[r] = "sent" =>
          reply[r].code \in {"overload", "internal_error"} \/ healthy(reply[r])

ProbeInv == ProbeServed => \A r \in Requests : msg[r] = ProbeRequest => Probed(r)

\* The request of the health check.
LEMMA ProbeFields ==
    LET m == ProbeRequest
    IN  /\ m.kind = "response" /\ m.profile = "_probe" /\ m.prior = <<>>
        /\ m.inline = "none" /\ m.answerTo = TRUE
  BY DEF ProbeRequest

\* All the groups of _probe are taken, and none wants anything.
LEMMA ProbeChosen ==
    ASSUME ProbeServed, NEW s \in Snapshots, IsProfile(s["_probe"])
    PROVE  LET p == s["_probe"]
               groups == Chosen(ProbeRequest, p)
           IN  /\ ~EvaluatePrior(<<>>, p).skip
               /\ IsList(groups) /\ groups # <<>>
               /\ \A g \in ToSet(groups) : Unconditional(g)
<1> DEFINE p == s["_probe"]
           ask == EvaluatePrior(<<>>, p)
           on == Active(ask, p)
           fr == ProbeRequest.kind = "frame"
           groups == ForPhase(on, fr)
<1>1. fr = FALSE /\ Chosen(ProbeRequest, p) = groups
  BY ProbeFields DEF Chosen
<1>2. IsList(p.groups) /\ p.groups # <<>> /\ \A g \in ToSet(p.groups) : Unconditional(g)
  BY DEF ProbeServed, IsProfile
<1>3. ~ask.skip /\ \A n : n \notin ask.off
  BY EmptyList, PriorHeard
<1>4. IsList(on) /\ \A g : g \in ToSet(on) <=> g \in ToSet(p.groups) /\ IsOn(g, ask)
  BY <1>2, ActiveGroups
<1>5. IsList(groups) /\ \A g : g \in ToSet(groups) <=> g \in ToSet(on) /\ g.frame = fr
  BY <1>4, PhaseGroups
<1> HIDE DEF ask, on, fr, groups, p
<1>6. \A g \in ToSet(p.groups) : IsOn(g, ask) /\ g.frame = fr
  BY <1>1, <1>2, <1>3 DEF IsOn, Unconditional
<1>7. ToSet(groups) = ToSet(p.groups)
  BY <1>4, <1>5, <1>6
<1>8. groups # <<>>
  BY <1>2, <1>5, <1>7, ListFacts
<1> QED
  BY <1>1, <1>2, <1>3, <1>5, <1>7, <1>8 DEF ask, p

\* Groups that want nothing are applied without a body, and change none.
LEMMA UnconditionalApplied ==
    ASSUME NEW groups, IsList(groups), groups # <<>>,
           \A g \in ToSet(groups) : Unconditional(g), NEW look, look.frame = FALSE
    PROVE  LET did == apply(groups, look, FALSE, <<>>)
           IN  did.groups # <<>> /\ did.changed = FALSE
<1> DEFINE did == apply(groups, look, FALSE, <<>>)
<1>1. \A g \in ToSet(groups) : IsList(g.body)
  BY EmptyList DEF Unconditional
<1>2. ApplyDone(groups, look, FALSE, did)
  BY <1>1, ApplyLaw
<1> HIDE DEF did
<1>3. PICK g \in ToSet(groups) : TRUE
  BY ListFacts
<1>4. Applies(g, look, FALSE)
  BY <1>3 DEF Applies, Matches, HasBody, typeAllowed, Unconditional
<1>5. g.name \in ToSet(did.groups)
  BY <1>2, <1>3, <1>4 DEF ApplyDone
<1>6. did.groups # <<>>
  BY <1>5, EmptyList
<1>7. did.changed = FALSE
  BY <1>2 DEF ApplyDone
<1> QED
  BY <1>6, <1>7 DEF did

\* The inspection of the probe goes straight on to the body.
LEMMA ProbeInspected ==
    ASSUME InspectInv, ProbeServed, NEW r \in Requests, msg[r] = ProbeRequest, inspect(r)
    PROVE  pc'[r] = "body"
<1> DEFINE p == snap["_probe"]
           groups == Chosen(ProbeRequest, p)
<1>1. Given
  BY DEF InspectInv
<1>2. snap \in Snapshots /\ "_probe" \in DOMAIN snap /\ p.mode = "enforce" /\ IsProfile(p)
  BY <1>1, InspectAssumption DEF Given, ProbeServed
<1>3. /\ ~EvaluatePrior(<<>>, p).skip /\ IsList(groups) /\ groups # <<>>
      /\ \A g \in ToSet(groups) : Unconditional(g)
  BY <1>2, ProbeChosen
<1>4. /\ msg[r].profile = "_probe" /\ msg[r].prior = <<>>
      /\ groups = ForPhase(Active(EvaluatePrior(msg[r].prior, p), p), msg[r].kind = "frame")
  BY ProbeFields DEF Chosen
<1>5. ~needsType(groups)
  BY <1>3 DEF needsType, Unconditional, ToSet
<1> HIDE DEF groups
<1>6. pc' = [pc EXCEPT ![r] = "body"]
  BY <1>2, <1>3, <1>4, <1>5 DEF inspect
<1> QED
  BY <1>1, <1>6 DEF Given

\* ... where nothing is loaded, and its groups are applied.
LEMMA ProbeLoaded ==
    ASSUME InspectInv, ProbeServed, NEW r \in Requests, msg[r] = ProbeRequest, loadBody(r)
    PROVE  pc'[r] = "sent" /\ healthy(reply'[r])
<1> DEFINE did == apply(active[r], seen[r], FALSE, <<>>)
<1>1. Given /\ Fit(r) /\ pc[r] = "body"
  BY DEF InspectInv, loadBody
<1>2. Picked(msg[r], prof[r], active[r], seen[r])
  BY <1>1 DEF Fit, Working
<1>3. PICK s \in Snapshots : prof[r] = s["_probe"]
  BY <1>2, ProbeFields DEF Picked, From
<1>4. /\ prof[r].mode = "enforce" /\ IsList(active[r]) /\ active[r] # <<>>
      /\ \A g \in ToSet(active[r]) : Unconditional(g)
  BY <1>2, <1>3, ProbeChosen DEF Picked, ProbeServed
<1>5. seen[r].frame = FALSE
  <2>1. seen[r] = SeenAs(msg[r], seen[r].ctype)
    BY <1>2 DEF Picked
  <2>2. ASSUME NEW ct PROVE SeenAs(msg[r], ct).frame = (msg[r].kind = "frame")
    BY DEF SeenAs
  <2>3. seen[r].frame = (msg[r].kind = "frame")
    BY <2>1, <2>2
  <2>4. (msg[r].kind = "frame") = FALSE
    BY ProbeFields
  <2> QED
    BY <2>3, <2>4
<1>6. did.groups # <<>> /\ did.changed = FALSE
  BY <1>4, <1>5, UnconditionalApplied
<1>7. ~groupsNeedBody(active[r]) /\ ~bodyWanted(active[r], seen[r])
  BY <1>4 DEF groupsNeedBody, bodyWanted, HasBody, Unconditional, ToSet
<1>8. Loaded.fault = FALSE /\ Loaded.available = TRUE /\ Loaded.truncated = FALSE
        /\ Loaded.has = FALSE /\ Loaded.data = <<>>
  BY DEF Loaded
<1>9. conclude(r, did, FALSE)
  <2> DEFINE missing == ~Loaded.available \/ Loaded.truncated
  <2>1. conclude(r, Applied(r, Loaded, missing), missing)
    BY <1>7, <1>8 DEF loadBody
  <2>2. missing = FALSE
    BY <1>8
  <2> HIDE DEF missing
  <2>3. Applied(r, Loaded, missing) = did
    BY <1>8, <2>2 DEF Applied
  <2> QED
    BY <2>1, <2>2, <2>3
<1> HIDE DEF did
<1>10. rewritten(r, did, Rewrite(did))
  BY <1>4, <1>6, <1>9 DEF conclude
<1>11. pc'[r] = "sent" /\ reply'[r] = Rewrite(did)
  BY <1>1, <1>10, ProbeFields DEF rewritten, send, Given
<1>12. Rewrite(did).verdict = "allow" /\ Rewrite(did).groups = did.groups
  BY DEF Rewrite, plain, Bare
<1> QED
  BY <1>6, <1>11, <1>12 DEF healthy

\* Every step keeps the health check on its way.
LEMMA StepProbed == InspectInv /\ ProbeInv /\ [Next]_vars => ProbeInv'
<1> SUFFICES ASSUME InspectInv, ProbeInv, [Next]_vars, ProbeServed, NEW q \in Requests,
                    msg'[q] = ProbeRequest
             PROVE  Probed(q)'
  BY DEF ProbeInv, ProbeServed
<1>1. ASSUME Alone(q) PROVE Probed(q)'
  BY <1>1 DEF ProbeInv, Probed, Alone
<1>2. ASSUME NEW r \in Requests, Step(r), r # q PROVE Probed(q)'
  <2>1. Keeps(r)
    BY <1>2, Receives, Sheds, Inspects, AsksType, LoadsKeep, Writes, Recovers DEF Step
  <2> QED
    BY <1>1, <1>2, <2>1 DEF Keeps
<1>3. ASSUME Step(q) PROVE Probed(q)'
  <2>0. msg[q] = ProbeRequest
    BY <1>3 DEF Step, receive, evaluateShed, inspect, contentType, loadBody, inspectFrame,
                put, recoverInto, given
  <2>1. Given /\ Probed(q)
    BY <2>0 DEF ProbeInv, InspectInv
  <2>2. msg[q].kind = "response" /\ msg[q].answerTo = TRUE
    BY <2>0, ProbeFields
  <2>3. ASSUME NEW re, NEW det, send(q, re, det),
               re.code \in {"overload", "internal_error"}
        PROVE  Probed(q)'
    <3>1. pc'[q] = "sent" /\ reply'[q] = re
      BY <2>1, <2>2, <2>3 DEF send, Given
    <3> QED
      BY <2>3, <3>1 DEF Probed
  <2>4. CASE receive(q)
    <3>1. pc'[q] = "queued"
      BY <2>1, <2>2, <2>4 DEF receive, Parse, Supports, Given
    <3> QED
      BY <3>1 DEF Probed
  <2>5. CASE evaluateShed(q)
    <3>1. ErrorReply("overload").code = "overload"
      BY DEF ErrorReply, Bare
    <3> QED
      BY <2>3, <2>5, <3>1 DEF evaluateShed
  <2>6. CASE inspect(q)
    <3>1. pc'[q] = "body"
      BY <2>0, <2>6, ProbeInspected
    <3> QED
      BY <3>1 DEF Probed
  <2>7. CASE loadBody(q)
    <3>1. pc'[q] = "sent" /\ healthy(reply'[q])
      BY <2>0, <2>7, ProbeLoaded
    <3> QED
      BY <3>1 DEF Probed
  <2>8. CASE recoverInto(q)
    <3>1. FallbackReply("internal_error").code = "internal_error"
      BY DEF FallbackReply, Bare
    <3>2. pc'[q] = "sent" /\ reply'[q] = FallbackReply("internal_error")
      <4>1. DOMAIN reply = Requests /\ DOMAIN pc = Requests
        BY <2>1 DEF Given
      <4> QED
        BY <2>2, <2>8, <4>1 DEF recoverInto
    <3> QED
      BY <3>1, <3>2 DEF Probed
  <2>9. ~contentType(q) /\ ~inspectFrame(q) /\ ~put(q)
    BY <2>1, <2>2 DEF contentType, inspectFrame, put, Probed
  <2> QED
    BY <1>3, <2>4, <2>5, <2>6, <2>7, <2>8, <2>9 DEF Step
<1>4. CASE Rollout \/ \E k \in Keys : Expire(k) \/ Garble(k)
  BY <1>1, <1>4, Surroundings
<1>5. CASE UNCHANGED vars
  BY <1>1, <1>5 DEF vars, Alone
<1> QED
  BY <1>2, <1>3, <1>4, <1>5 DEF Next

\* The health check passes whenever it is evaluated at all, without a store and
\* under every generation whose _probe is like the image's (README.md:127).
THEOREM ProbeAnswered == Spec => [](ProbeServed => ProbePasses)
<1>1. Init => ProbeInv
  <2> SUFFICES ASSUME Init, NEW r \in Requests PROVE Probed(r)
    BY DEF ProbeInv
  <2>1. pc[r] = "wire"
    BY DEF Init
  <2> QED
    BY <2>1 DEF Probed
<1>2. ProbeInv => (ProbeServed => ProbePasses)
  BY DEF ProbeInv, Probed, ProbePasses
<1> QED
  BY <1>1, <1>2, StepProbed, InspectInvariant, PTL DEF Spec
=============================================================================
