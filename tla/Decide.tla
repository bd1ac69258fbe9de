------------------------------- MODULE Decide -------------------------------
(***************************************************************************)
(* The pure part of an inspection (internal/decide, and the selectors of   *)
(* internal/config/profile.go): which groups of a profile are on for a     *)
(* request, which of them match, and what they do to the body and to the   *)
(* headers.                                                                *)
(*                                                                         *)
(* A body is a sequence of tokens.  A pattern stands for the one word of   *)
(* tokens that it matches, which is empty for a pattern such as ^ that     *)
(* matches before the first token, in an empty body too.  Matches do not   *)
(* overlap, and a rewrite may leave a text in which the pattern matches    *)
(* anew.  A content type is the media type left after typeAllowed has      *)
(* lowered it and cut its parameters.                                      *)
(***************************************************************************)
EXTENDS Integers, Sequences, FiniteSets, SequencesExt

CONSTANTS MatchBudget,  \* config.MatchBudget: matches of one request
          SuffixOf,     \* the "+suffix" of each media type
          Lit           \* the tokens of a pattern or text that is not one token

ASSUME DecideAssumption ==
    /\ MatchBudget \in Nat \ {0}
    /\ "" \in DOMAIN SuffixOf /\ SuffixOf[""] = ""
    /\ \A s \in DOMAIN Lit : Lit[s] \in Seq(ToSet(Lit[s]))

\* A sequence, whatever its elements are.
IsList(s) == s \in Seq(ToSet(s))

Tokens(s) == IF s \in DOMAIN Lit THEN Lit[s] ELSE <<s>>

-----------------------------------------------------------------------------
(* decide/prior.go: what the neighbours ask for.                           *)

NoAsk == [skip |-> FALSE, on |-> {}, off |-> {}, outcomes |-> <<>>]

Accepts(rule, act) ==
    /\ rule.from = act.from
    /\ act.do \in rule.accept
    /\ rule.codes = {} \/ act.code \in rule.codes

GroupNames(p) == {p.groups[i].name : i \in DOMAIN p.groups}

\* ActionOutcome.Outcome.
outcome(act, p) ==
    IF ~((\E rule \in p.rules : Accepts(rule, act)) /\ act.scope = "request") THEN "no_rule"
    ELSE IF act.do = "mutate" /\ act.group \notin GroupNames(p) THEN "unknown_group"
    ELSE IF act.do \in {"skip", "mutate"} THEN "applied" ELSE "no_rule"

\* Mutant: the last request about a group wins.
deliverLastWins(ask, act, p) ==
    LET told == [ask EXCEPT !.outcomes = Append(@, [act |-> act, outcome |-> outcome(act, p)])]
    IN  IF outcome(act, p) # "applied" THEN told
        ELSE IF act.do = "skip" THEN [told EXCEPT !.skip = TRUE]
        ELSE IF act.set = "off"
        THEN [told EXCEPT !.off = @ \cup {act.group}, !.on = @ \ {act.group}]
        ELSE [told EXCEPT !.on = @ \cup {act.group}, !.off = @ \ {act.group}]

deliver(ask, act, p) ==
    LET told == [ask EXCEPT !.outcomes = Append(@, [act |-> act, outcome |-> outcome(act, p)])]
    IN  IF outcome(act, p) # "applied" THEN told
        ELSE IF act.do = "skip" THEN [told EXCEPT !.skip = TRUE]
        ELSE IF act.set = "off" THEN [told EXCEPT !.off = @ \cup {act.group}]
        ELSE [told EXCEPT !.on = @ \cup {act.group}]

EvaluatePrior(prior, p) == FoldLeft(LAMBDA ask, act : deliver(ask, act, p), NoAsk, prior)

IsOn(g, ask) == (g.default \/ g.name \in ask.on) /\ g.name \notin ask.off

Kept(groups, g, keep) == IF keep THEN Append(groups, g) ELSE groups

Active(ask, p) ==
    FoldLeft(LAMBDA groups, g : Kept(groups, g, IsOn(g, ask)), <<>>, p.groups)

ForPhase(groups, frame) ==
    FoldLeft(LAMBDA kept, g : Kept(kept, g, g.frame = frame), <<>>, groups)

-----------------------------------------------------------------------------
(* config/profile.go: the selectors of a group.                            *)

HasBody(g) == g.body # <<>>

\* Mutant: an unknown content type is taken to be one of those wanted.
typeAllowedBlind(want, ctype) ==
    want = {} \/ ctype \in want \cup {""} \/ SuffixOf[ctype] \in want \ {""}

typeAllowed(want, ctype) ==
    want = {} \/ ctype \in want \/ SuffixOf[ctype] \in want \ {""}

Matches(g, seen) ==
    IF seen.frame
    THEN /\ g.direction = {} \/ seen.direction \in g.direction
         /\ g.opcode = {} \/ seen.opcode \in g.opcode
    ELSE /\ g.status = {} \/ seen.status \in g.status
         /\ typeAllowed(g.types, seen.ctype)

groupsNeedBody(groups) == \E i \in DOMAIN groups : HasBody(groups[i])

\* bodyWanted and, for a frame, frameBodyWanted.
bodyWanted(groups, seen) ==
    \E i \in DOMAIN groups : HasBody(groups[i]) /\ Matches(groups[i], seen)

-----------------------------------------------------------------------------
(* decide/apply.go: the operations of the groups, in order.                *)

\* The matches to the left of position i do not reach it, and one starts there.
nextMatch(starts, m, found, i) ==
    IF i \in starts /\ \A j \in found : j + m <= i THEN found \cup {i} ELSE found

\* The matches of a text of n tokens, from the left and without overlap.
nonOverlapping(starts, m, n) ==
    FoldLeft(LAMBDA found, i : nextMatch(starts, m, found, i), {}, [i \in 1..n |-> i])

\* The positions at which word stands in body.
Starts(word, body) ==
    {i \in 1..Len(body) - Len(word) + 1 : SubSeq(body, i, i + Len(word) - 1) = word}

\* The positions at which pattern matches; 0 is the empty text before the body.
Found(pattern, body) ==
    LET word == Tokens(pattern)
    IN  IF word = <<>> THEN {0}
        ELSE nonOverlapping(Starts(word, body), Len(word), Len(body))

\* FindAllSubmatchIndex: the first n matches.
FindAll(pattern, body, n) ==
    {i \in Found(pattern, body) : Cardinality({j \in Found(pattern, body) : j < i}) < n}

\* Regexp.Expand: $0, or a group that spans the match, copies what was matched.
Submatch == "$0"

Expand(to, text) ==
    FlattenSeq([k \in 1..Len(to) |-> IF to[k] = Submatch THEN text ELSE <<to[k]>>])

Rewritten(op, text) ==
    CASE op.op = "remove"        -> <<>>
      [] op.op = "replace"       -> Expand(Tokens(op.text), text)
      [] op.op = "insert_before" -> Tokens(op.text) \o text
      [] op.op = "insert_after"  -> text \o Tokens(op.text)

\* What BodyOp.compile accepts.
IsOp(op) ==
    /\ op.op \in {"remove", "replace", "insert_before", "insert_after"}
    /\ op.max \in Nat \ {0}
IsOps(ops) == IsList(ops) /\ \A op \in ToSet(ops) : IsOp(op)

\* What Validate and compile leave of a profile (profile.go:250, 277, 369).
IsProfile(p) ==
    /\ p.mode \in {"enforce", "observe", "off"}
    /\ IsList(p.groups) /\ \A g \in ToSet(p.groups) : IsOps(g.body)
    /\ \A g, h \in ToSet(p.groups) : g.name = h.name => g = h

\* Mutant: an operation may use up to its own max_matches, whatever is left.
limitOwn(op, budget) == op.max

limit(op, budget) == IF op.max > budget THEN budget ELSE op.max

applyBodyOp(op, body, budget) ==
    LET hits == FindAll(op.pattern, body, limit(op, budget))
        m == Len(Tokens(op.pattern))
        text(i) == IF i = 0 THEN <<>> ELSE SubSeq(body, i, i + m - 1)
        inside(i) == \E j \in hits : j <= i /\ i < j + m
        piece(i) == IF i \in hits THEN Rewritten(op, text(i))
                    ELSE IF i = 0 \/ inside(i) THEN <<>> ELSE <<body[i]>>
    IN  [body |-> FlattenSeq([k \in 1..Len(body) + 1 |-> piece(k - 1)]),
         n    |-> Cardinality(hits)]

Put(f, k, v) == [x \in DOMAIN f \cup {k} |-> IF x = k THEN v ELSE f[x]]

applyHeaderOp(headers, op) ==
    IF op.op = "set" THEN [headers EXCEPT !.set = Put(@, op.name, op.value)]
                     ELSE [headers EXCEPT !.unset = @ \cup {op.name}]

NoHeaders == [set |-> <<>>, unset |-> {}]

Row(g, n, skipped) == [group |-> g.name, matches |-> n, skipped |-> skipped]

\* One body operation of a group, acc.row being the group's row.
bodyStep(acc, op) ==
    IF acc.budget <= 0
    THEN [acc EXCEPT !.spent = TRUE, !.row.skipped = "budget"]
    ELSE LET done == applyBodyOp(op, acc.body, acc.budget)
         IN  IF done.n = 0 THEN acc
             ELSE [acc EXCEPT !.body = done.body, !.changed = TRUE,
                              !.budget = @ - done.n, !.row.matches = @ + done.n]

\* The loops over the operations of a group.
bodySteps(acc, ops) == FoldLeft(bodyStep, acc, ops)
headerSteps(headers, ops) == FoldLeft(applyHeaderOp, headers, ops)

\* Mutant: no group applies without a body, even one of headers only.
groupStepBodiless(acc, g, seen, has) ==
    IF ~Matches(g, seen)
    THEN [acc EXCEPT !.rows = Append(@, Row(g, 0, "conditions"))]
    ELSE IF ~has
    THEN [acc EXCEPT !.rows = Append(@, Row(g, 0, "no_body"))]
    ELSE LET after == bodySteps([acc EXCEPT !.row = Row(g, 0, "")], g.body)
         IN  [after EXCEPT !.headers = headerSteps(@, g.headers),
                           !.groups = Append(@, g.name),
                           !.rows = Append(@, after.row)]

\* Mutant: a group runs on the empty body when there is none.
groupStepBlind(acc, g, seen, has) ==
    IF ~Matches(g, seen)
    THEN [acc EXCEPT !.rows = Append(@, Row(g, 0, "conditions"))]
    ELSE LET after == bodySteps([acc EXCEPT !.row = Row(g, 0, "")], g.body)
         IN  [after EXCEPT !.headers = headerSteps(@, g.headers),
                           !.groups = Append(@, g.name),
                           !.rows = Append(@, after.row)]

\* One group: skipped, or its body and header operations applied in order.
\* has says that there is a body (body != nil).
groupStep(acc, g, seen, has) ==
    IF ~Matches(g, seen)
    THEN [acc EXCEPT !.rows = Append(@, Row(g, 0, "conditions"))]
    ELSE IF HasBody(g) /\ ~has
    THEN [acc EXCEPT !.rows = Append(@, Row(g, 0, "no_body"))]
    ELSE LET after == bodySteps([acc EXCEPT !.row = Row(g, 0, "")], g.body)
         IN  [after EXCEPT !.headers = headerSteps(@, g.headers),
                           !.groups = Append(@, g.name),
                           !.rows = Append(@, after.row)]

Untouched(body) ==
    [groups |-> <<>>, body |-> body, changed |-> FALSE, headers |-> NoHeaders,
     rows |-> <<>>, row |-> <<>>, spent |-> FALSE, budget |-> MatchBudget]

apply(groups, seen, has, body) ==
    FoldLeft(LAMBDA acc, g : groupStep(acc, g, seen, has), Untouched(body), groups)

\* The matches the rows account for.
Matched(rows) == FoldLeft(LAMBDA n, row : n + row.matches, 0, rows)
=============================================================================
