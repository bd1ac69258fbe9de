----------------------------- MODULE MCInspect -----------------------------
(* Small instances of Inspect: profiles and messages.                      *)
EXTENDS Inspect

CONSTANTS r1, r2

\* Media types with their suffixes.
MCSuffixOf == [ct \in {"", "html", "json", "problem"} |->
                 IF ct = "problem" THEN "+json" ELSE ""]

\* Patterns and texts of no token or of several; one copies what was matched.
MCLit == [s \in {"^", "ab", "[$0]"} |->
            CASE s = "^" -> <<>> [] s = "ab" -> <<"a", "b">> [] s = "[$0]" -> <<"[", Submatch, "]">>]

Group(name, default, body) ==
    [name |-> name, default |-> default, frame |-> FALSE, status |-> {}, types |-> {},
     direction |-> {}, opcode |-> {}, body |-> body, headers |-> <<>>]

Op(op, pattern, text, max) == [op |-> op, pattern |-> pattern, text |-> text, max |-> max]

\* mask: by content type, two operations, one of which the budget may cut.
mask == [Group("mask", TRUE, <<Op("remove", "a", "", 4), Op("replace", "b", "c", 4)>>)
            EXCEPT !.types = {"json", "+json"}]

\* tag: on request, for status 200, matches an empty body too.
tag == [Group("tag", FALSE, <<Op("insert_before", "^", "t", 1),
                              Op("insert_after", "c", "t", 2)>>)
            EXCEPT !.status = {200},
                   !.headers = <<[op |-> "unset", name |-> "y", value |-> ""]>>]

hdr == [Group("hdr", TRUE, <<>>)
            EXCEPT !.headers = <<[op |-> "set", name |-> "x", value |-> "1"],
                                 [op |-> "set", name |-> "x", value |-> "2"]>>]

\* ws: client text frames; what it removes may leave another ab behind.
ws == [Group("ws", TRUE, <<Op("remove", "ab", "", 3), Op("replace", "a", "[$0]", 1)>>)
            EXCEPT !.frame = TRUE, !.direction = {"c2s"}, !.opcode = {"text"}]

Profile(mode) ==
    [mode |-> mode, groups |-> <<mask, tag, hdr, ws>>,
     rules |-> {[from |-> "action", accept |-> {"mutate"}, codes |-> {"PII"}],
                [from |-> "modsec", accept |-> {"mutate", "skip"}, codes |-> {}]}]

\* The image's _probe: one group that sets a header.
probeProfile ==
    [mode |-> "enforce", rules |-> {},
     groups |-> <<[Group("probe", TRUE, <<>>)
                      EXCEPT !.headers = <<[op |-> "set", name |-> "p", value |-> "1"]>>]>>]

Serving(mode) ==
    [n \in {"default", "_probe"} |-> IF n = "_probe" THEN probeProfile ELSE Profile(mode)]

MCSnapshots == {Serving("enforce"), Serving("observe"), Serving("off")}

Act(from, do, code, group, set) ==
    [from |-> from, do |-> do, scope |-> "request", code |-> code,
     group |-> group, set |-> set]

tagOn == Act("action", "mutate", "PII", "tag", "on")
tagOff == Act("modsec", "mutate", "", "tag", "off")
strayOff == Act("action", "mutate", "OTHER", "mask", "off")
hdrOff == Act("modsec", "mutate", "", "hdr", "off")
unknown == Act("modsec", "mutate", "", "no_such_group", "on")
sessionOff == [Act("modsec", "mutate", "", "mask", "off") EXCEPT !.scope = "session"]
skip == Act("modsec", "skip", "", "", "")
straySkip == Act("action", "skip", "PII", "", "")

Placed == [at |-> "placed", driver |-> "redis", enc |-> FALSE,
           digest |-> "plain", truncated |-> FALSE]

Plain ==
    [kind |-> "response", profile |-> "default", prior |-> <<>>, status |-> 200,
     inline |-> "json", stored |-> "", direction |-> "", opcode |-> "",
     captured |-> <<"a", "b", "a">>, body |-> Placed, headers |-> [Placed EXCEPT !.at = "nil"],
     answerTo |-> TRUE, audited |-> TRUE]

Stored == [Plain EXCEPT !.inline = "none", !.stored = "problem",
                        !.headers = [Placed EXCEPT !.digest = "none"]]

Frame(direction) == [Plain EXCEPT !.kind = "frame", !.direction = direction, !.opcode = "text"]

\* Kinds, selectors and the content type in the buffer.
Shapes ==
    {Plain, Stored, [Stored EXCEPT !.status = 404, !.prior = <<tagOn>>],
     [Plain EXCEPT !.profile = "none"], [Plain EXCEPT !.inline = "html"],
     [Plain EXCEPT !.inline = "html", !.prior = <<hdrOff>>],
     ProbeRequest, [Plain EXCEPT !.audited = FALSE],
     [Stored EXCEPT !.stored = "html"],
     Frame("c2s"), Frame("s2c"), [Frame("c2s") EXCEPT !.captured = <<"b">>],
     [Frame("c2s") EXCEPT !.captured = <<"a", "a", "b", "b", "a">>]}
    \cup {[Plain EXCEPT !.kind = k] : k \in {"malformed", "version", "release", "request"}}
    \cup {[m EXCEPT !.answerTo = FALSE] : m \in {Plain, Frame("c2s")}}

\* What the neighbours ask for, in either order.
Priors ==
    {[Plain EXCEPT !.prior = prior] : prior \in
        {<<tagOn>>, <<tagOn, tagOff>>, <<tagOff, tagOn>>, <<strayOff, straySkip>>,
         <<hdrOff, sessionOff>>, <<unknown>>, <<tagOn, skip>>}}

\* Bodies and what may be wrong with the locator.
Bodies ==
    {[m EXCEPT !.captured = c] :
        m \in {Plain, [Plain EXCEPT !.prior = <<tagOn>>]},
        c \in {<<>>, <<"b", "c">>, <<"a", "a", "a", "a">>,
               <<"a", "a", "a", "a", "a", "b", "b", "b", "c">>}}
    \cup
    {[m EXCEPT !.body = b] :
        m \in {[Plain EXCEPT !.prior = <<tagOn>>], Frame("c2s")},
        b \in {[Placed EXCEPT !.at = "nil"], [Placed EXCEPT !.at = "unavailable"],
               [Placed EXCEPT !.truncated = TRUE],
               [Placed EXCEPT !.digest = "processed", !.truncated = TRUE],
               [Placed EXCEPT !.digest = "processed"], [Placed EXCEPT !.digest = "none"],
               [Placed EXCEPT !.enc = TRUE], [Placed EXCEPT !.driver = "s3"]}}

MCMessages == Shapes \cup Priors \cup Bodies
FewMessages == {Plain, [Plain EXCEPT !.prior = <<tagOn>>]}

OwnKeys == [r \in Requests |-> r]
SharedKey == [r \in Requests |-> r1]
=============================================================================
