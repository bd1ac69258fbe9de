------------------------------ MODULE Profiles ------------------------------
(***************************************************************************)
(* profile.yaml: parsing, validation and the defaults it fills in          *)
(* (internal/config/profile.go).  A profile as written becomes a profile   *)
(* that module Decide evaluates.                                           *)
(*                                                                         *)
(* Null is an empty item of a list, which yaml decodes to a nil pointer.   *)
(* A check ends in "ok", in "error" or, where it follows a nil pointer, in *)
(* "panic"; the first that is not "ok" ends the validation.                *)
(***************************************************************************)
EXTENDS Integers, Sequences, FiniteSets, SequencesExt

CONSTANTS Null,             \* an empty item, or a file yaml does not decode
          GoodNames,        \* the names nameRe matches
          Patterns,         \* the patterns regexp.Compile takes, of the length allowed
          HeaderKey,        \* the names headerNameRe matches, in lower case
          Breaking,         \* header values with CR, LF or NUL
          MaxGroups, MaxOpsPerGroup, MaxMatchesPerOp, DefaultMaxMatch

Forbidden == {"host", "authorization", "cookie", "content-length", "transfer-encoding",
              "content-encoding", "connection", "upgrade", "keep-alive",
              "proxy-authenticate", "proxy-authorization", "te", "trailer",
              "location", "date"}

ASSUME ProfilesAssumption ==
    /\ "" \notin GoodNames \cup Patterns \cup DOMAIN HeaderKey
    /\ MaxMatchesPerOp \in Nat /\ DefaultMaxMatch \in 1..MaxMatchesPerOp
    /\ MaxGroups \in Nat /\ MaxOpsPerGroup \in Nat

Check(ok) == IF ok THEN "ok" ELSE "error"

\* The outcome of checks made one after the other.
InTurn(outcomes) ==
    LET bad == {i \in DOMAIN outcomes : outcomes[i] # "ok"}
    IN  IF bad = {} THEN "ok" ELSE outcomes[Min(bad)]

-----------------------------------------------------------------------------
(* BodyOp.compile: the check, and the operation it leaves.                 *)

compile(o) ==
    IF o = Null THEN "panic"
    ELSE Check(/\ o.op \in {"remove", "replace", "insert_before", "insert_after"}
               /\ o.pattern \in Patterns
               /\ IF o.op = "replace" THEN o.text = "" ELSE o.to = ""
               /\ o.op \in {"insert_before", "insert_after"} => o.text # ""
               /\ o.max \in 0..MaxMatchesPerOp)

Compiled(o) ==
    [op |-> o.op, pattern |-> o.pattern,
     text |-> IF o.op = "replace" THEN o.to ELSE o.text,
     max |-> IF o.max = 0 THEN DefaultMaxMatch ELSE o.max]

\* HeaderOp.validate.
validateHeader(o) ==
    Check(/\ o.op \in {"set", "unset"}
          /\ o.name \in DOMAIN HeaderKey
          /\ HeaderKey[o.name] \notin Forbidden
          /\ o.op = "set" => HeaderKey[o.name] # "set-cookie" /\ o.value \notin Breaking
          /\ o.op = "unset" => HeaderKey[o.name] # "content-type" /\ o.value = "")

-----------------------------------------------------------------------------
(* Group.validate.                                                         *)

Selectors(g) ==
    CASE g.on \in {"", "response"} -> g.direction \cup g.opcode = {}
      [] g.on = "frame" -> /\ g.headers = <<>>
                           /\ g.status = {} /\ g.types = {}
                           /\ g.direction \subseteq {"c2s", "s2c"}
                           /\ g.opcode \subseteq {"text", "binary", "continuation"}
      [] OTHER -> FALSE

validateGroup(g) ==
    InTurn(<<Check(/\ Len(g.body) + Len(g.headers) \in 1..MaxOpsPerGroup
                   /\ Selectors(g)
                   /\ g.status \subseteq 100..599),
             InTurn([i \in DOMAIN g.body |-> compile(g.body[i])]),
             InTurn([i \in DOMAIN g.headers |-> validateHeader(g.headers[i])])>>)

\* Mutant: a frame group without opcodes takes every frame.
FilledAnyOpcode(g) ==
    [name |-> g.name, default |-> g.default, frame |-> g.on = "frame",
     status |-> g.status, types |-> g.types, direction |-> g.direction, opcode |-> g.opcode,
     body |-> [i \in DOMAIN g.body |-> Compiled(g.body[i])], headers |-> g.headers]

\* The group as Decide sees it; a frame group without opcodes takes text.
Filled(g) ==
    [name |-> g.name, default |-> g.default, frame |-> g.on = "frame",
     status |-> g.status, types |-> g.types, direction |-> g.direction,
     opcode |-> IF g.on = "frame" /\ g.opcode = {} THEN {"text"} ELSE g.opcode,
     body |-> [i \in DOMAIN g.body |-> Compiled(g.body[i])], headers |-> g.headers]

-----------------------------------------------------------------------------
(* Profile.Validate.                                                       *)

validatePrior(r) ==
    Check(/\ r.from \notin {"", "*"}
          /\ r.accept # {}
          /\ r.accept \subseteq {"mutate", "skip"})

groupsI(groups, i) ==
    IF groups[i] = Null THEN "error"
    ELSE InTurn(<<Check(/\ groups[i].name \in GoodNames
                        /\ \A j \in 1..i - 1 :
                              groups[j] # Null => groups[j].name # groups[i].name),
                  validateGroup(groups[i])>>)

Validate(p) ==
    InTurn(<<Check(/\ p.mode \in {"enforce", "observe", "off"}
                   /\ p.deny_response # ""
                   /\ Len(p.groups) <= MaxGroups),
             InTurn([i \in DOMAIN p.groups |-> groupsI(p.groups, i)]),
             InTurn([i \in DOMAIN p.prior |-> validatePrior(p.prior[i])])>>)

\* defaults: what a file that says nothing of them leaves.
defaults == [mode |-> "enforce", deny_response |-> "rewrite_failed",
             groups |-> <<>>, prior |-> <<>>]

\* readProfile of a file that is there: ParseProfile, then Validate.
readProfile(file) == IF file = Null THEN "error" ELSE Validate(file)

\* The profile Validate leaves.
Valid(p) ==
    [mode |-> p.mode, groups |-> [i \in DOMAIN p.groups |-> Filled(p.groups[i])],
     rules |-> {p.prior[i] : i \in DOMAIN p.prior}]
=============================================================================
