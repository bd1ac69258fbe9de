--------------------------- MODULE StartupProofs ----------------------------
(***************************************************************************)
(* Proofs about Startup, for every environment, every inspector.conf and   *)
(* every profile.yaml.                                                     *)
(***************************************************************************)
EXTENDS Startup, DecideProofs, TLAPS

(* The loop over the lines of inspector.conf.                              *)
lineOp(unused, unusedToo, st, line) == parseLine(st, line)

LineLoop == INSTANCE FoldLaws WITH op <- lineOp

(* The loop over the header operations of a group.                         *)
headerOp(unused, unusedToo, headers, o) == applyHeaderOp(headers, o)

HeaderLoop == INSTANCE FoldLaws WITH op <- headerOp

Keys == Directives \cup RedisKeys

\* Line i of s stands in a block.
Inside(s, i) ==
    \E o \in 1..i - 1 : s[o].kind = "open" /\ \A j \in o + 1..i - 1 : s[j].kind # "close"

\* The lines up to k that say what key is.
Says(s, k, key) ==
    {i \in 1..k : s[i].kind = "stmt" /\ s[i].key = key /\ (Inside(s, i) <=> key \in RedisKeys)}

\* A line that opens a block or lies in an open one and does not close it is
\* followed by a line in a block.
LEMMA InsideNext ==
    ASSUME NEW s, NEW k \in Nat
    PROVE  Inside(s, k + 2)
             <=> s[k + 1].kind = "open" \/ (Inside(s, k + 1) /\ s[k + 1].kind # "close")
<1>0. (k + 2) - 1 = k + 1 /\ (k + 1) - 1 = k
  OBVIOUS
<1>1. ASSUME s[k + 1].kind = "open" PROVE Inside(s, k + 2)
  <2>1. k + 1 \in 1..k + 1 /\ \A j : j \notin (k + 1) + 1..k + 1
    OBVIOUS
  <2> QED
    BY <1>0, <1>1, <2>1 DEF Inside
<1>2. ASSUME Inside(s, k + 1), s[k + 1].kind # "close" PROVE Inside(s, k + 2)
  <2>1. PICK o \in 1..k : s[o].kind = "open" /\ \A j \in o + 1..k : s[j].kind # "close"
    BY <1>0, <1>2 DEF Inside
  <2>2. \A j \in o + 1..k + 1 : j \in o + 1..k \/ j = k + 1
    OBVIOUS
  <2>3. o \in 1..k + 1 /\ \A j \in o + 1..k + 1 : s[j].kind # "close"
    BY <1>2, <2>1, <2>2
  <2> QED
    BY <1>0, <2>1, <2>3 DEF Inside
<1>3. ASSUME Inside(s, k + 2), s[k + 1].kind # "open"
      PROVE  Inside(s, k + 1) /\ s[k + 1].kind # "close"
  <2>1. PICK o \in 1..k + 1 : s[o].kind = "open" /\ \A j \in o + 1..k + 1 : s[j].kind # "close"
    BY <1>0, <1>3 DEF Inside
  <2>2. o # k + 1
    BY <1>3, <2>1
  <2>3. o \in 1..k /\ k + 1 \in o + 1..k + 1 /\ \A j \in o + 1..k : j \in o + 1..k + 1
    BY <2>2
  <2> QED
    BY <1>0, <2>1, <2>3 DEF Inside
<1> QED
  BY <1>1, <1>2, <1>3

\* The indices of one more line.
LEMMA OneMore ==
    ASSUME NEW k \in Nat
    PROVE  /\ \A i : i \in 1..k + 1 <=> i \in 1..k \/ i = k + 1
           /\ k + 1 \in 1..k + 1 /\ (k + 1) + 1 = k + 2
  OBVIOUS

\* One more line.
LEMMA SaysNext ==
    ASSUME NEW s, NEW k \in Nat, NEW key
    PROVE  Says(s, k + 1, key)
             = IF /\ s[k + 1].kind = "stmt" /\ s[k + 1].key = key
                  /\ Inside(s, k + 1) <=> key \in RedisKeys
               THEN Says(s, k, key) \cup {k + 1} ELSE Says(s, k, key)
<1>1. \A i : i \in 1..k + 1 <=> i \in 1..k \/ i = k + 1
  BY OneMore
<1> QED
  BY <1>1 DEF Says

\* What seen remembers a directive by.
Id(key) == IF key \in RedisKeys THEN <<"redis", key>> ELSE <<"", key>>

\* No two directives are remembered alike, and none like a block.
LEMMA IdsDiffer ==
    ASSUME NEW k1 \in Keys
    PROVE  /\ Id(k1) # <<"", "redis">>
           /\ \A k2 \in Keys : Id(k1) = Id(k2) => k1 = k2
  BY DEF Id, Keys, Directives, RedisKeys

IsReading(st) ==
    /\ st = [ok |-> st.ok, block |-> st.block, seen |-> st.seen, out |-> st.out]
    /\ st.ok \in BOOLEAN /\ st.block \in BOOLEAN
    /\ st.out = [k \in Keys |-> st.out[k]]

\* What the file has said of key so far is what the reading holds.
Noted(s, k, st, key) ==
    \/ Says(s, k, key) = {} /\ Id(key) \notin st.seen /\ st.out[key] = ""
    \/ \E i \in 1..k : /\ Says(s, k, key) = {i} /\ Id(key) \in st.seen
                       /\ st.out[key] = s[i].value

\* Line i, if it is a directive, is one that may stand there, with a value it
\* may have.
Allowed(s, i) ==
    s[i].kind = "stmt" => /\ s[i].key \in Keys
                          /\ Inside(s, i) <=> s[i].key \in RedisKeys
                          /\ ValueAllowed(s[i].key, s[i].value)

\* st is the reading of the first k lines.
ReadTo(s, k, st) ==
    /\ IsReading(st)
    /\ st.ok => /\ st.block <=> Inside(s, k + 1)
                /\ \A i \in 1..k : Allowed(s, i)
                /\ \A key \in Keys : Noted(s, k, st, key)

\* new is the reading st with one more directive.
Takes(st, new, id, key, value) ==
    /\ IsReading(new) /\ new.block = st.block /\ new.seen = st.seen \cup {id}
    /\ \A k \in Keys : new.out[k] = IF k = key THEN value ELSE st.out[k]

\* A directive that is new, known and well valued is noted.
LEMMA DirectiveNoted ==
    ASSUME NEW s, NEW k \in Nat, NEW st, ReadTo(s, k, st), st.ok,
           NEW line, line = s[k + 1], line.kind = "stmt", line.key \in Keys,
           Inside(s, k + 1) <=> line.key \in RedisKeys,
           Id(line.key) \notin st.seen, ValueAllowed(line.key, line.value),
           NEW new, Takes(st, new, Id(line.key), line.key, line.value)
    PROVE  ReadTo(s, k + 1, new)
<1>1. new.block <=> Inside(s, (k + 1) + 1)
  <2>1. Inside(s, k + 2) <=> Inside(s, k + 1)
    BY InsideNext
  <2>2. (st.block <=> Inside(s, k + 1)) /\ new.block = st.block
    BY DEF ReadTo, Takes
  <2> QED
    BY <2>1, <2>2, OneMore
<1>2. \A i : i \in 1..k + 1 <=> i \in 1..k \/ i = k + 1
  BY OneMore
<1>3. \A i \in 1..k + 1 : Allowed(s, i)
  BY <1>2 DEF ReadTo, Allowed
<1>4. ASSUME NEW key \in Keys PROVE Noted(s, k + 1, new, key)
  <2>1. Noted(s, k, st, key)
    BY DEF ReadTo
  <2>2. CASE key = line.key
    <3>1. Says(s, k, key) = {}
      BY <2>1, <2>2 DEF Noted
    <3>2. Says(s, k + 1, key) = {k + 1}
      BY <2>2, <3>1, SaysNext
    <3>3. Id(key) \in new.seen /\ new.out[key] = line.value
      BY <2>2 DEF Takes
    <3> QED
      BY <3>2, <3>3, OneMore DEF Noted
  <2>3. CASE key # line.key
    <3>1. Says(s, k + 1, key) = Says(s, k, key)
      BY <2>3, SaysNext
    <3>2. (Id(key) \in new.seen <=> Id(key) \in st.seen) /\ new.out[key] = st.out[key]
      BY <2>3, IdsDiffer DEF Takes
    <3> QED
      BY <1>2, <2>1, <3>1, <3>2 DEF Noted
  <2> QED
    BY <2>2, <2>3
<1>5. IsReading(new)
  BY DEF Takes
<1> QED
  BY <1>1, <1>3, <1>4, <1>5 DEF ReadTo

\* The reading after a directive.
LEMMA NoteOne ==
    ASSUME NEW st, IsReading(st), NEW id, NEW line, line.key \in Keys,
           NEW known, id \notin st.seen, line.key \in known, ValueAllowed(line.key, line.value)
    PROVE  Takes(st, Directive(st, id, known, line), id, line.key, line.value)
<1> DEFINE out == [k \in Keys |-> IF k = line.key THEN line.value ELSE st.out[k]]
           new == [ok |-> st.ok, block |-> st.block, seen |-> st.seen \cup {id}, out |-> out]
<1>1. [st.out EXCEPT ![line.key] = line.value] = out
  BY DEF IsReading
<1>2. out = [k \in Keys |-> out[k]]
        /\ \A k \in Keys : out[k] = IF k = line.key THEN line.value ELSE st.out[k]
  OBVIOUS
<1> HIDE DEF out
<1>3. Directive(st, id, known, line) = new
  BY <1>1 DEF IsReading, Directive
<1>4. IsReading(new)
  BY <1>2 DEF IsReading
<1> QED
  BY <1>2, <1>3, <1>4 DEF Takes

\* One directive, in a block or outside.
LEMMA DirectiveRead ==
    ASSUME NEW s, NEW k \in Nat, NEW st, ReadTo(s, k, st), st.ok,
           NEW line, line = s[k + 1], line.kind = "stmt", NEW id, NEW known,
           \/ st.block /\ known = RedisKeys /\ id = <<"redis", line.key>>
           \/ ~st.block /\ known = Directives /\ id = <<"", line.key>>,
           NEW new, new = Directive(st, id, known, line)
    PROVE  ReadTo(s, k + 1, new)
<1>0. IsReading(st) /\ (st.block <=> Inside(s, k + 1))
  BY DEF ReadTo
<1>1. CASE id \notin st.seen /\ line.key \in known /\ ValueAllowed(line.key, line.value)
  <2>1. line.key \in Keys /\ id = Id(line.key) /\ (Inside(s, k + 1) <=> line.key \in RedisKeys)
    BY <1>0, <1>1 DEF Id, Keys, Directives, RedisKeys
  <2>2. Takes(st, new, id, line.key, line.value)
    BY <1>0, <1>1, <2>1, NoteOne
  <2> QED
    BY <1>1, <2>1, <2>2, DirectiveNoted
<1>2. CASE ~(id \notin st.seen /\ line.key \in known /\ ValueAllowed(line.key, line.value))
  <2>1. new = [st EXCEPT !.ok = FALSE]
    BY <1>2 DEF Directive
  <2>2. IsReading(new) /\ new.ok = FALSE
    BY <1>0, <2>1 DEF IsReading
  <2> QED
    BY <2>2 DEF ReadTo
<1> QED
  BY <1>1, <1>2

\* A line that is no directive changes nothing of what is noted.
LEMMA OtherLine ==
    ASSUME NEW s, NEW k \in Nat, NEW st, ReadTo(s, k, st), st.ok,
           s[k + 1].kind # "stmt",
           NEW new, IsReading(new), new.block <=> Inside(s, k + 2), new.out = st.out,
           \A key \in Keys : Id(key) \in new.seen <=> Id(key) \in st.seen
    PROVE  ReadTo(s, k + 1, new)
<1>1. \A i : i \in 1..k + 1 <=> i \in 1..k \/ i = k + 1
  BY OneMore
<1>2. \A i \in 1..k + 1 : Allowed(s, i)
  BY <1>1 DEF ReadTo, Allowed
<1>3. ASSUME NEW key \in Keys PROVE Noted(s, k + 1, new, key)
  <2>1. Says(s, k + 1, key) = Says(s, k, key)
    BY SaysNext
  <2>2. Noted(s, k, st, key)
    BY DEF ReadTo
  <2> QED
    BY <1>1, <2>1, <2>2 DEF Noted
<1>4. (k + 1) + 1 = k + 2
  OBVIOUS
<1> QED
  BY <1>2, <1>3, <1>4 DEF ReadTo

\* One line.
LEMMA LineRead ==
    ASSUME NEW s, NEW k \in Nat, NEW st, ReadTo(s, k, st),
           NEW line, line = s[k + 1], NEW new, new = parseLine(st, line)
    PROVE  ReadTo(s, k + 1, new)
<1>0. IsReading(st)
  BY DEF ReadTo
<1>1. CASE ~st.ok
  <2>1. new = st
    BY <1>1 DEF parseLine
  <2> QED
    BY <1>0, <1>1, <2>1 DEF ReadTo
<1>2. CASE st.ok /\ line.kind = "blank"
  <2>1. new = st
    BY <1>2 DEF parseLine
  <2>2. st.block <=> Inside(s, k + 2)
    BY <1>2, InsideNext DEF ReadTo
  <2> QED
    BY <1>0, <1>2, <2>1, <2>2, OtherLine
<1>3. CASE st.ok /\ line.kind = "close"
  <2>1. new = [st EXCEPT !.ok = st.block, !.block = FALSE]
    BY <1>3 DEF parseLine
  <2>2. IsReading(new) /\ new.block = FALSE /\ new.out = st.out /\ new.seen = st.seen
    BY <1>0, <2>1 DEF IsReading
  <2>3. ~Inside(s, k + 2)
    BY <1>3, InsideNext
  <2> QED
    BY <1>3, <2>2, <2>3, OtherLine
<1>4. CASE st.ok /\ line.kind = "open" /\ ~st.block
  <2>1. PICK fresh \in BOOLEAN :
          new = [st EXCEPT !.block = TRUE, !.seen = st.seen \cup {<<"", "redis">>}, !.ok = fresh]
    BY <1>4 DEF parseLine
  <2>2. /\ IsReading(new) /\ new.block = TRUE /\ new.out = st.out
        /\ new.seen = st.seen \cup {<<"", "redis">>}
    BY <1>0, <2>1 DEF IsReading
  <2>3. Inside(s, k + 2)
    BY <1>4, InsideNext
  <2>4. \A key \in Keys : Id(key) \in new.seen <=> Id(key) \in st.seen
    BY <2>2, IdsDiffer
  <2> QED
    BY <1>4, <2>2, <2>3, <2>4, OtherLine
<1>5. CASE st.ok /\ line.kind \notin {"blank", "close", "stmt"}
             /\ ~(line.kind = "open" /\ ~st.block)
  <2>1. new = [st EXCEPT !.ok = FALSE]
    BY <1>5 DEF parseLine
  <2>2. IsReading(new) /\ new.ok = FALSE
    BY <1>0, <2>1 DEF IsReading
  <2> QED
    BY <2>2 DEF ReadTo
<1>6. CASE st.ok /\ line.kind = "stmt"
  <2>1. CASE st.block
    <3>1. new = Directive(st, <<"redis", line.key>>, RedisKeys, line)
      BY <1>6, <2>1 DEF parseLine, parseRedisKey
    <3> QED
      BY <1>6, <2>1, <3>1, DirectiveRead
  <2>2. CASE ~st.block
    <3>1. new = Directive(st, <<"", line.key>>, Directives, line)
      BY <1>6, <2>2 DEF parseLine
    <3> QED
      BY <1>6, <2>2, <3>1, DirectiveRead
  <2> QED
    BY <2>1, <2>2
<1> QED
  BY <1>0, <1>1, <1>2, <1>3, <1>4, <1>5, <1>6

\* The loop over the lines keeps the reading.
LEMMA LinesRead ==
    ASSUME NEW s, IsList(s)
    PROVE  ReadTo(s, Len(s), FoldLeft(parseLine, Reading, s))
<1> DEFINE end == FoldLeft(parseLine, Reading, s)
<1>0. Len(s) \in Nat /\ DOMAIN s = 1..Len(s)
  BY ListFacts
<1>1. PICK f : LineLoop!Results(f, 0, 0, Reading, s)
  BY <1>0, LineLoop!FoldResults
<1>2. LineLoop!Fold(0, 0, Reading, s) = end
  BY DEF LineLoop!Fold, LineLoop!FoldLeft, LineLoop!MapThenFoldSet, LineLoop!Max, FoldLeft,
         MapThenFoldSet, Max, lineOp
<1>3. /\ f[0] = Reading /\ f[Len(s)] = end
      /\ \A k \in 1..Len(s) : f[k] = parseLine(f[k - 1], s[k])
  BY <1>1, <1>2 DEF LineLoop!Results, lineOp
<1> DEFINE P == {k \in 0..Len(s) : ReadTo(s, k, f[k])}
<1>4. 0 \in P
  <2>1. /\ IsReading(Reading) /\ Reading.block = FALSE /\ Reading.seen = {}
        /\ \A key \in Keys : Reading.out[key] = ""
    BY DEF Reading, IsReading, queueFile, Keys
  <2>2. \A i : i \notin 1..0
    OBVIOUS
  <2>3. ~Inside(s, 0 + 1) /\ \A key : Says(s, 0, key) = {}
    BY <2>2 DEF Inside, Says
  <2>4. ReadTo(s, 0, Reading)
    BY <2>1, <2>2, <2>3 DEF ReadTo, Noted
  <2> QED
    BY <1>0, <1>3, <2>4
<1>5. ASSUME NEW k \in 0..Len(s) - 1, k \in P PROVE k + 1 \in P
  <2>1. k + 1 \in 1..Len(s) /\ k + 1 \in 0..Len(s) /\ (k + 1) - 1 = k /\ k \in Nat
    BY <1>0
  <2>2. f[k + 1] = parseLine(f[k], s[k + 1]) /\ ReadTo(s, k, f[k])
    BY <1>3, <1>5, <2>1
  <2> QED
    BY <2>1, <2>2, LineRead
<1>6. Len(s) \in P
  <2> HIDE DEF P
  <2> QED BY <1>0, <1>4, <1>5, UpTo
<1> QED
  BY <1>3, <1>6

\* parseQueueFile: the reading of the whole file, in which no block is open.
LEMMA FileParsed ==
    ASSUME NEW s, IsList(s)
    PROVE  \E end : /\ parseQueueFile(s) = [end EXCEPT !.ok = end.ok /\ ~end.block]
                    /\ IsReading(end) /\ ReadTo(s, Len(s), end)
<1>1. ReadTo(s, Len(s), FoldLeft(parseLine, Reading, s))
  BY LinesRead
<1> QED
  BY <1>1 DEF parseQueueFile, ReadTo

\* ... and what it tells when it is accepted.
LEMMA FileRead ==
    ASSUME NEW s, IsList(s), parseQueueFile(s).ok
    PROVE  /\ ~Inside(s, Len(s) + 1)
           /\ \A i \in 1..Len(s) : Allowed(s, i)
           /\ \A key \in Keys :
                 \/ Says(s, Len(s), key) = {} /\ parseQueueFile(s).out[key] = ""
                 \/ \E i \in 1..Len(s) : /\ Says(s, Len(s), key) = {i}
                                         /\ parseQueueFile(s).out[key] = s[i].value
<1>1. PICK end : /\ parseQueueFile(s) = [end EXCEPT !.ok = end.ok /\ ~end.block]
                 /\ IsReading(end) /\ ReadTo(s, Len(s), end)
  BY FileParsed
<1>2. end.ok /\ ~end.block /\ parseQueueFile(s).out = end.out
  BY <1>1 DEF IsReading
<1> QED
  BY <1>1, <1>2 DEF ReadTo, Noted
-----------------------------------------------------------------------------
(* The settings.                                                           *)

\* No directive has an empty value.
LEMMA ValueNotEmpty == ASSUME NEW key \in Keys PROVE ~ValueAllowed(key, "")
  BY ConfigAssumption DEF ValueAllowed, Keys, Directives, RedisKeys

\* out holds what the lines s say.
Tells(s, out) ==
    /\ IsList(s) /\ ~Inside(s, Len(s) + 1)
    /\ \A i \in 1..Len(s) : Allowed(s, i)
    /\ \A key \in Keys :
          \/ Says(s, Len(s), key) = {} /\ out[key] = ""
          \/ \E i \in 1..Len(s) : Says(s, Len(s), key) = {i} /\ out[key] = s[i].value
    /\ out["internal"] = ""

\* loadQueueFile: there is no file, or it was read to its end.
LEMMA ConfRead ==
    ASSUME world \in Worlds, loadQueueFile(world.env, world.fs).ok
    PROVE  Tells(ConfLines, loadQueueFile(world.env, world.fs).out)
<1> DEFINE path == confPath(world.env, world.fs)
           file == loadQueueFile(world.env, world.fs)
           lines == world.fs[path]
           read == parseQueueFile(lines)
<1> HIDE DEF path
<1>1. CASE path = ""
  <2>1. file = Reading /\ ConfLines = <<>>
    BY <1>1 DEF loadQueueFile, ConfLines, path
  <2>2. \A key \in Keys : Reading.out[key] = ""
    BY DEF Reading, queueFile, Keys
  <2>3. \A i : i \notin 1..0
    OBVIOUS
  <2>4. IsList(<<>>) /\ Len(<<>>) = 0 /\ (0 + 1) - 1 = 0
    BY EmptyList
  <2>5. ~Inside(<<>>, Len(<<>>) + 1) /\ \A key : Says(<<>>, Len(<<>>), key) = {}
    BY <2>3, <2>4 DEF Inside, Says
  <2>6. "internal" \in Keys
    BY DEF Keys, RedisKeys
  <2> QED
    BY <2>1, <2>2, <2>3, <2>4, <2>5, <2>6 DEF Tells
<1>2. CASE path # ""
  <2>1. ConfLines = lines
    BY <1>2 DEF ConfLines, path
  <2>2. path \in DOMAIN world.fs
    <3> SUFFICES ASSUME path \notin DOMAIN world.fs PROVE FALSE
      OBVIOUS
    <3>1. file = [Reading EXCEPT !.ok = FALSE]
      BY <1>2 DEF loadQueueFile, path
    <3>2. file.ok = FALSE
      BY <3>1 DEF Reading
    <3> QED
      BY <3>2
  <2>3. file = [read EXCEPT !.ok = read.ok /\ read.out["internal"] = ""]
    BY <1>2, <2>2 DEF loadQueueFile, path
  <2>4. IsList(lines)
    BY <2>2, StartupAssumption DEF IsWorld
  <2>5. read.ok /\ read.out["internal"] = "" /\ file.out = read.out
    <3>1. PICK end : read = [end EXCEPT !.ok = end.ok /\ ~end.block] /\ IsReading(end)
      BY <2>4, FileParsed
    <3>2. read = [ok |-> read.ok, block |-> end.block, seen |-> end.seen, out |-> end.out]
      BY <3>1 DEF IsReading
    <3> HIDE DEF read
    <3> QED
      BY <2>3, <3>2
  <2> HIDE DEF lines, file, read
  <2>6. /\ ~Inside(lines, Len(lines) + 1)
        /\ \A i \in 1..Len(lines) : Allowed(lines, i)
        /\ \A key \in Keys :
              \/ Says(lines, Len(lines), key) = {} /\ read.out[key] = ""
              \/ \E i \in 1..Len(lines) : /\ Says(lines, Len(lines), key) = {i}
                                          /\ read.out[key] = lines[i].value
    BY <2>4, <2>5, FileRead DEF read
  <2> QED
    BY <2>1, <2>4, <2>5, <2>6 DEF Tells, file
<1> QED
  BY <1>1, <1>2

\* The lines that speak of key, in the terms of the reading.
LEMMA SayingSays ==
    ASSUME NEW key, IsList(ConfLines)
    PROVE  Saying(key) = Says(ConfLines, Len(ConfLines), key)
  BY ListFacts DEF Saying, Says, InBlock, Inside

\* A value that was noted is one the directive may have.
LEMMA ValueHeld ==
    ASSUME NEW out, Tells(ConfLines, out), NEW key \in Keys, out[key] # ""
    PROVE  ValueAllowed(key, out[key])
<1> DEFINE s == ConfLines
           said == Says(s, Len(s), key)
<1>1. PICK i \in 1..Len(s) : said = {i} /\ out[key] = s[i].value
  <2> HIDE DEF s
  <2> QED
    BY DEF Tells, s
<1>2. s[i].kind = "stmt" /\ s[i].key = key
  <2>1. i \in said
    BY <1>1
  <2> QED
    BY <2>1 DEF Says
<1>3. Allowed(s, i)
  BY DEF Tells
<1> QED
  BY <1>1, <1>2, <1>3 DEF Allowed

\* The text that is taken is the text that holds.
LEMMA TextHolds ==
    ASSUME NEW out, Tells(ConfLines, out), NEW key \in Keys, NEW v, NEW def, NEW text,
           text = IF TrimSpace(world.env[v]) # "" THEN world.env[v]
                  ELSE IF out[key] = "" THEN def ELSE out[key]
    PROVE  Holds(text, v, key, def)
<1>0. Saying(key) = Says(ConfLines, Len(ConfLines), key)
  BY SayingSays DEF Tells
<1> DEFINE said == Says(ConfLines, Len(ConfLines), key)
<1> HIDE DEF said
<1>a. \/ said = {} /\ out[key] = ""
      \/ \E i \in 1..Len(ConfLines) : said = {i} /\ out[key] = ConfLines[i].value
  BY DEF Tells, said
<1>b. Saying(key) = said
  BY <1>0 DEF said
<1>1. CASE TrimSpace(world.env[v]) # ""
  BY <1>1 DEF Holds
<1>2. CASE TrimSpace(world.env[v]) = "" /\ Saying(key) = {}
  <2>1. out[key] = ""
    BY <1>2, <1>a, <1>b
  <2> QED
    BY <1>2, <2>1 DEF Holds
<1>3. CASE TrimSpace(world.env[v]) = "" /\ Saying(key) # {}
  <2>1. PICK i \in 1..Len(ConfLines) : Saying(key) = {i} /\ out[key] = ConfLines[i].value
    BY <1>3, <1>a, <1>b
  <2>2. ConfLines[i].kind = "stmt" /\ ConfLines[i].key = key
    BY <2>1 DEF Saying
  <2>3. out[key] # ""
    BY <2>1, <2>2, ValueNotEmpty DEF Tells, Allowed
  <2> QED
    BY <1>3, <2>1, <2>3 DEF Holds
<1> QED
  BY <1>1, <1>2, <1>3

\* Every directive of the file has an effect, and only one.
LEMMA NoLineIdle ==
    ASSUME NEW out, Tells(ConfLines, out)
    PROVE  /\ \A key \in Directives \cup RedisKeys : \A i, j \in Saying(key) : i = j
           /\ \A i \in DOMAIN ConfLines : ConfLines[i].kind = "open" =>
                 \E j \in DOMAIN ConfLines : j > i /\ ConfLines[j].kind = "close"
           /\ {i \in DOMAIN ConfLines : ConfLines[i].kind = "stmt"}
                = UNION {Saying(key) : key \in Directives \cup {"url"}}
<1> DEFINE s == ConfLines
<1>0. Len(s) \in Nat /\ DOMAIN s = 1..Len(s) /\ IsList(s)
  BY ListFacts DEF Tells
<1>1. ASSUME NEW key \in Keys PROVE \A i, j \in Saying(key) : i = j
  <2>1. Saying(key) = Says(s, Len(s), key)
    BY <1>0, SayingSays
  <2>2. Says(s, Len(s), key) = {} \/ \E i \in 1..Len(s) : Says(s, Len(s), key) = {i}
    BY DEF Tells
  <2> QED
    BY <2>1, <2>2
<1>2. ASSUME NEW i \in 1..Len(s), s[i].kind = "open"
      PROVE  \E j \in 1..Len(s) : j > i /\ s[j].kind = "close"
  <2>0. ~Inside(s, Len(s) + 1)
    BY DEF Tells
  <2>1. (Len(s) + 1) - 1 = Len(s)
    BY <1>0
  <2>2. PICK j \in i + 1..Len(s) : s[j].kind = "close"
    BY <1>2, <2>0, <2>1 DEF Inside
  <2> QED
    BY <1>0, <2>2
<1>3. \A i \in 1..Len(s) : Allowed(s, i)
  BY DEF Tells
<1>4. Saying("internal") = {}
  <2>1. "internal" \in Keys /\ out["internal"] = ""
    BY DEF Keys, RedisKeys, Tells
  <2>2. ASSUME NEW i \in Saying("internal") PROVE FALSE
    <3>1. /\ i \in 1..Len(s) /\ s[i].kind = "stmt" /\ s[i].key = "internal"
      BY <1>0, <2>2 DEF Saying
    <3>2. Says(s, Len(s), "internal") # {}
      BY <1>0, <2>2, SayingSays
    <3>3. PICK j \in 1..Len(s) : Says(s, Len(s), "internal") = {j} /\ s[j].value = ""
      BY <2>1, <3>2 DEF Tells
    <3>4. i = j
      BY <1>0, <2>2, <3>3, SayingSays
    <3> QED
      BY <1>3, <2>1, <3>1, <3>3, <3>4, ValueNotEmpty DEF Allowed
  <2> QED
    BY <2>2
<1>5. ASSUME NEW i \in 1..Len(s), s[i].kind = "stmt"
      PROVE  s[i].key \in Directives \cup {"url"} /\ i \in Saying(s[i].key)
  <2>1. s[i].key \in Keys /\ (Inside(s, i) <=> s[i].key \in RedisKeys)
    BY <1>3, <1>5 DEF Allowed
  <2>2. i \in Saying(s[i].key)
    BY <1>0, <1>5, <2>1 DEF Saying, InBlock, Inside
  <2>3. s[i].key # "internal"
    BY <1>4, <2>2
  <2> QED
    BY <2>1, <2>2, <2>3 DEF Keys, RedisKeys
<1>6. \A key : \A i \in Saying(key) : i \in 1..Len(s) /\ s[i].kind = "stmt"
  BY <1>0 DEF Saying
<1> HIDE DEF s
<1>7. {i \in DOMAIN s : s[i].kind = "stmt"} = UNION {Saying(key) : key \in Directives \cup {"url"}}
  BY <1>0, <1>5, <1>6
<1> QED
  BY <1>0, <1>1, <1>2, <1>7 DEF s, Keys

\* What c has of the environment e and of what the file says.
Given(c, e, out) ==
    /\ c.Workers = envInt(e, "WORKERS", GOMAXPROCS)
    /\ c.QueueDepth = envInt(e, "QUEUE_DEPTH", IF out["queue_max"] = "" THEN 256
                                              ELSE Atoi[out["queue_max"]])
    /\ c.QueueFull = IF TrimSpace(e["QUEUE_FULL"]) # "" THEN e["QUEUE_FULL"]
                     ELSE IF out["queue_full"] = "" THEN "drop" ELSE out["queue_full"]
    /\ c.QueueExpand = IF TrimSpace(e["QUEUE_EXPAND"]) # "" THEN e["QUEUE_EXPAND"]
                       ELSE IF out["queue_expand"] = "" THEN "off" ELSE out["queue_expand"]
    /\ c.RedisURL = IF TrimSpace(e["REDIS_URL"]) # "" THEN e["REDIS_URL"]
                    ELSE IF out["url"] = "" THEN "" ELSE out["url"]

\* A variable that overrides is what it says, without space around it.
LEMMA Overrides ==
    ASSUME NEW e, NEW v, NEW current
    PROVE  envOverride(e, v, current) = IF TrimSpace(e[v]) # "" THEN e[v] ELSE current
  BY DEF envOverride, TrimSpace

\* The settings, field by field.
LEMMA SettingsRead ==
    ASSUME NEW e, NEW fs, NEW c, c = Settings(e, fs)
    PROVE  Given(c, e, loadQueueFile(e, fs).out)
<1> DEFINE out == loadQueueFile(e, fs).out
           q == applyQueueFile(out)
<1> HIDE DEF out
<1>1. /\ c.Workers = envInt(e, "WORKERS", GOMAXPROCS)
      /\ c.QueueDepth = envInt(e, "QUEUE_DEPTH", q.Max)
      /\ c.QueueFull = envOverride(e, "QUEUE_FULL", q.Full)
      /\ c.QueueExpand = envOverride(e, "QUEUE_EXPAND", q.Expand)
      /\ c.RedisURL = envOverride(e, "REDIS_URL", out["url"])
  <2> HIDE DEF q
  <2> QED
    BY DEF Settings, exchangeRedis, out, q
<1>2. /\ q.Max = IF out["queue_max"] = "" THEN 256 ELSE Atoi[out["queue_max"]]
      /\ q.Full = IF out["queue_full"] = "" THEN "drop" ELSE out["queue_full"]
      /\ q.Expand = IF out["queue_expand"] = "" THEN "off" ELSE out["queue_expand"]
  BY DEF applyQueueFile
<1> HIDE DEF q
<1> QED
  BY <1>1, <1>2, Overrides DEF Given, out

\* A number that could be read is one, and a blank variable is not read as one.
LEMMA NumberRead ==
    ASSUME NEW e, NEW v, IntReads(e, v), NEW def \in Int
    PROVE  /\ envInt(e, v, def) \in Int
           /\ TrimSpace(e[v]) = "" => envInt(e, v, def) = def
           /\ TrimSpace(e[v]) # "" => e[v] \in DOMAIN Atoi /\ envInt(e, v, def) = Atoi[e[v]]
  BY ConfigAssumption DEF IntReads, envInt, TrimSpace

-----------------------------------------------------------------------------
(* Validation.                                                             *)

\* The first of some numbers.
LEMMA LeastOf ==
    ASSUME NEW n \in Nat, NEW S, S \subseteq 0..n, S # {}
    PROVE  \E i \in S : \A j \in S : i <= j
<1> DEFINE rank == [i \in S |-> i]
<1>1. IsFiniteSet(S)
  <2>1. IsFiniteSet(0..n)
    BY FS_Interval
  <2> QED
    BY <2>1, FS_Subset
<1>2. \A i \in S : rank[i] = i /\ i \in Int
  OBVIOUS
<1> HIDE DEF rank
<1>3. \A i \in S : rank[i] \in Int
  BY <1>2
<1>4. \E i \in S : \A j \in S : rank[i] <= rank[j]
  BY <1>1, <1>3, LeastElement
<1> QED
  BY <1>2, <1>4

\* Checks made in turn are all passed when the outcome is "ok".
LEMMA AllPassed ==
    ASSUME NEW outcomes, NEW n \in Nat, DOMAIN outcomes = 1..n, InTurn(outcomes) = "ok"
    PROVE  \A i \in 1..n : outcomes[i] = "ok"
<1> DEFINE failed == {i \in DOMAIN outcomes : outcomes[i] # "ok"}
<1> SUFFICES ASSUME failed # {} PROVE FALSE
  OBVIOUS
<1>1. failed \subseteq 0..n
  OBVIOUS
<1>2. outcomes[Min(failed)] = "ok"
  BY DEF InTurn
<1>3. Min(failed) \in failed
  <2> HIDE DEF failed
  <2>1. \E i \in failed : \A j \in failed : i <= j
    BY <1>1, LeastOf
  <2> QED
    BY <2>1 DEF Min
<1> QED
  BY <1>2, <1>3

\* The checks on two parts.
LEMMA TwoPassed ==
    ASSUME NEW a, NEW b, InTurn(<<a, b>>) = "ok" PROVE a = "ok" /\ b = "ok"
<1> DEFINE t == <<a, b>>
<1>1. DOMAIN t = 1..2 /\ t[1] = a /\ t[2] = b /\ 1 \in 1..2 /\ 2 \in 1..2
  OBVIOUS
<1>2. InTurn(t) = "ok"
  OBVIOUS
<1> HIDE DEF t
<1>3. \A i \in 1..2 : t[i] = "ok"
  BY <1>1, <1>2, AllPassed
<1> QED
  BY <1>1, <1>3

\* ... and on three.
LEMMA ThreePassed ==
    ASSUME NEW a, NEW b, NEW c, InTurn(<<a, b, c>>) = "ok"
    PROVE  a = "ok" /\ b = "ok" /\ c = "ok"
<1> DEFINE t == <<a, b, c>>
<1>1. DOMAIN t = 1..3 /\ t[1] = a /\ t[2] = b /\ t[3] = c
        /\ 1 \in 1..3 /\ 2 \in 1..3 /\ 3 \in 1..3
  OBVIOUS
<1>2. InTurn(t) = "ok"
  OBVIOUS
<1> HIDE DEF t
<1>3. \A i \in 1..3 : t[i] = "ok"
  BY <1>1, <1>2, AllPassed
<1> QED
  BY <1>1, <1>3

\* The checks on the items of a list.
LEMMA ItemsPassed ==
    ASSUME NEW s, IsList(s), NEW t, DOMAIN t = DOMAIN s, InTurn(t) = "ok"
    PROVE  \A i \in DOMAIN s : t[i] = "ok"
  BY ListFacts, AllPassed

\* A list whose items are converted.
LEMMA MapList ==
    ASSUME NEW s, IsList(s), NEW t, t = [i \in DOMAIN s |-> t[i]]
    PROVE  IsList(t) /\ Len(t) = Len(s) /\ DOMAIN t = DOMAIN s
<1>1. Len(s) \in Nat /\ DOMAIN s = 1..Len(s)
  BY ListFacts
<1>2. DOMAIN t = 1..Len(s) /\ t = [i \in 1..Len(s) |-> t[i]]
  BY <1>1
<1>3. \A i \in 1..Len(s) : t[i] \in ToSet(t)
  BY <1>2 DEF ToSet
<1>4. t \in Seq(ToSet(t))
  BY <1>1, <1>2, <1>3
<1> QED
  BY <1>1, <1>2, <1>4 DEF IsList

\* What a group of the file has when Group.validate passes it.
Passed(g) ==
    /\ g # Null /\ IsList(g.body) /\ IsList(g.headers)
    /\ Selectors(g)
    /\ \A i \in DOMAIN g.body : compile(g.body[i]) = "ok"
    /\ \A i \in DOMAIN g.headers : validateHeader(g.headers[i]) = "ok"

\* Group.validate.
LEMMA GroupPassed ==
    ASSUME NEW g, g # Null, IsList(g.body), IsList(g.headers), validateGroup(g) = "ok"
    PROVE  Passed(g)
<1> DEFINE bodies == [i \in DOMAIN g.body |-> compile(g.body[i])]
           heads == [i \in DOMAIN g.headers |-> validateHeader(g.headers[i])]
           first == /\ Len(g.body) + Len(g.headers) \in 1..MaxOpsPerGroup
                    /\ Selectors(g)
                    /\ g.status \subseteq 100..599
<1>1. InTurn(<<Check(first), InTurn(bodies), InTurn(heads)>>) = "ok"
  BY DEF validateGroup
<1>2. DOMAIN bodies = DOMAIN g.body /\ \A i \in DOMAIN g.body : bodies[i] = compile(g.body[i])
  OBVIOUS
<1>3. DOMAIN heads = DOMAIN g.headers
        /\ \A i \in DOMAIN g.headers : heads[i] = validateHeader(g.headers[i])
  OBVIOUS
<1>4. Check(first) = "ok" => Selectors(g)
  BY DEF Check
<1> HIDE DEF bodies, heads, first
<1>5. Check(first) = "ok" /\ InTurn(bodies) = "ok" /\ InTurn(heads) = "ok"
  BY <1>1, ThreePassed
<1>6. \A i \in DOMAIN g.body : bodies[i] = "ok"
  BY <1>2, <1>5, ItemsPassed
<1>7. \A i \in DOMAIN g.headers : heads[i] = "ok"
  BY <1>3, <1>5, ItemsPassed
<1> QED
  BY <1>2, <1>3, <1>4, <1>5, <1>6, <1>7 DEF Passed

\* What profile.yaml has when Profile.Validate passes it.
LEMMA ProfilePassed ==
    ASSUME NEW file, IsWritten(file), Validate(file) = "ok"
    PROVE  /\ file.mode \in {"enforce", "observe", "off"}
           /\ \A i \in DOMAIN file.groups : Passed(file.groups[i])
           /\ \A i, j \in DOMAIN file.groups :
                 file.groups[i].name = file.groups[j].name => i = j
<1> DEFINE s == file.groups
           checks == [i \in DOMAIN s |-> groupsI(s, i)]
           rules == [i \in DOMAIN file.prior |-> validatePrior(file.prior[i])]
           first == /\ file.mode \in {"enforce", "observe", "off"}
                    /\ file.deny_response # ""
                    /\ Len(s) <= MaxGroups
<1>1. InTurn(<<Check(first), InTurn(checks), InTurn(rules)>>) = "ok"
  BY DEF Validate
<1>2. DOMAIN checks = DOMAIN s /\ \A i \in DOMAIN s : checks[i] = groupsI(s, i)
  OBVIOUS
<1>3. Check(first) = "ok" => file.mode \in {"enforce", "observe", "off"}
  BY DEF Check
<1> HIDE DEF checks, rules, first
<1>4. Check(first) = "ok" /\ InTurn(checks) = "ok"
  BY <1>1, ThreePassed
<1>5. IsList(s) /\ \A i \in DOMAIN s : s[i] # Null => IsList(s[i].body) /\ IsList(s[i].headers)
  BY DEF IsWritten, ToSet
<1>6. \A i \in DOMAIN s : groupsI(s, i) = "ok"
  BY <1>2, <1>4, <1>5, ItemsPassed
<1>7. ASSUME NEW i \in DOMAIN s
      PROVE  /\ s[i] # Null /\ validateGroup(s[i]) = "ok"
             /\ \A j \in 1..i - 1 : s[j] # Null => s[j].name # s[i].name
  <2> DEFINE named == /\ s[i].name \in GoodNames
                      /\ \A j \in 1..i - 1 : s[j] # Null => s[j].name # s[i].name
  <2>1. s[i] # Null /\ InTurn(<<Check(named), validateGroup(s[i])>>) = "ok"
    BY <1>6 DEF groupsI
  <2>2. Check(named) = "ok" => \A j \in 1..i - 1 : s[j] # Null => s[j].name # s[i].name
    BY DEF Check
  <2> HIDE DEF named
  <2> QED
    BY <2>1, <2>2, TwoPassed
<1>8. \A i \in DOMAIN s : Passed(s[i])
  BY <1>5, <1>7, GroupPassed
<1>9. ASSUME NEW i \in DOMAIN s, NEW j \in DOMAIN s, s[i].name = s[j].name PROVE i = j
  <2>1. i \in 1..Len(s) /\ j \in 1..Len(s) /\ Len(s) \in Nat
    BY <1>5, ListFacts
  <2>2. i \notin 1..j - 1 /\ j \notin 1..i - 1
    BY <1>7, <1>9
  <2> QED
    BY <2>1, <2>2
<1> QED
  BY <1>3, <1>4, <1>8, <1>9

\* The group h that is evaluated is the group g of the file.
Sound(h, g) ==
    /\ h.name = g.name /\ IsOps(h.body) /\ IsList(h.headers)
    /\ \A o \in ToSet(h.headers) : validateHeader(o) = "ok"
    /\ h.frame = TRUE => /\ g.on = "frame" /\ h.headers = <<>>
                         /\ h.opcode = IF g.opcode = {} THEN {"text"} ELSE g.opcode

\* compile leaves an operation that can be applied.
LEMMA OpCompiled == ASSUME NEW o, compile(o) = "ok" PROVE IsOp(Compiled(o))
<1>1. /\ o.op \in {"remove", "replace", "insert_before", "insert_after"}
      /\ o.max \in 0..MaxMatchesPerOp
  BY DEF compile, Check
<1>2. DefaultMaxMatch \in Nat \ {0} /\ (o.max # 0 => o.max \in Nat \ {0})
  <2>1. MaxMatchesPerOp \in Nat /\ DefaultMaxMatch \in 1..MaxMatchesPerOp
    BY ProfilesAssumption
  <2> QED
    BY <1>1, <2>1
<1>3. Compiled(o).op = o.op
        /\ Compiled(o).max = IF o.max = 0 THEN DefaultMaxMatch ELSE o.max
  BY DEF Compiled
<1> QED
  BY <1>1, <1>2, <1>3 DEF IsOp

\* The group that validation leaves.
LEMMA GroupFilled == ASSUME NEW g, Passed(g), NEW h, h = Filled(g) PROVE Sound(h, g)
<1> DEFINE ops == [i \in DOMAIN g.body |-> Compiled(g.body[i])]
<1>1. /\ h.name = g.name /\ h.body = ops /\ h.headers = g.headers
      /\ h.frame = (g.on = "frame")
      /\ h.opcode = IF g.on = "frame" /\ g.opcode = {} THEN {"text"} ELSE g.opcode
  BY DEF Filled
<1>2. IsOps(ops)
  <2>1. IsList(ops)
    BY MapList DEF Passed
  <2>2. ASSUME NEW o \in ToSet(ops) PROVE IsOp(o)
    <3>1. PICK i \in DOMAIN g.body : o = Compiled(g.body[i])
      BY DEF ToSet
    <3> QED
      BY <3>1, OpCompiled DEF Passed
  <2> QED
    BY <2>1, <2>2 DEF IsOps
<1> HIDE DEF ops
<1>3. \A o \in ToSet(g.headers) : validateHeader(o) = "ok"
  BY DEF Passed, ToSet
<1>4. g.on = "frame" => g.headers = <<>>
  BY DEF Passed, Selectors
<1>5. IsList(g.headers)
  BY DEF Passed
<1>6. h.frame = TRUE => g.on = "frame"
  BY <1>1
<1> QED
  BY <1>1, <1>2, <1>3, <1>4, <1>5, <1>6 DEF Sound

\* The profile p that is evaluated is the one of the file.
AsWritten(file, p) ==
    /\ p.mode \in {"enforce", "observe", "off"}
    /\ IsList(p.groups) /\ DOMAIN p.groups = DOMAIN file.groups
    /\ \A i \in DOMAIN p.groups : Sound(p.groups[i], file.groups[i])
    /\ \A i, j \in DOMAIN p.groups : p.groups[i].name = p.groups[j].name => i = j

\* ParseProfile and Validate.
LEMMA ProfileValid ==
    ASSUME NEW file, IsWritten(file), Validate(file) = "ok" PROVE AsWritten(file, Valid(file))
<1> DEFINE p == Valid(file)
           groups == [i \in DOMAIN file.groups |-> Filled(file.groups[i])]
<1>1. /\ file.mode \in {"enforce", "observe", "off"}
      /\ \A i \in DOMAIN file.groups : Passed(file.groups[i])
      /\ \A i, j \in DOMAIN file.groups : file.groups[i].name = file.groups[j].name => i = j
  BY ProfilePassed
<1>2. p.mode = file.mode /\ p.groups = groups
  BY DEF Valid
<1>3. IsList(groups) /\ DOMAIN groups = DOMAIN file.groups
  BY MapList DEF IsWritten
<1>4. \A i \in DOMAIN file.groups : Sound(groups[i], file.groups[i])
  BY <1>1, GroupFilled
<1>5. \A i \in DOMAIN file.groups : groups[i].name = file.groups[i].name
  BY <1>4 DEF Sound
<1> HIDE DEF groups, p
<1> QED
  BY <1>1, <1>2, <1>3, <1>4, <1>5 DEF AsWritten, p

-----------------------------------------------------------------------------
(* Laws of Decide: what a profile may do to headers and groups.            *)

\* f holds the headers after each operation.
HeaderRun(f, h, ops) ==
    /\ f[0] = h /\ f[Len(ops)] = headerSteps(h, ops)
    /\ \A k \in 1..Len(ops) : f[k] = applyHeaderOp(f[k - 1], ops[k])

\* The loop over the header operations of a group, step by step.
LEMMA HeaderResults ==
    ASSUME NEW h, NEW ops, IsList(ops) PROVE \E f : HeaderRun(f, h, ops)
<1>1. PICK f : HeaderLoop!Results(f, 0, 0, h, ops)
  BY ListFacts, HeaderLoop!FoldResults
<1>2. HeaderLoop!Fold(0, 0, h, ops) = headerSteps(h, ops)
  BY DEF headerSteps, HeaderLoop!Fold, HeaderLoop!FoldLeft, HeaderLoop!MapThenFoldSet,
         HeaderLoop!Max, FoldLeft, MapThenFoldSet, Max, headerOp
<1> QED
  BY <1>1, <1>2 DEF HeaderLoop!Results, headerOp, HeaderRun

\* The loop over the groups.
LEMMA ApplyResults ==
    ASSUME NEW groups, IsList(groups), NEW seen, NEW has, NEW body
    PROVE  \E f : /\ f[0] = Untouched(body)
                  /\ f[Len(groups)] = apply(groups, seen, has, body)
                  /\ \A k \in 1..Len(groups) : f[k] = groupStep(f[k - 1], groups[k], seen, has)
<1>1. PICK f : Groups!Results(f, seen, has, Untouched(body), groups)
  BY ListFacts, Groups!FoldResults
<1>2. Groups!Fold(seen, has, Untouched(body), groups) = apply(groups, seen, has, body)
  BY DEF apply, Groups!Fold, Groups!FoldLeft, Groups!MapThenFoldSet, Groups!Max, FoldLeft,
         MapThenFoldSet, Max, groupOp
<1> QED
  BY <1>1, <1>2 DEF Groups!Results, groupOp

\* The loop of Ask.Active.
LEMMA ActiveResults ==
    ASSUME NEW ask, NEW p, IsList(p.groups)
    PROVE  \E f : /\ f[0] = <<>> /\ f[Len(p.groups)] = Active(ask, p)
                  /\ \A k \in 1..Len(p.groups) :
                        f[k] = Kept(f[k - 1], p.groups[k], IsOn(p.groups[k], ask))
<1>1. PICK f : Ons!Results(f, ask, 0, <<>>, p.groups)
  BY ListFacts, Ons!FoldResults
<1>2. Ons!Fold(ask, 0, <<>>, p.groups) = Active(ask, p)
  BY DEF Active, Ons!Fold, Ons!FoldLeft, Ons!MapThenFoldSet, Ons!Max, FoldLeft,
         MapThenFoldSet, Max, onOp
<1> QED
  BY <1>1, <1>2 DEF Ons!Results, onOp

\* h holds what the header operations in S may have done, and no more.
Within(h, S) ==
    /\ h = [set |-> h.set, unset |-> h.unset]
    /\ \A n \in DOMAIN h.set : \E o \in S : o.op = "set" /\ o.name = n
    /\ \A n \in h.unset : \E o \in S : o.op # "set" /\ o.name = n
    /\ S = {} => h = NoHeaders

\* One header operation.
LEMMA HeaderOne ==
    ASSUME NEW S, NEW h, Within(h, S), NEW o \in S
    PROVE  Within(applyHeaderOp(h, o), S)
<1>1. CASE o.op = "set"
  <2> DEFINE new == [set |-> Put(h.set, o.name, o.value), unset |-> h.unset]
  <2>1. applyHeaderOp(h, o) = new
    BY <1>1 DEF applyHeaderOp, Within
  <2>2. DOMAIN new.set = DOMAIN h.set \cup {o.name} /\ new.unset = h.unset
    BY DEF Put
  <2>3. new = [set |-> new.set, unset |-> new.unset]
    OBVIOUS
  <2> HIDE DEF new
  <2> QED
    BY <1>1, <2>1, <2>2, <2>3 DEF Within
<1>2. CASE o.op # "set"
  <2> DEFINE new == [set |-> h.set, unset |-> h.unset \cup {o.name}]
  <2>1. applyHeaderOp(h, o) = new
    BY <1>2 DEF applyHeaderOp, Within
  <2>2. new = [set |-> new.set, unset |-> new.unset] /\ new.set = h.set
          /\ new.unset = h.unset \cup {o.name}
    OBVIOUS
  <2> HIDE DEF new
  <2> QED
    BY <1>2, <2>1, <2>2 DEF Within
<1> QED
  BY <1>1, <1>2

\* The header operations of a group.
LEMMA HeaderSteps ==
    ASSUME NEW S, NEW h, Within(h, S), NEW ops, IsList(ops), ToSet(ops) \subseteq S
    PROVE  Within(headerSteps(h, ops), S)
<1>0. Len(ops) \in Nat /\ DOMAIN ops = 1..Len(ops)
  BY ListFacts
<1>a. PICK f : HeaderRun(f, h, ops)
  BY HeaderResults
<1>1. /\ f[0] = h /\ f[Len(ops)] = headerSteps(h, ops)
      /\ \A k \in 1..Len(ops) : f[k] = applyHeaderOp(f[k - 1], ops[k])
  BY <1>a DEF HeaderRun
<1> DEFINE P == {k \in 0..Len(ops) : Within(f[k], S)}
<1>2. 0 \in P
  BY <1>0, <1>1
<1>3. ASSUME NEW k \in 0..Len(ops) - 1, k \in P PROVE k + 1 \in P
  <2>1. k + 1 \in 1..Len(ops) /\ k + 1 \in 0..Len(ops) /\ (k + 1) - 1 = k
    BY <1>0
  <2>2. f[k + 1] = applyHeaderOp(f[k], ops[k + 1]) /\ Within(f[k], S)
    BY <1>1, <1>3, <2>1
  <2>3. ops[k + 1] \in S
    BY <1>0, <2>1 DEF ToSet
  <2> QED
    BY <2>1, <2>2, <2>3, HeaderOne
<1>4. Len(ops) \in P
  <2> HIDE DEF P
  <2> QED BY <1>0, <1>2, <1>3, UpTo
<1> QED
  BY <1>1, <1>4

\* No body operation writes a header.
LEMMA BodyKeepsHeaders ==
    ASSUME NEW acc, IsApplied(acc), IsRow(acc.row), NEW ops, IsList(ops)
    PROVE  IsApplied(bodySteps(acc, ops)) /\ bodySteps(acc, ops).headers = acc.headers
<1>0. Len(ops) \in Nat
  BY ListFacts
<1>1. PICK f : /\ f[0] = acc /\ f[Len(ops)] = bodySteps(acc, ops)
               /\ \A k \in 1..Len(ops) : f[k] = bodyStep(f[k - 1], ops[k])
  BY BodyResults
<1> DEFINE P == {k \in 0..Len(ops) : /\ IsApplied(f[k]) /\ IsRow(f[k].row)
                                     /\ f[k].headers = acc.headers}
<1>2. 0 \in P
  BY <1>0, <1>1
<1>3. ASSUME NEW k \in 0..Len(ops) - 1, k \in P PROVE k + 1 \in P
  <2>1. k + 1 \in 1..Len(ops) /\ k + 1 \in 0..Len(ops) /\ (k + 1) - 1 = k
    BY <1>0
  <2>2. /\ f[k + 1] = bodyStep(f[k], ops[k + 1])
        /\ IsApplied(f[k]) /\ IsRow(f[k].row) /\ f[k].headers = acc.headers
    BY <1>1, <1>3, <2>1
  <2>3. IsApplied(f[k + 1]) /\ IsRow(f[k + 1].row)
    <3>1. SameButBody(f[k], bodyStep(f[k], ops[k + 1]))
      BY <2>2, BodyStepOne
    <3> QED
      BY <2>2, <3>1 DEF SameButBody
  <2>4. ASSUME NEW old, IsApplied(old), NEW o PROVE bodyStep(old, o).headers = old.headers
    BY <2>4 DEF bodyStep, IsApplied
  <2> QED
    BY <2>1, <2>2, <2>3, <2>4
<1>4. Len(ops) \in P
  <2> HIDE DEF P
  <2> QED BY <1>0, <1>2, <1>3, UpTo
<1> QED
  BY <1>1, <1>4

\* Nothing is changed unless Some, and the headers are within S.
Moderate(acc, Some, S) == IsApplied(acc) /\ (acc.changed => Some) /\ Within(acc.headers, S)

\* One group.
LEMMA GroupModerate ==
    ASSUME NEW acc, NEW Some \in BOOLEAN, NEW S, Moderate(acc, Some, S),
           NEW g, IsList(g.body), IsList(g.headers), ToSet(g.headers) \subseteq S,
           NEW seen, Matches(g, seen) => Some, NEW has
    PROVE  Moderate(groupStep(acc, g, seen, has), Some, S)
<1> DEFINE new == groupStep(acc, g, seen, has)
<1>1. ASSUME NEW rows, new = [acc EXCEPT !.rows = rows] PROVE Moderate(new, Some, S)
  <2>1. IsApplied(acc)
    BY DEF Moderate
  <2> HIDE DEF new
  <2>2. IsApplied(new) /\ new.changed = acc.changed /\ new.headers = acc.headers
    BY <1>1, <2>1 DEF IsApplied
  <2> QED
    BY <2>2 DEF Moderate
<1>2. CASE ~Matches(g, seen) \/ (HasBody(g) /\ ~has)
  <2>1. \E rows : new = [acc EXCEPT !.rows = rows]
    BY <1>2 DEF groupStep
  <2> QED
    BY <1>1, <2>1
<1>3. CASE Matches(g, seen) /\ ~(HasBody(g) /\ ~has)
  <2> DEFINE base == [acc EXCEPT !.row = Row(g, 0, "")]
             after == bodySteps(base, g.body)
  <2>1. new = [after EXCEPT !.headers = headerSteps(after.headers, g.headers),
                            !.groups = Append(after.groups, g.name),
                            !.rows = Append(after.rows, after.row)]
    BY <1>3 DEF groupStep
  <2>2. IsApplied(base) /\ base.row = Row(g, 0, "") /\ base.headers = acc.headers
    BY NewRow DEF Moderate, IsApplied
  <2>3. IsRow(Row(g, 0, ""))
    BY DEF IsRow, Row
  <2> HIDE DEF base
  <2>4. IsApplied(after) /\ after.headers = acc.headers
    BY <2>2, <2>3, BodyKeepsHeaders
  <2> HIDE DEF new, after
  <2>5. IsApplied(new) /\ new.headers = headerSteps(acc.headers, g.headers)
    BY <2>1, <2>4 DEF IsApplied
  <2>6. Within(new.headers, S)
    BY <2>5, HeaderSteps DEF Moderate
  <2> QED
    BY <1>3, <2>5, <2>6 DEF Moderate, new
<1> QED
  BY <1>2, <1>3

\* Apply and ApplyFrame: nothing of the body changes unless a group selects the
\* message, and the headers are those the operations of the groups name.
LEMMA ApplyModerate ==
    ASSUME NEW groups, IsList(groups),
           \A g \in ToSet(groups) : IsList(g.body) /\ IsList(g.headers),
           NEW S, \A g \in ToSet(groups) : ToSet(g.headers) \subseteq S,
           NEW seen, NEW has, NEW body
    PROVE  Moderate(apply(groups, seen, has, body),
                    \E g \in ToSet(groups) : Matches(g, seen), S)
<1> DEFINE Some == \E g \in ToSet(groups) : Matches(g, seen)
<1>0. /\ Len(groups) \in Nat
      /\ \A i \in 1..Len(groups) : groups[i] \in ToSet(groups)
  BY ListFacts DEF ToSet
<1>a. Some \in BOOLEAN /\ \A g \in ToSet(groups) : Matches(g, seen) => Some
  OBVIOUS
<1> HIDE DEF Some
<1>1. PICK f : /\ f[0] = Untouched(body)
               /\ f[Len(groups)] = apply(groups, seen, has, body)
               /\ \A k \in 1..Len(groups) : f[k] = groupStep(f[k - 1], groups[k], seen, has)
  BY ApplyResults
<1> DEFINE P == {k \in 0..Len(groups) : Moderate(f[k], Some, S)}
<1>2. 0 \in P
  <2>1. LET u == Untouched(body)
        IN  IsApplied(u) /\ u.changed = FALSE /\ u.headers = NoHeaders
    BY DEF Untouched, IsApplied
  <2>2. Within(NoHeaders, S)
    <3>1. NoHeaders.set = <<>> /\ NoHeaders.unset = {}
      BY DEF NoHeaders
    <3>2. NoHeaders = [set |-> NoHeaders.set, unset |-> NoHeaders.unset]
      BY DEF NoHeaders
    <3>3. DOMAIN <<>> = {}
      OBVIOUS
    <3> QED
      BY <3>1, <3>2, <3>3 DEF Within
  <2>3. Moderate(Untouched(body), Some, S)
    BY <2>1, <2>2 DEF Moderate
  <2> QED
    BY <1>0, <1>1, <2>3
<1>3. ASSUME NEW k \in 0..Len(groups) - 1, k \in P PROVE k + 1 \in P
  <2>1. k + 1 \in 1..Len(groups) /\ k + 1 \in 0..Len(groups) /\ (k + 1) - 1 = k
    BY <1>0
  <2>2. f[k + 1] = groupStep(f[k], groups[k + 1], seen, has) /\ Moderate(f[k], Some, S)
    BY <1>1, <1>3, <2>1
  <2>3. groups[k + 1] \in ToSet(groups)
    BY <1>0, <2>1
  <2> QED
    BY <1>a, <2>1, <2>2, <2>3, GroupModerate
<1>4. Len(groups) \in P
  <2> HIDE DEF P
  <2> QED BY <1>0, <1>2, <1>3, UpTo
<1> QED
  BY <1>1, <1>4 DEF Some

\* A request to switch off one group of a profile whose names differ, with all
\* of them on, leaves the others.
LEMMA OneOff ==
    ASSUME NEW p, IsList(p.groups),
           \A i, j \in DOMAIN p.groups : p.groups[i].name = p.groups[j].name => i = j,
           NEW ask, ask.on = GroupNames(p), NEW n \in GroupNames(p), ask.off = {n}
    PROVE  Len(Active(ask, p)) = Len(p.groups) - 1
<1> DEFINE s == p.groups
<1>0. Len(s) \in Nat /\ DOMAIN s = 1..Len(s)
  BY ListFacts
<1>1. PICK f : /\ f[0] = <<>> /\ f[Len(s)] = Active(ask, p)
               /\ \A k \in 1..Len(s) : f[k] = Kept(f[k - 1], s[k], IsOn(s[k], ask))
  BY ActiveResults
<1>2. PICK at \in 1..Len(s) : s[at].name = n
  BY <1>0 DEF GroupNames
<1>3. \A k \in 1..Len(s) : IsOn(s[k], ask) <=> k # at
  BY <1>0, <1>2 DEF IsOn, GroupNames
<1> DEFINE Left(k) == IF k < at THEN k ELSE k - 1
           P == {k \in 0..Len(s) : IsList(f[k]) /\ Len(f[k]) = Left(k)}
<1>4. 0 \in P
  <2>1. Len(<<>>) = 0 /\ 0 < at
    BY <1>0
  <2> QED
    BY <1>0, <1>1, <2>1, EmptyList
<1>5. ASSUME NEW k \in 0..Len(s) - 1, k \in P PROVE k + 1 \in P
  <2>1. k + 1 \in 1..Len(s) /\ k + 1 \in 0..Len(s) /\ (k + 1) - 1 = k
    BY <1>0
  <2>2. IsList(f[k]) /\ Len(f[k]) = Left(k)
    BY <1>5
  <2>3. f[k + 1] = Kept(f[k], s[k + 1], IsOn(s[k + 1], ask))
    BY <1>1, <2>1
  <2>4. CASE k + 1 = at
    <3>1. f[k + 1] = f[k]
      BY <1>3, <2>1, <2>3, <2>4 DEF Kept
    <3>2. Left(k + 1) = Left(k)
      BY <1>0, <2>4
    <3> QED
      BY <2>1, <2>2, <3>1, <3>2
  <2>5. CASE k + 1 # at
    <3>1. f[k + 1] = Append(f[k], s[k + 1])
      BY <1>3, <2>1, <2>3, <2>5 DEF Kept
    <3>2. IsList(f[k + 1]) /\ Len(f[k + 1]) = Len(f[k]) + 1
      BY <2>2, <3>1, AppendList, AppendProperties DEF IsList
    <3>3. Left(k + 1) = Left(k) + 1
      BY <1>0, <2>5
    <3> QED
      BY <2>1, <2>2, <3>2, <3>3
  <2> QED
    BY <2>4, <2>5
<1>6. Len(s) \in P
  <2> HIDE DEF P
  <2> QED BY <1>0, <1>4, <1>5, UpTo
<1>7. Left(Len(s)) = Len(s) - 1
  BY <1>0, <1>2
<1> QED
  BY <1>1, <1>6, <1>7

-----------------------------------------------------------------------------
(* The steps of the start.                                                 *)

\* The settings are those of the environment and the file, and were validated.
Settled ==
    pc \in {"profiles", "buffer", "bus", "watch", "serving"} =>
        /\ Reads(world.env, world.fs)
        /\ cfg = Settings(world.env, world.fs) /\ validate(cfg)

\* Every profile of the directory passed Validate and is in the store.
ProfilesRead ==
    pc \in {"buffer", "bus", "watch", "serving"} =>
        /\ DOMAIN snap = Listed
        /\ \A i \in DOMAIN world.profiles :
              /\ readProfile(world.profiles[i][2]) = "ok"
              /\ snap[world.profiles[i][1]] = Valid(world.profiles[i][2])

\* The buffer that answered is the one that is configured, and the client holds
\* what the queue can.
Connected ==
    /\ pc \in {"bus", "watch", "serving"} => store = cfg.RedisURL
    /\ pc \in {"watch", "serving"} => pending = cfg.QueueDepth + cfg.Workers + 2

StartInv == world \in Worlds /\ Settled /\ ProfilesRead /\ Connected

\* LoadProfiles: all are read before any is in the store.
LEMMA StoreFilled ==
    ASSUME world \in Worlds, LoadProfiles, pc' = "buffer"
    PROVE  ProfilesRead'
<1> DEFINE ps == world.profiles
           read == [i \in DOMAIN ps |-> readProfile(ps[i][2])]
<1>1. /\ InTurn(read) = "ok" /\ world' = world
      /\ snap' = [n \in Listed |-> LET i == CHOOSE k \in DOMAIN ps : ps[k][1] = n
                                   IN  Valid(ps[i][2])]
  BY DEF LoadProfiles, Exit
<1>2. Len(ps) \in Nat /\ DOMAIN ps = 1..Len(ps)
  BY StartupAssumption, ListFacts DEF IsWorld
<1>3. ASSUME NEW i \in DOMAIN ps PROVE readProfile(ps[i][2]) = "ok"
  <2>1. DOMAIN read = 1..Len(ps) /\ read[i] = readProfile(ps[i][2])
    BY <1>2
  <2> HIDE DEF read
  <2> QED
    BY <1>1, <1>2, <2>1, AllPassed
<1>4. ASSUME NEW i \in DOMAIN ps PROVE snap'[ps[i][1]] = Valid(ps[i][2])
  <2>1. ps[i][1] \in Listed
    BY DEF Listed
  <2>2. i = CHOOSE k \in DOMAIN ps : ps[k][1] = ps[i][1]
    BY StartupAssumption DEF IsWorld
  <2> QED
    BY <1>1, <2>1, <2>2
<1>5. DOMAIN snap' = Listed /\ Listed' = Listed
  BY <1>1 DEF Listed
<1> QED
  BY <1>1, <1>3, <1>4, <1>5 DEF ProfilesRead

\* The start: settings, profiles, buffer and bus are as they were found, from
\* the step that reads them on (main.go, run).
THEOREM StartInvariant == Spec => []StartInv
<1>1. Init => StartInv
  BY DEF Init, StartInv, Settled, ProfilesRead, Connected
<1>2. ASSUME StartInv, [Next]_vars PROVE StartInv'
  <2> USE DEF StartInv
  <2>1. CASE Load
    BY <1>2, <2>1 DEF Load, Exit, Settled, ProfilesRead, Connected
  <2>2. CASE LoadProfiles
    <3>1. world' = world /\ cfg' = cfg /\ pc = "profiles" /\ pc' \in {"exit", "panic", "buffer"}
      BY <2>2 DEF LoadProfiles, Exit
    <3>2. ProfilesRead'
      <4>1. CASE pc' = "buffer"
        BY <1>2, <2>2, <4>1, StoreFilled
      <4>2. CASE pc' # "buffer"
        BY <3>1, <4>2 DEF ProfilesRead
      <4> QED
        BY <4>1, <4>2
    <3> QED
      BY <1>2, <3>1, <3>2 DEF Settled, Connected
  <2>3. CASE bodyLoader
    BY <1>2, <2>3 DEF bodyLoader, Exit, Settled, ProfilesRead, Connected, Listed
  <2>4. CASE Subscribe
    BY <1>2, <2>4 DEF Subscribe, Exit, Settled, ProfilesRead, Connected, Listed
  <2>5. CASE Watch
    BY <1>2, <2>5 DEF Watch, Settled, ProfilesRead, Connected, Listed
  <2>6. CASE UNCHANGED vars
    BY <1>2, <2>6 DEF vars, Settled, ProfilesRead, Connected, Listed
  <2> QED
    BY <1>2, <2>1, <2>2, <2>3, <2>4, <2>5, <2>6 DEF Next
<1> QED
  BY <1>1, <1>2, PTL DEF Spec

\* An inspector that serves runs with the settings it was given (config.Load,
\* parseQueueFile, bodyLoader, SetPendingLimits), whatever they are.
THEOREM ServedAsConfigured == Spec => []ServesAsConfigured
<1>1. ASSUME StartInv PROVE ServesAsConfigured
  <2> SUFFICES ASSUME pc = "serving" PROVE ServesAsConfigured
    BY DEF ServesAsConfigured
  <2> DEFINE e == world.env
             out == loadQueueFile(world.env, world.fs).out
             max == IF out["queue_max"] = "" THEN 256 ELSE Atoi[out["queue_max"]]
  <2>1. /\ Reads(world.env, world.fs) /\ cfg = Settings(world.env, world.fs) /\ validate(cfg)
        /\ store = cfg.RedisURL /\ pending = cfg.QueueDepth + cfg.Workers + 2
    BY <1>1 DEF StartInv, Settled, Connected
  <2>2. /\ loadQueueFile(world.env, world.fs).ok
        /\ IntReads(e, "WORKERS") /\ IntReads(e, "QUEUE_DEPTH")
    BY <2>1 DEF Reads, Ints
  <2>3. Tells(ConfLines, out)
    BY <1>1, <2>2, ConfRead DEF StartInv
  <2> HIDE DEF out
  <2>4. /\ cfg.Workers = envInt(e, "WORKERS", GOMAXPROCS)
        /\ cfg.QueueDepth = envInt(e, "QUEUE_DEPTH", max)
        /\ cfg.QueueFull = IF TrimSpace(e["QUEUE_FULL"]) # "" THEN e["QUEUE_FULL"]
                           ELSE IF out["queue_full"] = "" THEN "drop" ELSE out["queue_full"]
        /\ cfg.QueueExpand = IF TrimSpace(e["QUEUE_EXPAND"]) # "" THEN e["QUEUE_EXPAND"]
                             ELSE IF out["queue_expand"] = "" THEN "off"
                             ELSE out["queue_expand"]
        /\ store = IF TrimSpace(e["REDIS_URL"]) # "" THEN e["REDIS_URL"]
                   ELSE IF out["url"] = "" THEN "" ELSE out["url"]
    <3>1. Given(cfg, world.env, out)
      BY <2>1, SettingsRead DEF out
    <3> QED
      BY <2>1, <3>1 DEF Given
  <2>5. /\ "queue_max" \in Keys /\ "queue_full" \in Keys /\ "queue_expand" \in Keys
        /\ "url" \in Keys
    BY DEF Keys, Directives, RedisKeys
  <2>6. /\ Holds(cfg.QueueFull, "QUEUE_FULL", "queue_full", "drop")
        /\ Holds(cfg.QueueExpand, "QUEUE_EXPAND", "queue_expand", "off")
        /\ Holds(store, "REDIS_URL", "url", "")
    BY <2>3, <2>4, <2>5, TextHolds
  <2>7. out["queue_max"] # "" => out["queue_max"] \in DOMAIN Atoi
    BY <2>3, <2>5, ValueHeld DEF ValueAllowed
  <2>8. max \in Int /\ GOMAXPROCS \in Int
    <3>1. out["queue_max"] = "" => max = 256
      OBVIOUS
    <3>2. out["queue_max"] # "" => max = Atoi[out["queue_max"]]
      OBVIOUS
    <3>3. \A s \in DOMAIN Atoi : Atoi[s] \in Int
      BY ConfigAssumption
    <3>4. GOMAXPROCS \in Nat \ {0}
      BY ConfigAssumption
    <3>5. GOMAXPROCS \in Int
      BY <3>4
    <3> HIDE DEF max
    <3>6. CASE out["queue_max"] = ""
      <4>1. max = 256
        BY <3>1, <3>6
      <4> QED
        BY <3>5, <4>1
    <3>7. CASE out["queue_max"] # ""
      <4>1. max \in Int
        BY <2>7, <3>2, <3>3, <3>7
      <4> QED
        BY <3>5, <4>1
    <3> QED
      BY <3>6, <3>7
  <2>9. \E text \in DOMAIN Atoi \cup {"built-in"} :
           /\ Holds(text, "QUEUE_DEPTH", "queue_max", "built-in")
           /\ cfg.QueueDepth = IF text = "built-in" THEN 256 ELSE Atoi[text]
    <3> DEFINE text == IF TrimSpace(e["QUEUE_DEPTH"]) # "" THEN e["QUEUE_DEPTH"]
                       ELSE IF out["queue_max"] = "" THEN "built-in" ELSE out["queue_max"]
    <3>1. Holds(text, "QUEUE_DEPTH", "queue_max", "built-in")
      <4> HIDE DEF e
      <4> QED
        BY <2>3, <2>5, TextHolds DEF e
    <3>2. /\ TrimSpace(e["QUEUE_DEPTH"]) = "" => cfg.QueueDepth = max
          /\ TrimSpace(e["QUEUE_DEPTH"]) # "" => /\ e["QUEUE_DEPTH"] \in DOMAIN Atoi
                                                 /\ cfg.QueueDepth = Atoi[e["QUEUE_DEPTH"]]
      <4> HIDE DEF max, e
      <4>1. cfg.QueueDepth = envInt(e, "QUEUE_DEPTH", max)
        BY <2>4
      <4> QED
        BY <2>2, <2>8, <4>1, NumberRead
    <3>3. /\ text \in DOMAIN Atoi \cup {"built-in"}
          /\ cfg.QueueDepth = IF text = "built-in" THEN 256 ELSE Atoi[text]
      BY <2>7, <3>2, StartupAssumption
    <3> HIDE DEF text
    <3> QED
      BY <3>1, <3>3
  <2>10. cfg.Workers \in Int /\ cfg.QueueDepth \in Int
    <3> HIDE DEF max, e
    <3>1. cfg.Workers = envInt(e, "WORKERS", GOMAXPROCS)
      BY <2>4
    <3>2. cfg.QueueDepth = envInt(e, "QUEUE_DEPTH", max)
      BY <2>4
    <3>3. cfg.Workers \in Int
      BY <2>2, <2>8, <3>1, NumberRead
    <3>4. cfg.QueueDepth \in Int
      BY <2>2, <2>8, <3>2, NumberRead
    <3> QED
      BY <3>3, <3>4
  <2>11. cfg.Workers >= 1 /\ cfg.QueueDepth >= 1 /\ cfg.QueueFull \in {"drop", "wait"}
    BY <2>1 DEF validate
  <2>12. pending > cfg.QueueDepth + cfg.Workers
    BY <2>1, <2>10
  <2>13. /\ \A key \in Directives \cup RedisKeys : \A i, j \in Saying(key) : i = j
         /\ \A i \in DOMAIN ConfLines : ConfLines[i].kind = "open" =>
              \E j \in DOMAIN ConfLines : j > i /\ ConfLines[j].kind = "close"
         /\ {i \in DOMAIN ConfLines : ConfLines[i].kind = "stmt"}
              = UNION {Saying(key) : key \in Directives \cup {"url"}}
    BY <2>3, NoLineIdle
  <2> QED
    BY <2>6, <2>9, <2>11, <2>12, <2>13 DEF ServesAsConfigured
<1> QED
  BY <1>1, StartInvariant, PTL

-----------------------------------------------------------------------------
(* What the evaluation of a valid profile may do.                          *)

\* A pattern is found in the text it stands for.
LEMMA SomeFound ==
    ASSUME NEW pattern, NEW n \in Nat \ {0}
    PROVE  FindAll(pattern, Tokens(pattern), n) # {}
<1> DEFINE word == Tokens(pattern)
           found == Found(pattern, word)
<1>1. IsList(word) /\ Len(word) \in Nat
  BY TokensList, ListFacts
<1>2. found \subseteq 0..Len(word)
  BY <1>1, FoundWithin
<1>3. found # {}
  <2>1. CASE Len(word) = 0
    BY <1>1, <2>1, FoundIn
  <2>2. CASE Len(word) # 0
    <3>1. word \in Seq(ToSet(word))
      BY <1>1 DEF IsList
    <3>2. SubSeq(word, 1, 1 + Len(word) - 1) = word
      <4> HIDE DEF word
      <4> QED
        BY <1>1, <3>1, SubSeqFull
    <3>3. 1 \in Starts(word, word)
      <4> HIDE DEF word
      <4> QED
        BY <1>1, <3>2 DEF Starts
    <3> QED
      BY <1>1, <2>2, <3>3, FoundIn
  <2> QED
    BY <2>1, <2>2
<1>4. FindAll(pattern, word, n) = {i \in found : Cardinality({j \in found : j < i}) < n}
  BY DEF FindAll
<1> HIDE DEF found
<1>5. PICK i \in found : \A j \in found : i <= j
  BY <1>1, <1>2, <1>3, LeastOf
<1>6. {j \in found : j < i} = {}
  <2>1. \A j \in found : j \in Int
    BY <1>2
  <2> QED
    BY <1>5, <2>1
<1>7. Cardinality({j \in found : j < i}) < n
  BY <1>6, FS_EmptySet
<1> QED
  BY <1>4, <1>7

\* A frame keeps its headers, and changes only if a group asks for its opcode.
LEMMA FramesAsked ==
    ASSUME NEW file, NEW p, AsWritten(file, p), NEW direction, NEW opcode, NEW text,
           NEW did, did = apply(ForPhase(p.groups, TRUE), FrameOf(direction, opcode), TRUE, text)
    PROVE  did.headers = NoHeaders /\ (did.changed => Asking(file, opcode) # {})
<1> DEFINE groups == ForPhase(p.groups, TRUE)
           seen == FrameOf(direction, opcode)
<1>1. ASSUME NEW g \in ToSet(groups)
      PROVE  \E i \in DOMAIN file.groups : g.frame = TRUE /\ Sound(g, file.groups[i])
  <2>1. g \in ToSet(p.groups) /\ g.frame = TRUE
    BY PhaseGroups DEF AsWritten
  <2> QED
    BY <2>1 DEF AsWritten, ToSet
<1>2. IsList(groups)
  BY PhaseGroups DEF AsWritten
<1>3. \A g \in ToSet(groups) : /\ IsList(g.body) /\ IsList(g.headers)
                               /\ ToSet(g.headers) \subseteq {}
  BY <1>1, EmptyList DEF Sound, IsOps
<1> HIDE DEF groups, seen
<1>4. Moderate(did, \E g \in ToSet(groups) : Matches(g, seen), {})
  BY <1>2, <1>3, ApplyModerate DEF groups, seen
<1>5. ASSUME NEW g \in ToSet(groups), Matches(g, seen) PROVE Asking(file, opcode) # {}
  <2>1. PICK i \in DOMAIN file.groups : g.frame = TRUE /\ Sound(g, file.groups[i])
    BY <1>1
  <2>2. seen.frame = TRUE /\ seen.opcode = opcode
    BY DEF seen, FrameOf
  <2>3. g.opcode = {} \/ opcode \in g.opcode
    BY <1>5, <2>2 DEF Matches
  <2>4. file.groups[i].on = "frame"
          /\ g.opcode = IF file.groups[i].opcode = {} THEN {"text"} ELSE file.groups[i].opcode
    BY <2>1 DEF Sound
  <2>5. opcode \in file.groups[i].opcode \/ (file.groups[i].opcode = {} /\ opcode = "text")
    BY <2>3, <2>4
  <2> QED
    BY <2>4, <2>5 DEF Asking
<1> QED
  BY <1>4, <1>5 DEF Moderate, Within

\* The headers a profile writes are those a valid operation may name.
LEMMA HeadersAllowed ==
    ASSUME NEW file, NEW p, AsWritten(file, p), NEW seen, NEW text,
           NEW headers, headers = apply(ForPhase(p.groups, FALSE), seen, TRUE, text).headers
    PROVE  /\ \A n \in DOMAIN headers.set : HeaderKey[n] \notin Forbidden \cup {"set-cookie"}
           /\ \A n \in headers.unset : HeaderKey[n] \notin Forbidden \cup {"content-type"}
<1> DEFINE groups == ForPhase(p.groups, FALSE)
           S == UNION {ToSet(g.headers) : g \in ToSet(p.groups)}
<1>1. \A g \in ToSet(p.groups) : \E i \in DOMAIN file.groups : Sound(g, file.groups[i])
  BY DEF AsWritten, ToSet
<1>2. IsList(groups) /\ \A g \in ToSet(groups) : g \in ToSet(p.groups)
  BY PhaseGroups DEF AsWritten
<1>3. \A g \in ToSet(groups) : IsList(g.body) /\ IsList(g.headers) /\ ToSet(g.headers) \subseteq S
  BY <1>1, <1>2 DEF Sound, IsOps
<1>4. ASSUME NEW o \in S
      PROVE  /\ HeaderKey[o.name] \notin Forbidden
             /\ o.op = "set" => HeaderKey[o.name] # "set-cookie"
             /\ o.op # "set" => HeaderKey[o.name] # "content-type"
  <2>1. validateHeader(o) = "ok"
    BY <1>1 DEF Sound
  <2> QED
    BY <2>1 DEF validateHeader, Check
<1> HIDE DEF groups, S
<1>5. Within(headers, S)
  BY <1>2, <1>3, ApplyModerate DEF groups, Moderate
<1>6. ASSUME NEW n \in DOMAIN headers.set
      PROVE  HeaderKey[n] \notin Forbidden \cup {"set-cookie"}
  <2>1. PICK o \in S : o.op = "set" /\ o.name = n
    BY <1>5 DEF Within
  <2> QED
    BY <1>4, <2>1
<1>7. ASSUME NEW n \in headers.unset
      PROVE  HeaderKey[n] \notin Forbidden \cup {"content-type"}
  <2>1. PICK o \in S : o.op # "set" /\ o.name = n
    BY <1>5 DEF Within
  <2> QED
    BY <1>4, <2>1
<1> QED
  BY <1>6, <1>7

\* Each finds its pattern, within the budget of a message.
LEMMA OpsFind ==
    ASSUME NEW file, NEW p, AsWritten(file, p), NEW o \in OpsOf(p)
    PROVE  FindAll(o.pattern, Tokens(o.pattern), limit(o, MatchBudget)) # {}
<1>1. \A g \in ToSet(p.groups) : IsOps(g.body)
  BY DEF AsWritten, Sound, ToSet
<1>2. IsOp(o)
  <2>1. PICK g \in ToSet(p.groups) : o \in ToSet(g.body)
    BY DEF OpsOf, ToSet
  <2> QED
    BY <1>1, <2>1 DEF IsOps
<1>3. limit(o, MatchBudget) \in Nat \ {0}
  <2>1. MatchBudget \in Nat \ {0}
    BY DecideAssumption
  <2> QED
    BY <1>2, <2>1 DEF limit, IsOp
<1> QED
  BY <1>3, SomeFound

\* An inspector that serves has the profiles of its files.
LEMMA ServedProfiles ==
    ASSUME StartInv, pc = "serving", NEW k \in DOMAIN world.profiles
    PROVE  AsWritten(world.profiles[k][2], snap[world.profiles[k][1]])
<1> DEFINE file == world.profiles[k][2]
<1>1. readProfile(file) = "ok" /\ snap[world.profiles[k][1]] = Valid(file)
  BY DEF StartInv, ProfilesRead
<1>2. file # Null /\ Validate(file) = "ok"
  BY <1>1 DEF readProfile
<1>3. IsWritten(file)
  BY <1>2, StartupAssumption DEF StartInv, IsWorld
<1> HIDE DEF file
<1>4. AsWritten(file, Valid(file))
  BY <1>2, <1>3, ProfileValid
<1> QED
  BY <1>1, <1>4 DEF file

\* What ServesAsWritten says of one profile.
LEMMA ProfileInBounds ==
    ASSUME NEW file, NEW p, AsWritten(file, p)
    PROVE  InBounds(file, p)
<1> DEFINE ops == OpsOf(p)
           text == FlattenSeq(SetToSeq({Tokens(o.pattern) : o \in ops}))
           all == [NoAsk EXCEPT !.on = GroupNames(p)]
           seen == [frame |-> FALSE, status |-> 200, ctype |-> ""]
           headers == apply(ForPhase(p.groups, FALSE), seen, TRUE, text).headers
<1>1. \A o \in ops : FindAll(o.pattern, Tokens(o.pattern), limit(o, MatchBudget)) # {}
  BY OpsFind
<1>2. ASSUME NEW n \in GroupNames(p)
      PROVE  Len(Active([all EXCEPT !.off = {n}], p)) = Len(p.groups) - 1
  <2> DEFINE ask == [all EXCEPT !.off = {n}]
  <2>1. ask.on = GroupNames(p) /\ ask.off = {n}
    BY DEF NoAsk
  <2> HIDE DEF ask
  <2>2. Len(Active(ask, p)) = Len(p.groups) - 1
    BY <2>1, OneOff DEF AsWritten
  <2> QED
    BY <2>2 DEF ask
<1> HIDE DEF text, seen
<1>3. ASSUME NEW direction \in {"c2s", "s2c"}, NEW opcode \in {"text", "binary"}
      PROVE  LET did == apply(ForPhase(p.groups, TRUE), FrameOf(direction, opcode), TRUE, text)
             IN  did.headers = NoHeaders /\ (did.changed => Asking(file, opcode) # {})
  BY FramesAsked
<1>4. /\ \A n \in DOMAIN headers.set : HeaderKey[n] \notin Forbidden \cup {"set-cookie"}
      /\ \A n \in headers.unset : HeaderKey[n] \notin Forbidden \cup {"content-type"}
  <2> HIDE DEF headers
  <2> QED
    BY HeadersAllowed DEF headers
<1> HIDE DEF ops, all, headers
<1> QED
  BY <1>1, <1>2, <1>3, <1>4 DEF InBounds, ops, text, all, seen, headers

\* Whatever profiles passed validation, their evaluation stays in bounds
\* (profile.go, Validate; apply.go, Apply and ApplyFrame).
THEOREM ServedAsWritten == Spec => []ServesAsWritten
<1>1. ASSUME StartInv PROVE ServesAsWritten
  <2> SUFFICES ASSUME pc = "serving" PROVE ServesAsWritten
    BY DEF ServesAsWritten
  <2>1. \A k \in DOMAIN world.profiles :
          AsWritten(world.profiles[k][2], snap[world.profiles[k][1]])
    BY <1>1, ServedProfiles
  <2> QED
    BY <2>1, ProfileInBounds DEF ServesAsWritten
<1> QED
  BY <1>1, StartInvariant, PTL

\* Every profile the inspector serves with has the shape the message handler
\* relies on.
ServedSound == pc = "serving" => \A n \in DOMAIN snap : IsProfile(snap[n])

\* The profiles an inspector serves with are what the message handler takes
\* them to be (config.Store, decide): what module Inspect assumes of its
\* profiles is what the start leaves.
THEOREM ProfilesSound == Spec => []ServedSound
<1>1. ASSUME StartInv, pc = "serving", NEW n \in DOMAIN snap PROVE IsProfile(snap[n])
  <2>1. PICK k \in DOMAIN world.profiles : n = world.profiles[k][1]
    BY <1>1 DEF StartInv, ProfilesRead, Listed
  <2> DEFINE file == world.profiles[k][2]
             p == snap[n]
  <2>2. AsWritten(file, p)
    BY <1>1, <2>1, ServedProfiles
  <2> HIDE DEF file, p
  <2>3. \A g \in ToSet(p.groups) : IsOps(g.body)
    BY <2>2 DEF AsWritten, Sound, ToSet
  <2>4. \A g, h \in ToSet(p.groups) : g.name = h.name => g = h
    BY <2>2 DEF AsWritten, ToSet
  <2> QED
    BY <2>2, <2>3, <2>4 DEF AsWritten, IsProfile, p
<1>2. StartInv => ServedSound
  BY <1>1 DEF ServedSound
<1> QED
  BY <1>2, StartInvariant, PTL
=============================================================================
