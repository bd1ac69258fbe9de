------------------------------- MODULE Config -------------------------------
(***************************************************************************)
(* The settings of the inspector: inspector.conf (internal/config/file.go) *)
(* and the environment (config.go).                                        *)
(*                                                                         *)
(* A text is a string without space around it, "" for none, or Blank for   *)
(* one that is nothing but space.  What the library makes of a text is a   *)
(* function over the texts it accepts: Atoi, ParseDuration, splitList.     *)
(* A line of the file is what confText and the tokens of splitDirective    *)
(* leave of it.                                                            *)
(***************************************************************************)
EXTENDS Integers, Sequences, SequencesExt

CONSTANTS Atoi,           \* strconv.Atoi: text -> integer
          ParseDuration,  \* time.ParseDuration: text -> whole milliseconds
          splitList,      \* text -> its parts
          Levels,         \* the texts loglevel.Parse accepts
          isRedisURL,     \* the texts that are the URL of a Redis
          GOMAXPROCS      \* processors

Blank == " "

ASSUME ConfigAssumption ==
    /\ \A s \in DOMAIN Atoi : Atoi[s] \in Int
    /\ \A s \in DOMAIN ParseDuration : ParseDuration[s] \in Int
    /\ {"", Blank} \cap (DOMAIN Atoi \cup DOMAIN ParseDuration \cup isRedisURL) = {}
    /\ GOMAXPROCS \in Nat \ {0}

-----------------------------------------------------------------------------
(* parseQueueFile.                                                         *)

Lines == [kind : {"blank", "open", "close", "stmt", "bad"}, key : STRING, value : STRING]

Directives == {"queue_max", "queue_full", "queue_expand"}
RedisKeys == {"url", "internal"}

\* queueFile: "" for a directive that is not there.
queueFile == [k \in Directives \cup RedisKeys |-> ""]

Reading == [ok |-> TRUE, block |-> FALSE, seen |-> {}, out |-> queueFile]

ValueAllowed(key, value) ==
    CASE key = "queue_max"    -> value \in DOMAIN Atoi /\ Atoi[value] >= 1
      [] key = "queue_full"   -> value \in {"drop", "wait"}
      [] key = "queue_expand" -> value \in {"off", "ask"}
      [] OTHER                -> value \in isRedisURL

\* One directive: id is what seen remembers it by.
Directive(st, id, known, line) ==
    IF id \notin st.seen /\ line.key \in known /\ ValueAllowed(line.key, line.value)
    THEN [st EXCEPT !.seen = @ \cup {id}, !.out[line.key] = line.value]
    ELSE [st EXCEPT !.ok = FALSE]

parseRedisKey(st, line) == Directive(st, <<"redis", line.key>>, RedisKeys, line)

\* Mutant: a block may be opened again, and what it says replaces the first.
parseLineReopens(st, line) ==
    IF ~st.ok \/ line.kind = "blank" THEN st
    ELSE IF line.kind = "close"
    THEN [st EXCEPT !.ok = st.block, !.block = FALSE,
                    !.seen = @ \ {<<"redis", k>> : k \in RedisKeys}]
    ELSE IF line.kind = "open" /\ ~st.block
    THEN [st EXCEPT !.block = TRUE, !.ok = (line.key = "redis")]
    ELSE IF line.kind # "stmt" THEN [st EXCEPT !.ok = FALSE]
    ELSE IF st.block THEN parseRedisKey(st, line)
    ELSE Directive(st, <<"", line.key>>, Directives, line)

\* Inside a block a line that opens one is a directive without semicolon.
parseLine(st, line) ==
    IF ~st.ok \/ line.kind = "blank" THEN st
    ELSE IF line.kind = "close" THEN [st EXCEPT !.ok = st.block, !.block = FALSE]
    ELSE IF line.kind = "open" /\ ~st.block
    THEN [st EXCEPT !.block = TRUE, !.seen = @ \cup {<<"", "redis">>},
                    !.ok = (line.key = "redis" /\ <<"", "redis">> \notin st.seen)]
    ELSE IF line.kind # "stmt" THEN [st EXCEPT !.ok = FALSE]
    ELSE IF st.block THEN parseRedisKey(st, line)
    ELSE Directive(st, <<"", line.key>>, Directives, line)

parseQueueFile(lines) ==
    LET end == FoldLeft(parseLine, Reading, lines)
    IN  [end EXCEPT !.ok = @ /\ ~end.block]

-----------------------------------------------------------------------------
(* The environment: "" for a variable that is not set or is empty.         *)

Ints == {"WORKERS", "QUEUE_DEPTH", "RESERVE_MS", "MIN_BUDGET_MS"}
Strings == {"NATS_URL", "SUBJECT", "NAME", "QUEUE", "PROFILES", "DATA", "CONF",
            "QUEUE_FULL", "QUEUE_EXPAND", "REDIS_URL", "VERSIONS", "LOG",
            "HEARTBEAT_EVERY", "RELOAD_EVERY"}
EnvVars == Ints \cup Strings

TrimSpace(s) == IF s = Blank THEN "" ELSE s

env(e, v, def) == IF e[v] = "" THEN def ELSE e[v]

envOverride(e, v, current) == IF TrimSpace(e[v]) # "" THEN TrimSpace(e[v]) ELSE current

\* envInt, envIntIfSet: the variable can be read, and what it is then.
IntReads(e, v) == e[v] # "" => TrimSpace(e[v]) \in DOMAIN Atoi
envInt(e, v, def) == IF e[v] = "" THEN def ELSE Atoi[TrimSpace(e[v])]

\* envDuration and envDurationOrZero differ in the least they take.
DurationReads(e, v, least) ==
    e[v] # "" => /\ TrimSpace(e[v]) \in DOMAIN ParseDuration
                 /\ ParseDuration[TrimSpace(e[v])] >= least
envDuration(e, v, def) == IF e[v] = "" THEN def ELSE ParseDuration[TrimSpace(e[v])]

ListReads(e, v) ==
    e[v] # "" => \A i \in DOMAIN splitList[e[v]] : splitList[e[v]][i] \in DOMAIN Atoi
envIntList(e, v, def) ==
    IF e[v] = "" THEN def ELSE {Atoi[splitList[e[v]][i]] : i \in DOMAIN splitList[e[v]]}

-----------------------------------------------------------------------------
(* Load.  fs: the regular files that exist, path -> lines.                 *)

Candidates == <<"inspector.conf", "/app/inspector.conf">>

confPath(e, fs) ==
    IF TrimSpace(e["CONF"]) # "" THEN TrimSpace(e["CONF"])
    ELSE LET there == SelectSeq(Candidates, LAMBDA path : path \in DOMAIN fs)
         IN  IF there = <<>> THEN "" ELSE Head(there)

\* loadQueueFile and noInternalRedis.
loadQueueFile(e, fs) ==
    LET path == confPath(e, fs)
        read == parseQueueFile(fs[path])
    IN  IF path = "" THEN Reading
        ELSE IF path \notin DOMAIN fs THEN [Reading EXCEPT !.ok = FALSE]
        ELSE [read EXCEPT !.ok = @ /\ read.out["internal"] = ""]

\* applyQueueFile over the built-in settings.
applyQueueFile(file) ==
    [Max    |-> IF file["queue_max"] = "" THEN 256 ELSE Atoi[file["queue_max"]],
     Full   |-> IF file["queue_full"] = "" THEN "drop" ELSE file["queue_full"],
     Expand |-> IF file["queue_expand"] = "" THEN "off" ELSE file["queue_expand"]]

exchangeRedis(e, file) == envOverride(e, "REDIS_URL", file["url"])

Reads(e, fs) ==
    /\ \A v \in Ints : IntReads(e, v)
    /\ loadQueueFile(e, fs).ok
    /\ ListReads(e, "VERSIONS")
    /\ env(e, "LOG", "info") \in Levels
    /\ DurationReads(e, "HEARTBEAT_EVERY", 1)
    /\ DurationReads(e, "RELOAD_EVERY", 0)

Settings(e, fs) ==
    LET file == loadQueueFile(e, fs).out
        q == applyQueueFile(file)
        profiles == env(e, "PROFILES", "./profiles")
    IN  [Servers        |-> splitList[env(e, "NATS_URL", "nats://127.0.0.1:4222")],
         Subject        |-> env(e, "SUBJECT", "waf.req.rewrite"),
         Name           |-> env(e, "NAME", "rewrite"),
         Queue          |-> env(e, "QUEUE", env(e, "NAME", "rewrite")),
         Workers        |-> envInt(e, "WORKERS", GOMAXPROCS),
         QueueDepth     |-> envInt(e, "QUEUE_DEPTH", q.Max),
         QueueFull      |-> envOverride(e, "QUEUE_FULL", q.Full),
         QueueExpand    |-> envOverride(e, "QUEUE_EXPAND", q.Expand),
         RedisURL       |-> exchangeRedis(e, file),
         ReserveMS      |-> envInt(e, "RESERVE_MS", 2),
         MinBudgetMS    |-> envInt(e, "MIN_BUDGET_MS", 2),
         Versions       |-> envIntList(e, "VERSIONS", {2}),
         LogLevel       |-> env(e, "LOG", "info"),
         HeartbeatEvery |-> envDuration(e, "HEARTBEAT_EVERY", 4000),
         ReloadEvery    |-> envDuration(e, "RELOAD_EVERY", 1000),
         ProfilesDir    |-> profiles,
         DataDir        |-> env(e, "DATA", profiles \o ".applied")]

\* Subject, Name and Queue always have a default.
validate(c) ==
    /\ c.Servers # <<>>
    /\ "" \notin {c.Subject, c.Name, c.Queue}
    /\ c.Workers >= 1
    /\ c.QueueDepth >= 1
    /\ c.QueueFull \in {"drop", "wait"}
    /\ c.QueueExpand \in {"off", "ask"}
    /\ c.ReserveMS >= 0 /\ c.MinBudgetMS >= 0
    /\ c.Versions # {}
=============================================================================
