----------------------------- MODULE MCStartup -----------------------------
(* Environments, files and profiles a start may find.                      *)
EXTENDS Startup

MCAtoi == [s \in {"-1", "0", "1", "2", "3"} |->
             CASE s = "-1" -> -1 [] s = "0" -> 0 [] s = "1" -> 1 [] s = "2" -> 2 [] s = "3" -> 3]
MCParseDuration == [s \in {"-1s", "0s", "1s"} |->
                      CASE s = "-1s" -> -1000 [] s = "0s" -> 0 [] s = "1s" -> 1000]
MCsplitList == [s \in {Blank, "nats://127.0.0.1:4222", "nats://b", "2", "1,2", "junk"} |->
                  CASE s = Blank -> <<>> [] s = "1,2" -> <<"1", "2">> [] OTHER -> <<s>>]
MCRedisURLs == {"redis://a", "redis://b"}

Line(kind, key, value) == [kind |-> kind, key |-> key, value |-> value]
blank == Line("blank", "", "")
bad == Line("bad", "", "")
open == Line("open", "redis", "")
close == Line("close", "", "")
stmt(key, value) == Line("stmt", key, value)
max(n) == stmt("queue_max", n)
url(u) == stmt("url", u)

\* The file of the repository, and what can be wrong with one.
Image == <<blank, max("2"), stmt("queue_full", "wait"), stmt("queue_expand", "off"),
           blank, open, url("redis://a"), close>>

ConfFiles ==
    {Image, <<>>, <<max("2")>>, <<max("2"), max("3")>>, <<max("0")>>, <<max("junk")>>,
     <<stmt("queue_full", "wait")>>, <<stmt("queue_full", "junk")>>,
     <<stmt("queue_expand", "ask")>>, <<stmt("queue_expand", "junk")>>,
     <<stmt("queue_size", "2")>>, <<bad>>, <<close>>,
     <<open, close, max("2")>>, <<open, url("redis://a")>>, <<url("redis://a")>>,
     <<open, max("2"), close>>, <<open, blank, url("redis://a"), url("redis://b"), close>>,
     <<open, url("redis://a"), close, open, url("redis://b"), close>>,
     <<open, stmt("internal", "redis://a"), close>>, <<open, url("junk"), close>>,
     <<open, open, close>>, <<Line("open", "nats", ""), close>>}

Unset == [v \in EnvVars |-> ""]

\* What the environment and the file both set.
QueueEnvs ==
    {[Unset EXCEPT !["QUEUE_DEPTH"] = d, !["QUEUE_FULL"] = f, !["REDIS_URL"] = u] :
        d \in {"", Blank, "0", "3", "junk"}, f \in {"", Blank, "drop", "junk"},
        u \in {"", Blank, "redis://b"}}

\* The other variables, one at a time.
OtherEnvs ==
    {[Unset EXCEPT ![v] = s] :
        v \in {"WORKERS", "RESERVE_MS", "MIN_BUDGET_MS"}, s \in {Blank, "-1", "1", "junk"}}
    \cup {[Unset EXCEPT !["NATS_URL"] = s] : s \in {Blank, "nats://b"}}
    \cup {[Unset EXCEPT !["VERSIONS"] = s] : s \in {Blank, "1,2", "junk"}}
    \cup {[Unset EXCEPT !["LOG"] = s] : s \in {"debug", "junk"}}
    \cup {[Unset EXCEPT !["QUEUE_EXPAND"] = s] : s \in {Blank, "ask", "junk"}}
    \cup {[Unset EXCEPT ![v] = s] :
            v \in {"HEARTBEAT_EVERY", "RELOAD_EVERY"}, s \in {Blank, "-1s", "0s", "1s"}}
    \cup {[Unset EXCEPT !["CONF"] = s] : s \in {Blank, "other.conf", "/app/inspector.conf"}}

FileSystems ==
    {<<>>} \cup {[path \in {"inspector.conf"} |-> f] : f \in ConfFiles}
    \cup {[path \in {"inspector.conf", "/app/inspector.conf"} |->
             IF path = "inspector.conf" THEN <<max("2")>> ELSE <<max("3")>>]}

-----------------------------------------------------------------------------

Op(op, max_matches) ==
    [op |-> op, pattern |-> "a", to |-> "", max |-> max_matches,
     text |-> IF op \in {"insert_before", "insert_after"} THEN "t" ELSE ""]

Header(op, name, value) == [op |-> op, name |-> name, value |-> value]

WrittenGroup ==
    [name |-> "mask", default |-> TRUE, on |-> "", status |-> {}, types |-> {},
     direction |-> {}, opcode |-> {}, body |-> <<Op("remove", 0)>>, headers |-> <<>>]

HeaderOps ==
    {Header("set", n, v) : n \in {"X-Tag", "Set-Cookie", "Content-Type", "Host", "bad name"},
                           v \in {"1", "crlf"}}
    \cup {Header("unset", n, v) : n \in {"X-Tag", "Set-Cookie", "Content-Type"}, v \in {"", "1"}}
    \cup {Header("add", "X-Tag", "1")}

BodyOps ==
    {Op(o, m) : o \in {"remove", "replace", "insert_before", "insert_after", "junk"},
                m \in {-1, 0, 1, 4, 5}}
    \cup {[Op("remove", 1) EXCEPT !.to = "x"], [Op("replace", 1) EXCEPT !.text = "x"],
          [Op("insert_after", 1) EXCEPT !.text = ""], [Op("remove", 1) EXCEPT !.pattern = "("],
          [Op("replace", 1) EXCEPT !.pattern = "aa"], [Op("insert_before", 4) EXCEPT !.pattern = "^"],
          Null}

WrittenGroups ==
    {[WrittenGroup EXCEPT !.on = o, !.opcode = c, !.direction = d, !.headers = h, !.status = s] :
        o \in {"", "response", "frame", "junk"}, c \in {{}, {"binary"}, {"junk"}},
        d \in {{}, {"c2s"}, {"junk"}}, h \in {<<>>, <<Header("set", "X-Tag", "1")>>},
        s \in {{}, {200}, {99}}}
    \cup {[WrittenGroup EXCEPT !.body = <<b>>] : b \in BodyOps}
    \cup {[WrittenGroup EXCEPT !.body = <<>>, !.headers = h] :
            h \in {<<x>> : x \in HeaderOps} \cup {<<>>}}
    \cup {[WrittenGroup EXCEPT !.name = "Bad Name"],
          [WrittenGroup EXCEPT !.body = [i \in 1..3 |-> Op("remove", 1)]]}

Other == [WrittenGroup EXCEPT !.name = "other", !.on = "frame"]

Rule(from, accept) == [from |-> from, accept |-> accept, codes |-> {}]

Written ==
    {[defaults EXCEPT !.groups = <<g>>] : g \in WrittenGroups}
    \cup {[defaults EXCEPT !.groups = gs] :
            gs \in {<<>>, <<WrittenGroup, Other>>, <<Other, Other>>, <<Null>>,
                    <<WrittenGroup, Other, [Other EXCEPT !.name = "third"]>>}}
    \cup {[defaults EXCEPT !.prior = <<Rule(f, a)>>] :
            f \in {"", "*", "modsec"}, a \in {{}, {"skip"}, {"skip", "note"}}}
    \cup {[defaults EXCEPT !.mode = "junk"], [defaults EXCEPT !.deny_response = ""], Null}

World(e, fs, profiles) == [env |-> e, fs |-> fs, profiles |-> profiles]
Plain == [defaults EXCEPT !.groups = <<WrittenGroup, Other>>]

MCWorlds ==
    {World(e, fs, <<<<"default", Plain>>>>) : e \in QueueEnvs \cup OtherEnvs, fs \in FileSystems}
    \cup {World(Unset, <<>>, ps) : ps \in
            {<<<<"_probe", Plain>>>>} \cup {<<<<"_probe", Plain>>, <<"default", w>>>> : w \in Written}}

MCHeaderKey == [n \in {"X-Tag", "Set-Cookie", "Content-Type", "Host"} |->
                  CASE n = "X-Tag" -> "x-tag" [] n = "Set-Cookie" -> "set-cookie"
                    [] n = "Content-Type" -> "content-type" [] n = "Host" -> "host"]
\* A pattern of no token and one of two.
MCLit == [s \in {"^", "aa"} |-> IF s = "^" THEN <<>> ELSE <<"a", "a">>]
MCSuffixOf == [ct \in {""} |-> ""]
=============================================================================
