------------------------------ MODULE Startup ------------------------------
(***************************************************************************)
(* The start of the inspector (cmd/inspector/main.go, run up to the wait   *)
(* for a signal): the settings and the profiles are read, the buffer and   *)
(* the bus are reached, and only then is anything taken from the subject.  *)
(* Bootstrap, which may replace the profiles of the image by those of an   *)
(* earlier generation, is in module Generations.                           *)
(***************************************************************************)
EXTENDS Config, Profiles, Decide

CONSTANT Worlds  \* environment, files and profiles a start may find

\* What yaml decodes profile.yaml to.
IsWritten(file) ==
    /\ IsList(file.groups)
    /\ \A g \in ToSet(file.groups) : g # Null => IsList(g.body) /\ IsList(g.headers)

\* Files are lists of lines, and a directory lists a name once.
IsWorld(w) ==
    /\ \A path \in DOMAIN w.fs : IsList(w.fs[path])
    /\ IsList(w.profiles)
    /\ \A i, j \in DOMAIN w.profiles : w.profiles[i][1] = w.profiles[j][1] => i = j
    /\ \A i \in DOMAIN w.profiles : w.profiles[i][2] # Null => IsWritten(w.profiles[i][2])

ASSUME StartupAssumption ==
    /\ \A w \in Worlds : IsWorld(w)
    /\ "built-in" \notin DOMAIN Atoi

VARIABLES
    world,  \* env, fs, and profiles: <<name, file>> in the order of the listing
    pc,     \* where run is: the next call, "serving", "exit" or "panic"
    cfg,    \* config.Config
    snap,   \* Store.Current(): name -> profile
    store,  \* the URL of the buffer that answered, "" without one
    pending,\* messages the client holds for the subscription
    watched \* desired.Watch is on

vars == <<world, pc, cfg, snap, store, pending, watched>>

Init ==
    /\ world \in Worlds
    /\ pc = "config" /\ cfg = <<>> /\ snap = <<>> /\ store = "" /\ pending = 0
    /\ watched = FALSE

\* run returns an error, and main ends the process.
Exit == pc' = "exit" /\ UNCHANGED <<world, cfg, snap, store, pending, watched>>

Load ==
    /\ pc = "config"
    /\ LET ok == Reads(world.env, world.fs) /\ validate(Settings(world.env, world.fs))
       IN  \/ ~ok /\ Exit
           \/ /\ ok
              /\ cfg' = Settings(world.env, world.fs)
              /\ pc' = "profiles"
              /\ UNCHANGED <<world, snap, store, pending, watched>>

Listed == {world.profiles[i][1] : i \in DOMAIN world.profiles}

LoadProfiles ==
    /\ pc = "profiles"
    /\ LET read == InTurn([i \in DOMAIN world.profiles |-> readProfile(world.profiles[i][2])])
       IN  \/ (read = "error" \/ (read = "ok" /\ "default" \notin Listed)) /\ Exit
           \/ /\ read = "panic"
              /\ pc' = "panic"
              /\ UNCHANGED <<world, cfg, snap, store, pending, watched>>
           \/ /\ read = "ok" /\ "default" \in Listed
              /\ snap' = [n \in Listed |->
                            LET i == CHOOSE k \in DOMAIN world.profiles :
                                        world.profiles[k][1] = n
                            IN  Valid(world.profiles[i][2])]
              /\ pc' = "buffer"
              /\ UNCHANGED <<world, cfg, store, pending, watched>>

\* Without a URL the inspector starts and can rewrite no body; with one the
\* buffer has to answer.
bodyLoader ==
    /\ pc = "buffer"
    /\ \/ cfg.RedisURL # "" /\ Exit
       \/ /\ store' = cfg.RedisURL
          /\ pc' = "bus"
          /\ UNCHANGED <<world, cfg, snap, pending, watched>>

\* nats.Connect, the streams (whose absence is only logged), QueueSubscribe
\* and SetPendingLimits.
Subscribe ==
    /\ pc = "bus"
    /\ \/ Exit
       \/ /\ pending' = cfg.QueueDepth + cfg.Workers + 2
          /\ pc' = "watch"
          /\ UNCHANGED <<world, cfg, snap, store, watched>>

\* desired.Watch may fail; the start goes on without it and does not retry.
Watch ==
    /\ pc = "watch"
    /\ watched' \in BOOLEAN
    /\ pc' = "serving"
    /\ UNCHANGED <<world, cfg, snap, store, pending>>

Next == Load \/ LoadProfiles \/ bodyLoader \/ Subscribe \/ Watch

Spec == Init /\ [][Next]_vars

-----------------------------------------------------------------------------
(* What the settings are meant to be, read off the text of the file.       *)

ConfLines ==
    LET path == confPath(world.env, world.fs)
    IN  IF path = "" THEN <<>> ELSE world.fs[path]

\* Line i stands between an opening line and the closing line after it.
InBlock(i) ==
    \E o \in 1..i - 1 : /\ ConfLines[o].kind = "open"
                        /\ \A j \in o + 1..i - 1 : ConfLines[j].kind # "close"

\* The lines that say what key is.
Saying(key) ==
    {i \in DOMAIN ConfLines : /\ ConfLines[i].kind = "stmt"
                              /\ ConfLines[i].key = key
                              /\ InBlock(i) <=> key \in RedisKeys}

\* The text that holds for key: the environment's, else the file's, else def.
Holds(text, v, key, def) ==
    IF TrimSpace(world.env[v]) # "" THEN text = world.env[v]
    ELSE IF Saying(key) = {} THEN text = def
    ELSE \A i \in Saying(key) : text = ConfLines[i].value

\* An inspector that serves runs with the settings the environment gives, else
\* with what the file says once and in its place, else with the built-in ones
\* (config.Load, parseQueueFile): no line of the file is without effect, the
\* queue can be built from them (queue.New), and the inspector works without a
\* buffer only when nobody named one.
ServesAsConfigured ==
    pc = "serving" =>
        /\ \A key \in Directives \cup RedisKeys :
              \A i, j \in Saying(key) : i = j
        /\ \A i \in DOMAIN ConfLines : ConfLines[i].kind = "open" =>
              \E j \in DOMAIN ConfLines : j > i /\ ConfLines[j].kind = "close"
        /\ {i \in DOMAIN ConfLines : ConfLines[i].kind = "stmt"}
             = UNION {Saying(key) : key \in Directives \cup {"url"}}
        /\ Holds(cfg.QueueFull, "QUEUE_FULL", "queue_full", "drop")
        /\ Holds(cfg.QueueExpand, "QUEUE_EXPAND", "queue_expand", "off")
        /\ Holds(store, "REDIS_URL", "url", "")
        /\ \E text \in DOMAIN Atoi \cup {"built-in"} :
              /\ Holds(text, "QUEUE_DEPTH", "queue_max", "built-in")
              /\ cfg.QueueDepth = IF text = "built-in" THEN 256 ELSE Atoi[text]
        /\ cfg.Workers >= 1 /\ cfg.QueueDepth >= 1 /\ cfg.QueueFull \in {"drop", "wait"}
        /\ pending > cfg.QueueDepth + cfg.Workers

FrameOf(direction, opcode) == [frame |-> TRUE, direction |-> direction, opcode |-> opcode]

\* The groups of the file that ask for frames of this opcode: text unless they
\* name others.
Asking(file, opcode) ==
    {i \in DOMAIN file.groups :
        /\ file.groups[i].on = "frame"
        /\ opcode \in file.groups[i].opcode
             \/ (file.groups[i].opcode = {} /\ opcode = "text")}

\* The body operations of a profile.
OpsOf(p) ==
    UNION {{g.body[i] : i \in DOMAIN g.body} : g \in {p.groups[i] : i \in DOMAIN p.groups}}

\* p, which the file became, does no more than the file says.
InBounds(file, p) ==
    LET text == FlattenSeq(SetToSeq({Tokens(o.pattern) : o \in OpsOf(p)}))
        all == [NoAsk EXCEPT !.on = GroupNames(p)]
        headers == apply(ForPhase(p.groups, FALSE),
                         [frame |-> FALSE, status |-> 200, ctype |-> ""], TRUE, text).headers
    IN  /\ \A direction \in {"c2s", "s2c"}, opcode \in {"text", "binary"} :
              LET did == apply(ForPhase(p.groups, TRUE), FrameOf(direction, opcode), TRUE, text)
              IN  /\ did.headers = NoHeaders
                  /\ did.changed => Asking(file, opcode) # {}
        /\ \A o \in OpsOf(p) : FindAll(o.pattern, Tokens(o.pattern), limit(o, MatchBudget)) # {}
        /\ \A n \in GroupNames(p) :
              Len(Active([all EXCEPT !.off = {n}], p)) = Len(p.groups) - 1
        /\ \A n \in DOMAIN headers.set : HeaderKey[n] \notin Forbidden \cup {"set-cookie"}
        /\ \A n \in headers.unset : HeaderKey[n] \notin Forbidden \cup {"content-type"}

\* Whatever profile.yaml passed Validate, its evaluation stays in bounds: a
\* frame loses no header and changes only if a group of the file asks for its
\* opcode, an operation whose pattern is there matches it, a request to switch
\* a group off switches that one off, and of a response no header that belongs
\* to the connection is touched, no cookie is set and no content type removed.
ServesAsWritten ==
    pc = "serving" => \A k \in DOMAIN world.profiles :
                          InBounds(world.profiles[k][2], snap[world.profiles[k][1]])
=============================================================================
