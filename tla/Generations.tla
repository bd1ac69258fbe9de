---------------------------- MODULE Generations ----------------------------
(***************************************************************************)
(* Profile generations: the store of profiles (internal/config/profiles.go)*)
(* and the rollout of what the controller publishes (internal/desired).    *)
(*                                                                         *)
(* Two goroutines work on one directory: the applier, which receives a     *)
(* manifest, swaps the tree on disk and reads it back (desired.Watch,      *)
(* Apply, ReloadFrom), and the reloader, which compares fingerprints and   *)
(* reads the tree again when they differ (Store.Watch, Reload).  Nothing   *)
(* but s.dir is under the store's mutex, so a file system call is one      *)
(* action and so is the publication of a snapshot.  The process may crash  *)
(* between any two of them, and it does when Validate panics on a profile: *)
(* nobody recovers.  The disk and the bus survive.                         *)
(*                                                                         *)
(* A tree is the generation it was written from, a stamp for its           *)
(* modification times (every write has its own) and the profile files it   *)
(* holds.  Profiles are numbered in the order in which os.ReadDir lists    *)
(* them: 0 is _probe, 1 is default.                                        *)
(***************************************************************************)
EXTENDS Integers, Sequences, FiniteSets

CONSTANTS Gens,       \* manifests the controller publishes
          Image,      \* the profiles of the image (cfg.ProfilesDir)
          None,       \* no generation, no tree
          Malformed,  \* manifests Parse rejects
          Has,        \* the profiles whose profile.yaml a generation holds
          Bad,        \* <<g, n>>: g's file for n fails ParseProfile or Validate
          Panicking,  \* <<g, n>>: ... makes Validate panic (an empty body item)
          LevelOf,    \* settings.log_level of a manifest, None without settings
          StartLevel, \* cfg.LogLevel
          Reloading,  \* WAF_REWRITE_RELOAD_EVERY > 0
          Faults,     \* the steps of Apply whose file system call may fail
          MaxPublish, \* bound: manifests published
          MaxCrashes  \* bound: crashes a restart follows

Probe == 0
Default == 1
Names == UNION {Has[g] : g \in Gens \cup {Image}}
Readers == {"apply", "reload"}

ASSUME GenAssumption ==
    /\ Image \notin Gens /\ None \notin Gens \cup {Image}
    /\ Malformed \subseteq Gens
    /\ Has \in [Gens \cup {Image} -> SUBSET Nat]
    /\ {Probe, Default} \subseteq Has[Image]
    /\ None \notin [gen : Gens \cup {Image}, stamp : Nat, files : SUBSET Nat]
    /\ Bad \subseteq Gens \X Nat
    /\ Panicking \subseteq (Gens \X Nat) \ Bad
    /\ DOMAIN LevelOf = Gens /\ StartLevel # None
    /\ Reloading \in BOOLEAN
    /\ Faults \subseteq {"stage", "park", "promote", "restore"}
    /\ MaxPublish \in Nat /\ MaxCrashes \in Nat

VARIABLES
    disk,      \* the trees .next, profiles and .prev of the data directory
    stamp,     \* the last modification time given out
    dir,       \* Store.dir: "image" or "live"
    cur,       \* Store.cur: where each profile came from, and Fingerprint
    rd,        \* the two runs of Store.read
    step,      \* where the applier is in Apply; "down" when there is no process
    man,       \* the manifest in hand
    lived,     \* Apply's lived
    back,      \* ReloadFrom's prev
    applied,   \* what Applied reports: hash and rev (the generation), apply
    level,     \* the log level in force
    updates,   \* KV updates the watcher has not consumed
    watching,  \* desired.Watch has succeeded
    latest,    \* the value the bucket holds
    published, crashes,
    rejected,  \* history: generations that Apply read and refused
    fault,     \* history: a file system call failed in the last Apply
    lost       \* history: the live tree could not be renamed back

tree    == <<disk, stamp>>
served  == <<dir, cur>>
applier == <<step, man, lived, back, applied, level, fault, lost>>
bucket  == <<updates, watching, latest, published>>
vars    == <<tree, served, rd, applier, bucket, crashes, rejected>>

-----------------------------------------------------------------------------
(* Trees, fingerprints, snapshots.                                         *)

ImageTree == [gen |-> Image, stamp |-> 0, files |-> Has[Image]]

TreeAt(d) == IF d = "image" THEN ImageTree ELSE disk["live"]

Whole(g, s) == [gen |-> g, stamp |-> s, files |-> Has[g]]

\* fingerprint hashes names, sizes and modification times, not contents.
Fingerprint(t) == <<t.stamp, t.files>>

\* ParseProfile and Validate accept g's profile.yaml for n.
Validates(g, n) == <<g, n>> \notin Bad \cup Panicking

\* desired.Parse accepts the manifest.
Parses(g) == g \notin Malformed

NoFiles == [n \in Names |-> None]

\* The end of read: a snapshot without _probe borrows the image's.
WithProbe(got, d) ==
    IF got[Probe] = None /\ d # "image" THEN [got EXCEPT ![Probe] = Image] ELSE got

\* What reading an undisturbed tree returns.
Contents(t) == [n \in Names |-> IF n \in t.files THEN t.gen ELSE None]

Usable(t) ==
    /\ t # None
    /\ Default \in t.files
    /\ \A n \in t.files : Validates(t.gen, n)

\* A file that makes Validate panic is read before any that is refused.
Panics(t) ==
    \E n \in t.files : /\ <<t.gen, n>> \in Panicking
                      /\ \A o \in t.files : <<t.gen, o>> \in Bad => n < o

Snapshot(t, d) == [from |-> WithProbe(Contents(t), d), fp |-> Fingerprint(t)]

-----------------------------------------------------------------------------
(* Store.read, run by r: list the directory, read the profiles in the      *)
(* order of the list, take the fingerprint, publish the snapshot.          *)

Idle == [at |-> "idle", dir |-> "image", todo |-> {}, got |-> NoFiles, fp |-> <<>>]

Begin(r) == rd' = [rd EXCEPT ![r] = [Idle EXCEPT !.at = "list"]]

\* An error: the reloader logs it and waits for its next tick.
GiveUp(r) ==
    rd' = [rd EXCEPT ![r] = [Idle EXCEPT !.at = IF r = "apply" THEN "failed" ELSE "idle"]]

\* dir := s.Dir(); os.ReadDir(dir).
List(r) ==
    /\ rd[r].at = "list"
    /\ \/ TreeAt(dir) = None /\ GiveUp(r)
       \/ /\ TreeAt(dir) # None
          /\ rd' = [rd EXCEPT ![r] = [rd[r] EXCEPT !.at = "files", !.dir = dir,
                                               !.todo = TreeAt(dir).files]]
    /\ UNCHANGED <<tree, served, applier, bucket, crashes, rejected>>

\* Mutant: a profile that does not validate is kept.
ReadFileUnchecked(r) ==
    /\ rd[r].at = "files"
    /\ \E n \in rd[r].todo :
          /\ \A o \in rd[r].todo : n <= o
          /\ LET t == TreeAt(rd[r].dir)
                 found == t # None /\ n \in t.files
             IN  rd' = [rd EXCEPT ![r] = [rd[r] EXCEPT !.todo = @ \ {n},
                           !.got = IF found THEN [@ EXCEPT ![n] = t.gen] ELSE @]]
    /\ UNCHANGED <<tree, served, applier, bucket, crashes, rejected>>

\* readProfile of the next name: a file that is gone is skipped, a bad one is
\* an error for the whole read.
ReadFile(r) ==
    /\ rd[r].at = "files"
    /\ \E n \in rd[r].todo :
          /\ \A o \in rd[r].todo : n <= o
          /\ LET t == TreeAt(rd[r].dir)
                 found == t # None /\ n \in t.files
             IN  \/ found /\ <<t.gen, n>> \in Bad /\ GiveUp(r)
                 \/ /\ found => Validates(t.gen, n)
                    /\ rd' = [rd EXCEPT ![r] = [rd[r] EXCEPT !.todo = @ \ {n},
                                 !.got = IF found THEN [@ EXCEPT ![n] = t.gen] ELSE @]]
    /\ UNCHANGED <<tree, served, applier, bucket, crashes, rejected>>

\* The default profile must be there; then the fingerprint of what the
\* directory is now.
TakePrint(r) ==
    /\ rd[r].at = "files"
    /\ rd[r].todo = {}
    /\ LET t == TreeAt(rd[r].dir)
           usable == rd[r].got[Default] # None /\ t # None
       IN  \/ ~usable /\ GiveUp(r)
           \/ /\ usable
              /\ rd' = [rd EXCEPT ![r] = [rd[r] EXCEPT !.at = "store",
                           !.got = WithProbe(@, rd[r].dir), !.fp = Fingerprint(t)]]
    /\ UNCHANGED <<tree, served, applier, bucket, crashes, rejected>>

\* s.cur.Store(snap).
Publish(r) ==
    /\ rd[r].at = "store"
    /\ cur' = [from |-> rd[r].got, fp |-> rd[r].fp]
    /\ rd' = [rd EXCEPT ![r] = [Idle EXCEPT !.at = IF r = "apply" THEN "done" ELSE "idle"]]
    /\ UNCHANGED <<tree, dir, applier, bucket, crashes, rejected>>

\* The end of the process: what it had in memory is gone.
Down ==
    /\ step' = "down"
    /\ rd' = [r \in Readers |-> Idle]
    /\ updates' = <<>>
    /\ crashes' = crashes + 1
    /\ UNCHANGED <<tree, served, man, lived, back, applied, level, fault, lost,
                   watching, latest, published, rejected>>

\* Validate panics on the profile of the next name.
Panic(r) ==
    /\ rd[r].at = "files"
    /\ \E n \in rd[r].todo :
          /\ \A o \in rd[r].todo : n <= o
          /\ LET t == TreeAt(rd[r].dir)
             IN  t # None /\ n \in t.files /\ <<t.gen, n>> \in Panicking
    /\ Down

Read(r) == List(r) \/ ReadFile(r) \/ TakePrint(r) \/ Publish(r) \/ Panic(r)

\* A tick of Store.Watch: Reload reads only if the fingerprint differs.
ReloadTick ==
    /\ Reloading /\ step # "down"
    /\ rd["reload"].at = "idle"
    /\ TreeAt(dir) # None
    /\ Fingerprint(TreeAt(dir)) # cur.fp
    /\ Begin("reload")
    /\ UNCHANGED <<tree, served, applier, bucket, crashes, rejected>>

-----------------------------------------------------------------------------
(* The bucket: the controller writes a manifest, the watcher gets it.      *)

\* The key is put, or deleted or purged (None).
Offer(g) ==
    /\ published < MaxPublish
    /\ published' = published + 1
    /\ latest' = g
    /\ updates' = IF watching /\ step # "down" THEN Append(updates, g) ELSE updates
    /\ UNCHANGED <<tree, served, rd, applier, watching, crashes, rejected>>

\* Watch takes an update: a deletion is passed over, Parse may refuse the value,
\* and what is already applied is not applied again.
Receive ==
    /\ step = "idle"
    /\ updates # <<>>
    /\ updates' = Tail(updates)
    /\ LET g == Head(updates)
       IN  \/ /\ g = None \/ ~Parses(g) \/ applied = [gen |-> g, apply |-> "ok"]
              /\ UNCHANGED <<step, man, fault>>
           \/ /\ g # None /\ Parses(g) /\ applied # [gen |-> g, apply |-> "ok"]
              /\ step' = "stage" /\ man' = g /\ fault' = FALSE
    /\ UNCHANGED <<tree, served, rd, lived, back, applied, level, lost, watching,
                   latest, published, crashes, rejected>>

-----------------------------------------------------------------------------
(* Apply, with Watch's bookkeeping of its result.                          *)

\* Apply returns an error: Watch reports it, with the generation it reported
\* before, and leaves the log level alone.
Failed ==
    /\ step' = "idle"
    /\ applied' = [applied EXCEPT !.apply = "apply_failed"]
    /\ UNCHANGED level

\* ... because a file system call failed.
Broken == Failed /\ fault' = TRUE

\* Apply goes on.
Proceed(label) == step' = label /\ UNCHANGED <<applied, level, fault>>

\* Settings.apply, after the manifest has been applied.
Settings(g) == level' = IF LevelOf[g] = None THEN level ELSE LevelOf[g]

\* .next is written from scratch and .prev is cleared: nobody reads either.
Stage ==
    /\ step = "stage"
    /\ \/ /\ stamp' = stamp + 1
          /\ disk' = [disk EXCEPT !["next"] = Whole(man, stamp'), !["prev"] = None]
          /\ Proceed("park")
       \/ /\ "stage" \in Faults
          /\ disk' = [disk EXCEPT !["next"] = None]
          /\ Broken
          /\ UNCHANGED stamp
    /\ UNCHANGED <<served, rd, man, lived, back, lost, bucket, crashes, rejected>>

\* os.Rename(live, prev).
Park ==
    /\ step = "park"
    /\ \/ /\ lived' = (disk["live"] # None)
          /\ disk' = [disk EXCEPT !["live"] = None, !["prev"] = disk["live"]]
          /\ Proceed("promote")
       \/ /\ "park" \in Faults
          /\ disk' = [disk EXCEPT !["next"] = None]
          /\ Broken
          /\ UNCHANGED lived
    /\ UNCHANGED <<stamp, served, rd, man, back, lost, bucket, crashes, rejected>>

\* Mutant: the parked tree is not put back when the promotion fails.
PromoteNoReturn ==
    /\ step = "promote"
    /\ \/ /\ disk' = [disk EXCEPT !["live"] = disk["next"], !["next"] = None]
          /\ Proceed("load")
       \/ /\ "promote" \in Faults
          /\ disk' = [disk EXCEPT !["next"] = None]
          /\ Broken
    /\ UNCHANGED <<stamp, served, rd, man, lived, back, lost, bucket, crashes, rejected>>

\* Mutant: .prev is removed as soon as the new tree is in its place.
PromoteDropsPrev ==
    /\ step = "promote"
    /\ disk' = [disk EXCEPT !["live"] = disk["next"], !["next"] = None, !["prev"] = None]
    /\ Proceed("load")
    /\ UNCHANGED <<stamp, served, rd, man, lived, back, lost, bucket, crashes, rejected>>

\* os.Rename(staging, live); when it fails, .prev is renamed back, which may
\* fail as well.
Promote ==
    /\ step = "promote"
    /\ \/ /\ disk' = [disk EXCEPT !["live"] = disk["next"], !["next"] = None]
          /\ Proceed("load")
          /\ UNCHANGED lost
       \/ /\ "promote" \in Faults
          /\ disk' = IF lived
                     THEN [disk EXCEPT !["live"] = disk["prev"], !["prev"] = None,
                                       !["next"] = None]
                     ELSE [disk EXCEPT !["next"] = None]
          /\ Broken
          /\ UNCHANGED lost
       \/ /\ {"promote", "restore"} \subseteq Faults
          /\ lived
          /\ disk' = [disk EXCEPT !["next"] = None]
          /\ Broken
          /\ lost' = TRUE
    /\ UNCHANGED <<stamp, served, rd, man, lived, back, bucket, crashes, rejected>>

\* ReloadFrom(live), first for the new tree, after a rollback for the old one.
SetDir ==
    /\ step \in {"load", "reload"}
    /\ back' = dir
    /\ dir' = "live"
    /\ Begin("apply")
    /\ step' = IF step = "load" THEN "loading" ELSE "reloading"
    /\ UNCHANGED <<tree, cur, man, lived, applied, level, fault, lost, bucket, crashes,
                   rejected>>

ReadEnds == rd' = [rd EXCEPT !["apply"] = Idle]

\* The new tree was read: .prev goes, Watch records the generation and takes
\* the log level of its settings.
Accept ==
    /\ step = "loading"
    /\ rd["apply"].at = "done"
    /\ ReadEnds
    /\ disk' = [disk EXCEPT !["prev"] = None]
    /\ applied' = [gen |-> man, apply |-> "ok"]
    /\ Settings(man)
    /\ step' = "idle" /\ lost' = FALSE
    /\ UNCHANGED <<stamp, served, man, lived, back, fault, bucket, crashes, rejected>>

\* Mutant: s.dir stays on the refused tree.
RefuseKeepsDir ==
    /\ step = "loading"
    /\ rd["apply"].at = "failed"
    /\ ReadEnds
    /\ step' = "remove"
    /\ rejected' = rejected \cup {man}
    /\ UNCHANGED <<tree, served, man, lived, back, applied, level, fault, lost, bucket,
                   crashes>>

\* The new tree was refused: ReloadFrom puts s.dir back, the rollback begins.
Refuse ==
    /\ step = "loading"
    /\ rd["apply"].at = "failed"
    /\ ReadEnds
    /\ dir' = back
    /\ step' = "remove"
    /\ rejected' = rejected \cup {man}
    /\ UNCHANGED <<tree, cur, man, lived, back, applied, level, fault, lost, bucket,
                   crashes>>

\* os.RemoveAll(live), one file at a time and then the directory.
Remove ==
    /\ step = "remove"
    /\ \/ /\ \E n \in disk["live"].files :
                disk' = [disk EXCEPT !["live"].files = @ \ {n}]
          /\ UNCHANGED step
       \/ /\ disk["live"].files = {}
          /\ disk' = [disk EXCEPT !["live"] = None]
          /\ step' = "restore"
    /\ UNCHANGED <<stamp, served, rd, man, lived, back, applied, level, fault, lost,
                   bucket, crashes, rejected>>

\* os.Rename(prev, live) if there was a live tree.
Restore ==
    /\ step = "restore"
    /\ \/ /\ lived
          /\ disk' = [disk EXCEPT !["live"] = disk["prev"], !["prev"] = None]
          /\ Proceed("reload")
          /\ UNCHANGED lost
       \/ /\ ~lived
          /\ Failed
          /\ UNCHANGED <<disk, fault, lost>>
       \/ /\ lived /\ "restore" \in Faults
          /\ Failed
          /\ lost' = TRUE
          /\ UNCHANGED <<disk, fault>>
    /\ UNCHANGED <<stamp, served, rd, man, lived, back, bucket, crashes, rejected>>

\* The second ReloadFrom is over; its own error is ignored.
RolledBack ==
    /\ step = "reloading"
    /\ rd["apply"].at \in {"done", "failed"}
    /\ ReadEnds
    /\ dir' = IF rd["apply"].at = "done" THEN dir ELSE back
    /\ Failed
    /\ UNCHANGED <<tree, cur, man, lived, back, fault, lost, bucket, crashes, rejected>>

ApplyStep ==
    \/ Stage \/ Park \/ Promote \/ SetDir \/ Accept \/ Refuse \/ Remove \/ Restore
    \/ RolledBack

-----------------------------------------------------------------------------
(* A crash, and the start that follows: LoadProfiles reads the image,      *)
(* Bootstrap the live tree if its default profile is there; nothing else   *)
(* runs yet.  The watcher is then given the bucket's value.                *)

Crash == step # "down" /\ crashes < MaxCrashes /\ Down

\* Bootstrap's stat of live/default/profile.yaml.
Stat == disk["live"] # None /\ Default \in disk["live"].files

\* ... and its ReloadFrom(live), which may succeed, or panic.
Bootstraps == Stat /\ Usable(disk["live"])
BootstrapPanics == Stat /\ Panics(disk["live"])

\* Mutant: the watcher is not given the bucket's value.
WatchBucketDeaf == watching' \in BOOLEAN /\ UNCHANGED updates

\* desired.Watch fails, or is given the bucket's value, if there is one, first.
WatchBucket ==
    /\ watching' \in BOOLEAN
    /\ updates' = IF latest = None \/ ~watching' THEN <<>> ELSE <<latest>>

\* The process is started again.  As long as Bootstrap panics on the tree it
\* finds, no start gets any further; without a watcher it goes on without
\* manifests (main.go:162).
Start ==
    /\ step = "down" /\ crashes <= MaxCrashes
    /\ ~BootstrapPanics
    /\ dir' = IF Bootstraps THEN "live" ELSE "image"
    /\ cur' = IF Bootstraps THEN Snapshot(disk["live"], "live")
              ELSE Snapshot(ImageTree, "image")
    /\ step' = "idle" /\ man' = None /\ lived' = FALSE /\ back' = "image"
    /\ applied' = [gen |-> None, apply |-> ""]
    /\ level' = StartLevel /\ fault' = FALSE /\ lost' = FALSE
    /\ WatchBucket
    /\ UNCHANGED <<tree, rd, latest, published, crashes, rejected>>

-----------------------------------------------------------------------------
Init ==
    /\ disk = [s \in {"next", "live", "prev"} |-> None]
    /\ stamp = 0
    /\ dir = "image" /\ cur = Snapshot(ImageTree, "image")
    /\ rd = [r \in Readers |-> Idle]
    /\ step = "idle" /\ man = None /\ lived = FALSE /\ back = "image"
    /\ applied = [gen |-> None, apply |-> ""]
    /\ level = StartLevel /\ fault = FALSE /\ lost = FALSE
    /\ watching \in BOOLEAN
    /\ updates = <<>> /\ latest = None
    /\ published = 0 /\ crashes = 0
    /\ rejected = {}

Next ==
    \/ \E r \in Readers : Read(r)
    \/ ReloadTick
    \/ \E g \in Gens \cup {None} : Offer(g)
    \/ Receive \/ ApplyStep
    \/ Crash \/ Start

Spec == Init /\ [][Next]_vars

(* Both goroutines run, the ticker ticks, and a process that ended is      *)
(* started again.  Neither the controller nor a crash is owed.             *)
Fairness ==
    /\ \A r \in Readers : WF_vars(Read(r))
    /\ WF_vars(ReloadTick) /\ WF_vars(Receive) /\ WF_vars(ApplyStep)
    /\ WF_vars(Start)

FairSpec == Spec /\ Fairness

-----------------------------------------------------------------------------
(* Properties.                                                             *)

Origins == Gens \cup {Image, None}
Trees == [gen : Gens, stamp : Nat, files : SUBSET Names] \cup {None}
Prints == {<<>>} \cup (Nat \X SUBSET Names)

\* The variables have their types; as long as Apply may have to go back, the
\* tree to go back to is there.
TypeOK ==
    /\ disk \in [{"next", "live", "prev"} -> Trees]
    /\ stamp \in Nat
    /\ dir \in {"image", "live"} /\ back \in {"image", "live"}
    /\ cur \in [from : [Names -> Origins], fp : Prints]
    /\ rd \in [Readers -> [at : {"idle", "list", "files", "store", "failed", "done"},
                           dir : {"image", "live"}, todo : SUBSET Names,
                           got : [Names -> Origins], fp : Prints]]
    /\ step \in {"idle", "stage", "park", "promote", "load", "loading", "remove",
                 "restore", "reload", "reloading", "down"}
    /\ man \in Gens \cup {None} /\ lived \in BOOLEAN
    /\ applied \in [gen : Gens \cup {None}, apply : {"", "ok", "apply_failed"}]
    /\ level \in {StartLevel} \cup {LevelOf[g] : g \in Gens} /\ level # None
    /\ fault \in BOOLEAN /\ lost \in BOOLEAN /\ watching \in BOOLEAN
    /\ updates \in Seq(Gens \cup {None}) /\ latest \in Gens \cup {None}
    /\ published \in Nat /\ crashes \in Nat /\ rejected \subseteq Gens
    /\ step \in {"promote", "load", "loading", "remove", "restore"} =>
          (lived <=> disk["prev"] # None)

\* The snapshot is generation g's whole set of profiles and nothing else.
Serves(g) ==
    \A n \in Names \ {Probe} : cur.from[n] = IF n \in Has[g] THEN g ELSE None

\* Whatever the two goroutines do to the tree while the other reads it, the
\* profiles served have passed validation, and the default profile and the
\* health check's _probe are among them (profiles.go read, readProfile).
ServedIsValid ==
    /\ \A n \in Names : cur.from[n] # None => Validates(cur.from[n], n)
    /\ cur.from[Default] # None
    /\ cur.from[Probe] # None

\* Generation g is in effect: its profiles are served and its log level is set.
InEffect(g) == Serves(g) /\ (LevelOf[g] # None => level = LevelOf[g])

\* Between two manifests, the generation reported in the heartbeat is the one
\* in effect, also after later generations failed and were rolled back, or
\* could not be, and after restarts; the image is served until the first one.
ServedAsReported ==
    step = "idle" =>
        /\ applied.gen # None => InEffect(applied.gen) /\ dir = "live"
        /\ applied.gen = None /\ crashes = 0 => Serves(Image) /\ dir = "image"

\* ... and the tree on disk, from which a restart would load, is that
\* generation's, complete, unless it could not be renamed back.
DiskAsReported ==
    step = "idle" /\ applied.gen # None /\ ~lost =>
        /\ disk["live"] # None
        /\ disk["live"] = Whole(applied.gen, disk["live"].stamp)

\* The last manifest published, if it is sound, comes into effect in the end
\* and stays, however often the process crashed on the way, whatever was
\* published before.  What keeps it out is a file system call that failed, which
\* stays reported since nothing retries an Apply; a start whose desired.Watch
\* failed (main.go:162); or a tree left on disk on which every start panics
\* (profile.go:355).
LatestServed ==
    \A g \in Gens :
        Parses(g) /\ Usable(Whole(g, 1)) =>
            (latest = g /\ published = MaxPublish ~>
                [](\/ step # "down" /\ InEffect(g)
                   \/ fault /\ applied.apply = "apply_failed"
                   \/ ~watching
                   \/ step = "down" /\ BootstrapPanics))

\* A generation that is reported as applied is served sooner or later, or
\* another one is reported (desired.go Watch, profiles.go Reload).
ReportedIsServed ==
    \A g \in Gens :
        applied = [gen |-> g, apply |-> "ok"]
            ~> (Serves(g) \/ applied # [gen |-> g, apply |-> "ok"])

\* A start serves no profile of a generation that Apply had refused before the
\* crash (desired.go Bootstrap).
RestoredWasApplied ==
    [][Start => \A n \in Names : cur'.from[n] \notin rejected]_vars
=============================================================================
