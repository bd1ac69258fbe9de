------------------------- MODULE GenerationsProofs --------------------------
(***************************************************************************)
(* Proofs about Generations, for every set of manifests, every layout of   *)
(* their profiles, all faults and any number of publications and crashes.  *)
(***************************************************************************)
EXTENDS Generations, SequenceTheorems, TLAPS

(* The tuples the actions' UNCHANGED clauses are made of.                  *)
USE DEF tree, served, applier, bucket

-----------------------------------------------------------------------------
(* Type correctness.                                                       *)

\* The states of one run of Store.read.
ReadType ==
    [at : {"idle", "list", "files", "store", "failed", "done"},
     dir : {"image", "live"}, todo : SUBSET Names,
     got : [Names -> Origins], fp : Prints]

\* Where the applier is determines what it has in hand: a manifest, a tree in
\* the place its next step reads, a tree to go back to, a read of its own.
Control ==
    /\ step \in {"loading", "reloading"} \/ rd["apply"] = Idle
    /\ step \notin {"idle", "down"} => man \in Gens
    /\ step = "down" => crashes # 0
    /\ step \in {"promote", "load", "loading", "remove", "restore"} =>
          (lived <=> disk["prev"] # None)
    /\ step \in {"park", "promote"} => disk["next"] # None
    /\ step \in {"load", "loading", "remove"} => disk["live"] # None

Basic == TypeOK /\ Control

\* TypeOK in parts: the store, the applier, its report and the bucket.
StoreTyped ==
    /\ disk \in [{"next", "live", "prev"} -> Trees]
    /\ cur \in [from : [Names -> Origins], fp : Prints]
    /\ rd \in [Readers -> ReadType]
    /\ stamp \in Nat
    /\ dir \in {"image", "live"} /\ back \in {"image", "live"}

StepTyped ==
    /\ step \in {"idle", "stage", "park", "promote", "load", "loading", "remove",
                 "restore", "reload", "reloading", "down"}
    /\ man \in Gens \cup {None} /\ lived \in BOOLEAN
    /\ fault \in BOOLEAN /\ lost \in BOOLEAN

ReportTyped ==
    /\ applied \in [gen : Gens \cup {None}, apply : {"", "ok", "apply_failed"}]
    /\ level \in {StartLevel} \cup {LevelOf[g] : g \in Gens} /\ level # None

BucketTyped ==
    /\ updates \in Seq(Gens \cup {None}) /\ latest \in Gens \cup {None}
    /\ watching \in BOOLEAN
    /\ published \in Nat /\ crashes \in Nat /\ rejected \subseteq Gens

Typed == StoreTyped /\ StepTyped /\ ReportTyped /\ BucketTyped

\* The type invariant, in the parts the provers can take one at a time.
LEMMA TypeParts ==
    /\ Basic <=> Typed /\ Control
    /\ Basic' <=> Typed' /\ Control'
<1>1. Basic <=> Typed /\ Control
  BY Zenon DEF Basic, TypeOK, Control, Typed, StoreTyped, StepTyped, ReportTyped,
               BucketTyped, ReadType
<1>2. Basic' <=> Typed' /\ Control'
  BY Zenon DEF Basic, TypeOK, Control, Typed, StoreTyped, StepTyped, ReportTyped,
               BucketTyped, ReadType
<1> QED
  BY <1>1, <1>2

\* A part whose variables a step leaves alone.
LEMMA PartsStill ==
    /\ Typed /\ UNCHANGED <<step, man, lived, fault, lost>> => StepTyped'
    /\ Typed /\ UNCHANGED <<applied, level>> => ReportTyped'
    /\ Typed /\ UNCHANGED <<bucket, crashes, rejected>> => BucketTyped'
<1>1. Typed /\ UNCHANGED <<step, man, lived, fault, lost>> => StepTyped'
  BY DEF Typed, StepTyped
<1>2. Typed /\ UNCHANGED <<applied, level>> => ReportTyped'
  BY DEF Typed, ReportTyped
<1>3. Typed /\ UNCHANGED <<bucket, crashes, rejected>> => BucketTyped'
  BY DEF Typed, BucketTyped
<1> QED
  BY <1>1, <1>2, <1>3

\* The profiles every generation may have; _probe and default are among them.
LEMMA NamesFacts ==
    /\ Names \subseteq Nat /\ Probe \in Names /\ Default \in Names
    /\ \A g \in Gens \cup {Image} : Has[g] \subseteq Names
  BY GenAssumption DEF Names, Probe, Default

\* A run of read that has not begun has the type of one.
LEMMA IdleType ==
    /\ Idle \in ReadType
    /\ \A l \in {"idle", "list", "failed", "done"} :
          /\ [Idle EXCEPT !.at = l] \in ReadType
          /\ [Idle EXCEPT !.at = l].at = l
  BY DEF Idle, ReadType, NoFiles, Origins, Prints

\* What a tree holds when it is there.
LEMMA TreeFacts ==
    ASSUME NEW t \in Trees, t # None
    PROVE  /\ t \in [gen : Gens, stamp : Nat, files : SUBSET Names]
           /\ t.gen \in Gens /\ t.stamp \in Nat /\ t.files \subseteq Names
           /\ t.gen # None /\ t.gen # Image
  BY GenAssumption DEF Trees

\* ... and what either directory of the store holds.
LEMMA TreeAtFacts ==
    ASSUME Basic, NEW d \in {"image", "live"}, TreeAt(d) # None
    PROVE  /\ TreeAt(d).gen \in Origins \ {None} /\ TreeAt(d).files \subseteq Names
           /\ TreeAt(d).stamp \in Nat
           /\ Fingerprint(TreeAt(d)) \in Prints
<1>1. CASE d = "image"
  BY <1>1, GenAssumption, NamesFacts DEF TreeAt, ImageTree, Fingerprint, Prints, Origins
<1>2. CASE d = "live"
  <2>1. TreeAt(d) = disk["live"] /\ disk["live"] \in Trees
    BY <1>2 DEF TreeAt, Basic, TypeOK
  <2> QED
    BY <2>1, TreeFacts DEF Fingerprint, Prints, Origins
<1> QED
  BY <1>1, <1>2

\* A tree written from a manifest is a tree, and there.
LEMMA WholeFacts ==
    ASSUME NEW g \in Gens, NEW s \in Nat
    PROVE  /\ Whole(g, s) \in Trees /\ Whole(g, s) # None
           /\ Whole(g, s).gen = g /\ Whole(g, s).stamp = s /\ Whole(g, s).files = Has[g]
<1>1. Whole(g, s) \in [gen : Gens, stamp : Nat, files : SUBSET Names]
  BY NamesFacts DEF Whole
<1>2. Whole(g, s) \in [gen : Gens, stamp : Nat, files : SUBSET Nat]
  BY GenAssumption DEF Whole
<1> QED
  BY <1>1, <1>2, GenAssumption DEF Trees, Whole

\* Reading an undisturbed tree gives a snapshot.
LEMMA SnapshotType ==
    ASSUME Basic, NEW d \in {"image", "live"}, TreeAt(d) # None
    PROVE  Snapshot(TreeAt(d), d) \in [from : [Names -> Origins], fp : Prints]
<1>1. Contents(TreeAt(d)) \in [Names -> Origins]
  BY TreeAtFacts DEF Contents, Origins
<1>2. WithProbe(Contents(TreeAt(d)), d) \in [Names -> Origins]
  BY <1>1, NamesFacts DEF WithProbe, Origins
<1> QED
  BY <1>2, TreeAtFacts DEF Snapshot

\* The image is always there.
LEMMA ImageThere == ImageTree # None
<1>1. ImageTree \in [gen : Gens \cup {Image}, stamp : Nat, files : SUBSET Nat]
  BY GenAssumption DEF ImageTree
<1> QED
  BY <1>1, GenAssumption

\* The image's snapshot, before anything else is known.
LEMMA ImageSnapshot ==
    Snapshot(ImageTree, "image") \in [from : [Names -> Origins], fp : Prints]
  BY GenAssumption, NamesFacts
     DEF Snapshot, ImageTree, Contents, WithProbe, Fingerprint, Origins, Prints

\* A start: no manifest has been applied, the store has read the image's tree.
LEMMA BasicInit == Init => Basic
<1> SUFFICES ASSUME Init PROVE Basic
  OBVIOUS
<1>1. rd \in [Readers -> ReadType] /\ rd["apply"] = Idle
  BY IdleType DEF Init, Readers
<1>2. disk \in [{"next", "live", "prev"} -> Trees]
  BY DEF Init, Trees
<1>3. cur \in [from : [Names -> Origins], fp : Prints]
  BY ImageSnapshot DEF Init
<1>4. applied \in [gen : Gens \cup {None}, apply : {"", "ok", "apply_failed"}]
  BY DEF Init
<1>5. level \in {StartLevel} \cup {LevelOf[g] : g \in Gens} /\ level # None
  BY GenAssumption DEF Init
<1>7. StoreTyped
  BY <1>1, <1>2, <1>3 DEF Init, StoreTyped
<1>8. StepTyped /\ ReportTyped
  BY <1>4, <1>5 DEF Init, StepTyped, ReportTyped
<1>9. BucketTyped
  <2>1. updates \in Seq(Gens \cup {None})
    BY EmptySeq DEF Init
  <2> QED
    BY <2>1 DEF Init, BucketTyped
<1>6. Control
  BY <1>1 DEF Init, Control
<1> QED
  BY <1>6, <1>7, <1>8, <1>9, TypeParts DEF Typed

-----------------------------------------------------------------------------
(* The steps of read.                                                      *)

\* What a step of read may leave behind.
LEMMA ReadBasic ==
    ASSUME Basic, NEW r \in Readers,
           UNCHANGED <<tree, dir, applier, bucket, crashes, rejected>>,
           cur' \in [from : [Names -> Origins], fp : Prints],
           rd[r].at # "idle",
           NEW s \in ReadType, s.at # "idle" \/ r # "apply",
           rd' = [rd EXCEPT ![r] = s]
    PROVE  Basic'
<1>1. rd' \in [Readers -> ReadType]
  BY DEF Basic, TypeOK, ReadType
<1>2. step \in {"loading", "reloading"} \/ r # "apply"
  BY DEF Basic, Control, Idle
<1>3. step \in {"loading", "reloading"} \/ rd'["apply"] = Idle
  BY <1>2 DEF Basic, Control, TypeOK, Readers
<1>4. Control'
  BY <1>3 DEF Basic, Control
<1>5. Typed'
  <2>1. Typed
    BY TypeParts
  <2>2. StoreTyped'
    BY <1>1, <2>1 DEF Typed, StoreTyped
  <2> QED
    BY <2>1, <2>2, PartsStill DEF Typed
<1> QED
  BY <1>4, <1>5, TypeParts

\* A read that ends in an error.
LEMMA GiveUpBasic ==
    ASSUME Basic, NEW r \in Readers, rd[r].at # "idle", GiveUp(r),
           UNCHANGED <<tree, served, applier, bucket, crashes, rejected>>
    PROVE  Basic'
<1> DEFINE s == [Idle EXCEPT !.at = IF r = "apply" THEN "failed" ELSE "idle"]
<1>1. s \in ReadType /\ (s.at # "idle" \/ r # "apply")
  BY IdleType
<1>2. rd' = [rd EXCEPT ![r] = s]
  BY DEF GiveUp
<1>3. cur' \in [from : [Names -> Origins], fp : Prints]
  BY DEF Basic, TypeOK
<1> HIDE DEF s
<1> QED
  BY <1>1, <1>2, <1>3, ReadBasic

\* The process ends, by a crash or by a panic of Validate.
LEMMA DownBasic == ASSUME Basic, Down PROVE Basic'
<1>1. Typed /\ Control
  BY TypeParts
<1>2. rd' \in [Readers -> ReadType] /\ rd'["apply"] = Idle
  BY IdleType DEF Down, Readers
<1>3. StoreTyped'
  BY <1>1, <1>2 DEF Typed, StoreTyped, Down
<1>4. StepTyped'
  BY <1>1 DEF Typed, StepTyped, Down
<1>5. BucketTyped' /\ crashes' # 0
  <2>1. updates' \in Seq(Gens \cup {None})
    BY EmptySeq DEF Down
  <2> QED
    BY <1>1, <2>1 DEF Typed, BucketTyped, Down
<1>6. Control'
  BY <1>2, <1>5 DEF Control, Down
<1> QED
  BY <1>1, <1>3, <1>4, <1>5, <1>6, PartsStill, TypeParts DEF Typed, Down

\* The steps of Store.read: list, one file after the other, the fingerprint, the
\* exchange of the snapshot.
LEMMA ReadsBasic == ASSUME Basic, NEW r \in Readers, Read(r) PROVE Basic'
<1>0. rd \in [Readers -> ReadType] /\ rd[r] \in ReadType
  BY DEF Basic, TypeOK, ReadType
<1>1. CASE List(r)
  <2>1. rd[r].at # "idle" /\ UNCHANGED <<tree, served, applier, bucket, crashes, rejected>>
    BY <1>1 DEF List
  <2>2. CASE GiveUp(r)
    BY <2>1, <2>2, GiveUpBasic
  <2>3. CASE ~GiveUp(r)
    <3> DEFINE s == [rd[r] EXCEPT !.at = "files", !.dir = dir, !.todo = TreeAt(dir).files]
    <3>1. TreeAt(dir) # None /\ rd' = [rd EXCEPT ![r] = s]
      BY <1>0, <1>1, <2>3 DEF List
    <3>2. dir \in {"image", "live"} /\ cur' \in [from : [Names -> Origins], fp : Prints]
      BY <2>1 DEF Basic, TypeOK
    <3>3. TreeAt(dir).files \subseteq Names
      BY <3>1, <3>2, TreeAtFacts
    <3>4. s \in ReadType /\ s.at # "idle"
      BY <1>0, <3>2, <3>3 DEF ReadType
    <3> HIDE DEF s
    <3> QED
      BY <2>1, <3>1, <3>2, <3>4, ReadBasic
  <2> QED
    BY <2>2, <2>3
<1>2. CASE ReadFile(r)
  <2>1. rd[r].at # "idle" /\ UNCHANGED <<tree, served, applier, bucket, crashes, rejected>>
    BY <1>2 DEF ReadFile
  <2>2. CASE GiveUp(r)
    BY <2>1, <2>2, GiveUpBasic
  <2>3. CASE ~GiveUp(r)
    <3> DEFINE t == TreeAt(rd[r].dir)
               found(n) == t # None /\ n \in t.files
               s(n) == [rd[r] EXCEPT !.todo = @ \ {n},
                          !.got = IF found(n) THEN [@ EXCEPT ![n] = t.gen] ELSE @]
    <3>1. PICK n \in rd[r].todo : rd' = [rd EXCEPT ![r] = s(n)]
      BY <1>2, <2>3 DEF ReadFile
    <3>2. cur' \in [from : [Names -> Origins], fp : Prints]
      BY <2>1 DEF Basic, TypeOK
    <3>3. found(n) => t.gen \in Origins
      BY <1>0, TreeAtFacts DEF ReadType
    <3> HIDE DEF t
    <3>4. s(n) \in ReadType /\ s(n).at # "idle"
      BY <1>0, <2>1, <3>3 DEF ReadType
    <3> HIDE DEF s
    <3> QED
      BY <2>1, <3>1, <3>2, <3>4, ReadBasic
  <2> QED
    BY <2>2, <2>3
<1>3. CASE TakePrint(r)
  <2>1. rd[r].at # "idle" /\ UNCHANGED <<tree, served, applier, bucket, crashes, rejected>>
    BY <1>3 DEF TakePrint
  <2>2. CASE GiveUp(r)
    BY <2>1, <2>2, GiveUpBasic
  <2>3. CASE ~GiveUp(r)
    <3> DEFINE t == TreeAt(rd[r].dir)
               s == [rd[r] EXCEPT !.at = "store", !.got = WithProbe(@, rd[r].dir),
                                  !.fp = Fingerprint(t)]
    <3>1. rd' = [rd EXCEPT ![r] = s] /\ t # None
      BY <1>3, <2>3 DEF TakePrint
    <3>2. cur' \in [from : [Names -> Origins], fp : Prints]
      BY <2>1 DEF Basic, TypeOK
    <3>3. Fingerprint(t) \in Prints
      BY <1>0, <3>1, TreeAtFacts DEF ReadType
    <3>4. WithProbe(rd[r].got, rd[r].dir) \in [Names -> Origins]
      BY <1>0 DEF ReadType, WithProbe, Origins
    <3> HIDE DEF t
    <3>5. s \in ReadType /\ s.at # "idle"
      BY <1>0, <3>3, <3>4 DEF ReadType
    <3> HIDE DEF s
    <3> QED
      BY <2>1, <3>1, <3>2, <3>5, ReadBasic
  <2> QED
    BY <2>2, <2>3
<1>4. CASE Publish(r)
  <2> DEFINE s == [Idle EXCEPT !.at = IF r = "apply" THEN "done" ELSE "idle"]
  <2>1. s \in ReadType /\ (s.at # "idle" \/ r # "apply")
    BY IdleType
  <2>2. rd' = [rd EXCEPT ![r] = s] /\ rd[r].at # "idle"
    BY <1>4 DEF Publish
  <2>3. cur' \in [from : [Names -> Origins], fp : Prints]
    BY <1>0, <1>4 DEF Publish, ReadType
  <2>4. UNCHANGED <<tree, dir, applier, bucket, crashes, rejected>>
    BY <1>4 DEF Publish
  <2> HIDE DEF s
  <2> QED
    BY <2>1, <2>2, <2>3, <2>4, ReadBasic
<1>5. CASE Panic(r)
  BY <1>5, DownBasic DEF Panic
<1> QED
  BY <1>1, <1>2, <1>3, <1>4, <1>5 DEF Read

\* A tick of the reloader.
LEMMA ReloadTickBasic == ASSUME Basic, ReloadTick PROVE Basic'
<1> DEFINE s == [Idle EXCEPT !.at = "list"]
<1>1. s \in ReadType
  BY IdleType
<1>2. rd' = [rd EXCEPT !["reload"] = s]
  BY DEF ReloadTick, Begin
<1> HIDE DEF s
<1>3. rd' \in [Readers -> ReadType] /\ rd'["apply"] = rd["apply"]
  BY <1>1, <1>2 DEF Basic, TypeOK, ReadType, Readers
<1>4. Control'
  BY <1>3 DEF Basic, Control, ReloadTick
<1>5. Typed'
  <2>1. Typed
    BY TypeParts
  <2>2. StoreTyped'
    BY <1>3, <2>1 DEF Typed, StoreTyped, ReloadTick
  <2> QED
    BY <2>1, <2>2, PartsStill DEF Typed, ReloadTick
<1> QED
  BY <1>4, <1>5, TypeParts

-----------------------------------------------------------------------------
(* The bucket and the applier.                                             *)

\* A step that leaves the reads and the served snapshot alone.
LEMMA StoreStill ==
    ASSUME Typed, UNCHANGED <<rd, cur, dir, back>>, stamp' \in Nat,
           disk' \in [{"next", "live", "prev"} -> Trees]
    PROVE  StoreTyped'
  BY DEF Typed, StoreTyped

\* The bucket: a manifest is put, or deleted.
LEMMA BucketBasic ==
    ASSUME Basic, NEW g \in Gens \cup {None}, Offer(g) PROVE Basic'
<1>1. /\ published' = published + 1 /\ latest' = g
      /\ updates' = Append(updates, g) \/ updates' = updates
      /\ UNCHANGED <<tree, served, rd, applier, watching, crashes, rejected>>
  BY DEF Offer
<1>2. Typed /\ Control
  BY TypeParts
<1>3. Append(updates, g) \in Seq(Gens \cup {None})
  BY <1>2, AppendProperties DEF Typed, BucketTyped
<1>4. BucketTyped'
  BY <1>1, <1>2, <1>3 DEF Typed, BucketTyped
<1>5. StoreTyped'
  BY <1>1, <1>2 DEF Typed, StoreTyped
<1>6. Control'
  BY <1>1, <1>2 DEF Control
<1> QED
  BY <1>1, <1>2, <1>4, <1>5, <1>6, PartsStill, TypeParts DEF Typed

\* An update reaches Watch.
LEMMA ReceiveBasic == ASSUME Basic, Receive PROVE Basic'
<1>1. Typed /\ Control
  BY TypeParts
<1>2. Tail(updates) \in Seq(Gens \cup {None}) /\ Head(updates) \in Gens \cup {None}
  BY <1>1, HeadTailProperties DEF Typed, BucketTyped, Receive
<1>3. BucketTyped'
  BY <1>1, <1>2 DEF Typed, BucketTyped, Receive
<1>4. StoreTyped'
  BY <1>1 DEF Typed, StoreTyped, Receive
<1>5. ReportTyped'
  BY <1>1, PartsStill DEF Receive
<1>6. \/ UNCHANGED <<step, man, fault>>
      \/ step' = "stage" /\ man' \in Gens /\ fault' = FALSE
  BY <1>2 DEF Receive
<1>7. StepTyped'
  BY <1>1, <1>6 DEF Typed, StepTyped, Receive
<1>8. Control'
  BY <1>1, <1>6 DEF Control, Receive
<1> QED
  BY <1>1, <1>3, <1>4, <1>5, <1>7, <1>8, TypeParts DEF Typed

\* A step of the applier that reads nothing itself.
LEMMA ApplierBasic ==
    ASSUME Basic, step \notin {"idle", "loading", "reloading", "down"},
           UNCHANGED <<served, rd, man, back, bucket, crashes, rejected>>,
           stamp' \in Nat, disk' \in [{"next", "live", "prev"} -> Trees],
           lived' \in BOOLEAN, lost' \in BOOLEAN,
           \/ /\ step' \in {"park", "promote", "load", "remove", "restore", "reload"}
              /\ UNCHANGED <<applied, level, fault>>
              /\ step' \in {"park", "promote"} => disk'["next"] # None
              /\ step' \in {"load", "remove"} => disk'["live"] # None
              /\ step' \in {"promote", "load", "remove", "restore"} =>
                    (lived' <=> disk'["prev"] # None)
           \/ Failed /\ fault' \in BOOLEAN
    PROVE  Basic'
<1>1. Typed /\ Control
  BY TypeParts
<1>2. StoreTyped'
  BY <1>1, StoreStill
<1>3. BucketTyped'
  BY <1>1, PartsStill
<1>4. StepTyped'
  BY <1>1 DEF Typed, StepTyped, Failed
<1>5. ReportTyped'
  <2>1. CASE UNCHANGED <<applied, level>>
    BY <1>1, <2>1, PartsStill
  <2>2. CASE Failed
    BY <1>1, <2>2 DEF Typed, ReportTyped, Failed
  <2> QED
    BY <2>1, <2>2
<1>6. Control'
  BY <1>1 DEF Control, Failed
<1> QED
  BY <1>1, <1>2, <1>3, <1>4, <1>5, <1>6, TypeParts DEF Typed

\* The tree is written under next.
LEMMA StageBasic == ASSUME Basic, Stage PROVE Basic'
<1>1. /\ disk \in [{"next", "live", "prev"} -> Trees] /\ stamp \in Nat /\ man \in Gens
      /\ lived \in BOOLEAN /\ lost \in BOOLEAN /\ None \in Trees
  BY TypeParts DEF Typed, StoreTyped, StepTyped, Control, Stage, Trees
<1>2. Whole(man, stamp + 1) \in Trees \ {None}
  BY <1>1, WholeFacts
<1>3. disk' \in [{"next", "live", "prev"} -> Trees] /\ stamp' \in Nat
  BY <1>1, <1>2 DEF Stage
<1>4. \/ step' = "park" /\ UNCHANGED <<applied, level, fault>> /\ disk'["next"] # None
      \/ Failed /\ fault' \in BOOLEAN
  BY <1>1, <1>2 DEF Stage, Proceed, Broken
<1> QED
  BY <1>1, <1>3, <1>4, ApplierBasic DEF Stage

\* What the other steps of the applier find.
LEMMA ApplierFacts ==
    ASSUME Basic
    PROVE  /\ disk \in [{"next", "live", "prev"} -> Trees] /\ stamp \in Nat
           /\ lived \in BOOLEAN /\ fault \in BOOLEAN /\ lost \in BOOLEAN
           /\ None \in Trees
           /\ step \notin {"idle", "down"} => man \in Gens
           /\ step \in {"promote", "load", "loading", "remove", "restore"} =>
                 (lived <=> disk["prev"] # None)
           /\ step \in {"park", "promote"} => disk["next"] # None
           /\ step \in {"load", "loading", "remove"} => disk["live"] # None
           /\ rd \in [Readers -> ReadType] /\ dir \in {"image", "live"}
           /\ cur \in [from : [Names -> Origins], fp : Prints]
           /\ back \in {"image", "live"}
  BY TypeParts DEF Typed, StoreTyped, StepTyped, Control, Trees

\* The live tree is renamed to prev.
LEMMA ParkBasic == ASSUME Basic, Park PROVE Basic'
<1>1. disk' \in [{"next", "live", "prev"} -> Trees] /\ lived' \in BOOLEAN
  BY ApplierFacts DEF Park
<1>2. \/ /\ step' = "promote" /\ UNCHANGED <<applied, level, fault>>
         /\ disk'["next"] # None /\ (lived' <=> disk'["prev"] # None)
      \/ Failed /\ fault' \in BOOLEAN
  BY ApplierFacts DEF Park, Proceed, Broken
<1> QED
  BY <1>1, <1>2, ApplierFacts, ApplierBasic DEF Park

\* The next tree is renamed to live.
LEMMA PromoteBasic == ASSUME Basic, Promote PROVE Basic'
<1>1. disk' \in [{"next", "live", "prev"} -> Trees]
  BY ApplierFacts DEF Promote
<1>2. \/ /\ step' = "load" /\ UNCHANGED <<applied, level, fault>>
         /\ disk'["live"] # None /\ (lived <=> disk'["prev"] # None)
      \/ Failed /\ fault' \in BOOLEAN
  BY ApplierFacts DEF Promote, Proceed, Broken
<1> QED
  BY <1>1, <1>2, ApplierFacts, ApplierBasic DEF Promote

\* The refused tree is removed.
LEMMA RemoveBasic == ASSUME Basic, Remove PROVE Basic'
<1> DEFINE t == disk["live"]
<1>1. t \in Trees /\ t # None
  BY ApplierFacts DEF Remove
<1>2. t \in [gen : Gens, stamp : Nat, files : SUBSET Names]
  BY <1>1, TreeFacts
<1>3. CASE \E n \in t.files : disk' = [disk EXCEPT !["live"].files = @ \ {n}]
  <2>1. PICK n \in t.files : disk' = [disk EXCEPT !["live"] = [t EXCEPT !.files = @ \ {n}]]
    BY <1>3, ApplierFacts
  <2>2. [t EXCEPT !.files = @ \ {n}] \in [gen : Gens, stamp : Nat, files : SUBSET Names]
    BY <1>2
  <2>3. [t EXCEPT !.files = @ \ {n}] # None
    <3>1. [t EXCEPT !.files = @ \ {n}] \in [gen : Gens \cup {Image}, stamp : Nat, files : SUBSET Nat]
      BY <2>2, NamesFacts
    <3> QED
      BY <3>1, GenAssumption
  <2> HIDE DEF t
  <2>4. /\ disk' \in [{"next", "live", "prev"} -> Trees] /\ disk'["live"] # None
        /\ disk'["prev"] = disk["prev"]
    BY <2>1, <2>2, <2>3, ApplierFacts DEF Trees
  <2>5. step' \in {"remove", "restore"}
    BY DEF Remove
  <2> QED
    BY <2>4, <2>5, ApplierFacts, ApplierBasic DEF Remove
<1>4. CASE disk' = [disk EXCEPT !["live"] = None] /\ step' = "restore"
  <2>1. disk' \in [{"next", "live", "prev"} -> Trees] /\ disk'["prev"] = disk["prev"]
    BY <1>4, ApplierFacts
  <2> QED
    BY <1>4, <2>1, ApplierFacts, ApplierBasic DEF Remove
<1> QED
  BY <1>3, <1>4 DEF Remove

\* prev is renamed back.
LEMMA RestoreBasic == ASSUME Basic, Restore PROVE Basic'
<1>1. disk' \in [{"next", "live", "prev"} -> Trees]
  BY ApplierFacts DEF Restore
<1>2. \/ step' = "reload" /\ UNCHANGED <<applied, level, fault>>
      \/ Failed /\ fault' \in BOOLEAN
  BY ApplierFacts DEF Restore, Proceed
<1> QED
  BY <1>1, <1>2, ApplierFacts, ApplierBasic DEF Restore

\* SetDir: the store is pointed at the live tree and a read begins.
LEMMA SetDirBasic == ASSUME Basic, SetDir PROVE Basic'
<1>1. Typed /\ Control
  BY TypeParts
<1>2. rd' \in [Readers -> ReadType]
  <2> DEFINE s == [Idle EXCEPT !.at = "list"]
  <2>1. s \in ReadType /\ rd' = [rd EXCEPT !["apply"] = s]
    BY IdleType DEF SetDir, Begin
  <2> HIDE DEF s
  <2> QED
    BY <2>1, ApplierFacts
<1>3. StoreTyped'
  BY <1>1, <1>2 DEF Typed, StoreTyped, SetDir
<1>4. StepTyped'
  BY <1>1 DEF Typed, StepTyped, SetDir
<1>5. Control'
  BY <1>1 DEF Control, SetDir
<1> QED
  BY <1>1, <1>3, <1>4, <1>5, PartsStill, TypeParts DEF Typed, SetDir

\* The end of a read of the applier's own.
LEMMA ReadEndsType ==
    ASSUME Basic, ReadEnds PROVE rd' \in [Readers -> ReadType] /\ rd'["apply"] = Idle
  BY IdleType, ApplierFacts DEF ReadEnds, Readers

\* The read succeeded: the generation is in effect and reported.
LEMMA AcceptBasic == ASSUME Basic, Accept PROVE Basic'
<1>1. Typed /\ Control
  BY TypeParts
<1>2. rd' \in [Readers -> ReadType] /\ rd'["apply"] = Idle
  BY ReadEndsType DEF Accept
<1>3. disk' \in [{"next", "live", "prev"} -> Trees]
  BY ApplierFacts DEF Accept
<1>4. StoreTyped'
  BY <1>1, <1>2, <1>3 DEF Typed, StoreTyped, Accept
<1>5. StepTyped'
  BY <1>1 DEF Typed, StepTyped, Accept
<1>6. ReportTyped'
  BY <1>1, ApplierFacts DEF Typed, ReportTyped, Accept, Settings
<1>7. Control'
  BY <1>2 DEF Control, Accept
<1> QED
  BY <1>1, <1>4, <1>5, <1>6, <1>7, PartsStill, TypeParts DEF Typed, Accept

\* The read failed: the rollback begins.
LEMMA RefuseBasic == ASSUME Basic, Refuse PROVE Basic'
<1>1. Typed /\ Control
  BY TypeParts
<1>2. rd' \in [Readers -> ReadType] /\ rd'["apply"] = Idle
  BY ReadEndsType DEF Refuse
<1>3. StoreTyped'
  BY <1>1, <1>2 DEF Typed, StoreTyped, Refuse
<1>4. StepTyped'
  BY <1>1 DEF Typed, StepTyped, Refuse
<1>5. BucketTyped'
  BY <1>1, ApplierFacts DEF Typed, BucketTyped, Refuse
<1>6. Control'
  BY <1>1, <1>2 DEF Control, Refuse
<1> QED
  BY <1>1, <1>3, <1>4, <1>5, <1>6, PartsStill, TypeParts DEF Typed, Refuse

\* The read of the restored tree has ended, well or not.
LEMMA RolledBackBasic == ASSUME Basic, RolledBack PROVE Basic'
<1>1. Typed /\ Control
  BY TypeParts
<1>2. rd' \in [Readers -> ReadType] /\ rd'["apply"] = Idle
  BY ReadEndsType DEF RolledBack
<1>3. StoreTyped'
  BY <1>1, <1>2 DEF Typed, StoreTyped, RolledBack
<1>4. StepTyped'
  BY <1>1 DEF Typed, StepTyped, RolledBack, Failed
<1>5. ReportTyped'
  BY <1>1 DEF Typed, ReportTyped, RolledBack, Failed
<1>6. Control'
  BY <1>2 DEF Control, RolledBack, Failed
<1> QED
  BY <1>1, <1>3, <1>4, <1>5, <1>6, PartsStill, TypeParts DEF Typed, RolledBack

\* A start: only the disk has survived.
LEMMA StartBasic == ASSUME Basic, Start PROVE Basic'
<1>1. Typed /\ Control
  BY TypeParts
<1>2. rd' \in [Readers -> ReadType] /\ rd'["apply"] = Idle
  BY <1>1 DEF Typed, StoreTyped, Control, Start
<1>3. cur' \in [from : [Names -> Origins], fp : Prints]
  <2>1. Bootstraps => TreeAt("live") # None /\ TreeAt("live") = disk["live"]
    BY DEF Bootstraps, Stat, TreeAt
  <2>2. Bootstraps => Snapshot(disk["live"], "live") \in [from : [Names -> Origins], fp : Prints]
    BY <2>1, SnapshotType
  <2> QED
    BY <2>2, ImageSnapshot DEF Start
<1>4. StoreTyped'
  BY <1>1, <1>2, <1>3 DEF Typed, StoreTyped, Start
<1>5. StepTyped'
  BY <1>1 DEF Typed, StepTyped, Start
<1>6. ReportTyped'
  BY <1>1, GenAssumption DEF Typed, ReportTyped, Start
<1>7. BucketTyped'
  <2>1. latest \in Gens \cup {None}
    BY <1>1 DEF Typed, BucketTyped
  <2>2. <<>> \in Seq(Gens \cup {None}) /\ <<latest>> \in Seq(Gens \cup {None})
    BY <2>1, EmptySeq
  <2>3. updates' \in Seq(Gens \cup {None})
    BY <2>2 DEF Start, WatchBucket
  <2>4. watching' \in BOOLEAN /\ UNCHANGED <<latest, published, crashes, rejected>>
    BY DEF Start, WatchBucket
  <2> QED
    BY <1>1, <2>3, <2>4 DEF Typed, BucketTyped
<1>8. Control'
  BY <1>2 DEF Control, Start
<1> QED
  BY <1>4, <1>5, <1>6, <1>7, <1>8, TypeParts DEF Typed

\* Every step keeps types and control.
LEMMA BasicStep == ASSUME Basic, [Next]_vars PROVE Basic'
<1>1. CASE UNCHANGED vars
  <2>1. Typed /\ Control
    BY TypeParts
  <2>2. StoreTyped'
    BY <1>1, <2>1 DEF Typed, StoreTyped, vars
  <2>3. Control'
    BY <1>1, <2>1 DEF Control, vars
  <2> QED
    BY <1>1, <2>1, <2>2, <2>3, PartsStill, TypeParts DEF Typed, vars
<1>2. CASE Next
  BY <1>2, ReadsBasic, ReloadTickBasic, BucketBasic, ReceiveBasic, StageBasic,
     ParkBasic, PromoteBasic, SetDirBasic, AcceptBasic, RefuseBasic, RemoveBasic,
     RestoreBasic, RolledBackBasic, DownBasic, StartBasic
     DEF Next, ApplyStep, Crash
<1> QED
  BY <1>1, <1>2

\* The variables keep their types, and as long as Apply may have to go back to
\* the tree it has replaced, that tree is there under .prev, also when the
\* reloader runs, file system calls fail and the process crashes (desired.go
\* Apply).
THEOREM GenerationsTyped == Spec => []TypeOK
<1>1. Basic => TypeOK
  BY DEF Basic
<1> QED
  BY BasicInit, BasicStep, <1>1, PTL DEF Spec

-----------------------------------------------------------------------------
(* What is served has been validated.  A read may see trees of different   *)
(* generations, one after the other, so the invariant speaks of every      *)
(* single file it has got; the image's tree alone never changes, and that  *)
(* is why a read of it ends with _probe.                                   *)

Sound(got) == \A n \in Names : got[n] # None => Validates(got[n], n)

Complete(got) == got[Default] # None /\ got[Probe] # None

Examined(s) ==
    /\ Sound(s.got)
    /\ s.at = "files" /\ s.dir = "image" => Probe \in s.todo \/ s.got[Probe] # None
    /\ s.at = "store" => Complete(s.got)

ValidInv ==
    /\ Basic /\ ServedIsValid
    /\ \A r \in Readers : Examined(rd[r])

\* ServedIsValid in these terms.
LEMMA ServedParts ==
    /\ ServedIsValid <=> Sound(cur.from) /\ Complete(cur.from)
    /\ ServedIsValid' <=> Sound(cur'.from) /\ Complete(cur'.from)
  BY DEF ServedIsValid, Sound, Complete

\* The image's profiles are always valid: Bad is about manifests.
LEMMA ImageValid == \A n : Validates(Image, n)
  BY GenAssumption DEF Validates

\* A read that has got nothing yet.
LEMMA IdleExamined ==
    ASSUME NEW l \in {"idle", "list", "failed", "done"}
    PROVE  Examined([Idle EXCEPT !.at = l]) /\ Examined(Idle)
  BY DEF Idle, Examined, Sound, NoFiles

\* Reading a whole tree at once, as a start does.
LEMMA SnapshotValid ==
    ASSUME Basic, NEW d \in {"image", "live"}, TreeAt(d) # None,
           d = "live" => Usable(TreeAt(d))
    PROVE  Sound(Snapshot(TreeAt(d), d).from) /\ Complete(Snapshot(TreeAt(d), d).from)
<1> DEFINE t == TreeAt(d)
           c == Contents(t)
           f == WithProbe(c, d)
<1>1. Snapshot(t, d).from = f
  BY DEF Snapshot
<1>2. \A n \in Names : c[n] = IF n \in t.files THEN t.gen ELSE None
  BY DEF Contents
<1>3. t.gen # None /\ c \in [Names -> Origins]
  BY TreeAtFacts DEF Contents, Origins
<1>4. /\ \A n \in t.files : Validates(t.gen, n)
      /\ Default \in t.files /\ (d = "image" => Probe \in t.files)
  BY ImageValid, GenAssumption DEF TreeAt, ImageTree, Usable
<1>5. Sound(c) /\ c[Default] # None /\ (d = "image" => c[Probe] # None)
  BY <1>2, <1>3, <1>4, NamesFacts DEF Sound
<1> HIDE DEF c
<1>6. Sound(f) /\ Complete(f)
  BY <1>3, <1>5, ImageValid, NamesFacts, GenAssumption
     DEF Sound, Complete, WithProbe, Probe, Default
<1> QED
  BY <1>1, <1>6

\* A start serves a valid tree.
LEMMA ValidInit == Init => ValidInv
<1> SUFFICES ASSUME Init PROVE ValidInv
  OBVIOUS
<1>1. Basic
  BY BasicInit
<1>2. TreeAt("image") = ImageTree
  BY DEF TreeAt
<1>3. Sound(cur.from) /\ Complete(cur.from)
  BY <1>1, <1>2, ImageThere, SnapshotValid DEF Init
<1>4. \A r \in Readers : Examined(rd[r])
  BY IdleExamined DEF Init
<1> QED
  BY <1>1, <1>3, <1>4, ServedParts DEF ValidInv

\* A read publishes only what it has examined.
LEMMA ReadsValid ==
    ASSUME ValidInv, NEW r \in Readers, Read(r), ~Panic(r) PROVE ValidInv'
<1>0. Basic /\ rd \in [Readers -> ReadType] /\ rd[r] \in ReadType /\ Basic'
  BY ReadsBasic, ApplierFacts DEF ValidInv
<1>1. \E s : Examined(s) /\ rd' = [rd EXCEPT ![r] = s]
  <2>0. Examined(rd[r])
    BY DEF ValidInv
  <2>1. CASE GiveUp(r)
    <3>1. Examined([Idle EXCEPT !.at = IF r = "apply" THEN "failed" ELSE "idle"])
      BY IdleExamined
    <3> QED
      BY <2>1, <3>1 DEF GiveUp
  <2>2. CASE List(r) /\ ~GiveUp(r)
    <3> DEFINE s == [rd[r] EXCEPT !.at = "files", !.dir = dir, !.todo = TreeAt(dir).files]
    <3>1. rd' = [rd EXCEPT ![r] = s]
      BY <2>2 DEF List
    <3>2. dir = "image" => Probe \in TreeAt(dir).files
      BY GenAssumption DEF TreeAt, ImageTree
    <3>3. Examined(s)
      BY <1>0, <2>0, <3>2 DEF Examined, ReadType
    <3> QED
      BY <3>1, <3>3
  <2>3. CASE ReadFile(r) /\ ~GiveUp(r)
    <3> DEFINE t == TreeAt(rd[r].dir)
               found(n) == t # None /\ n \in t.files
               s(n) == [rd[r] EXCEPT !.todo = @ \ {n},
                          !.got = IF found(n) THEN [@ EXCEPT ![n] = t.gen] ELSE @]
    <3>1. PICK n \in rd[r].todo :
            (found(n) => Validates(t.gen, n)) /\ rd' = [rd EXCEPT ![r] = s(n)]
      BY <2>3 DEF ReadFile
    <3>2. found(n) => t.gen # None
      BY <1>0, TreeAtFacts DEF ReadType
    <3>3. rd[r].dir = "image" /\ n = Probe => found(n)
      BY ImageThere, GenAssumption DEF TreeAt, ImageTree
    <3> HIDE DEF t
    <3>4. Sound(s(n).got)
      BY <1>0, <2>0, <3>1 DEF Examined, Sound, ReadType
    <3>5. s(n).at = rd[r].at /\ s(n).dir = rd[r].dir /\ s(n).todo = rd[r].todo \ {n}
      BY <1>0 DEF ReadType
    <3>6. rd[r].at = "files" /\ n \in Names
      BY <1>0, <2>3 DEF ReadFile, ReadType
    <3>7. s(n).got[Probe] # None \/ (s(n).got[Probe] = rd[r].got[Probe] /\ n # Probe)
             \/ (n = Probe /\ ~found(n))
      BY <1>0, <3>2, <3>6, NamesFacts DEF ReadType
    <3> HIDE DEF s, found
    <3>8. Examined(s(n))
      BY <2>0, <3>3, <3>4, <3>5, <3>6, <3>7 DEF Examined
    <3> QED
      BY <3>1, <3>8
  <2>4. CASE TakePrint(r) /\ ~GiveUp(r)
    <3> DEFINE t == TreeAt(rd[r].dir)
               g == WithProbe(rd[r].got, rd[r].dir)
               s == [rd[r] EXCEPT !.at = "store", !.got = WithProbe(@, rd[r].dir),
                                  !.fp = Fingerprint(t)]
    <3>1. /\ rd' = [rd EXCEPT ![r] = s] /\ rd[r].got[Default] # None
          /\ rd[r].at = "files" /\ rd[r].todo = {}
      BY <2>4 DEF TakePrint
    <3>2. s.at = "store" /\ s.got = g
      BY <1>0 DEF ReadType
    <3>3. Sound(rd[r].got) /\ (rd[r].dir = "image" => rd[r].got[Probe] # None)
      BY <2>0, <3>1 DEF Examined
    <3>4. Sound(g) /\ Complete(g)
      BY <1>0, <3>1, <3>3, ImageValid, NamesFacts, GenAssumption
         DEF Sound, Complete, WithProbe, Probe, Default, ReadType
    <3> HIDE DEF g, s
    <3>5. Examined(s)
      BY <3>2, <3>4 DEF Examined
    <3> QED
      BY <3>1, <3>5
  <2>5. CASE Publish(r)
    <3>1. Examined([Idle EXCEPT !.at = IF r = "apply" THEN "done" ELSE "idle"])
      BY IdleExamined
    <3> QED
      BY <2>5, <3>1 DEF Publish
  <2> QED
    BY <2>1, <2>2, <2>3, <2>4, <2>5 DEF Read
<1>2. \A q \in Readers : Examined(rd'[q])
  BY <1>0, <1>1 DEF ValidInv
<1>3. ServedIsValid'
  <2>1. CASE Publish(r)
    <3>1. Sound(rd[r].got) /\ Complete(rd[r].got)
      BY <2>1 DEF ValidInv, Examined, Publish
    <3>2. cur'.from = rd[r].got
      BY <2>1 DEF Publish
    <3> QED
      BY <3>1, <3>2, ServedParts
  <2>2. CASE ~Publish(r)
    <3>1. cur' = cur
      BY <2>2 DEF Read, List, ReadFile, TakePrint
    <3> QED
      BY <3>1, ServedParts DEF ValidInv
  <2> QED
    BY <2>1, <2>2
<1> QED
  BY <1>0, <1>2, <1>3 DEF ValidInv

\* The end of the process: nothing is read any more.
LEMMA DownValid == ASSUME ValidInv, Down PROVE ValidInv'
<1>1. Basic'
  BY DownBasic DEF ValidInv
<1>2. cur' = cur /\ \A r \in Readers : rd'[r] = Idle
  BY DEF Down
<1>3. \A r \in Readers : Examined(rd'[r])
  BY <1>2, IdleExamined
<1>4. ServedIsValid'
  BY <1>2, ServedParts DEF ValidInv
<1> QED
  BY <1>1, <1>3, <1>4 DEF ValidInv

\* Every step keeps ValidInv.
LEMMA ValidStep == ASSUME ValidInv, [Next]_vars PROVE ValidInv'
<1>0. Basic /\ Basic' /\ rd \in [Readers -> ReadType]
  BY BasicStep, ApplierFacts DEF ValidInv
<1>1. CASE \E r \in Readers : Read(r)
  BY <1>1, ReadsValid, DownValid DEF Panic
<1>5. CASE Crash
  BY <1>5, DownValid DEF Crash
<1>2. CASE Start
  <2>1. \A r \in Readers : Examined(rd'[r])
    BY <1>2 DEF Start, ValidInv
  <2>2. Bootstraps => /\ TreeAt("live") = disk["live"] /\ TreeAt("live") # None
                      /\ Usable(TreeAt("live"))
    BY DEF Bootstraps, Stat, TreeAt
  <2>3. Bootstraps => /\ Sound(Snapshot(disk["live"], "live").from)
                      /\ Complete(Snapshot(disk["live"], "live").from)
    BY <1>0, <2>2, SnapshotValid
  <2>4. TreeAt("image") = ImageTree
    BY DEF TreeAt
  <2>5. Sound(Snapshot(ImageTree, "image").from) /\ Complete(Snapshot(ImageTree, "image").from)
    BY <1>0, <2>4, ImageThere, SnapshotValid
  <2>6. cur' = IF Bootstraps THEN Snapshot(disk["live"], "live")
               ELSE Snapshot(ImageTree, "image")
    BY <1>2 DEF Start
  <2>7. ServedIsValid'
    BY <2>3, <2>5, <2>6, ServedParts
  <2> QED
    BY <1>0, <2>1, <2>7 DEF ValidInv
<1>3. CASE /\ cur' = cur
           /\ \/ rd' = rd
              \/ \E r \in Readers : rd' = [rd EXCEPT ![r] = [Idle EXCEPT !.at = "list"]]
              \/ rd' = [rd EXCEPT !["apply"] = Idle]
  <2>1. \A r \in Readers : Examined(rd'[r])
    BY <1>0, <1>3, IdleExamined DEF ValidInv, Readers
  <2>2. ServedIsValid'
    BY <1>3, ServedParts DEF ValidInv
  <2> QED
    BY <1>0, <2>1, <2>2 DEF ValidInv
<1>4. ASSUME \/ UNCHANGED vars \/ ReloadTick \/ (\E g \in Gens \cup {None} : Offer(g))
             \/ Receive \/ ApplyStep
      PROVE  /\ cur' = cur
             /\ \/ rd' = rd
                \/ \E r \in Readers : rd' = [rd EXCEPT ![r] = [Idle EXCEPT !.at = "list"]]
                \/ rd' = [rd EXCEPT !["apply"] = Idle]
  <2>1. CASE UNCHANGED vars
    BY <2>1 DEF vars
  <2>2. CASE ReloadTick \/ SetDir
    BY <2>2 DEF ReloadTick, SetDir, Begin, Readers
  <2>3. CASE (\E g \in Gens \cup {None} : Offer(g)) \/ Receive
    BY <2>3 DEF Offer, Receive
  <2>4. CASE Stage \/ Park \/ Promote \/ Remove \/ Restore
    BY <2>4 DEF Stage, Park, Promote, Remove, Restore
  <2>5. CASE Accept \/ Refuse \/ RolledBack
    BY <2>5 DEF Accept, Refuse, RolledBack, ReadEnds
  <2> QED
    BY <1>4, <2>1, <2>2, <2>3, <2>4, <2>5 DEF ApplyStep
<1> QED
  BY <1>1, <1>2, <1>3, <1>4, <1>5 DEF Next

\* The profiles served have passed validation, and default and _probe are
\* among them, whatever the applier and the reloader do to the tree while the
\* other reads it, whichever file system calls fail and wherever the process
\* crashes or panics (profiles.go read, readProfile).
THEOREM ServedValid == Spec => []ServedIsValid
<1>1. ValidInv => ServedIsValid
  BY DEF ValidInv
<1> QED
  BY ValidInit, ValidStep, <1>1, PTL DEF Spec

-----------------------------------------------------------------------------
(* What is reported is in effect.  This needs a rollout nobody disturbs:   *)
(* no reloader, which may publish a tree the applier has since removed.    *)
(* The invariant follows the tree of the generation reported through live, *)
(* .prev and live again, until a rename back fails.                        *)

Calm == ~Reloading

\* Nothing has been applied since the image was loaded.
Pristine == applied.gen = None /\ crashes = 0

\* t is the tree of the generation reported, usable; there is none at first, and
\* none any more once it could not be renamed back.
Base(t) ==
    /\ lost => t = None
    /\ ~lost /\ applied.gen # None => t # None /\ t = Whole(applied.gen, t.stamp) /\ Usable(t)
    /\ Pristine => t = None

Parked ==
    /\ step \in {"idle", "stage", "park", "reload", "reloading"} => Base(disk["live"])
    /\ step \in {"reload", "reloading"} => disk["live"] # None
    /\ step \in {"promote", "load", "loading", "remove", "restore"} =>
          Base(disk["prev"])
    /\ step \in {"promote", "restore"} => disk["live"] = None
    /\ step \in {"park", "promote"} => disk["next"] = Whole(man, stamp)
    /\ step \in {"load", "loading"} => disk["live"] = Whole(man, stamp)

\* d is the directory the generation reported is served from.
Pointed(d) ==
    /\ applied.gen # None => d = "live"
    /\ Pristine => d = "image"

Directed ==
    /\ step \notin {"loading", "reloading", "down"} => Pointed(dir)
    /\ step \in {"loading", "reloading"} => Pointed(back) /\ dir = "live"

Serving(got, t) ==
    \A n \in Names \ {Probe} : got[n] = IF n \in t.files THEN t.gen ELSE None

\* How far the read s has got with the undisturbed tree t.
Loaded(s, t) ==
    /\ s.at = "list" => s.got = NoFiles
    /\ s.at = "files" =>
          /\ s.dir = "live" /\ s.todo \subseteq t.files
          /\ \A n \in Names : s.got[n] = IF n \in t.files \ s.todo THEN t.gen ELSE None
          /\ \A n \in t.files \ s.todo : Validates(t.gen, n)
    /\ s.at = "store" => Usable(t) /\ Serving(s.got, t)
    /\ s.at = "done" => Usable(t)

Reading ==
    step \in {"loading", "reloading"} =>
        /\ Loaded(rd["apply"], disk["live"])
        /\ rd["apply"].at = "done" => Serving(cur.from, disk["live"])

InForce ==
    /\ applied.gen # None => InEffect(applied.gen)
    /\ Pristine => Serves(Image)

\* The generation reported is served, except between the publication of the
\* next one and the report of it.
Effective ==
    step # "down" /\ ~(step = "loading" /\ rd["apply"].at = "done") => InForce

CalmParts == rd["reload"] = Idle /\ Parked /\ Directed /\ Reading /\ Effective

CalmInv == Basic /\ (Calm => CalmParts)

\* A start reports no generation and serves the image.
LEMMA CalmInit == Init => CalmInv
<1> SUFFICES ASSUME Init PROVE CalmParts
  BY BasicInit DEF CalmInv
<1>1. /\ applied.gen = None /\ crashes = 0 /\ disk["live"] = None /\ step = "idle" /\ ~lost
      /\ dir = "image" /\ rd["reload"] = Idle
  BY DEF Init, Readers
<1>2. Serves(Image)
  <2>1. cur.from = WithProbe(Contents(ImageTree), "image")
    BY DEF Init, Snapshot
  <2>2. \A n \in Names : cur.from[n] = IF n \in Has[Image] THEN Image ELSE None
    BY <2>1 DEF WithProbe, Contents, ImageTree
  <2> QED
    BY <2>2 DEF Serves
<1>3. Parked /\ Directed /\ Reading
  BY <1>1 DEF Parked, Base, Pristine, Directed, Pointed, Reading
<1>4. Effective
  BY <1>1, <1>2 DEF Effective, InForce
<1> QED
  BY <1>1, <1>3, <1>4 DEF CalmParts

\* Steps outside the applier's own reads.
LEMMA OffStage ==
    ASSUME CalmParts, UNCHANGED <<served, rd, level, crashes>>,
           applied'.gen = applied.gen,
           step \notin {"loading", "reloading", "down"},
           step' \notin {"loading", "reloading", "down"},
           Parked'
    PROVE  CalmParts'
<1>1. Directed' /\ Reading'
  BY DEF CalmParts, Directed, Pointed, Pristine, Reading
<1>2. Effective'
  BY DEF CalmParts, Effective, InForce, InEffect, Serves, Pristine
<1> QED
  BY <1>1, <1>2 DEF CalmParts

\* The tree the applier reads, as a tree.
LEMMA LiveFacts ==
    ASSUME Basic, CalmParts, step \in {"loading", "reloading"}
    PROVE  /\ disk["live"] \in Trees /\ disk["live"] # None
           /\ disk["live"].gen \in Gens /\ disk["live"].gen # None
           /\ disk["live"].files \subseteq Names
           /\ dir = "live" /\ TreeAt("live") = disk["live"]
<1>1. disk["live"] \in Trees /\ disk["live"] # None
  BY ApplierFacts DEF CalmParts, Parked
<1> QED
  BY <1>1, TreeFacts DEF CalmParts, Directed, TreeAt

\* The applier's read lists the live tree, which nobody else touches.
LEMMA CalmList ==
    ASSUME Basic, CalmParts, step \in {"loading", "reloading"}, List("apply")
    PROVE  Loaded(rd'["apply"], disk["live"]) /\ rd'["apply"].at # "done"
<1> DEFINE t == disk["live"]
           s == rd["apply"]
<1>0. s \in ReadType /\ rd \in [Readers -> ReadType] /\ "apply" \in Readers
  BY ApplierFacts DEF Readers
<1>1. rd'["apply"] = [s EXCEPT !.at = "files", !.dir = "live", !.todo = t.files]
  BY <1>0, LiveFacts DEF List
<1>2. s.got = NoFiles
  BY DEF List, CalmParts, Reading, Loaded
<1>3. t.files \ t.files = {}
  OBVIOUS
<1> HIDE DEF t, s
<1>4. Loaded(rd'["apply"], t) /\ rd'["apply"].at # "done"
  BY <1>0, <1>1, <1>2, <1>3 DEF Loaded, NoFiles, ReadType
<1> QED
  BY <1>4 DEF t

\* ... reads a file of it ...
LEMMA CalmFile ==
    ASSUME Basic, CalmParts, step \in {"loading", "reloading"}, ReadFile("apply")
    PROVE  Loaded(rd'["apply"], disk["live"]) /\ rd'["apply"].at # "done"
<1> DEFINE t == disk["live"]
           s == rd["apply"]
<1>0. s \in ReadType /\ rd \in [Readers -> ReadType] /\ "apply" \in Readers
  BY ApplierFacts DEF Readers
<1>1. /\ s.at = "files" /\ s.dir = "live" /\ s.todo \subseteq t.files
      /\ \A n \in Names : s.got[n] = IF n \in t.files \ s.todo THEN t.gen ELSE None
      /\ \A n \in t.files \ s.todo : Validates(t.gen, n)
  BY DEF ReadFile, CalmParts, Reading, Loaded
<1>2. TreeAt(s.dir) = t /\ t # None /\ t.files \subseteq Names
  BY <1>1, LiveFacts
<1>3. CASE GiveUp("apply")
  <2>1. rd'["apply"] = [Idle EXCEPT !.at = "failed"]
    BY <1>0, <1>3 DEF GiveUp
  <2>2. rd'["apply"].at = "failed"
    BY <2>1, IdleType
  <2> QED
    BY <2>2 DEF Loaded
<1>4. CASE ~GiveUp("apply")
  <2>1. PICK n \in s.todo :
          /\ Validates(t.gen, n)
          /\ rd'["apply"] = [s EXCEPT !.todo = s.todo \ {n},
                                      !.got = [s.got EXCEPT ![n] = t.gen]]
    BY <1>0, <1>1, <1>2, <1>4 DEF ReadFile
  <2> HIDE DEF t, s
  <2>2. /\ rd'["apply"].at = "files" /\ rd'["apply"].dir = "live"
        /\ rd'["apply"].todo = s.todo \ {n}
        /\ rd'["apply"].got = [s.got EXCEPT ![n] = t.gen]
    BY <1>0, <1>1, <2>1 DEF ReadType
  <2>3. s.got \in [Names -> Origins] /\ n \in Names
    BY <1>0, <2>1 DEF ReadType
  <2>4. \A m \in Names : [s.got EXCEPT ![n] = t.gen][m]
                            = IF m \in t.files \ (s.todo \ {n}) THEN t.gen ELSE None
    BY <1>1, <2>1, <2>3
  <2>5. Loaded(rd'["apply"], t)
    BY <1>1, <2>1, <2>2, <2>4 DEF Loaded
  <2> QED
    BY <2>2, <2>5 DEF t
<1> QED
  BY <1>3, <1>4

\* ... and takes its fingerprint.
LEMMA CalmPrint ==
    ASSUME Basic, CalmParts, step \in {"loading", "reloading"}, TakePrint("apply")
    PROVE  Loaded(rd'["apply"], disk["live"]) /\ rd'["apply"].at # "done"
<1> DEFINE t == disk["live"]
           s == rd["apply"]
<1>0. s \in ReadType /\ rd \in [Readers -> ReadType] /\ "apply" \in Readers
  BY ApplierFacts DEF Readers
<1>1. /\ s.at = "files" /\ s.dir = "live" /\ s.todo = {}
      /\ \A n \in Names : s.got[n] = IF n \in t.files \ s.todo THEN t.gen ELSE None
      /\ \A n \in t.files \ s.todo : Validates(t.gen, n)
  BY DEF TakePrint, CalmParts, Reading, Loaded
<1>2. t # None /\ t.files \subseteq Names
  BY LiveFacts
<1>3. CASE GiveUp("apply")
  <2>1. rd'["apply"] = [Idle EXCEPT !.at = "failed"]
    BY <1>0, <1>3 DEF GiveUp
  <2>2. rd'["apply"].at = "failed"
    BY <2>1, IdleType
  <2> QED
    BY <2>2 DEF Loaded
<1>4. CASE ~GiveUp("apply")
  <2>1. /\ s.got[Default] # None
        /\ rd'["apply"] = [s EXCEPT !.at = "store", !.got = WithProbe(s.got, s.dir),
                                    !.fp = Fingerprint(TreeAt(s.dir))]
    BY <1>0, <1>4 DEF TakePrint
  <2>2. rd'["apply"].at = "store" /\ rd'["apply"].got = WithProbe(s.got, s.dir)
    BY <1>0, <2>1 DEF ReadType
  <2> HIDE DEF t, s
  <2>3. Usable(t)
    BY <1>1, <1>2, <2>1, NamesFacts DEF Usable
  <2>4. Serving(WithProbe(s.got, s.dir), t)
    BY <1>0, <1>1 DEF Serving, WithProbe, ReadType
  <2>5. Loaded(rd'["apply"], t)
    BY <2>2, <2>3, <2>4 DEF Loaded
  <2> QED
    BY <2>2, <2>5 DEF t
<1> QED
  BY <1>3, <1>4

\* The steps of a read; only the applier reads.
LEMMA CalmRead ==
    ASSUME Basic, CalmParts, NEW r \in Readers, Read(r), ~Panic(r) PROVE CalmParts'
<1>0. rd \in [Readers -> ReadType] /\ "apply" \in Readers /\ "reload" \in Readers
  BY ApplierFacts DEF Readers
<1>1. rd[r].at # "idle"
  BY DEF Read, List, ReadFile, TakePrint, Publish
<1>2. r = "apply"
  BY <1>1 DEF CalmParts, Idle, Readers
<1>3. step \in {"loading", "reloading"}
  BY <1>1, <1>2, TypeParts DEF Control, Idle
<1>4. UNCHANGED <<tree, dir, applier, crashes>>
  BY DEF Read, List, ReadFile, TakePrint, Publish
<1>5. rd'["reload"] = Idle
  BY <1>0, <1>2 DEF Read, List, ReadFile, TakePrint, Publish, GiveUp, CalmParts
<1>6. Parked' /\ Directed'
  BY <1>4 DEF CalmParts, Parked, Base, Pristine, Directed, Pointed
<1>7. CASE ~Publish("apply")
  <2>1. cur' = cur
    BY <1>2, <1>7 DEF Read, List, ReadFile, TakePrint
  <2>2. Loaded(rd'["apply"], disk["live"]) /\ rd'["apply"].at # "done"
    BY <1>2, <1>3, <1>7, CalmList, CalmFile, CalmPrint DEF Read
  <2>3. Reading'
    BY <1>4, <2>2 DEF Reading
  <2>4. rd["apply"].at # "done"
    BY <1>2, <1>7 DEF Read, List, ReadFile, TakePrint
  <2>5. Effective'
    BY <1>4, <2>1, <2>4 DEF CalmParts, Effective, InForce, InEffect, Serves, Pristine
  <2> QED
    BY <1>5, <1>6, <2>3, <2>5 DEF CalmParts
<1>8. CASE Publish("apply")
  <2> DEFINE t == disk["live"]
  <2>1. rd'["apply"] = [Idle EXCEPT !.at = "done"]
    BY <1>0, <1>8 DEF Publish
  <2>2. rd'["apply"].at = "done"
    BY <2>1, IdleType
  <2>3. Usable(t) /\ Serving(cur'.from, t)
    BY <1>3, <1>8 DEF Publish, CalmParts, Reading, Loaded
  <2>4. Reading'
    BY <1>4, <2>2, <2>3 DEF Reading, Loaded
  <2>5. ASSUME step = "reloading" PROVE InForce'
    <3>1. Base(t) /\ t # None
      BY <2>5 DEF CalmParts, Parked
    <3>2. InForce
      BY <2>5 DEF CalmParts, Effective
    <3>3. ~Pristine
      BY <3>1 DEF Base
    <3>4. ASSUME applied.gen # None PROVE InEffect(applied.gen)'
      <4>1. applied.gen \in Gens /\ t = Whole(applied.gen, t.stamp)
        BY <3>1, <3>4, TypeParts DEF Base, Typed, ReportTyped
      <4>2. Serves(applied.gen)'
        BY <1>4, <2>3, <4>1 DEF Serving, Serves, Whole
      <4> QED
        BY <1>4, <3>2, <3>4, <4>2 DEF InForce, InEffect
    <3> QED
      BY <1>4, <3>3, <3>4 DEF InForce, Pristine
  <2>6. Effective'
    BY <1>3, <1>4, <2>2, <2>5 DEF Effective
  <2> QED
    BY <1>5, <1>6, <2>4, <2>6 DEF CalmParts
<1> QED
  BY <1>7, <1>8

\* The bucket concerns nothing that is served or reported.
LEMMA CalmBucket ==
    ASSUME CalmParts, (\E g \in Gens \cup {None} : Offer(g)) \/ UNCHANGED vars
    PROVE  CalmParts'
<1>1. UNCHANGED <<tree, served, rd, applier, crashes>>
  BY DEF Offer, vars
<1>2. Parked' /\ Directed'
  BY <1>1 DEF CalmParts, Parked, Base, Pristine, Directed, Pointed
<1>3. Reading' /\ Effective'
  BY <1>1 DEF CalmParts, Reading, Effective, InForce, InEffect, Serves, Pristine
<1> QED
  BY <1>1, <1>2, <1>3 DEF CalmParts

\* An update starts no read yet.
LEMMA CalmReceive == ASSUME Basic, CalmParts, Receive PROVE CalmParts'
<1>1. /\ UNCHANGED <<tree, served, rd, lived, back, applied, level, lost, crashes>>
      /\ step = "idle" /\ step' \in {"idle", "stage"}
  BY DEF Receive
<1>2. Parked'
  BY <1>1 DEF CalmParts, Parked, Base, Pristine
<1> QED
  BY <1>1, <1>2, OffStage

\* Base looks at nothing but the report and whether the tree is lost.
LEMMA BaseStill ==
    ASSUME applied'.gen = applied.gen, crashes' = crashes, lost' = lost
    PROVE  \A t : Base(t) <=> Base(t)'
  BY DEF Base, Pristine

\* The report of a failure leaves the generation alone.
LEMMA FailedKeeps == ASSUME Basic, Failed PROVE applied'.gen = applied.gen
  BY TypeParts DEF Failed, Typed, ReportTyped

\* Staging leaves the live tree alone.
LEMMA CalmStage == ASSUME Basic, CalmParts, Stage PROVE CalmParts'
<1>1. /\ step = "stage" /\ disk'["live"] = disk["live"]
      /\ \/ step' = "park" /\ disk'["next"] = Whole(man', stamp')
         \/ step' = "idle"
  BY ApplierFacts DEF Stage, Proceed, Broken, Failed
<1>2. UNCHANGED <<served, rd, level, lost, crashes>> /\ applied'.gen = applied.gen
  BY FailedKeeps DEF Stage, Proceed, Broken, Failed
<1>3. Parked'
  BY <1>1, <1>2, BaseStill DEF CalmParts, Parked
<1> QED
  BY <1>1, <1>2, <1>3, OffStage

\* While the live tree is parked, prev holds it.
LEMMA CalmPark == ASSUME Basic, CalmParts, Park PROVE CalmParts'
<1>1. /\ step = "park" /\ UNCHANGED <<stamp, man>>
      /\ \/ /\ step' = "promote" /\ disk'["live"] = None /\ disk'["prev"] = disk["live"]
            /\ disk'["next"] = disk["next"] /\ lived' = (disk["live"] # None)
         \/ step' = "idle" /\ disk'["live"] = disk["live"]
  BY ApplierFacts DEF Park, Proceed, Broken, Failed
<1>2. UNCHANGED <<served, rd, level, lost, crashes>> /\ applied'.gen = applied.gen
  BY FailedKeeps DEF Park, Proceed, Broken, Failed
<1>3. Parked'
  BY <1>1, <1>2, BaseStill DEF CalmParts, Parked
<1> QED
  BY <1>1, <1>2, <1>3, OffStage

\* The live tree is the new one and prev the old one; a failure renames back,
\* or leaves no tree.
LEMMA CalmPromote == ASSUME Basic, CalmParts, Promote PROVE CalmParts'
<1>1. /\ step = "promote" /\ UNCHANGED <<stamp, man, lived>>
      /\ \/ /\ step' = "load" /\ disk'["live"] = disk["next"]
            /\ disk'["prev"] = disk["prev"] /\ lost' = lost
         \/ step' = "idle" /\ lived /\ disk'["live"] = disk["prev"] /\ lost' = lost
         \/ step' = "idle" /\ ~lived /\ disk'["live"] = disk["live"] /\ lost' = lost
         \/ step' = "idle" /\ lived /\ disk'["live"] = disk["live"] /\ lost'
  BY ApplierFacts DEF Promote, Proceed, Broken, Failed
<1>2. UNCHANGED <<served, rd, level, crashes>> /\ applied'.gen = applied.gen
  BY FailedKeeps DEF Promote, Proceed, Broken, Failed
<1>3. Parked'
  <2>1. disk["live"] = None /\ Base(disk["prev"]) /\ (lived <=> disk["prev"] # None)
    BY <1>1, ApplierFacts DEF CalmParts, Parked
  <2>2. lived => ~lost
    BY <2>1 DEF Base
  <2>3. CASE lost' = lost
    BY <1>1, <1>2, <2>1, <2>2, <2>3, BaseStill DEF CalmParts, Parked
  <2>4. CASE step' = "idle" /\ lived /\ disk'["live"] = disk["live"] /\ lost'
    BY <1>2, <2>1, <2>4 DEF Parked, Base, Pristine
  <2> QED
    BY <1>1, <2>3, <2>4
<1> QED
  BY <1>1, <1>2, <1>3, OffStage

\* The refused tree goes; prev still holds the old one.
LEMMA CalmRemove == ASSUME Basic, CalmParts, Remove PROVE CalmParts'
<1>1. /\ step = "remove" /\ UNCHANGED <<stamp, man, lived>>
      /\ disk'["prev"] = disk["prev"]
      /\ \/ step' = "remove"
         \/ step' = "restore" /\ disk'["live"] = None
  BY ApplierFacts DEF Remove
<1>2. UNCHANGED <<served, rd, level, lost, crashes>> /\ applied'.gen = applied.gen
  BY DEF Remove
<1>3. Parked'
  BY <1>1, <1>2, BaseStill DEF CalmParts, Parked
<1> QED
  BY <1>1, <1>2, <1>3, OffStage

\* prev goes back to live, or there is no live tree.
LEMMA CalmRestore == ASSUME Basic, CalmParts, Restore PROVE CalmParts'
<1>1. /\ step = "restore" /\ UNCHANGED <<stamp, man, lived>>
      /\ \/ step' = "reload" /\ lived /\ disk'["live"] = disk["prev"] /\ lost' = lost
         \/ step' = "idle" /\ ~lived /\ disk' = disk /\ lost' = lost
         \/ step' = "idle" /\ lived /\ disk' = disk /\ lost'
  BY ApplierFacts DEF Restore, Proceed, Failed
<1>2. UNCHANGED <<served, rd, level, crashes>> /\ applied'.gen = applied.gen
  BY FailedKeeps DEF Restore, Proceed, Failed
<1>3. Parked'
  <2>1. disk["live"] = None /\ Base(disk["prev"]) /\ (lived <=> disk["prev"] # None)
    BY <1>1, ApplierFacts DEF CalmParts, Parked
  <2>2. lived => ~lost
    BY <2>1 DEF Base
  <2>3. CASE lost' = lost
    BY <1>1, <1>2, <2>1, <2>2, <2>3, BaseStill DEF CalmParts, Parked
  <2>4. CASE step' = "idle" /\ lived /\ disk' = disk /\ lost'
    BY <1>2, <2>1, <2>4 DEF Parked, Base, Pristine
  <2> QED
    BY <1>1, <2>3, <2>4
<1> QED
  BY <1>1, <1>2, <1>3, OffStage

\* The read begins on the live tree.
LEMMA CalmSetDir == ASSUME Basic, CalmParts, SetDir PROVE CalmParts'
<1>1. /\ UNCHANGED <<tree, cur, man, lived, applied, level, lost, crashes>>
      /\ back' = dir /\ dir' = "live"
      /\ \/ step = "load" /\ step' = "loading"
         \/ step = "reload" /\ step' = "reloading"
  BY DEF SetDir
<1>2. rd'["apply"] = [Idle EXCEPT !.at = "list"] /\ rd'["reload"] = rd["reload"]
  BY ApplierFacts DEF SetDir, Begin, Readers
<1>3. rd'["apply"].at = "list" /\ rd'["apply"].got = NoFiles
  BY <1>2 DEF Idle
<1>4. Parked' /\ Directed'
  BY <1>1, BaseStill DEF CalmParts, Parked, Directed, Pointed, Pristine
<1>5. Reading'
  BY <1>3 DEF Reading, Loaded
<1>6. Effective'
  BY <1>1 DEF CalmParts, Effective, InForce, InEffect, Serves, Pristine
<1> QED
  BY <1>2, <1>4, <1>5, <1>6 DEF CalmParts

\* The tree read becomes the one reported.
LEMMA CalmAccept == ASSUME Basic, CalmParts, Accept PROVE CalmParts'
<1> DEFINE t == disk["live"]
<1>1. /\ UNCHANGED <<stamp, served, man, crashes>> /\ step = "loading" /\ step' = "idle"
      /\ rd["apply"].at = "done" /\ applied'.gen = man /\ disk'["live"] = t /\ ~lost'
      /\ level' = IF LevelOf[man] = None THEN level ELSE LevelOf[man]
  BY ApplierFacts DEF Accept, Settings
<1>2. rd'["reload"] = rd["reload"]
  BY ApplierFacts DEF Accept, ReadEnds, Readers
<1>3. man \in Gens /\ man # None /\ stamp \in Nat
  BY <1>1, ApplierFacts, GenAssumption
<1>4. t = Whole(man, stamp) /\ Usable(t) /\ Serving(cur.from, t) /\ dir = "live"
  BY <1>1 DEF CalmParts, Parked, Reading, Loaded, Directed
<1>5. t.stamp = stamp /\ t # None
  BY <1>3, <1>4, WholeFacts
<1>6. Parked'
  BY <1>1, <1>3, <1>4, <1>5 DEF Parked, Base, Pristine
<1>7. Directed' /\ Reading'
  BY <1>1, <1>3, <1>4 DEF Directed, Pointed, Pristine, Reading
<1>8. Serves(man)'
  BY <1>1, <1>4 DEF Serving, Serves, Whole
<1>9. Effective'
  BY <1>1, <1>3, <1>8 DEF Effective, InForce, InEffect, Pristine, Serves
<1> QED
  BY <1>2, <1>6, <1>7, <1>9 DEF CalmParts

\* The refused read published nothing.
LEMMA CalmRefuse == ASSUME Basic, CalmParts, Refuse PROVE CalmParts'
<1>1. /\ UNCHANGED <<tree, cur, man, lived, applied, level, lost, crashes>>
      /\ step = "loading" /\ step' = "remove" /\ rd["apply"].at = "failed" /\ dir' = back
  BY DEF Refuse
<1>2. rd'["reload"] = rd["reload"]
  BY ApplierFacts DEF Refuse, ReadEnds, Readers
<1>3. Parked' /\ Directed' /\ Reading'
  BY <1>1, BaseStill DEF CalmParts, Parked, Directed, Pointed, Pristine, Reading
<1>4. Effective'
  BY <1>1 DEF CalmParts, Effective, InForce, InEffect, Serves, Pristine
<1> QED
  BY <1>2, <1>3, <1>4 DEF CalmParts

\* The read of the restored tree: it published the old generation, or nothing.
LEMMA CalmRolledBack == ASSUME Basic, CalmParts, RolledBack PROVE CalmParts'
<1>1. /\ UNCHANGED <<tree, cur, level, lost, crashes>> /\ applied'.gen = applied.gen
      /\ step = "reloading" /\ step' = "idle" /\ (dir' = dir \/ dir' = back)
  BY FailedKeeps DEF RolledBack, Failed
<1>2. rd'["reload"] = rd["reload"]
  BY ApplierFacts DEF RolledBack, ReadEnds, Readers
<1>3. Base(disk["live"]) /\ disk["live"] # None /\ Pointed(back) /\ dir = "live"
  BY <1>1 DEF CalmParts, Parked, Directed
<1>4. ~Pristine
  BY <1>3 DEF Base
<1>5. Parked' /\ Directed' /\ Reading'
  BY <1>1, <1>3, <1>4, BaseStill DEF Parked, Directed, Pointed, Pristine, Reading
<1>6. Effective'
  BY <1>1 DEF CalmParts, Effective, InForce, InEffect, Serves, Pristine
<1> QED
  BY <1>2, <1>5, <1>6 DEF CalmParts

\* Without a process nothing is asked of its memory.
LEMMA CalmDown == ASSUME Down PROVE CalmParts'
<1>1. step' = "down" /\ rd'["reload"] = Idle
  BY DEF Down, Readers
<1> QED
  BY <1>1 DEF CalmParts, Parked, Directed, Reading, Effective

\* After a start nothing is reported until a manifest is applied.
LEMMA CalmStart == ASSUME Basic, CalmParts, Start PROVE CalmParts'
<1>1. /\ applied'.gen = None /\ crashes' # 0 /\ step' = "idle" /\ ~lost'
      /\ rd'["reload"] = Idle
  BY TypeParts DEF Control, CalmParts, Start
<1> QED
  BY <1>1 DEF CalmParts, Parked, Base, Directed, Pointed, Pristine, Reading, Effective,
              InForce

\* Every step keeps CalmInv.
LEMMA CalmStep == ASSUME CalmInv, [Next]_vars PROVE CalmInv'
<1>1. Basic /\ Basic'
  BY BasicStep DEF CalmInv
<1>2. ASSUME Calm PROVE CalmParts'
  <2>1. CalmParts
    BY <1>2 DEF CalmInv
  <2>2. ~ReloadTick
    BY <1>2 DEF Calm, ReloadTick
  <2>3. CASE ApplyStep
    BY <1>1, <2>1, <2>3, CalmStage, CalmPark, CalmPromote, CalmSetDir, CalmAccept,
       CalmRefuse, CalmRemove, CalmRestore, CalmRolledBack DEF ApplyStep
  <2> QED
    BY <1>1, <1>2, <2>1, <2>2, <2>3, CalmRead, CalmBucket, CalmReceive, CalmDown,
       CalmStart DEF Next, Panic, Crash
<1> QED
  BY <1>1, <1>2 DEF CalmInv, Calm

\* CalmInv is an invariant.
LEMMA CalmInvariant == Spec => []CalmInv
  BY CalmInit, CalmStep, PTL DEF Spec

\* Without a reloader, the generation the heartbeat reports is the one in
\* effect, whatever was refused, failed, lost or crashed before (desired.go
\* Watch, Apply, Bootstrap).
THEOREM ReportedInEffect == Spec => [](Calm => ServedAsReported)
<1>1. CalmInv => (Calm => ServedAsReported)
  BY DEF CalmInv, CalmParts, ServedAsReported, Effective, InForce, Directed, Pointed,
         Pristine
<1> QED
  BY CalmInvariant, <1>1, PTL

\* ... and the live tree, from which a restart loads, is that generation's,
\* complete, unless it could not be renamed back.
THEOREM ReportedOnDisk == Spec => [](Calm => DiskAsReported)
<1>1. CalmInv => (Calm => DiskAsReported)
  BY DEF CalmInv, CalmParts, DiskAsReported, Parked, Base
<1> QED
  BY CalmInvariant, <1>1, PTL
=============================================================================
