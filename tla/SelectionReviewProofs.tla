----------------------- MODULE SelectionReviewProofs -----------------------
(***************************************************************************)
(* SelectionReview, for every tree of paths, every list of rules and any   *)
(* number of snapshots and timers: the types, the exactness of a scan that *)
(* nothing disturbs, and who changes a choice.                             *)
(***************************************************************************)
EXTENDS SelectionReview, TLAPS

-----------------------------------------------------------------------------
(* The inductive invariant: types *)

Manifests == [sources : SUBSET Paths, id : 0 .. MaxSnapshots]
Scans == [phase : {"off", "timer", "running", "result", "error"}, todo : SUBSET Paths,
          prev : Manifests, on : SUBSET RuleSet, seen : SUBSET Paths, new : SUBSET Paths,
          calm : BOOLEAN]
Browses == [phase : {"off", "running", "result"}, dir : Paths, prev : 0 .. MaxSnapshots,
            records : SUBSET Paths, known : SUBSET Paths]
Backups == [phase : {"off", "running", "done", "marked"}, request : SUBSET Paths]

Stored ==
  /\ policy \in [Paths -> Policies] /\ on \subseteq RuleSet /\ opened \in BOOLEAN
  /\ known \in [Paths -> 0 .. MaxSnapshots]
  /\ saved \in Manifests /\ manifest = saved

Shown ==
  /\ disk \subseteq Paths /\ dirs \subseteq Paths
  /\ seen \subseteq Paths /\ review \subseteq Paths /\ rows \subseteq Paths

Working ==
  /\ scan \in Scans /\ scan.new \subseteq scan.seen
  /\ delays \in 0 .. MaxDelays
  /\ browse \in Browses
  /\ backup \in Backups

\* The snapshots made are the first n; a backup that runs has room for one
\* more, and one that is done has made one.
Filled(n) ==
  /\ \A id \in 1 .. MaxSnapshots : contents[id] # {} <=> id <= n
  /\ backup.phase = "running" => n < MaxSnapshots
  /\ backup.phase \in {"done", "marked"} => n >= 1

Numbered ==
  /\ contents \in [1 .. MaxSnapshots -> SUBSET Paths]
  /\ \E n \in 0 .. MaxSnapshots : Filled(n)

Typed == Stored /\ Shown /\ Working /\ Numbered

LEMMA TypedIsType == Typed => TypeOK
BY DEF Typed, Stored, Shown, Working, TypeOK, Manifests, Scans, Browses, Backups

LEMMA Constants ==
  /\ NoManifest \in Manifests /\ NoScan \in Scans /\ NoBrowse \in Browses /\ NoBackup \in Backups
  /\ NoScan.new \subseteq NoScan.seen
BY ReviewAssumption, RuleAssumption
   DEF NoManifest, NoScan, NoBrowse, NoBackup, Manifests, Scans, Browses, Backups

LEMMA TreeTypes ==
  /\ Children \in [Paths -> SUBSET Paths]
  /\ \A pol : WatchDirectories(pol) \subseteq Paths
  /\ \A request : Saved(request) \subseteq Paths
  /\ \A pol, rules : SelectedSources(pol, rules) \subseteq Paths
BY DEF Children, WatchDirectories, Saved, Snapshot, SelectedSources

\* A scheduled and a stirred scan.
LEMMA ScanTypes ==
  ASSUME Working
  PROVE  /\ Scheduled \in Scans /\ Scheduled.new \subseteq Scheduled.seen /\ ~ Scheduled.calm
         /\ Stirred \in Scans /\ Stirred.new \subseteq Stirred.seen /\ ~ Stirred.calm
BY Constants DEF Working, Scheduled, Stirred, NoScan, Scans

-----------------------------------------------------------------------------
(* The numbers of the snapshots *)

LEMMA NextIdIs ==
  ASSUME NEW n \in 0 .. MaxSnapshots, Filled(n), n < MaxSnapshots
  PROVE  NextId = n + 1
<1>1. n + 1 \in 1 .. MaxSnapshots /\ n + 1 > n
  BY ReviewAssumption
<1> DEFINE Free(id) == contents[id] = {} /\ \A other \in 1 .. id - 1 : contents[other] # {}
<1>2. Free(n + 1)
  BY <1>1, ReviewAssumption DEF Filled
<1>3. \A id \in 1 .. MaxSnapshots : Free(id) => id = n + 1
  <2> SUFFICES ASSUME NEW id \in 1 .. MaxSnapshots, Free(id) PROVE id = n + 1
    OBVIOUS
  <2>1. ~ (id <= n)
    BY DEF Filled
  <2>2. CASE id > n + 1
    <3>1. n + 1 \in 1 .. id - 1
      BY <1>1, <2>2, ReviewAssumption
    <3> QED
      BY <1>2, <3>1
  <2> QED
    BY <2>1, <2>2, ReviewAssumption
<1> QED
  BY <1>1, <1>2, <1>3 DEF NextId

LEMMA LastIdIs ==
  ASSUME NEW n \in 1 .. MaxSnapshots, Filled(n)
  PROVE  LastId = n
<1> DEFINE Latest(id) == contents[id] # {} /\ \A other \in id + 1 .. MaxSnapshots : contents[other] = {}
<1>1. Latest(n)
  BY ReviewAssumption DEF Filled
<1>2. \A id \in 1 .. MaxSnapshots : Latest(id) => id = n
  <2> SUFFICES ASSUME NEW id \in 1 .. MaxSnapshots, Latest(id) PROVE id = n
    OBVIOUS
  <2>1. id <= n
    BY DEF Filled
  <2>2. CASE id < n
    <3>1. n \in id + 1 .. MaxSnapshots
      BY <2>2, ReviewAssumption
    <3> QED
      BY <1>1, <3>1
  <2> QED
    BY <2>1, <2>2, ReviewAssumption
<1> QED
  BY <1>1, <1>2 DEF LastId

LEMMA LastIdType ==
  ASSUME Numbered, backup.phase \in {"done", "marked"}
  PROVE  LastId \in 1 .. MaxSnapshots
<1>1. PICK n \in 0 .. MaxSnapshots : Filled(n)
  BY DEF Numbered
<1>2. n \in 1 .. MaxSnapshots
  BY <1>1, ReviewAssumption DEF Filled
<1> QED
  BY <1>1, <1>2, LastIdIs

-----------------------------------------------------------------------------
(* Every action keeps the types *)

\* The snapshots are left alone by a step that starts and ends no backup.
LEMMA NumberedKept ==
  ASSUME Numbered, contents' = contents,
         backup'.phase = backup.phase \/ backup'.phase = "off"
  PROVE  Numbered'
BY DEF Numbered, Filled

LEMMA InitTyped == Init => Typed
<1> SUFFICES ASSUME Init PROVE Typed
  OBVIOUS
<1>1. Stored
  <2>1. PICK frozen \in {{}, Frozen} :
          policy = [p \in Paths |-> IF p \in frozen THEN "INCLUDE" ELSE "DEFAULT"]
    BY DEF Init
  <2>2. policy \in [Paths -> Policies]
    BY <2>1 DEF Policies
  <2>3. known \in [Paths -> 0 .. MaxSnapshots]
    BY ReviewAssumption DEF Init
  <2> QED
    BY <2>2, <2>3, Constants DEF Init, Stored
<1>3. Shown /\ Working
  BY Constants, ReviewAssumption DEF Init, Shown, Working
<1>2. contents \in [1 .. MaxSnapshots -> SUBSET Paths] /\ Filled(0)
  BY ReviewAssumption DEF Init, Filled, NoBackup
<1> QED
  BY <1>1, <1>2, <1>3, ReviewAssumption DEF Typed, Numbered

\* The steps of the review refresh.
LEMMA ScanTyped ==
  ASSUME Typed,
         \/ DelayedSchedule \/ RefreshReview \/ ScanWorkerEnds
         \/ \E d \in Paths : ScanDirectory(d)
         \/ ReviewIndexLoaded \/ ReviewIndexFailed
  PROVE  Typed'
<1>1. UNCHANGED <<stored, rows, browse, backup, manifest, world, contents>>
  BY DEF DelayedSchedule, RefreshReview, ScanWorkerEnds, ScanDirectory, ReviewIndexLoaded,
         ReviewIndexFailed, shown
<1>2. Stored' /\ Numbered'
  BY <1>1, NumberedKept DEF Typed, Stored, stored
<1>3. seen' \subseteq Paths /\ review' \subseteq Paths
  BY DEF Typed, Shown, Working, Scans, DelayedSchedule, RefreshReview, ScanWorkerEnds,
         ScanDirectory, ReviewIndexLoaded, ReviewIndexFailed, shown
<1>4. delays' \in 0 .. MaxDelays
  <2>1. delays \in 0 .. MaxDelays /\ MaxDelays \in Nat
    BY ReviewAssumption DEF Typed, Working
  <2>2. \/ delays' = delays
        \/ delays > 0 /\ delays' = delays - 1
        \/ delays < MaxDelays /\ delays' = delays + 1
    BY DEF DelayedSchedule, RefreshReview, ScanWorkerEnds, ScanDirectory, ReviewIndexLoaded,
           ReviewIndexFailed
  <2> QED
    BY <2>1, <2>2
<1>5. scan' \in Scans /\ scan'.new \subseteq scan'.seen
  <2>1. scan \in Scans /\ scan.new \subseteq scan.seen
    BY DEF Typed, Working
  <2>2. CASE DelayedSchedule
    BY <2>1, <2>2, ScanTypes DEF Typed, DelayedSchedule
  <2>3. CASE RefreshReview
    <3>1. manifest \in Manifests /\ on \in SUBSET RuleSet /\ WatchDirectories(policy) \in SUBSET Paths
      BY TreeTypes DEF Typed, Stored
    <3> DEFINE started == [phase |-> "running", todo |-> WatchDirectories(policy),
                           prev |-> manifest, on |-> on, seen |-> {}, new |-> {}, calm |-> TRUE]
    <3>2. scan' \in {NoScan, started}
      BY <2>3 DEF RefreshReview
    <3>3. started \in Scans
      BY <3>1 DEF Scans
    <3>4. started.new = {}
      OBVIOUS
    <3> HIDE DEF started
    <3> QED
      BY <3>2, <3>3, <3>4, Constants
  <2>4. CASE ScanWorkerEnds
    BY <2>1, <2>4 DEF ScanWorkerEnds, Scans
  <2>5. ASSUME NEW d \in Paths, ScanDirectory(d) PROVE scan' \in Scans /\ scan'.new \subseteq scan'.seen
    <3> DEFINE entries == Children[d] \cap disk
               new == {p \in entries :
                 BackupState(policy, scan.on, Context(scan.prev), p) = "REVIEW_REQUIRED"}
    <3>1. entries \subseteq Paths /\ new \subseteq entries
      BY TreeTypes
    <3>2. scan' = [scan EXCEPT !.todo = scan.todo \ {d}, !.seen = (scan.seen \cup entries) \cup {d},
                               !.new = scan.new \cup new]
      BY <2>5 DEF ScanDirectory
    <3> HIDE DEF entries, new
    <3> QED
      BY <2>1, <3>1, <3>2 DEF Scans
  <2>6. CASE ReviewIndexLoaded
    BY <2>1, <2>6, Constants DEF ReviewIndexLoaded, NoScan, Scans
  <2>7. CASE ReviewIndexFailed
    BY <2>7, Constants DEF ReviewIndexFailed
  <2> QED
    BY <2>2, <2>3, <2>4, <2>5, <2>6, <2>7
<1>6. Shown' /\ Working'
  BY <1>1, <1>3, <1>4, <1>5 DEF Typed, Shown, Working, world
<1> QED
  BY <1>2, <1>6 DEF Typed

\* Edits and the file system.
LEMMA EditTyped ==
  ASSUME Typed,
         \/ \E p \in Touched, value \in Policies : EditPolicy(p, value)
         \/ \E rule \in RuleSet : SwitchRule(rule)
         \/ \E p \in Volatile : Create(p) \/ BecomeDirectory(p)
  PROVE  Typed'
<1>1. UNCHANGED <<known, saved, opened, manifest, seen, review, delays, browse, backup, contents>>
  BY DEF EditPolicy, SwitchRule, Create, BecomeDirectory, stored, shown, workers
<1>2. Numbered'
  BY <1>1, NumberedKept DEF Typed
<1>3. policy' \in [Paths -> Policies] /\ on' \subseteq RuleSet
  BY DEF Typed, Stored, EditPolicy, SwitchRule, Create, BecomeDirectory, stored
<1>4. rows' \subseteq Paths /\ disk' \subseteq Paths /\ dirs' \subseteq Paths
  BY ReviewAssumption
     DEF Typed, Shown, EditPolicy, SwitchRule, Create, BecomeDirectory, shown, world
<1>5. scan' \in {scan, Scheduled, Stirred}
  BY DEF EditPolicy, SwitchRule, Create, BecomeDirectory, workers
<1>6. scan' \in Scans /\ scan'.new \subseteq scan'.seen
  BY <1>5, ScanTypes DEF Typed, Working
<1> QED
  BY <1>1, <1>2, <1>3, <1>4, <1>6 DEF Typed, Stored, Shown, Working

\* Browsing.
LEMMA BrowseTyped ==
  ASSUME Typed,
         \/ \E d \in Paths : Browse(d)
         \/ BrowseWorkerEnds \/ BrowseFails \/ BrowseLoaded
  PROVE  Typed'
<1>1. UNCHANGED <<on, known, saved, opened, manifest, delays, backup, world, contents>>
  BY DEF Browse, BrowseWorkerEnds, BrowseFails, BrowseLoaded, stored
<1>2. Numbered'
  BY <1>1, NumberedKept DEF Typed
<1>3. browse' \in Browses
  <2>1. browse \in Browses /\ manifest.id \in 0 .. MaxSnapshots
    BY DEF Typed, Working, Stored, Manifests
  <2>2. ASSUME NEW d \in Paths, Browse(d) PROVE browse' \in Browses
    BY <2>1, <2>2, Constants DEF Browse, NoBrowse, Browses
  <2>3. CASE BrowseWorkerEnds
    <3> DEFINE entries == Children[browse.dir] \cap disk
               seenBefore == IF browse.prev = 0 THEN {}
                             ELSE (entries \cup {browse.dir}) \cap KnownTo(browse.prev)
    <3>1. entries \subseteq Paths /\ seenBefore \subseteq Paths
      BY <2>1, TreeTypes DEF Browses, KnownTo
    <3>2. browse' = [browse EXCEPT !.phase = "result", !.records = entries, !.known = seenBefore]
      BY <2>3 DEF BrowseWorkerEnds
    <3> HIDE DEF entries, seenBefore
    <3> QED
      BY <2>1, <3>1, <3>2 DEF Browses
  <2>4. CASE BrowseFails \/ BrowseLoaded
    BY <2>4, Constants DEF BrowseFails, BrowseLoaded
  <2> QED
    BY <2>2, <2>3, <2>4
<1>4. scan' \in Scans /\ scan'.new \subseteq scan'.seen
  <2>1. scan' \in {scan, Stirred}
    BY DEF Browse, BrowseWorkerEnds, BrowseFails, BrowseLoaded
  <2> QED
    BY <2>1, ScanTypes DEF Typed, Working
<1>5. /\ policy' \in [Paths -> Policies]
      /\ seen' \subseteq Paths /\ review' \subseteq Paths /\ rows' \subseteq Paths
  <2>1. CASE UNCHANGED <<stored, shown>>
    BY <2>1 DEF Typed, Stored, Shown, stored, shown
  <2>2. CASE BrowseLoaded
    <3>1. browse.records \subseteq Paths /\ policy \in [Paths -> Policies]
          /\ seen \subseteq Paths /\ review \subseteq Paths /\ rows \subseteq Paths
      BY DEF Typed, Stored, Shown, Working, Browses
    <3>2. \A p \in Paths : policy'[p] \in {policy[p], "INCLUDE_RECURSIVE"}
      BY <2>2 DEF BrowseLoaded
    <3>3. policy' \in [Paths -> Policies]
      BY <2>2, <3>1, <3>2 DEF BrowseLoaded, Policies
    <3>4. /\ seen' \subseteq seen \cup browse.records
          /\ review' \subseteq review \cup browse.records
          /\ rows' \subseteq rows \cup browse.records
      BY <2>2 DEF BrowseLoaded
    <3> QED
      BY <3>1, <3>3, <3>4
  <2> QED
    BY <2>1, <2>2 DEF Browse, BrowseWorkerEnds, BrowseFails
<1> QED
  BY <1>1, <1>2, <1>3, <1>4, <1>5 DEF Typed, Stored, Shown, Working, world

\* The backup.
LEMMA BackupTyped ==
  ASSUME Typed,
         \/ StartBackup \/ BackupMade \/ BackupPreviewed \/ BackupFails
         \/ BackupMarksKnown \/ BackupRecords
  PROVE  Typed'
<1>1. UNCHANGED <<policy, on, opened, review, delays, browse, world>>
  BY DEF StartBackup, BackupMade, BackupPreviewed, BackupFails, BackupMarksKnown, BackupRecords,
         stored, shown
<1>2. backup' \in Backups
  <2>1. backup \in Backups
    BY DEF Typed, Working
  <2>2. \/ \E phase \in {"done", "marked"} : backup' = [backup EXCEPT !.phase = phase]
        \/ backup' = NoBackup
        \/ backup' = [phase |-> "running", request |-> Saved(Request(policy, on))]
    BY DEF StartBackup, BackupMade, BackupPreviewed, BackupFails, BackupMarksKnown, BackupRecords
  <2>3. Saved(Request(policy, on)) \in SUBSET Paths
    BY TreeTypes
  <2> QED
    BY <2>1, <2>2, <2>3, Constants DEF Backups
<1>3. scan' \in Scans /\ scan'.new \subseteq scan'.seen
  <2>1. scan' \in {scan, Scheduled, Stirred}
    BY DEF StartBackup, BackupMade, BackupPreviewed, BackupFails, BackupMarksKnown, BackupRecords
  <2> QED
    BY <2>1, ScanTypes DEF Typed, Working
<1>4. seen' \subseteq Paths /\ rows' \subseteq Paths
  <2>1. seen \subseteq Paths /\ rows \subseteq Paths /\ disk \subseteq Paths
    BY DEF Typed, Shown
  <2>2. seen' \subseteq seen \cup disk /\ rows' \subseteq rows
    BY DEF StartBackup, BackupMade, BackupPreviewed, BackupFails, BackupMarksKnown, BackupRecords,
           shown
  <2> QED
    BY <2>1, <2>2
<1>5. backup.phase \in {"done", "marked"} => LastId \in 0 .. MaxSnapshots
  BY LastIdType, ReviewAssumption DEF Typed
<1>6. known' \in [Paths -> 0 .. MaxSnapshots]
  BY <1>5
     DEF Typed, Stored, StartBackup, BackupMade, BackupPreviewed, BackupFails, BackupMarksKnown,
         BackupRecords, stored
<1>7. saved' \in Manifests /\ manifest' = saved'
  <2>1. saved \in Manifests /\ manifest = saved
    BY DEF Typed, Stored
  <2>2. \/ saved' = saved /\ manifest' = manifest
        \/ /\ backup.phase = "marked" /\ saved' = manifest'
           /\ manifest' = [sources |-> SelectedSources(policy, on), id |-> LastId]
    BY DEF StartBackup, BackupMade, BackupPreviewed, BackupFails, BackupMarksKnown, BackupRecords,
           stored
  <2>3. SelectedSources(policy, on) \in SUBSET Paths
    BY TreeTypes
  <2> QED
    BY <1>5, <2>1, <2>2, <2>3 DEF Manifests
<1>8. Numbered'
  <2>1. PICK n \in 0 .. MaxSnapshots : Filled(n)
    BY DEF Typed, Numbered
  <2>2. contents \in [1 .. MaxSnapshots -> SUBSET Paths] /\ backup \in Backups
        /\ disk \subseteq Paths /\ MaxSnapshots \in Nat \ {0}
    BY ReviewAssumption DEF Typed, Numbered, Working, Shown
  <2>3. CASE BackupPreviewed \/ BackupFails \/ BackupRecords
    BY <2>3, NumberedKept
       DEF Typed, BackupPreviewed, BackupFails, BackupRecords, NoBackup
  <2>4. CASE StartBackup
    <3>1. contents' = contents /\ backup'.phase = "running" /\ contents[MaxSnapshots] = {}
      BY <2>4 DEF StartBackup
    <3>2. n < MaxSnapshots
      BY <2>1, <2>2, <3>1 DEF Filled
    <3>3. Filled(n)'
      BY <2>1, <3>1, <3>2 DEF Filled
    <3> QED
      BY <2>2, <3>1, <3>3 DEF Numbered
  <2>5. CASE BackupMade
    <3>1. n < MaxSnapshots /\ NextId = n + 1
      BY <2>1, <2>5, NextIdIs DEF BackupMade, Filled
    <3>2. /\ contents' = [contents EXCEPT ![n + 1] = backup.request \cap disk]
          /\ backup.request \cap disk # {} /\ backup'.phase = "done"
      BY <2>2, <2>5, <3>1 DEF BackupMade, Backups
    <3>3. contents' \in [1 .. MaxSnapshots -> SUBSET Paths] /\ n + 1 \in 1 .. MaxSnapshots
      BY <2>1, <2>2, <3>1, <3>2
    <3>4. \A id \in 1 .. MaxSnapshots : contents'[id] # {} <=> id <= n + 1
      BY <2>1, <2>2, <3>2, <3>3 DEF Filled
    <3>5. Filled(n + 1)'
      BY <2>1, <3>2, <3>4 DEF Filled
    <3> QED
      BY <2>2, <3>3, <3>5 DEF Numbered
  <2>6. CASE BackupMarksKnown
    <3>1. contents' = contents /\ backup.phase = "done" /\ backup'.phase = "marked"
      BY <2>2, <2>6 DEF BackupMarksKnown, Backups
    <3>2. Filled(n)'
      BY <2>1, <3>1 DEF Filled
    <3> QED
      BY <2>2, <3>1, <3>2 DEF Numbered
  <2> QED
    BY <2>3, <2>4, <2>5, <2>6
<1> QED
  BY <1>1, <1>2, <1>3, <1>4, <1>6, <1>7, <1>8 DEF Typed, Stored, Shown, Working, world

LEMMA RestartTyped ==
  ASSUME Typed, Restart
  PROVE  Typed'
<1>1. policy' \in [Paths -> Policies]
  BY DEF Typed, Stored, Restart, Migrated, Thawed, Policies
<1>2. /\ UNCHANGED <<on, known, saved, disk, dirs, contents>> /\ manifest' = saved
      /\ seen' = {} /\ review' = {} /\ rows' = {}
      /\ opened' = TRUE /\ scan' = NoScan /\ delays' = 1 /\ browse' = NoBrowse /\ backup' = NoBackup
  BY DEF Restart, world
<1>3. Numbered'
  BY <1>2, NumberedKept DEF Typed, NoBackup
<1>4. Stored' /\ Shown' /\ Working'
  BY <1>1, <1>2, Constants, ReviewAssumption DEF Typed, Stored, Shown, Working
<1> QED
  BY <1>3, <1>4 DEF Typed

LEMMA TypedStep == Typed /\ [Next]_vars => Typed'
<1> SUFFICES ASSUME Typed, [Next]_vars PROVE Typed'
  OBVIOUS
<1>1. CASE UNCHANGED vars
  <2>1. Numbered'
    BY <1>1, NumberedKept DEF Typed, vars, workers
  <2> QED
    BY <1>1, <2>1 DEF Typed, Stored, Shown, Working, vars, stored, shown, workers, world
<1> QED
  BY <1>1, ScanTyped, EditTyped, BrowseTyped, BackupTyped, RestartTyped DEF Next

(* The types, for every tree and any number of snapshots: in particular the
   manifest in memory is the stored one. *)
THEOREM ReviewTypeCorrect == Spec => []TypeOK
<1>1. Init => Typed
  BY InitTyped
<1>2. Typed /\ [Next]_vars => Typed'
  BY TypedStep
<1>3. Typed => TypeOK
  BY TypedIsType
<1> QED
  BY <1>1, <1>2, <1>3, PTL DEF Spec

-----------------------------------------------------------------------------
(* The inductive invariant: what a calm scan has found *)

(* p would need review by these policies, rules, known paths and manifest. *)
Unknown(p, pol, rules, kn, man) ==
  BackupState(pol, rules,
              [has |-> man.id # 0, known |-> {q \in Paths : kn[q] = man.id}, sources |-> man.sources],
              p) = "REVIEW_REQUIRED"

(* what there is to find in the directories of S *)
Found(S, pol, rules, kn, man, files) ==
  {p \in files : (\E d \in S : p \in Children[d]) /\ Unknown(p, pol, rules, kn, man)}

(* A scan that was never disturbed has the rules and the manifest of now, and
   has found what there is in the directories it has done; one that is over
   has left all there is. *)
Exact ==
  scan.calm =>
    /\ scan.phase # "timer"
    /\ scan.phase = "off" =>
         review = Found(WatchDirectories(policy), policy, on, known, manifest, disk)
    /\ scan.phase \in {"running", "result"} =>
         /\ scan.prev = manifest /\ scan.on = on
         /\ scan.todo \subseteq WatchDirectories(policy)
         /\ scan.new = Found(WatchDirectories(policy) \ scan.todo, policy, on, known, manifest, disk)
    /\ scan.phase = "result" => scan.todo = {}

LEMMA FoundNothing ==
  ASSUME NEW pol, NEW rules, NEW kn, NEW man, NEW files, NEW S
  PROVE  Found(S \ S, pol, rules, kn, man, files) = {}
BY DEF Found

LEMMA ScanMeets ==
  ASSUME NEW p \in Paths, scan.prev = manifest, scan.on = on
  PROVE  BackupState(policy, scan.on, Context(scan.prev), p) = "REVIEW_REQUIRED"
           <=> Unknown(p, policy, on, known, manifest)
BY DEF Context, KnownTo, Unknown

LEMMA ExactIsExact == Typed /\ Exact => UndisturbedReviewIsExact
<1> SUFFICES ASSUME Typed, Exact, scan.phase = "off", scan.calm
             PROVE  review = NeedsReview
  BY DEF UndisturbedReviewIsExact
<1>1. NeedsReview = Found(WatchDirectories(policy), policy, on, known, manifest, disk)
  BY DEF NeedsReview, Found, Unknown, Context, KnownTo
<1> QED
  BY <1>1 DEF Exact

\* Steps that touch neither the scan nor what it depends on.
LEMMA ExactKept ==
  ASSUME Exact, UNCHANGED <<scan, review, policy, on, known, manifest, disk>>
  PROVE  Exact'
BY DEF Exact

\* Steps that disturb it.
LEMMA Disturbed ==
  ASSUME ~ scan'.calm
  PROVE  Exact'
BY DEF Exact

LEMMA ScanExact ==
  ASSUME Typed, Exact,
         \/ DelayedSchedule \/ RefreshReview \/ ScanWorkerEnds
         \/ \E d \in Paths : ScanDirectory(d)
         \/ ReviewIndexLoaded \/ ReviewIndexFailed
  PROVE  Exact'
<1>1. scan \in Scans
  BY DEF Typed, Working
<1>2. ~ NoScan.calm /\ NoScan.phase = "off"
  BY DEF NoScan
<1>3. UNCHANGED <<policy, on, known, manifest, disk>>
  BY DEF DelayedSchedule, RefreshReview, ScanWorkerEnds, ScanDirectory, ReviewIndexLoaded,
         ReviewIndexFailed, stored, world
<1> DEFINE Now(S) == Found(S, policy, on, known, manifest, disk)
           watch == WatchDirectories(policy)
<1>4. CASE DelayedSchedule
  <2>1. scan' = scan \/ scan' = Scheduled
    BY <1>4 DEF DelayedSchedule
  <2> QED
    BY <1>3, <1>4, <2>1, ScanTypes, ExactKept, Disturbed DEF DelayedSchedule, shown, Typed
<1>5. CASE RefreshReview
  <2>1. CASE scan' = NoScan
    BY <1>2, <2>1, Disturbed
  <2>2. CASE scan' = [phase |-> "running", todo |-> watch, prev |-> manifest, on |-> on,
                      seen |-> {}, new |-> {}, calm |-> TRUE]
    <3>1. /\ scan'.phase = "running" /\ scan'.prev = manifest /\ scan'.on = on
          /\ scan'.todo = watch /\ scan'.new = {}
      BY <2>2
    <3>2. Now(watch \ watch) = {}
      BY FoundNothing
    <3> HIDE DEF watch
    <3> QED
      BY <1>3, <3>1, <3>2 DEF Exact, watch
  <2> QED
    BY <1>5, <2>1, <2>2 DEF RefreshReview
<1>6. CASE ScanWorkerEnds
  <2>1. /\ scan.phase = "running" /\ review' = review
        /\ \/ scan.todo = {} /\ scan' = [scan EXCEPT !.phase = "result"]
           \/ scan' = [scan EXCEPT !.phase = "error"]
    BY <1>6 DEF ScanWorkerEnds, shown
  <2>2. /\ scan'.calm = scan.calm /\ scan'.prev = scan.prev /\ scan'.on = scan.on
        /\ scan'.todo = scan.todo /\ scan'.new = scan.new
        /\ scan'.phase = "error" \/ (scan'.phase = "result" /\ scan.todo = {})
    BY <1>1, <2>1 DEF Scans
  <2> QED
    BY <1>3, <2>1, <2>2 DEF Exact
<1>7. ASSUME NEW d \in Paths, ScanDirectory(d) PROVE Exact'
  <2> DEFINE entries == Children[d] \cap disk
             new == {p \in entries :
               BackupState(policy, scan.on, Context(scan.prev), p) = "REVIEW_REQUIRED"}
  <2>1. scan' = [scan EXCEPT !.todo = scan.todo \ {d}, !.seen = (scan.seen \cup entries) \cup {d},
                             !.new = scan.new \cup new]
        /\ scan.phase = "running" /\ d \in scan.todo /\ review' = review
    BY <1>7 DEF ScanDirectory, shown
  <2>2. new = {p \in entries : BackupState(policy, scan.on, Context(scan.prev), p) = "REVIEW_REQUIRED"}
    OBVIOUS
  <2> HIDE DEF new
  <2>3. /\ scan'.calm = scan.calm /\ scan'.prev = scan.prev /\ scan'.on = scan.on
        /\ scan'.phase = "running" /\ scan'.todo = scan.todo \ {d}
        /\ scan'.new = scan.new \cup new
    BY <1>1, <2>1 DEF Scans
  <2>4. SUFFICES ASSUME scan.calm PROVE Exact'
    BY <2>3 DEF Exact
  <2>5. /\ scan.prev = manifest /\ scan.on = on /\ scan.todo \subseteq watch
        /\ scan.new = Now(watch \ scan.todo)
    BY <2>1, <2>4 DEF Exact
  <2>6. new = {p \in Children[d] \cap disk : Unknown(p, policy, on, known, manifest)}
    BY <2>2, <2>5, ScanMeets, TreeTypes
  <2>7. Now(watch \ (scan.todo \ {d})) = Now(watch \ scan.todo) \cup new
    <3>1. d \in scan.todo /\ scan.todo \subseteq watch
      BY <2>1, <2>5
    <3> HIDE DEF watch
    <3>2. Found(watch \ (scan.todo \ {d}), policy, on, known, manifest, disk) =
            Found(watch \ scan.todo, policy, on, known, manifest, disk)
            \cup {p \in Children[d] \cap disk : Unknown(p, policy, on, known, manifest)}
      BY <3>1 DEF Found
    <3> QED
      BY <2>6, <3>2
  <2>8. scan'.todo \subseteq watch /\ scan'.new = Now(watch \ scan'.todo)
    BY <2>3, <2>5, <2>7
  <2>9. scan'.prev = manifest' /\ scan'.on = on' /\ scan'.phase = "running"
    BY <1>3, <2>3, <2>5
  <2> QED
    BY <1>3, <2>8, <2>9 DEF Exact
<1>8. CASE ReviewIndexLoaded
  <2>1. scan.phase = "result" /\ review' = scan.new /\ scan' = [NoScan EXCEPT !.calm = scan.calm]
    BY <1>8 DEF ReviewIndexLoaded
  <2>2. scan'.calm = scan.calm /\ scan'.phase = "off"
    BY <2>1 DEF NoScan
  <2>3. scan.calm => scan.new = Now(watch)
    BY <2>1 DEF Exact
  <2> QED
    BY <1>3, <2>1, <2>2, <2>3 DEF Exact
<1>9. CASE ReviewIndexFailed
  BY <1>2, <1>9, Disturbed DEF ReviewIndexFailed
<1> QED
  BY <1>4, <1>5, <1>6, <1>7, <1>8, <1>9

\* Every other step leaves all of it alone, or says that it disturbs the scan.
LEMMA OtherExact ==
  ASSUME Typed, Exact,
         \/ \E p \in Touched, value \in Policies : EditPolicy(p, value)
         \/ \E rule \in RuleSet : SwitchRule(rule)
         \/ \E p \in Volatile : Create(p) \/ BecomeDirectory(p)
         \/ \E d \in Paths : Browse(d)
         \/ BrowseWorkerEnds \/ BrowseFails \/ BrowseLoaded
         \/ StartBackup \/ BackupMade \/ BackupPreviewed \/ BackupFails
         \/ BackupMarksKnown \/ BackupRecords
         \/ Restart
  PROVE  Exact'
<1>1. \/ scan' \in {Scheduled, Stirred, NoScan}
      \/ UNCHANGED <<scan, review, policy, on, known, manifest, disk>>
  BY DEF EditPolicy, SwitchRule, Create, BecomeDirectory, Browse, BrowseWorkerEnds, BrowseFails,
         BrowseLoaded, StartBackup, BackupMade, BackupPreviewed, BackupFails, BackupMarksKnown,
         BackupRecords, Restart, stored, shown, workers, world
<1>2. ~ Scheduled.calm /\ ~ Stirred.calm /\ ~ NoScan.calm
  BY ScanTypes DEF Typed, NoScan
<1> QED
  BY <1>1, <1>2, ExactKept, Disturbed

(* What a scan leaves is what needs review, if nothing it depends on changed
   since it began; for every tree, and in whatever order directories are listed. *)
THEOREM UndisturbedReviewIsExactAlways == Spec => []UndisturbedReviewIsExact
<1>1. Init => Typed /\ Exact
  BY InitTyped DEF Init, Exact, NoScan
<1>2. Typed /\ Exact /\ [Next]_vars => (Typed /\ Exact)'
  <2> SUFFICES ASSUME Typed, Exact, [Next]_vars PROVE Exact'
    BY TypedStep
  <2>1. CASE UNCHANGED vars
    BY <2>1, ExactKept DEF vars, stored, shown, workers, world
  <2>2. CASE Next
    BY <2>2, ScanExact, OtherExact DEF Next
  <2> QED
    BY <2>1, <2>2
<1>3. Typed /\ Exact => UndisturbedReviewIsExact
  BY ExactIsExact
<1> QED
  BY <1>1, <1>2, <1>3, PTL DEF Spec

-----------------------------------------------------------------------------
(* The choices *)

\* A folder an earlier version froze, before this one opens its database.
FrozenStill(p) == ~ opened /\ p \in Frozen

\* A path chosen as a file was one to begin with, if it is not a frozen folder,
\* and no directory becomes a file.
ChosenAsFile ==
  /\ Dirs \subseteq dirs
  /\ \A p \in Paths : policy[p] = "INCLUDE" => p \notin Dirs \/ FrozenStill(p)

LEMMA EditIsOf ==
  ASSUME NEW p \in Paths, NEW value \in Policies, EditPolicy(p, value), Typed
  PROVE  /\ policy' = [policy EXCEPT ![p] = value] /\ dirs' = dirs /\ opened
         /\ value = "INCLUDE" => p \notin dirs
         /\ \A q \in Paths : policy'[q] # policy[q] => q = p
BY DEF EditPolicy, world, Typed, Stored

\* The steps other than an edit that write a policy: a browse and a restart.
LEMMA OthersKeep ==
  ASSUME Typed, [Next]_vars, NEW p \in Paths, policy'[p] # policy[p]
  PROVE  \/ \E value \in Policies : EditPolicy(p, value)
         \/ /\ policy[p] = "INCLUDE" /\ policy'[p] = "INCLUDE_RECURSIVE"
            /\ p \in dirs \/ FrozenStill(p)
         \/ policy[p] = "DEFAULT" /\ policy'[p] \in {"INCLUDE_RECURSIVE", "EXCLUDE"}
<1>1. CASE UNCHANGED policy
  BY <1>1
<1>2. ASSUME NEW q \in Touched, NEW value \in Policies, EditPolicy(q, value)
      PROVE  q = p
  <2>1. q \in Paths
    BY ReviewAssumption
  <2> QED
    BY <1>2, <2>1, EditIsOf
<1>3. CASE BrowseLoaded
  <2>1. policy'[p] = IF p \in (browse.records \ rows) \cap dirs /\ policy[p] = "INCLUDE"
                     THEN "INCLUDE_RECURSIVE" ELSE policy[p]
    BY <1>3 DEF BrowseLoaded
  <2> QED
    BY <2>1
<1>4. CASE Restart
  <2>1. policy' = Migrated
    BY <1>4 DEF Restart
  <2> QED
    BY <2>1 DEF Migrated, Thawed, FrozenStill
<1>5. \/ UNCHANGED policy \/ BrowseLoaded \/ Restart
      \/ \E q \in Touched, value \in Policies : EditPolicy(q, value)
  <2>1. CASE UNCHANGED vars
    BY <2>1 DEF vars, stored
  <2>2. CASE Next
    BY <2>2 DEF Next, DelayedSchedule, RefreshReview, ScanDirectory, ScanWorkerEnds,
      ReviewIndexLoaded, ReviewIndexFailed, SwitchRule, Create, BecomeDirectory, Browse,
      BrowseWorkerEnds, BrowseFails, StartBackup, BackupMade, BackupPreviewed, BackupFails,
      BackupMarksKnown, BackupRecords, stored
  <2> QED
    BY <2>1, <2>2
<1> QED
  BY <1>1, <1>2, <1>3, <1>4, <1>5

LEMMA DirsStay == [Next]_vars => dirs \subseteq dirs'
<1> SUFFICES ASSUME [Next]_vars PROVE dirs \subseteq dirs'
  OBVIOUS
<1>1. CASE UNCHANGED vars
  BY <1>1 DEF vars, world
<1>2. CASE Next
  BY <1>2 DEF Next, DelayedSchedule, RefreshReview, ScanDirectory, ScanWorkerEnds,
    ReviewIndexLoaded, ReviewIndexFailed, EditPolicy, SwitchRule, Create, BecomeDirectory, Browse,
    BrowseWorkerEnds, BrowseFails, BrowseLoaded, StartBackup, BackupMade, BackupPreviewed,
    BackupFails, BackupMarksKnown, BackupRecords, Restart, world
<1> QED
  BY <1>1, <1>2

\* A frozen folder is thawed by the first opening, which makes it recursive.
LEMMA FrozenEnds ==
  ASSUME [Next]_vars, NEW p \in Paths, policy[p] = "INCLUDE", policy'[p] = "INCLUDE", FrozenStill(p)
  PROVE  FrozenStill(p)'
<1>1. ~ Restart
  BY DEF Restart, Migrated, Thawed, FrozenStill
<1>2. opened' = opened
  <2>1. CASE UNCHANGED vars
    BY <2>1 DEF vars, stored
  <2>2. CASE Next
    BY <1>1, <2>2 DEF Next, DelayedSchedule, RefreshReview, ScanDirectory, ScanWorkerEnds,
      ReviewIndexLoaded, ReviewIndexFailed, EditPolicy, SwitchRule, Create, BecomeDirectory, Browse,
      BrowseWorkerEnds, BrowseFails, BrowseLoaded, StartBackup, BackupMade, BackupPreviewed,
      BackupFails, BackupMarksKnown, BackupRecords, stored
  <2> QED
    BY <2>1, <2>2
<1> QED
  BY <1>2 DEF FrozenStill

LEMMA ChosenAsFileStep ==
  ASSUME Typed, ChosenAsFile, [Next]_vars
  PROVE  ChosenAsFile'
<1>1. ASSUME NEW p \in Paths, policy'[p] = "INCLUDE" PROVE p \notin Dirs \/ FrozenStill(p)'
  <2>1. CASE policy'[p] = policy[p]
    BY <1>1, <2>1, FrozenEnds DEF ChosenAsFile
  <2>2. ASSUME NEW value \in Policies, EditPolicy(p, value) PROVE p \notin Dirs
    <3>1. policy'[p] = value
      BY <2>2, EditIsOf DEF Typed, Stored
    <3> QED
      BY <1>1, <2>2, <3>1, EditIsOf DEF ChosenAsFile
  <2> QED
    BY <1>1, <2>1, <2>2, OthersKeep
<1> QED
  BY <1>1, DirsStay DEF ChosenAsFile

(* A choice is changed by the user alone, whatever scans, browses, backups and restarts
   come between, but for a chosen file that gave way to a directory and for a folder an
   earlier version froze (cache.py:106-119, 222-233, main_window.py:1278-1279). *)
THEOREM OnlyTheUserChoosesAlways == Spec => OnlyTheUserChooses
<1>1. Init => Typed /\ ChosenAsFile
  BY InitTyped DEF Init, ChosenAsFile, FrozenStill
<1>2. Typed /\ ChosenAsFile /\ [Next]_vars => (Typed /\ ChosenAsFile)'
  BY TypedStep, ChosenAsFileStep
<1> DEFINE Chosen ==
      \A p \in Paths : policy[p] # "DEFAULT" /\ policy'[p] # policy[p] =>
        \/ \E value \in Policies : EditPolicy(p, value)
        \/ /\ policy[p] = "INCLUDE" /\ policy'[p] = "INCLUDE_RECURSIVE"
           /\ p \in dirs \ Dirs \/ (~ opened /\ p \in Frozen)
<1>3. Typed /\ ChosenAsFile /\ [Next]_vars => [Chosen]_vars
  BY OthersKeep DEF ChosenAsFile, FrozenStill
<1> QED
  BY <1>1, <1>2, <1>3, PTL DEF Spec, OnlyTheUserChooses
=============================================================================
