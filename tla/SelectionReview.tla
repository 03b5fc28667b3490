--------------------------- MODULE SelectionReview ---------------------------
(***************************************************************************)
(* What the window knows about new content: the review scan that looks for *)
(* unselected paths the last snapshot does not know, the browsing of       *)
(* directories, the backup that makes the seen paths known, and the cache  *)
(* database all of them outlive (main_window.py, cache.py).                *)
(*                                                                         *)
(* One thread runs the window; workers run the listings of a scan, a       *)
(* browse and the backup, and the session serves one of them at a time.    *)
(* Their results come back as queued calls.  Snapshots are numbered, 0 is  *)
(* none.  A scan looks policies and known paths up when it meets a path,   *)
(* with the rules, the sources and the snapshot of its start.              *)
(***************************************************************************)
EXTENDS SelectionRules

CONSTANTS
  Touched,       \* the rows whose policy the user edits: a bound
  Volatile,      \* the paths that come and go: a bound
  Legacy,        \* the sources checked in a database of the boolean model
  LegacyOff,     \* the sources unchecked in it
  Frozen,        \* the folders chosen in a database of the frozen model
  MaxSnapshots,  \* a bound
  MaxDelays      \* a bound on the pending timers of a delayed refresh

ASSUME ReviewAssumption ==
  /\ Touched \subseteq Paths /\ Volatile \subseteq Paths /\ Legacy \subseteq Paths \ HardPaths
  /\ LegacyOff \subseteq Paths \ (HardPaths \cup Legacy) /\ Frozen \subseteq Paths \ HardPaths
  /\ Dirs \subseteq Paths
  /\ MaxSnapshots \in Nat \ {0} /\ MaxDelays \in Nat \ {0}

VARIABLES
  policy,    \* cache.path_policies
  on,        \* the rules whose switch is on (cache.selections)
  known,     \* cache.known_paths: the snapshot each path is known to
  saved,     \* cache.kv: last_successful_manifest
  opened,    \* this version has opened the database: fixed_selection_members is empty
  manifest,  \* last_manifest
  disk,      \* the paths that exist
  dirs,      \* the paths that are directories
  seen,      \* _seen_paths
  review,    \* _new_unselected_paths
  scan,      \* the review refresh: _review_scan_scheduled and its worker
  delays,    \* pending timers of a delayed refresh
  browse,    \* the worker of _load_children
  rows,      \* the rows of the tree
  backup,    \* the worker of _start_backup
  contents   \* the paths in each snapshot

stored == <<policy, on, known, saved, opened>>
shown == <<seen, review, rows>>
workers == <<scan, delays, browse, backup>>
world == <<disk, dirs>>
vars == <<stored, shown, workers, manifest, world, contents>>

RuleSet == {Rules[i] : i \in DOMAIN Rules}
NoManifest == [sources |-> {}, id |-> 0]
NoScan == [phase |-> "off", todo |-> {}, prev |-> NoManifest, on |-> {},
           seen |-> {}, new |-> {}, calm |-> FALSE]
NoBrowse == [phase |-> "off", dir |-> BackupRoot, prev |-> 0, records |-> {}, known |-> {}]
NoBackup == [phase |-> "off", request |-> {}]

Parent(p, q) == q \in Above[p] \ {p} /\ Above[p] \ {p} \subseteq Above[q]
Children == [d \in Paths |-> {p \in Paths : Parent(p, d)}]

KnownTo(id) == {p \in Paths : known[p] = id}
Context(prev) == [has |-> prev.id # 0, known |-> KnownTo(prev.id), sources |-> prev.sources]

(* a scan that nothing disturbs shows what there is when it ends *)
Stirred == [scan EXCEPT !.calm = FALSE]

(* The window is closed, and the database is new, or one of the boolean model
   or one whose folders are frozen. *)
Init ==
  /\ \E frozen \in {{}, Frozen} :
       policy = [p \in Paths |-> IF p \in frozen THEN "INCLUDE" ELSE "DEFAULT"]
  /\ opened = FALSE /\ on = RuleSet
  /\ known = [p \in Paths |-> 0]
  /\ saved = NoManifest /\ manifest = NoManifest
  /\ disk = Paths \ Volatile /\ dirs = Dirs
  /\ seen = {} /\ review = {} /\ rows = {}
  /\ scan = NoScan /\ delays = 0 /\ browse = NoBrowse /\ backup = NoBackup
  /\ contents = [id \in 1 .. MaxSnapshots |-> {}]

-----------------------------------------------------------------------------
(* The review refresh *)

(* _schedule_review_refresh: nothing while one is scheduled or running *)
Scheduled == IF scan.phase = "off" THEN [NoScan EXCEPT !.phase = "timer"] ELSE Stirred

DelayedSchedule ==
  /\ delays > 0
  /\ delays' = delays - 1
  /\ scan' = IF scan.phase = "off" THEN Scheduled ELSE scan
  /\ UNCHANGED <<stored, shown, browse, backup, manifest, world, contents>>

(* refresh_review_index: browsing goes first; then the directories, the rules
   and the manifest of this moment *)
RefreshReview ==
  /\ scan.phase = "timer"
  /\ IF browse.phase # "off"
     THEN /\ delays < MaxDelays
          /\ delays' = delays + 1
          /\ scan' = NoScan
     ELSE /\ scan' = [phase |-> "running", todo |-> WatchDirectories(policy),
                      prev |-> manifest, on |-> on, seen |-> {}, new |-> {}, calm |-> TRUE]
          /\ UNCHANGED delays
  /\ UNCHANGED <<stored, shown, browse, backup, manifest, world, contents>>

(* task: one directory is listed and its entries are resolved *)
ScanDirectory(d) ==
  /\ scan.phase = "running" /\ d \in scan.todo
  /\ backup.phase # "running"
  /\ LET entries == Children[d] \cap disk
         new == {p \in entries : BackupState(policy, scan.on, Context(scan.prev), p) = "REVIEW_REQUIRED"}
     IN  scan' = [scan EXCEPT !.todo = @ \ {d}, !.seen = @ \cup entries \cup {d}, !.new = @ \cup new]
  /\ UNCHANGED <<stored, shown, delays, browse, backup, manifest, world, contents>>

ScanWorkerEnds ==
  /\ scan.phase = "running"
  /\ \/ scan.todo = {} /\ scan' = [scan EXCEPT !.phase = "result"]
     \/ scan.todo # {} /\ scan' = [scan EXCEPT !.phase = "error"]
  /\ UNCHANGED <<stored, shown, delays, browse, backup, manifest, world, contents>>

\* Fault: the findings of earlier scans are kept
ReviewIndexLoadedMerged ==
  /\ scan.phase = "result"
  /\ seen' = seen \cup scan.seen
  /\ review' = review \cup scan.new
  /\ scan' = [NoScan EXCEPT !.calm = scan.calm]
  /\ UNCHANGED <<stored, rows, delays, browse, backup, manifest, world, contents>>

(* _review_index_loaded *)
ReviewIndexLoaded ==
  /\ scan.phase = "result"
  /\ seen' = seen \cup scan.seen
  /\ review' = scan.new
  /\ scan' = [NoScan EXCEPT !.calm = scan.calm]
  /\ UNCHANGED <<stored, rows, delays, browse, backup, manifest, world, contents>>

\* Fault: the flag stays set
ReviewIndexFailedFlagged ==
  /\ scan.phase = "error"
  /\ UNCHANGED vars

(* _review_index_failed *)
ReviewIndexFailed ==
  /\ scan.phase = "error"
  /\ scan' = NoScan
  /\ UNCHANGED <<stored, shown, delays, browse, backup, manifest, world, contents>>

-----------------------------------------------------------------------------
(* Edits: a policy, a rule; the file system changes on its own *)

EditPolicy(p, value) ==
  /\ opened /\ p \notin HardPaths /\ value # policy[p]
  /\ value = "INCLUDE_RECURSIVE" => p \in dirs
  /\ value = "INCLUDE" => p \notin dirs
  /\ policy' = [policy EXCEPT ![p] = value]
  /\ scan' = Scheduled
  /\ UNCHANGED <<on, known, saved, opened, shown, delays, browse, backup, manifest, world, contents>>

(* _exclude_changed: the tree is populated anew *)
SwitchRule(rule) ==
  /\ opened /\ browse.phase = "off"
  /\ on' = IF rule \in on THEN on \ {rule} ELSE on \cup {rule}
  /\ rows' = {}
  /\ scan' = Scheduled
  /\ UNCHANGED <<policy, known, saved, opened, seen, review, delays, browse, backup, manifest, world, contents>>

Create(p) ==
  /\ p \in Volatile \ disk
  /\ Above[p] \ {p} \subseteq disk
  /\ disk' = disk \cup {p}
  /\ scan' = Stirred
  /\ UNCHANGED <<dirs, stored, shown, delays, browse, backup, manifest, contents>>

(* a file gives way to a directory of its name *)
BecomeDirectory(p) ==
  /\ p \in (Volatile \cap disk) \ dirs
  /\ dirs' = dirs \cup {p}
  /\ UNCHANGED <<disk, stored, shown, workers, manifest, contents>>

-----------------------------------------------------------------------------
(* Browsing *)

(* _load_children: the snapshot of this moment goes with the worker *)
Browse(d) ==
  /\ opened /\ browse.phase = "off"
  /\ d \in (dirs \cap disk) \ HardPaths
  /\ browse' = [NoBrowse EXCEPT !.phase = "running", !.dir = d, !.prev = manifest.id]
  /\ UNCHANGED <<stored, shown, scan, delays, backup, manifest, world, contents>>

BrowseWorkerEnds ==
  /\ browse.phase = "running" /\ backup.phase # "running"
  /\ LET entries == Children[browse.dir] \cap disk IN
     browse' = [browse EXCEPT !.phase = "result", !.records = entries,
                  !.known = IF browse.prev = 0 THEN {}
                            ELSE (entries \cup {browse.dir}) \cap KnownTo(browse.prev)]
  /\ UNCHANGED <<stored, shown, scan, delays, backup, manifest, world, contents>>

(* _fs_children_failed *)
BrowseFails ==
  /\ browse.phase = "running"
  /\ browse' = NoBrowse
  /\ UNCHANGED <<stored, shown, scan, delays, backup, manifest, world, contents>>

(* _display_backup_state *)
Displayed(state, p) ==
  IF state \in {"MANUALLY_EXCLUDED", "PRECONFIGURED_EXCLUDED", "SYSTEM_EXCLUDED"} THEN state
  ELSE IF p \in ReviewAncestors(review) THEN "REVIEW_REQUIRED" ELSE state

(* _fs_children_loaded: rows are made or painted with the known paths the
   worker brought; a new row of a directory migrates its policy *)
BrowseLoaded ==
  /\ browse.phase = "result"
  /\ LET fresh == browse.records \ rows
         migrated == [p \in Paths |->
                        IF p \in fresh \cap dirs /\ policy[p] = "INCLUDE"
                        THEN "INCLUDE_RECURSIVE" ELSE policy[p]]
         context == [has |-> manifest.id # 0, known |-> browse.known, sources |-> manifest.sources]
         states == [p \in browse.records |->
                      Displayed(BackupState(migrated, on, context, p), p)]
     IN  /\ seen' = seen \cup fresh
         /\ policy' = migrated
         /\ review' = review \cup {p \in browse.records : states[p] = "REVIEW_REQUIRED"}
         /\ rows' = (rows \ Children[browse.dir]) \cup browse.records
  /\ browse' = NoBrowse
  /\ scan' = Stirred
  /\ UNCHANGED <<on, known, saved, opened, delays, backup, manifest, world, contents>>

-----------------------------------------------------------------------------
(* The backup of the filesystem *)

(* _start_backup *)
StartBackup ==
  /\ opened /\ backup.phase = "off" /\ contents[MaxSnapshots] = {}
  /\ backup' = [phase |-> "running", request |-> Saved(Request(policy, on))]
  /\ UNCHANGED <<stored, shown, scan, delays, browse, manifest, world, contents>>

NextId == CHOOSE id \in 1 .. MaxSnapshots :
            contents[id] = {} /\ \A other \in 1 .. id - 1 : contents[other] # {}

(* the helper makes the snapshot; its progress names what it saves *)
BackupMade ==
  /\ backup.phase = "running" /\ backup.request \cap disk # {}
  /\ contents' = [contents EXCEPT ![NextId] = backup.request \cap disk]
  /\ seen' = seen \cup (backup.request \cap disk)
  /\ backup' = [backup EXCEPT !.phase = "done"]
  /\ UNCHANGED <<stored, review, rows, scan, delays, browse, manifest, world>>

(* a dry run names the same paths *)
BackupPreviewed ==
  /\ backup.phase = "running" /\ backup.request # {}
  /\ seen' = seen \cup (backup.request \cap disk)
  /\ backup' = NoBackup
  /\ UNCHANGED <<stored, review, rows, scan, delays, browse, manifest, world, contents>>

BackupFails ==
  /\ backup.phase = "running"
  /\ backup' = NoBackup
  /\ UNCHANGED <<stored, shown, scan, delays, browse, manifest, world, contents>>

LastId == CHOOSE id \in 1 .. MaxSnapshots :
            contents[id] # {} /\ \A other \in id + 1 .. MaxSnapshots : contents[other] = {}

(* mark_paths_known, committed on its own *)
BackupMarksKnown ==
  /\ backup.phase = "done"
  /\ known' = [p \in Paths |-> IF p \in seen THEN LastId ELSE known[p]]
  /\ backup' = [backup EXCEPT !.phase = "marked"]
  /\ scan' = Stirred
  /\ UNCHANGED <<policy, on, saved, opened, shown, delays, browse, manifest, world, contents>>

\* Fault: the manifest is not stored
BackupRecordsInMemory ==
  /\ backup.phase = "marked"
  /\ manifest' = [sources |-> SelectedSources(policy, on), id |-> LastId]
  /\ seen' = {} /\ rows' = {}
  /\ backup' = NoBackup
  /\ scan' = Scheduled
  /\ UNCHANGED <<policy, on, known, saved, opened, review, delays, browse, world, contents>>

(* _backup_done: the manifest takes the selection of this moment *)
BackupRecords ==
  /\ backup.phase = "marked"
  /\ manifest' = [sources |-> SelectedSources(policy, on), id |-> LastId]
  /\ saved' = manifest'
  /\ seen' = {} /\ rows' = {}
  /\ backup' = NoBackup
  /\ scan' = Scheduled
  /\ UNCHANGED <<policy, on, known, opened, review, delays, browse, world, contents>>

-----------------------------------------------------------------------------
\* Fault: the boolean sources are taken over whatever the policies are
MigratedAlways == [p \in Paths |-> IF p \in Legacy THEN "INCLUDE_RECURSIVE" ELSE policy[p]]

(* _migrate_fixed_selection_semantics: a frozen folder becomes a recursive one, and
   the table of the frozen folders is emptied *)
Thawed(p) ==
  IF ~ opened /\ p \in Frozen /\ policy[p] = "INCLUDE" THEN "INCLUDE_RECURSIVE" ELSE policy[p]

(* _migrate_source_selections: only when there is no policy at all *)
Migrated ==
  [p \in Paths |->
     IF \A q \in Paths : policy[q] = "DEFAULT"
     THEN CASE p \in Legacy -> "INCLUDE_RECURSIVE"
            [] p \in LegacyOff -> "EXCLUDE"
            [] OTHER -> "DEFAULT"
     ELSE Thawed(p)]

(* The window is opened, after it was closed or killed if it ever was *)
Restart ==
  /\ backup.phase # "running"
  /\ policy' = Migrated /\ opened' = TRUE
  /\ manifest' = saved
  /\ seen' = {} /\ review' = {} /\ rows' = {}
  /\ scan' = NoScan /\ delays' = 1 /\ browse' = NoBrowse /\ backup' = NoBackup
  /\ UNCHANGED <<on, known, saved, world, contents>>

Next ==
  \/ DelayedSchedule \/ RefreshReview \/ ScanWorkerEnds
  \/ \E d \in Paths : ScanDirectory(d)
  \/ ReviewIndexLoaded \/ ReviewIndexFailed
  \/ \E p \in Touched, value \in Policies : EditPolicy(p, value)
  \/ \E rule \in RuleSet : SwitchRule(rule)
  \/ \E p \in Volatile : Create(p)
  \/ \E p \in Volatile : BecomeDirectory(p)
  \/ \E d \in Paths : Browse(d)
  \/ BrowseWorkerEnds \/ BrowseFails \/ BrowseLoaded
  \/ StartBackup \/ BackupMade \/ BackupPreviewed \/ BackupFails \/ BackupMarksKnown \/ BackupRecords
  \/ Restart

Spec == Init /\ [][Next]_vars

(* Timers fire, workers end, queued results are delivered: the refresh, the
   browse and the backup each go on while they can. *)
RefreshGoesOn == RefreshReview \/ ScanWorkerEnds \/ ReviewIndexLoaded \/ ReviewIndexFailed
BrowseGoesOn == BrowseWorkerEnds \/ BrowseLoaded
BackupGoesOn == BackupMade \/ BackupPreviewed \/ BackupFails \/ BackupMarksKnown \/ BackupRecords

Fairness ==
  /\ WF_vars(DelayedSchedule) /\ WF_vars(RefreshGoesOn)
  /\ WF_vars(BrowseGoesOn) /\ WF_vars(BackupGoesOn)

FairSpec == Spec /\ Fairness

-----------------------------------------------------------------------------
(* The types of the variables; the manifest in memory is always the stored one
   (main_window.py:3099-3104), and a scan only finds what it has seen. *)
TypeOK ==
  /\ policy \in [Paths -> Policies] /\ on \subseteq RuleSet /\ opened \in BOOLEAN
  /\ known \in [Paths -> 0 .. MaxSnapshots]
  /\ saved.id \in 0 .. MaxSnapshots /\ manifest = saved
  /\ disk \subseteq Paths /\ dirs \subseteq Paths
  /\ seen \cup review \cup rows \cup scan.seen \cup scan.todo \cup browse.records \subseteq Paths
  /\ scan.new \subseteq scan.seen
  /\ scan.phase \in {"off", "timer", "running", "result", "error"}
  /\ browse.phase \in {"off", "running", "result"}
  /\ backup.phase \in {"off", "running", "done", "marked"}
  /\ delays \in 0 .. MaxDelays

(* What needs review by the policies, rules, manifest and files of now. *)
NeedsReview ==
  {p \in disk : /\ \E d \in WatchDirectories(policy) : p \in Children[d]
                /\ BackupState(policy, on, Context(manifest), p) = "REVIEW_REQUIRED"}

(* A scan during which no policy, rule, file, manifest or known path changes
   leaves exactly the paths that need review, whatever was shown before and
   whatever browsing and backups ran meanwhile (main_window.py:2420-2475). *)
UndisturbedReviewIsExact == scan.phase = "off" /\ scan.calm => review = NeedsReview

(* Only the user changes a choice: no scan, browse, backup, failure or restart does,
   also when the database still holds sources of the boolean model. Two choices become
   recursive on their own: a file that has given way to a directory, which a browse
   takes with all that is below it, and a folder that an earlier version froze, when the
   database is opened for the first time (cache.py:106-119, 222-233,
   main_window.py:1278-1279). *)
OnlyTheUserChooses ==
  [][\A p \in Paths : policy[p] # "DEFAULT" /\ policy'[p] # policy[p] =>
       \/ \E value \in Policies : EditPolicy(p, value)
       \/ /\ policy[p] = "INCLUDE" /\ policy'[p] = "INCLUDE_RECURSIVE"
          /\ p \in dirs \ Dirs \/ (~ opened /\ p \in Frozen)]_vars

(* The flag of the review refresh is released whatever browsing, backups and
   failures come between, or no refresh would run again
   (main_window.py:2414-2430, 2469-2479). *)
RefreshEnds == scan.phase # "off" ~> scan.phase = "off"

(* An edit is followed by a scan that starts after it: main_window.py:2464-2465
   "It is maintenance work triggered by policy/cache changes" (violated: an edit
   during a scan schedules nothing, main_window.py:2415). *)
EditsAreReviewed ==
  [][\A p \in Touched, value \in Policies : EditPolicy(p, value) => scan'.phase = "timer"]_vars

(* A path shown as backed up is in the snapshot the window refers to:
   README.md:97 "compared with the filesystem inventory associated with the last
   successful snapshot" (violated: main_window.py:3099). *)
BackedUpIsInSnapshot ==
  manifest.id # 0 => \A p \in disk :
    BackupState(policy, on, Context(manifest), p) = "BACKED_UP" => p \in contents[manifest.id]

(* What has been there all the time is not new: README.md:97 "A newly discovered
   path" (violated: the inventory of a snapshot is what the window happened to see
   since the one before, main_window.py:3097-3104). *)
ReviewIsNew == review \subseteq Volatile

(* README.md:93 "Browsing/expanding alone never changes policy" (violated:
   main_window.py:1278-1279). *)
BrowsingKeepsPolicy == [][BrowseLoaded => UNCHANGED policy]_vars

(* cache.py:223 "without discarding user intent" (violated: a user who has
   cleared every policy gets the old sources back). *)
RestartKeepsPolicies == [][Restart => UNCHANGED policy]_vars
=============================================================================
