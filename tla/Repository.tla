------------------------------ MODULE Repository ------------------------------
(***************************************************************************)
(* The repositories of one backup root, one per domain, and the helpers    *)
(* that serve requests about them: backups, which write the stable state   *)
(* of their domain under its lock and then run Restic on it, and           *)
(* maintenance, which takes no lock (privileged/backup.py, maintenance.py, *)
(* manifest.py, paths.py, restic_engine.py).                               *)
(*                                                                         *)
(* Every window has its helper; a helper serves one request at a time and  *)
(* may die at any moment: the kernel then kills its Restic and releases    *)
(* its lock, and the files stay as they are.  A request is a number, and   *)
(* what a file holds is the number of the request it was written for.      *)
(* Restic is external: it saves a snapshot at one instant, and its own     *)
(* repository lock keeps a forget and any other command apart.             *)
(***************************************************************************)
EXTENDS Naturals, Sequences, FiniteSets

CONSTANTS
  Helpers, Components,
  Parts,        \* the files of a domain's state, in the order they are written
  MaxRequests,  \* a bound
  NoHelper

ASSUME RepositoryAssumption ==
  /\ Parts \in Seq({"excludes", "packages", "configs", "system", "manifest", "sources"})
  /\ MaxRequests \in Nat /\ NoHelper \notin Helpers

ASSUME PartsAssumption == Parts # <<>>

VARIABLES
  layout,   \* the domains whose directories exist
  lock,     \* the holder of each domain's flock
  state,    \* the files of each domain: whose they are
  repo,     \* the domains whose repository is initialised
  snaps,    \* the snapshots of each repository
  clock,    \* the local time Restic stamps on a snapshot
  autumn,   \* the clocks have gone back
  phase, job,  \* how far each helper is, and with which request
  next,     \* the next file a helper writes
  lists,    \* the files its Restic has read at its start
  targets,  \* the snapshots it forgets
  shown,    \* the history each window shows
  asked, told, receipt,  \* the requests, their answers and their receipts
  made      \* history: the requests whose snapshot was saved, in order

files == <<layout, lock, state, repo>>
helpers == <<phase, job, next, lists, targets>>
requests == <<asked, told, receipt>>
vars == <<files, snaps, clock, autumn, helpers, shown, requests, made>>

Ids == 1 .. MaxRequests
Fields == DOMAIN Parts
Lists == {f \in Fields : Parts[f] \in {"excludes", "sources"}}
NoJob == 0
NotAsked == [kind |-> "none"]

Comp(h) == asked[job[h]].comp
Kind(h) == asked[job[h]].kind

Holding == {"locked", "writing", "planned", "restic", "saved"}
Phases == {"idle", "entered", "making", "waiting", "engine", "checked", "forgetting"} \cup Holding

(* the order of _snapshots: by the text of the local time, the last first *)
IsFirst(s, set) == s \in set /\ \A other \in set : other.at <= s.at
Named(id, set) == {s \in set : s.id = id}

Init ==
  /\ layout = {} /\ repo = {}
  /\ lock = [c \in Components |-> NoHelper]
  /\ state = [c \in Components |-> [f \in Fields |-> 0]]
  /\ snaps = [c \in Components |-> {}]
  /\ clock = 4 /\ autumn = FALSE
  /\ phase = [h \in Helpers |-> "idle"] /\ job = [h \in Helpers |-> NoJob]
  /\ next = [h \in Helpers |-> 1] /\ lists = [h \in Helpers |-> [f \in Fields |-> 0]]
  /\ targets = [h \in Helpers |-> {}]
  /\ shown = [h \in Helpers |-> [c \in Components |-> {}]]
  /\ asked = [r \in Ids |-> NotAsked] /\ told = [r \in Ids |-> "none"]
  /\ receipt = [r \in Ids |-> 0] /\ made = <<>>

-----------------------------------------------------------------------------
(* The windows *)

Fresh(r) == asked[r] = NotAsked /\ \A q \in Ids : q < r => asked[q] # NotAsked

Begin(h, r, request) ==
  /\ phase[h] = "idle" /\ Fresh(r)
  /\ asked' = [asked EXCEPT ![r] = request]
  /\ job' = [job EXCEPT ![h] = r]
  /\ phase' = [phase EXCEPT ![h] = "entered"]
  /\ UNCHANGED <<files, snaps, clock, autumn, next, lists, targets, shown, told, receipt, made>>

BeginBackup(h, r, c, kind) ==
  Begin(h, r, [kind |-> kind, comp |-> c, named |-> r])

(* the buttons name the first row of the history as it was last loaded *)
BeginMaintenance(h, r, c, kind) ==
  \E s \in shown[h][c] :
    /\ IsFirst(s, shown[h][c])
    /\ kind = "consolidate" => Cardinality(shown[h][c]) > 1
    /\ Begin(h, r, [kind |-> kind, comp |-> c, named |-> s.id])

(* refresh_snapshots; a repository that does not exist has no snapshots *)
ShowHistory(h, c) ==
  /\ phase[h] = "idle" /\ shown[h][c] # snaps[c]
  /\ shown' = [shown EXCEPT ![h][c] = snaps[c]]
  /\ UNCHANGED <<files, snaps, clock, autumn, helpers, requests, made>>

-----------------------------------------------------------------------------
(* Both handlers: prepare_environment, then their own way *)

Goes(h, from, to) == phase[h] = from /\ phase' = [phase EXCEPT ![h] = to]
IsBackup(h) == Kind(h) \in {"backup", "preview"}
AfterPrepare(h) == IF IsBackup(h) THEN "waiting" ELSE "engine"

Prepare(h) ==
  /\ Goes(h, "entered", IF Comp(h) \in layout THEN AfterPrepare(h) ELSE "making")
  /\ UNCHANGED <<files, snaps, clock, autumn, job, next, lists, targets, shown, requests, made>>

\* Fault: the directories of the layout before domains
MakeLayoutShared(h) ==
  /\ Goes(h, "making", AfterPrepare(h))
  /\ UNCHANGED <<files, snaps, clock, autumn, job, next, lists, targets, shown, requests, made>>

(* mkdir without exist_ok: Answer covers the one that comes second *)
MakeLayout(h) ==
  /\ Goes(h, "making", AfterPrepare(h))
  /\ Comp(h) \notin layout
  /\ layout' = layout \cup {Comp(h)}
  /\ UNCHANGED <<lock, state, repo, snaps, clock, autumn, job, next, lists, targets, shown, requests, made>>

\* Fault: the lock is only looked at
AcquireLockShared(h) ==
  /\ Goes(h, "waiting", "locked")
  /\ lock' = [lock EXCEPT ![Comp(h)] = h]
  /\ UNCHANGED <<layout, state, repo, snaps, clock, autumn, job, next, lists, targets, shown, requests, made>>

(* _backup_lock: LOCK_EX waits *)
AcquireLock(h) ==
  /\ Goes(h, "waiting", "locked")
  /\ lock[Comp(h)] = NoHelper
  /\ lock' = [lock EXCEPT ![Comp(h)] = h]
  /\ UNCHANGED <<layout, state, repo, snaps, clock, autumn, job, next, lists, targets, shown, requests, made>>

(* _merge_discovery and _request_paths: the plan is built from this helper's own
   inventory *)
Discover(h) ==
  /\ Goes(h, "locked", "writing")
  /\ next' = [next EXCEPT ![h] = 1]
  /\ UNCHANGED <<files, snaps, clock, autumn, job, lists, targets, shown, requests, made>>

\* Fault: a file that exists is kept
WritePartOnce(h) ==
  /\ phase[h] = "writing" /\ next[h] \in Fields
  /\ state' = IF state[Comp(h)][next[h]] = 0
              THEN [state EXCEPT ![Comp(h)][next[h]] = job[h]] ELSE state
  /\ next' = [next EXCEPT ![h] = @ + 1]
  /\ UNCHANGED <<layout, lock, repo, snaps, clock, autumn, phase, job, lists, targets, shown, requests, made>>

(* build_state: each file is replaced atomically, one after the other *)
WritePart(h) ==
  /\ phase[h] = "writing" /\ next[h] \in Fields
  /\ state' = [state EXCEPT ![Comp(h)][next[h]] = job[h]]
  /\ next' = [next EXCEPT ![h] = @ + 1]
  /\ UNCHANGED <<layout, lock, repo, snaps, clock, autumn, phase, job, lists, targets, shown, requests, made>>

PlanWritten(h) ==
  /\ next[h] \notin Fields
  /\ Goes(h, "writing", "planned")
  /\ UNCHANGED <<files, snaps, clock, autumn, job, next, lists, targets, shown, requests, made>>

(* Restic's own lock: forgetting excludes every other command *)
NobodyForgets(h) == \A g \in Helpers \ {h} : phase[g] = "forgetting" => Comp(g) # Comp(h)
NobodyRuns(h) == \A g \in Helpers \ {h} : phase[g] \in {"restic", "forgetting"} => Comp(g) # Comp(h)

(* ResticEngine.backup: the repository is initialised first if it has no
   configuration; Restic reads the two lists *)
StartRestic(h) ==
  /\ Goes(h, "planned", "restic")
  /\ NobodyForgets(h)
  /\ repo' = repo \cup {Comp(h)}
  /\ lists' = [lists EXCEPT ![h] = state[Comp(h)]]
  /\ UNCHANGED <<layout, lock, state, snaps, clock, autumn, job, next, targets, shown, requests, made>>

(* Restic reads the other files and saves; a file it cannot read leaves a
   partial snapshot.  --dry-run saves nothing. *)
ResticSaves(h, whole) ==
  /\ Goes(h, "restic", "saved")
  /\ IF Kind(h) = "preview" THEN UNCHANGED <<snaps, clock, made>>
     ELSE /\ snaps' = [snaps EXCEPT ![Comp(h)] = @ \cup
               {[id |-> job[h], at |-> clock, whole |-> whole,
                 parts |-> [f \in Fields |-> IF f \in Lists THEN lists[h][f] ELSE state[Comp(h)][f]]]}]
          /\ clock' = clock + 2
          /\ made' = Append(made, job[h])
  /\ UNCHANGED <<files, autumn, job, next, lists, targets, shown, requests>>

\* Fault: the snapshot to keep is among those to forget
CheckLatestAll(h) ==
  /\ Goes(h, "engine", "checked")
  /\ Comp(h) \in repo /\ NobodyForgets(h)
  /\ targets' = [targets EXCEPT ![h] = {s.id : s \in snaps[Comp(h)]}]
  /\ UNCHANGED <<files, snaps, clock, autumn, job, next, lists, shown, requests, made>>

(* maintenance: the snapshot named must be the first of the listing *)
CheckLatest(h) ==
  /\ Goes(h, "engine", "checked")
  /\ Comp(h) \in repo /\ NobodyForgets(h)
  /\ \E s \in snaps[Comp(h)] :
       /\ IsFirst(s, snaps[Comp(h)]) /\ s.id = asked[job[h]].named
       /\ targets' = [targets EXCEPT ![h] = IF Kind(h) = "delete" THEN {s.id}
                        ELSE {other.id : other \in snaps[Comp(h)]} \ {s.id}]
  /\ UNCHANGED <<files, snaps, clock, autumn, job, next, lists, shown, requests, made>>

(* forget_snapshots: restic forget of the ids found *)
StartForget(h) ==
  /\ Goes(h, "checked", "forgetting")
  /\ targets[h] # {} /\ NobodyRuns(h)
  /\ UNCHANGED <<files, snaps, clock, autumn, job, next, lists, targets, shown, requests, made>>

ForgetOne(h, id) ==
  /\ phase[h] = "forgetting" /\ id \in targets[h]
  /\ targets' = [targets EXCEPT ![h] = @ \ {id}]
  /\ snaps' = [snaps EXCEPT ![Comp(h)] = @ \ Named(id, @)]
  /\ UNCHANGED <<files, clock, autumn, phase, job, next, lists, shown, requests, made>>

-----------------------------------------------------------------------------
(* The end of a request *)

(* len(source_set) of build_state: what is saved and the state's files *)
SourceCount == Len(Parts) + 1
Manifest == [effective_source_count |-> SourceCount]

(* _backup_receipt counts a list the manifest does not have *)
Receipt == IF "effective_sources" \in DOMAIN Manifest THEN SourceCount ELSE 0

Released(h) == [c \in Components |-> IF lock[c] = h THEN NoHelper ELSE lock[c]]

Ends(h, answer) ==
  /\ told' = [told EXCEPT ![job[h]] = answer]
  /\ phase' = [phase EXCEPT ![h] = "idle"] /\ job' = [job EXCEPT ![h] = NoJob]
  /\ targets' = [targets EXCEPT ![h] = {}]
  /\ UNCHANGED <<layout, state, repo, snaps, clock, autumn, next, lists, shown, asked, made>>

Succeed(h) ==
  /\ \/ phase[h] = "saved"
     \/ phase[h] \in {"checked", "forgetting"} /\ targets[h] = {}
  /\ receipt' = [receipt EXCEPT ![job[h]] = IF IsBackup(h) THEN Receipt ELSE 0]
  /\ lock' = Released(h)
  /\ Ends(h, "ok")

\* Fault: an error leaves the lock behind
AnswerLocked(h) ==
  /\ phase[h] \notin {"idle", "waiting"}
  /\ UNCHANGED <<lock, receipt>>
  /\ Ends(h, "failed")

(* any step may raise, be cancelled or time out; Restic's group is terminated
   and reaped before the lock is released *)
Answer(h) ==
  /\ phase[h] \notin {"idle", "waiting"}
  /\ lock' = Released(h) /\ UNCHANGED receipt
  /\ Ends(h, "failed")

(* the helper dies, its Restic with it, and the kernel releases the lock *)
Crash(h) ==
  /\ phase[h] # "idle"
  /\ lock' = Released(h) /\ UNCHANGED receipt
  /\ Ends(h, "failed")

(* the end of summer time *)
ClocksGoBack ==
  /\ ~ autumn /\ clock >= 3
  /\ autumn' = TRUE /\ clock' = clock - 3
  /\ UNCHANGED <<files, snaps, helpers, shown, requests, made>>

-----------------------------------------------------------------------------
Step(h) ==
  \/ Prepare(h) \/ MakeLayout(h)
  \/ AcquireLock(h) \/ Discover(h) \/ WritePart(h) \/ PlanWritten(h)
  \/ StartRestic(h) \/ \E whole \in BOOLEAN : ResticSaves(h, whole)
  \/ CheckLatest(h) \/ StartForget(h) \/ \E id \in Ids : ForgetOne(h, id)
  \/ Succeed(h) \/ Answer(h)

Next ==
  \/ \E h \in Helpers : Step(h) \/ Crash(h)
  \/ \E h \in Helpers, r \in Ids, c \in Components :
       \/ \E kind \in {"backup", "preview"} : BeginBackup(h, r, c, kind)
       \/ \E kind \in {"delete", "consolidate"} : BeginMaintenance(h, r, c, kind)
  \/ \E h \in Helpers, c \in Components : ShowHistory(h, c)
  \/ ClocksGoBack

Spec == Init /\ [][Next]_vars

(* A helper that runs proceeds: its commands have time limits. *)
FairSpec == Spec /\ \A h \in Helpers : WF_vars(Step(h))

-----------------------------------------------------------------------------
(* The types of the variables; a repository is only initialised in a domain whose
   directories exist (paths.py:319-395). *)
TypeOK ==
  /\ layout \subseteq Components /\ repo \subseteq layout
  /\ lock \in [Components -> Helpers \cup {NoHelper}]
  /\ state \in [Components -> [Fields -> 0 .. MaxRequests]]
  /\ clock \in Nat /\ autumn \in BOOLEAN
  /\ phase \in [Helpers -> Phases] /\ job \in [Helpers -> 0 .. MaxRequests]
  /\ next \in [Helpers -> Nat] /\ lists \in [Helpers -> [Fields -> 0 .. MaxRequests]]
  /\ targets \in [Helpers -> SUBSET Ids]

(* Two helpers never write the state of a domain, or run a backup of it, at the
   same time, whatever ends or dies (backup.py:369-384, 391-392). *)
OneWriter ==
  \A g, h \in Helpers :
    g # h /\ phase[g] \in Holding /\ phase[h] \in Holding => Comp(g) # Comp(h)

(* Every snapshot holds the lists, inventories and manifest of one request, the
   one that made it, whatever a dead helper left in the state (backup.py:388-392,
   manifest.py:60-122). *)
SnapshotIsOnePlan ==
  \A c \in Components : \A s \in snaps[c] : \A f \in Fields : s.parts[f] = s.id

(* The repositories keep what Archive promises. *)
A == INSTANCE Archive WITH
       Ids <- Ids, Components <- Components, Fields <- Fields,
       asked <- asked, told <- told,
       made <- {made[i] : i \in DOMAIN made},
       holds <- [c \in Components |-> {s.parts : s \in snaps[c]}]
Implements == A!Spec

(* A request ends, whoever waits for the lock and whatever dies: the lock of a
   domain is not kept by who has left (backup.py:369-384). *)
EveryRequestEnds == \A h \in Helpers : phase[h] # "idle" ~> phase[h] = "idle"

Removed(c) == snaps[c] \ snaps'[c]
RemovedBy(h, kind) == IF phase[h] = "forgetting" /\ Kind(h) = kind THEN Removed(Comp(h)) ELSE {}

(* maintenance.py:58 "only the latest UBackup snapshot can be modified" (violated:
   a backup of another window ends between the check and the forget). *)
DeletesOnlyLatest ==
  [][\A h \in Helpers : \A s \in RemovedBy(h, "delete") : IsFirst(s, snaps[Comp(h)])]_vars

(* maintenance.py:66 "retaining latest and forgetting older versions" (violated:
   local times with offsets are compared as text, restic_engine.py:435). *)
ConsolidationForgetsOlder ==
  [][\A h \in Helpers : \A s \in RemovedBy(h, "consolidate") :
       \E i, j \in DOMAIN made : i < j /\ made[i] = s.id /\ made[j] = asked[job[h]].named]_vars

(* README.md:18 "remove compatible older history after coverage checks" (violated:
   a partial snapshot is kept and a complete one removed). *)
ConsolidationKeepsCoverage ==
  [][\A h \in Helpers : \A s \in RemovedBy(h, "consolidate") :
       s.whole => \A kept \in Named(asked[job[h]].named, snaps[Comp(h)]) : kept.whole]_vars

(* tests/test_privilege_phase2.py:446 takes the receipt's count to be that of the
   effective sources (violated: build_state writes no such list, and the receipt
   says 0). *)
ReceiptCounts ==
  \A r \in Ids : told[r] = "ok" /\ asked[r].kind \in {"backup", "preview"} =>
    receipt[r] = Manifest.effective_source_count
=============================================================================
