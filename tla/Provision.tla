------------------------------ MODULE Provision ------------------------------
(***************************************************************************)
(* Admission of the backup root and provisioning of a user's directories   *)
(* by the privileged helpers of several windows (privileged/configure.py), *)
(* and the private tree a helper makes for its own requests                *)
(* (PrivilegedPaths.prepare_environment, paths.py).                        *)
(*                                                                         *)
(* A directory is named with the owner it must have.  Of a mode it matters *)
(* whether only the owner enters ("private"), others pass ("passable") or  *)
(* others write ("writable").  Every look and every change is one step;    *)
(* before every change the helper may find that it was cancelled, and any  *)
(* system call may fail and refuses then (CallFails).  An admission looks  *)
(* twice at a root it does not find; the two looks are one step here.      *)
(***************************************************************************)
EXTENDS Naturals, Sequences

CONSTANTS
  Helpers,    \* the helpers that provision a user's directories
  Preparers,  \* the helpers that make the private tree of a request
  UserOf      \* the user a helper was started for

Users == {UserOf[h] : h \in Helpers}

ASSUME ProvisionAssumption == Users \cap {"root", "stranger"} = {} /\ Helpers \cap Preparers = {}

Backup == <<"backup", "root">>
Internal == <<"internal", "root">>
UsersDir == <<"users", "root">>
Plans == <<"plans", "root">>

(* GuiPaths.directories: the leaf and what is below it, by one member *)
Leaf(u) == <<"leaf", u>>
State(u) == <<"state", u>>

Parents == {Backup, Internal, UsersDir}
Dirs == Parents \cup {Plans} \cup {Leaf(u) : u \in Users} \cup {State(u) : u \in Users}
OwnerOf(d) == d[2]
ModeOf(d) == IF d \in Parents THEN "passable" ELSE "private"

(* the directories in the order they are made; each parent comes first *)
Program(h) ==
  IF h \in Helpers THEN <<Internal, UsersDir, Leaf(UserOf[h]), State(UserOf[h])>>
                   ELSE <<Internal, Plans>>
ParentOf(d) ==
  IF d = Internal THEN Backup
  ELSE IF d \in {UsersDir, Plans} THEN Internal
  ELSE IF d \in {Leaf(u) : u \in Users} THEN UsersDir
  ELSE Leaf(OwnerOf(d))

Absent == [owner |-> "nobody", mode |-> "none"]

VARIABLES
  tree,     \* the directories
  root,     \* the backup root: its identity, custom or default, approved
  phase,    \* how far each helper is
  at,       \* the index in its program
  seen,     \* the identity of the root it has admitted
  code,     \* why it refused
  touched,  \* history: the helpers that changed something after admission
  alone,    \* history: the helpers that met no other one alive
  removed   \* history: the directories users removed

helper == <<phase, at, seen, code, touched, alone>>
vars == <<tree, root, helper, removed>>

All == Helpers \cup Preparers
Over == {"none", "ready", "refused", "cancelled", "dead"}
Live == {"admit", "makeroot", "modroot", "admit again", "preflight", "revalidate", "open root",
         "look", "make", "own", "mode", "check", "mode again"}
BeforeChange == {"makeroot", "modroot", "open root", "look", "make", "own", "mode", "mode again"}

Exists(d) == tree[d] # Absent
Dir(o, m) == [owner |-> o, mode |-> m]

(* a tree that earlier runs may have left whole; an older one has 0700 parents *)
Whole(S, m) == [d \in Dirs |-> IF d \notin S THEN Absent
                               ELSE Dir(OwnerOf(d), IF d \in Parents THEN m ELSE "private")]
Wholes == {Whole(S, m) : S \in {{}, {Backup}, {Backup, Internal}, Parents, Dirs}, m \in {"private", "passable"}}

(* one of its directories may be somebody else's, or others may write to it *)
Spoilt(layout, d) ==
  {[layout EXCEPT ![d] = Dir("stranger", "private")], [layout EXCEPT ![d] = Dir(OwnerOf(d), "writable")]}

Layouts ==
  Wholes \cup (UNION {Spoilt(Whole(S, "passable"), d) : S \in {Parents, Dirs}, d \in Parents})
         \cup (UNION {Spoilt(Whole(Dirs, "passable"), d) : d \in Dirs})

Init ==
  /\ tree \in Layouts
  /\ root \in [id : {0}, custom : BOOLEAN, approved : BOOLEAN]
  /\ root.approved => Exists(Internal)
  /\ root.custom => Exists(Backup)
  /\ phase = [h \in All |-> "none"] /\ at = [h \in All |-> 1]
  /\ seen = [h \in All |-> 0] /\ code = [h \in All |-> "none"]
  /\ touched = {} /\ alone = All /\ removed = {}

At(h, p) == phase[h] = p
Goes(h, p) == phase' = [phase EXCEPT ![h] = p]
Target(h) == Program(h)[at[h]]
Refuses(h, c) ==
  /\ Goes(h, "refused") /\ code' = [code EXCEPT ![h] = c]
  /\ UNCHANGED <<tree, root, at, seen, touched, alone, removed>>
Changes(h, d, new) ==
  /\ tree' = [tree EXCEPT ![d] = new]
  /\ touched' = IF phase[h] \in {"makeroot", "modroot"} THEN touched ELSE touched \cup {h}
Stay == UNCHANGED <<root, seen, code, alone, removed>>
OnlyPhase == UNCHANGED <<tree, root, at, seen, code, touched, alone, removed>>

Start(h) ==
  LET others == {g \in All \ {h} : phase[g] \in Live} IN
  /\ At(h, "none")
  /\ Goes(h, IF h \in Helpers THEN "admit" ELSE "look")
  /\ alone' = IF others = {} THEN alone ELSE alone \ (others \cup {h})
  /\ UNCHANGED <<tree, root, at, seen, code, touched, removed>>

(* _inspect_ancestry and _validate_approval_marker *)
Admissible ==
  /\ Exists(Backup) /\ tree[Backup].owner = "root" /\ tree[Backup].mode # "writable"
  /\ root.custom =>
       /\ root.approved /\ Exists(Internal)
       /\ tree[Internal].owner = "root" /\ tree[Internal].mode # "writable"

(* admit_backup_root; prepare_backup_root makes the default one that is absent *)
Admit(h) ==
  /\ phase[h] \in {"admit", "admit again"}
  /\ IF Admissible
     THEN /\ Goes(h, "preflight") /\ seen' = [seen EXCEPT ![h] = root.id]
          /\ UNCHANGED <<tree, root, at, code, touched, alone, removed>>
     ELSE IF At(h, "admit") /\ ~ root.custom /\ ~ Exists(Backup)
     THEN Goes(h, "makeroot") /\ OnlyPhase
     ELSE Refuses(h, "invalid_backup_root")

MakeRoot(h) ==
  /\ At(h, "makeroot")
  /\ \/ /\ Exists(Backup)
        /\ Goes(h, "admit again") /\ OnlyPhase
     \/ /\ ~ Exists(Backup)
        /\ \E m \in {"private", "passable"} : Changes(h, Backup, Dir("root", m))
        /\ Goes(h, "modroot") /\ UNCHANGED at /\ Stay

ModRoot(h) ==
  /\ At(h, "modroot") /\ Exists(Backup)
  /\ Changes(h, Backup, [tree[Backup] EXCEPT !.mode = "passable"])
  /\ Goes(h, "admit again") /\ UNCHANGED at /\ Stay

(* an existing directory is accepted with the right owner only; one of root's must
   not be writable by others *)
Safe(d) ==
  Exists(d) => tree[d].owner = OwnerOf(d) /\ (OwnerOf(d) = "root" => tree[d].mode # "writable")

\* Fault: only the parents are looked at
PreflightParents(h) ==
  /\ At(h, "preflight")
  /\ IF \A d \in {Internal, UsersDir} : Safe(d)
     THEN Goes(h, "revalidate") /\ OnlyPhase
     ELSE Refuses(h, "unsafe_existing_path")

(* _preflight_provision *)
Preflight(h) ==
  /\ At(h, "preflight")
  /\ IF \A i \in DOMAIN Program(h) : Safe(Program(h)[i])
     THEN Goes(h, "revalidate") /\ OnlyPhase
     ELSE Refuses(h, "unsafe_existing_path")

(* RootAdmission.revalidate *)
Revalidate(h) ==
  /\ At(h, "revalidate")
  /\ IF Admissible /\ root.id = seen[h]
     THEN Goes(h, "open root") /\ OnlyPhase
     ELSE Refuses(h, "backup_root_changed")

(* the first change *)
OpenRoot(h) ==
  /\ At(h, "open root")
  /\ IF Exists(Backup)
     THEN /\ Changes(h, Backup, [tree[Backup] EXCEPT !.mode = "passable"])
          /\ Goes(h, "look") /\ UNCHANGED at /\ Stay
     ELSE Refuses(h, "provisioning_failed")

Advances(h) ==
  IF at[h] = Len(Program(h))
  THEN Goes(h, "ready") /\ UNCHANGED at
  ELSE Goes(h, "look") /\ at' = [at EXCEPT ![h] = @ + 1]

(* _ensure_directory: the existing one is checked and its mode put right *)
Look(h) ==
  LET d == Target(h) IN
  /\ At(h, "look")
  /\ IF ~ Safe(d) THEN Refuses(h, "unsafe_existing_path")
     ELSE IF ~ Exists(d) THEN Goes(h, "make") /\ OnlyPhase
     ELSE IF tree[d].mode # ModeOf(d) THEN Goes(h, "mode again") /\ OnlyPhase
     ELSE Advances(h) /\ UNCHANGED <<tree, touched>> /\ Stay

Made(h) == IF h \in Preparers THEN "check" ELSE IF OwnerOf(Target(h)) = "root" THEN "mode" ELSE "own"

\* Fault: a directory is made wherever it is
MakeAnywhere(h) ==
  LET d == Target(h) IN
  /\ At(h, "make") /\ ~ Exists(d)
  /\ Changes(h, d, Dir("root", "private"))
  /\ Goes(h, Made(h)) /\ UNCHANGED at /\ Stay

(* mkdir fails if another helper was first, or the parent went away; the umask
   may take the right to pass from the new mode *)
Make(h) ==
  LET d == Target(h) IN
  /\ At(h, "make")
  /\ \/ /\ Exists(d) \/ ~ Exists(ParentOf(d))
        /\ Refuses(h, "provisioning_failed")
     \/ /\ ~ Exists(d) /\ Exists(ParentOf(d))
        /\ \E m \in {"private", ModeOf(d)} : Changes(h, d, Dir("root", m))
        /\ Goes(h, Made(h)) /\ UNCHANGED at /\ Stay

\* Fault: the new directory stays root's
OwnNothing(h) == At(h, "own") /\ Goes(h, "mode") /\ OnlyPhase

Own(h) ==
  LET d == Target(h) IN
  /\ At(h, "own")
  /\ IF Exists(d)
     THEN /\ Changes(h, d, [tree[d] EXCEPT !.owner = OwnerOf(d)])
          /\ Goes(h, "mode") /\ UNCHANGED at /\ Stay
     ELSE Refuses(h, "provisioning_failed")

Mode(h) ==
  LET d == Target(h) IN
  /\ At(h, "mode")
  /\ IF Exists(d)
     THEN /\ Changes(h, d, [tree[d] EXCEPT !.mode = ModeOf(d)])
          /\ Goes(h, "check") /\ UNCHANGED at /\ Stay
     ELSE Refuses(h, "provisioning_failed")

(* _existing_directory, after the directory was made *)
Check(h) ==
  LET d == Target(h) IN
  /\ At(h, "check")
  /\ IF ~ Exists(d) THEN Refuses(h, "provisioning_failed")
     ELSE IF ~ Safe(d) THEN Refuses(h, "unsafe_existing_path")
     ELSE IF tree[d].mode # ModeOf(d) THEN Goes(h, "mode again") /\ OnlyPhase
     ELSE Advances(h) /\ UNCHANGED <<tree, touched>> /\ Stay

\* Fault: an existing directory keeps its mode
KeepMode(h) == At(h, "mode again") /\ Advances(h) /\ UNCHANGED <<tree, touched>> /\ Stay

\* Fault: the mode of an older layout is refused
ModeRefused(h) == At(h, "mode again") /\ Refuses(h, "provisioning_failed")

ModeAgain(h) ==
  LET d == Target(h) IN
  /\ At(h, "mode again")
  /\ IF Exists(d)
     THEN /\ Changes(h, d, [tree[d] EXCEPT !.mode = ModeOf(d)])
          /\ Advances(h) /\ Stay
     ELSE Refuses(h, "provisioning_failed")

(* _checkpoint before a change; the private tree of a request is made without *)
Cancel(h) ==
  /\ h \in Helpers /\ phase[h] \in BeforeChange
  /\ Goes(h, "cancelled") /\ OnlyPhase

Failures == {"chown failed", "call failed"}

(* A look, mkdir, chown or chmod fails: no space, a disk that is read-only or knows
   no owners.  Nothing is changed and nothing made before is undone.  To the user it
   is one more provisioning_failed. *)
CallFails(h) ==
  /\ phase[h] \in Live
  /\ Refuses(h, IF At(h, "own") THEN "chown failed" ELSE "call failed")

Die(h) == phase[h] \in Live /\ Goes(h, "dead") /\ OnlyPhase

(* the owner of a leaf removes what is below it (once) *)
Remove(u) ==
  /\ Exists(State(u)) /\ tree[Leaf(u)].owner = u /\ State(u) \notin removed
  /\ tree' = [tree EXCEPT ![State(u)] = Absent] /\ removed' = removed \cup {State(u)}
  /\ UNCHANGED <<root, helper>>

(* an administrator mounts another disk there, or withdraws the approval *)
Remount ==
  /\ root.id = 0
  /\ root' = [root EXCEPT !.id = 1, !.approved = FALSE]
  /\ tree' = [d \in Dirs |-> IF d = Backup THEN Dir("root", "passable") ELSE Absent]
  /\ UNCHANGED <<helper, removed>>

Withdraw ==
  /\ root.approved /\ root' = [root EXCEPT !.approved = FALSE]
  /\ UNCHANGED <<tree, helper, removed>>

Next ==
  \/ \E h \in All :
       \/ Start(h) \/ Admit(h) \/ MakeRoot(h) \/ ModRoot(h) \/ Preflight(h) \/ Revalidate(h)
       \/ OpenRoot(h) \/ Look(h) \/ Make(h) \/ Own(h) \/ Mode(h) \/ Check(h) \/ ModeAgain(h)
       \/ Cancel(h) \/ CallFails(h) \/ Die(h)
  \/ \E u \in Users : Remove(u)
  \/ Remount \/ Withdraw

Spec == Init /\ [][Next]_vars

-----------------------------------------------------------------------------
(* The types of the variables; a directory has a parent (configure.py:513-554). *)
TypeOK ==
  /\ tree \in [Dirs -> {Absent} \cup [owner : {"root", "stranger"} \cup Users,
                                       mode : {"private", "passable", "writable"}]]
  /\ \A d \in Dirs \ {Backup} : Exists(d) => Exists(ParentOf(d))
  /\ root \in [id : 0..1, custom : BOOLEAN, approved : BOOLEAN]
  /\ phase \in [All -> Live \cup Over] /\ seen \in [All -> 0..1]
  /\ at \in [All -> 1..4] /\ touched \subseteq All

(* The directories of a session that is ready are its user's and private, and the
   parents let the user pass, whatever other helpers did meanwhile or do later
   (configure.py:518-553, test_privilege_phase1.py:149). *)
ReadyIsOurs ==
  \A h \in Helpers : phase[h] = "ready" /\ seen[h] = root.id =>
    \A d \in (Parents \cup {Leaf(UserOf[h]), State(UserOf[h])}) \ removed :
      tree[d] = Dir(OwnerOf(d), ModeOf(d))

(* A directory of a user that root owns is one a helper is giving away, or was when it
   was cancelled, died or its chown failed; no other order of steps, and no other
   failure, leaves one (configure.py:413-417). *)
StrandedAtOwnOnly ==
  \A d \in Dirs : tree[d].owner = "root" /\ OwnerOf(d) # "root" =>
    \E h \in Helpers :
      /\ Target(h) = d
      /\ phase[h] \in {"own", "cancelled", "dead"} \/ (phase[h] = "refused" /\ code[h] = "chown failed")

(* A helper that refuses the root or an existing directory while no other helper
   runs has changed nothing, at most made the default root
   (configure.py:511-517, test_privilege_phase1.py:290). *)
RefusalIsClean ==
  \A h \in alone \cap Helpers :
    code[h] \in {"invalid_backup_root", "unsafe_existing_path", "backup_root_changed"} => h \notin touched

\* Nobody changed the root, withdrew its approval or removed a directory.
Calm == root.id = 0 /\ (root.custom => root.approved) /\ removed = {}

(* A helper that runs alone, with a root that stays the same and approved, refuses only
   where a system call fails or a directory in its way is not as the code demands; it
   is never stopped by what it has made itself or by an older layout
   (configure.py:392-396, 430-438, test_privilege_phase1.py:149, 231). *)
LoneRefusalHasReason ==
  [][\A h \in alone \cap Helpers :
       Calm /\ phase[h] # "refused" /\ phase'[h] = "refused" /\ code'[h] \notin Failures =>
         ~ Safe(Backup) \/ \E i \in DOMAIN Program(h) : ~ Safe(Program(h)[i])]_vars
=============================================================================
