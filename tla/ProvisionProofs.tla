--------------------------- MODULE ProvisionProofs ---------------------------
(***************************************************************************)
(* Provision for any number of helpers, preparers and users: the types,    *)
(* who may leave a directory to root, what a ready session finds, and what *)
(* a helper that is alone changes and refuses.                             *)
(***************************************************************************)
EXTENDS Provision, TLAPS

-----------------------------------------------------------------------------
(* The directories *)

Modes == {"private", "passable", "writable"}
Tight == {"private", "passable"}
Owners(d) == {"root", "stranger", OwnerOf(d)}
Nodes(d) == {Absent} \cup [owner : Owners(d), mode : Modes]

LEMMA Directories ==
  /\ \A d \in Dirs : OwnerOf(d) \in {"root"} \cup Users /\ ModeOf(d) \in Tight /\ ModeOf(d) \in Modes
  /\ \A d \in Dirs \ {Backup} : ParentOf(d) \in Dirs
  /\ \A d \in Parents \cup {Plans} : d \in Dirs /\ OwnerOf(d) = "root"
  /\ Backup \in Parents /\ \A u \in Users : State(u) \notin Parents
  /\ \A d \in Parents \ {Backup} : ParentOf(d) \in Parents
  /\ \A u \in Users : State(u) \in Dirs /\ \A d \in Dirs \ {Backup} : ParentOf(d) # State(u)
<1> USE DEF Dirs, Parents, Backup, Internal, UsersDir, Plans, Leaf, State
<1>1. \A d \in Dirs : OwnerOf(d) \in {"root"} \cup Users /\ ModeOf(d) \in Tight /\ ModeOf(d) \in Modes
  BY DEF OwnerOf, ModeOf, Modes, Tight
<1>2. \A d \in Dirs \ {Backup} : ParentOf(d) \in Dirs
  BY DEF OwnerOf, ParentOf
<1>3. \A d \in Parents \cup {Plans} : d \in Dirs /\ OwnerOf(d) = "root"
  BY DEF OwnerOf
<1>4. Backup \in Parents /\ \A u \in Users : State(u) \notin Parents
  OBVIOUS
<1>5. \A d \in Parents \ {Backup} : ParentOf(d) \in Parents
  BY DEF ParentOf
<1>6. \A u \in Users : State(u) \in Dirs /\ \A d \in Dirs \ {Backup} : ParentOf(d) # State(u)
  BY DEF ParentOf
<1> QED
  BY <1>1, <1>2, <1>3, <1>4, <1>5, <1>6

LEMMA AbsentIsNoDir ==
  /\ \A o : \A m \in Modes : Dir(o, m) # Absent /\ Dir(o, m).owner = o /\ Dir(o, m).mode = m
  /\ Tight \subseteq Modes /\ \A d : {"root", OwnerOf(d)} \subseteq Owners(d)
BY DEF Dir, Absent, Modes, Tight, Owners

LEMMA Owner ==
  /\ Absent.owner # "root" /\ \A o, m : Dir(o, m).owner = o
  /\ "stranger" # "root"
BY DEF Absent, Dir

LEMMA DirIsNode ==
  \A d : \A o \in Owners(d) : \A m \in Modes : Dir(o, m) \in Nodes(d)
BY DEF Dir, Nodes

LEMMA Programs ==
  ASSUME NEW h \in All, NEW i \in 1..Len(Program(h))
  PROVE /\ Program(h)[i] \in Dirs /\ i \in 1..4
        /\ h \in Preparers => OwnerOf(Program(h)[i]) = "root"
        /\ Program(h)[i] # Backup
<1>1. CASE h \in Helpers
  <2>1. UserOf[h] \in Users /\ h \notin Preparers
    BY <1>1, ProvisionAssumption DEF Users
  <2> QED
    BY <1>1, <2>1 DEF Program, Dirs, Parents, Backup, Internal, UsersDir, Leaf, State
<1>2. CASE h \notin Helpers
  BY <1>2 DEF Program, Dirs, Parents, Backup, Internal, Plans, OwnerOf
<1> QED
  BY <1>1, <1>2

-----------------------------------------------------------------------------
(* The inductive invariant *)

Codes == {"none", "invalid_backup_root", "unsafe_existing_path", "backup_root_changed", "provisioning_failed"}
           \cup Failures

Typed ==
  /\ tree \in [Dirs -> UNION {Nodes(d) : d \in Dirs}] /\ \A d \in Dirs : tree[d] \in Nodes(d)
  /\ root \in [id : 0..1, custom : BOOLEAN, approved : BOOLEAN]
  /\ phase \in [All -> Live \cup Over] /\ seen \in [All -> 0..1]
  /\ at \in [All -> Nat] /\ \A h \in All : at[h] \in 1..Len(Program(h))
  /\ touched \subseteq All /\ code \in [All -> Codes]

Nested == \A d \in Dirs \ {Backup} : Exists(d) => Exists(ParentOf(d))

\* A helper has admitted the root that is mounted or the one before it.
Seen == \A h \in All : root.id = 0 => seen[h] = 0

Early == {"none", "admit", "makeroot", "modroot", "admit again", "preflight", "revalidate", "open root"}
Making == {"look", "make", "own", "mode", "check", "mode again", "ready"}

Starting == \A h \in Helpers : phase[h] \in Early => at[h] = 1

\* A directory a helper is done with is as it must be, or a user has removed it.
Good(d) == d \in removed \/ tree[d] = Dir(OwnerOf(d), ModeOf(d))
Owned(d) == d \in removed \/ (Exists(d) /\ tree[d].owner = OwnerOf(d))

\* The same of a directory after a step.
GoodNext(d) == d \in removed' \/ tree'[d] = Dir(OwnerOf(d), ModeOf(d))
OwnedNext(d) == d \in removed' \/ (tree'[d] # Absent /\ tree'[d].owner = OwnerOf(d))

Progress ==
  \A h \in Helpers : seen[h] = root.id /\ phase[h] \in Making =>
    /\ Good(Backup)
    /\ \A i \in 1..Len(Program(h)) : i < at[h] \/ phase[h] = "ready" => Good(Program(h)[i])
    /\ phase[h] = "mode again" => Owned(Target(h))

\* A helper opens the root only when it is root's.
Approved == \A h \in All : phase[h] = "open root" => tree[Backup].owner = "root"

\* What it gives away is not root's.
Giving == \A h \in All : phase[h] = "own" => OwnerOf(Target(h)) # "root"

IInv == Typed /\ Nested /\ Seen /\ Starting /\ Progress /\ Approved /\ Giving /\ StrandedAtOwnOnly

LEMMA InitInv == Init => IInv
<1> SUFFICES ASSUME Init PROVE IInv
  OBVIOUS
<1> DEFINE Sets == {{}, {Backup}, {Backup, Internal}, Parents, Dirs}
<1>0. ASSUME NEW S \in Sets, NEW m \in Tight
      PROVE /\ Whole(S, m) = [d \in Dirs |-> Whole(S, m)[d]]
            /\ \A d \in Dirs : Whole(S, m)[d] # Absent <=> d \in S
            /\ \A d \in Dirs : Whole(S, m)[d] = Absent \/ \E n \in Modes : Whole(S, m)[d] = Dir(OwnerOf(d), n)
  BY AbsentIsNoDir DEF Whole, Modes, Tight
<1>9. PICK S \in Sets, m \in Tight :
        tree = Whole(S, m) \/ \E d \in Dirs : d \in S /\ tree \in Spoilt(Whole(S, m), d)
  <2>1. CASE tree \in Wholes
    BY <2>1 DEF Wholes, Tight
  <2>2. ASSUME NEW S \in {Parents, Dirs}, NEW d \in Parents, tree \in Spoilt(Whole(S, "passable"), d)
        PROVE \E T \in Sets, m \in Tight : \E e \in Dirs : e \in T /\ tree \in Spoilt(Whole(T, m), e)
    <3>1. d \in Dirs /\ d \in S /\ S \in Sets /\ "passable" \in Tight
      BY Directories DEF Tight
    <3> QED
      BY <2>2, <3>1
  <2>3. ASSUME NEW d \in Dirs, tree \in Spoilt(Whole(Dirs, "passable"), d)
        PROVE \E T \in Sets, m \in Tight : \E e \in Dirs : e \in T /\ tree \in Spoilt(Whole(T, m), e)
    <3>1. Dirs \in Sets /\ "passable" \in Tight
      BY DEF Tight
    <3> QED
      BY <2>3, <3>1
  <2>4. \/ tree \in Wholes
        \/ \E S \in {Parents, Dirs}, d \in Parents : tree \in Spoilt(Whole(S, "passable"), d)
        \/ \E d \in Dirs : tree \in Spoilt(Whole(Dirs, "passable"), d)
    BY DEF Init, Layouts
  <2> QED
    BY <2>1, <2>2, <2>3, <2>4
<1>1. \A d \in Dirs : tree[d] = Absent \/ \E o \in {"stranger", OwnerOf(d)}, n \in Modes : tree[d] = Dir(o, n)
  <2> HIDE DEF Sets
  <2>1. CASE tree = Whole(S, m)
    BY <1>0, <2>1
  <2>2. CASE \E d \in Dirs : tree \in Spoilt(Whole(S, m), d)
    BY <1>0, <2>2 DEF Spoilt, Modes
  <2> QED
    BY <1>9, <2>1, <2>2
<1>2. \A d \in Dirs : tree[d] \in Nodes(d)
  BY <1>1, DirIsNode DEF Nodes, Owners
<1>3. tree \in [Dirs -> UNION {Nodes(d) : d \in Dirs}]
  <2>1. tree = [d \in Dirs |-> tree[d]]
    <3> HIDE DEF Sets
    <3>1. Whole(S, m) = [d \in Dirs |-> Whole(S, m)[d]]
      BY <1>0
    <3>2. \A d : \A new : [Whole(S, m) EXCEPT ![d] = new]
                             = [e \in Dirs |-> [Whole(S, m) EXCEPT ![d] = new][e]]
      BY <3>1
    <3> QED
      BY <1>9, <3>1, <3>2 DEF Spoilt
  <2> QED
    BY <1>2, <2>1
<1>4. Nested
  <2>2. \A d \in Dirs : Exists(d) <=> d \in S
    <3> HIDE DEF Sets
    <3>1. CASE tree = Whole(S, m)
      BY <1>0, <3>1 DEF Exists
    <3>2. ASSUME NEW d \in S, d \in Dirs, tree \in Spoilt(Whole(S, m), d) PROVE \A e \in Dirs : Exists(e) <=> e \in S
      BY <1>0, <3>2, AbsentIsNoDir DEF Exists, Spoilt, Modes
    <3> QED
      BY <1>9, <3>1, <3>2
  <2>3. \A d \in S : d \in Dirs /\ (d # Backup => ParentOf(d) \in S)
    BY Directories DEF Parents, ParentOf, Internal, Backup
  <2> QED
    BY <2>2, <2>3, Directories DEF Nested
<1>5. \A h \in All : Len(Program(h)) \in Nat /\ 1 \in 1..Len(Program(h))
  BY DEF Program
<1>6. Typed
  BY <1>2, <1>3, <1>5 DEF Init, Typed, Over, Codes
<1>7. Seen /\ Starting /\ Progress /\ Approved /\ Giving
  BY DEF Init, Seen, Starting, Progress, Approved, Giving, Making, All
<1>8. StrandedAtOwnOnly
  <2>1. \A d \in Dirs : tree[d].owner = "root" => OwnerOf(d) = "root"
    BY <1>1, Owner
  <2> QED
    BY <2>1 DEF StrandedAtOwnOnly
<1> QED
  BY <1>4, <1>6, <1>7, <1>8 DEF IInv

-----------------------------------------------------------------------------
(* What a step of a helper does to a directory *)

HelperStep(h) ==
  \/ Start(h) \/ Admit(h) \/ MakeRoot(h) \/ ModRoot(h) \/ Preflight(h) \/ Revalidate(h)
  \/ OpenRoot(h) \/ Look(h) \/ Make(h) \/ Own(h) \/ Mode(h) \/ Check(h) \/ ModeAgain(h)
  \/ Cancel(h) \/ CallFails(h) \/ Die(h)

\* It puts the owner or the mode right, or makes it where its parent is.
Put(d) ==
  /\ Exists(d)
  /\ \E o \in {tree[d].owner, OwnerOf(d)} : \E m \in {tree[d].mode, ModeOf(d)} : tree'[d] = Dir(o, m)
New(d) ==
  /\ ~ Exists(d) /\ (d # Backup => Exists(ParentOf(d)))
  /\ \E m \in Tight : tree'[d] = Dir("root", m)
Given(h, d) == OwnerOf(d) = "root" \/ (h \in Helpers /\ d = Target(h) /\ phase'[h] = "own" /\ UNCHANGED at)

LEMMA Node ==
  ASSUME Typed, NEW d \in Dirs, Exists(d)
  PROVE /\ tree[d] = Dir(tree[d].owner, tree[d].mode)
        /\ tree[d].owner \in Owners(d) /\ tree[d].mode \in Modes
        /\ \A m : [tree[d] EXCEPT !.mode = m] = Dir(tree[d].owner, m)
        /\ \A o : [tree[d] EXCEPT !.owner = o] = Dir(o, tree[d].mode)
<1>1. tree[d] \in [owner : Owners(d), mode : Modes]
  BY DEF Typed, Nodes, Exists
<1> QED
  BY <1>1 DEF Dir

LEMMA TargetIs ==
  ASSUME Typed, NEW h \in All
  PROVE Target(h) \in Dirs \ {Backup} /\ (h \in Preparers => OwnerOf(Target(h)) = "root")
BY Programs DEF Typed, Target

Effect(h) ==
  /\ tree' \in [Dirs -> UNION {Nodes(d) : d \in Dirs}]
  /\ \A d \in Dirs : tree'[d] = tree[d] \/ Put(d) \/ (New(d) /\ Given(h, d))

LEMMA TreeStep == ASSUME Typed, NEW h \in All, HelperStep(h) PROVE Effect(h)
<1> DEFINE At1(d, new) == tree' = [tree EXCEPT ![d] = new]
<1>0. ASSUME NEW d \in Dirs, NEW new \in Nodes(d), At1(d, new),
             tree'[d] = new => Put(d) \/ (New(d) /\ Given(h, d))
      PROVE Effect(h)
  BY <1>0 DEF Typed, Effect
<1>1. CASE UNCHANGED tree
  BY <1>1 DEF Typed, Effect
<1>2. ASSUME NEW d \in Dirs, Exists(d), At1(d, [tree[d] EXCEPT !.mode = ModeOf(d)]) PROVE Effect(h)
  <2>1. [tree[d] EXCEPT !.mode = ModeOf(d)] = Dir(tree[d].owner, ModeOf(d))
    BY <1>2, Node
  <2>2. Dir(tree[d].owner, ModeOf(d)) \in Nodes(d)
    BY <1>2, Node, DirIsNode, Directories
  <2>3. tree'[d] = Dir(tree[d].owner, ModeOf(d)) => Put(d)
    BY <1>2 DEF Put
  <2> QED
    BY <1>0, <1>2, <2>1, <2>2, <2>3
<1>3. ASSUME NEW d \in Dirs, Exists(d), At1(d, [tree[d] EXCEPT !.owner = OwnerOf(d)]) PROVE Effect(h)
  <2>1. [tree[d] EXCEPT !.owner = OwnerOf(d)] = Dir(OwnerOf(d), tree[d].mode)
    BY <1>3, Node
  <2>2. Dir(OwnerOf(d), tree[d].mode) \in Nodes(d)
    BY <1>3, Node, DirIsNode, AbsentIsNoDir
  <2>3. tree'[d] = Dir(OwnerOf(d), tree[d].mode) => Put(d)
    BY <1>3 DEF Put
  <2> QED
    BY <1>0, <1>3, <2>1, <2>2, <2>3
<1>4. ASSUME NEW d \in Dirs, ~ Exists(d), d # Backup => Exists(ParentOf(d)), Given(h, d),
             NEW m \in Tight, At1(d, Dir("root", m)) PROVE Effect(h)
  <2>1. tree'[d] = Dir("root", m) => New(d)
    BY <1>4 DEF New
  <2> QED
    BY <1>0, <1>4, <2>1, DirIsNode, AbsentIsNoDir
<1>5. Target(h) \in Dirs \ {Backup} /\ Backup \in Dirs /\ ModeOf(Backup) = "passable" /\ OwnerOf(Backup) = "root"
  BY TargetIs, Directories DEF ModeOf
<1>6. CASE MakeRoot(h)
  <2>1. UNCHANGED tree \/ (~ Exists(Backup) /\ \E m \in Tight : At1(Backup, Dir("root", m)))
    BY <1>6 DEF MakeRoot, Changes, OnlyPhase, Modes, Tight
  <2> QED
    BY <1>1, <1>4, <1>5, <2>1 DEF Given
<1>7. CASE ModRoot(h) \/ OpenRoot(h)
  <2>1. UNCHANGED tree \/ (Exists(Backup) /\ At1(Backup, [tree[Backup] EXCEPT !.mode = ModeOf(Backup)]))
    BY <1>5, <1>7 DEF ModRoot, OpenRoot, Changes, Refuses
  <2> QED
    BY <1>1, <1>2, <1>5, <2>1
<1>8. CASE Make(h)
  <2>1. CASE UNCHANGED tree
    BY <1>1, <2>1
  <2>2. CASE ~ UNCHANGED tree
    <3>1. /\ ~ Exists(Target(h)) /\ Exists(ParentOf(Target(h))) /\ Goes(h, Made(h)) /\ UNCHANGED at
          /\ \E m \in Tight : At1(Target(h), Dir("root", m))
      BY <1>5, <1>8, <2>2, Directories DEF Make, Changes, Refuses, Modes, Tight
    <3>2. phase'[h] = Made(h)
      BY <3>1 DEF Goes, Typed
    <3>3. Given(h, Target(h))
      BY <3>1, <3>2, TargetIs DEF Given, Made, All
    <3> QED
      BY <1>4, <1>5, <3>1, <3>3
  <2> QED
    BY <2>1, <2>2
<1>9. CASE Own(h)
  <2>1. UNCHANGED tree \/ (Exists(Target(h)) /\ At1(Target(h), [tree[Target(h)] EXCEPT !.owner = OwnerOf(Target(h))]))
    BY <1>9 DEF Own, Changes, Refuses
  <2> QED
    BY <1>1, <1>3, <1>5, <2>1
<1>10. CASE Mode(h) \/ ModeAgain(h)
  <2>1. UNCHANGED tree \/ (Exists(Target(h)) /\ At1(Target(h), [tree[Target(h)] EXCEPT !.mode = ModeOf(Target(h))]))
    BY <1>10 DEF Mode, ModeAgain, Changes, Refuses
  <2> QED
    BY <1>1, <1>2, <1>5, <2>1
<1>11. (Start(h) \/ Admit(h) \/ Preflight(h) \/ Revalidate(h) \/ Look(h) \/ Check(h) \/ Cancel(h) \/ CallFails(h) \/ Die(h))
         => UNCHANGED tree
  BY DEF Start, Admit, Preflight, Revalidate, Look, Check, Cancel, CallFails, Die, Refuses, OnlyPhase
<1> QED
  BY <1>1, <1>6, <1>7, <1>8, <1>9, <1>10, <1>11 DEF HelperStep

\* What such a step leaves as it was.
LEMMA EffectKeeps ==
  ASSUME Typed, NEW h \in All, Effect(h), UNCHANGED removed
  PROVE /\ \A d \in Dirs : tree'[d] \in Nodes(d) /\ (Exists(d) => Exists(d)')
        /\ \A d \in Dirs : (Good(d) => GoodNext(d)) /\ (Owned(d) => OwnedNext(d))
        /\ Nested => Nested'
<1>1. ASSUME NEW d \in Dirs, Put(d)
      PROVE /\ tree'[d] \in Nodes(d) /\ Exists(d)'
            /\ tree[d].owner = OwnerOf(d) => tree'[d].owner = OwnerOf(d)
            /\ tree[d] = Dir(OwnerOf(d), ModeOf(d)) => tree'[d] = Dir(OwnerOf(d), ModeOf(d))
  <2>1. PICK o \in {tree[d].owner, OwnerOf(d)}, m \in {tree[d].mode, ModeOf(d)} : tree'[d] = Dir(o, m)
    BY <1>1 DEF Put
  <2>2. o \in Owners(d) /\ m \in Modes
    BY <1>1, <2>1, Node, Directories, AbsentIsNoDir DEF Put
  <2>3. tree[d] = Dir(OwnerOf(d), ModeOf(d)) => o = OwnerOf(d) /\ m = ModeOf(d)
    BY AbsentIsNoDir, Directories
  <2> QED
    BY <2>1, <2>2, <2>3, AbsentIsNoDir, DirIsNode DEF Exists
<1>2. ASSUME NEW d \in Dirs, New(d) PROVE tree'[d] \in Nodes(d) /\ ~ Exists(d)
  BY <1>2, DirIsNode, AbsentIsNoDir DEF New
<1>3. \A d \in Dirs : tree'[d] \in Nodes(d) /\ (Exists(d) => Exists(d)')
  BY <1>1, <1>2 DEF Effect, Typed, Exists
<1>4. \A d \in Dirs : tree[d] = Dir(OwnerOf(d), ModeOf(d)) => Exists(d)
  BY AbsentIsNoDir, Directories DEF Exists
<1>5. \A d \in Dirs : (Good(d) => GoodNext(d)) /\ (Owned(d) => OwnedNext(d))
  BY <1>1, <1>2, <1>3, <1>4 DEF Effect, Good, Owned, GoodNext, OwnedNext, Exists
<1>6. ASSUME Nested PROVE Nested'
  <2>1. ASSUME NEW d \in Dirs \ {Backup}, Exists(d)' PROVE Exists(ParentOf(d))
    BY <1>6, <2>1 DEF Effect, Put, New, Nested, Exists
  <2> QED
    BY <1>3, <2>1, Directories DEF Nested
<1> QED
  BY <1>3, <1>5, <1>6

-----------------------------------------------------------------------------
(* What it does to the helper *)

Others(h) ==
  /\ UNCHANGED <<root, removed>>
  /\ \A g \in All \ {h} : phase'[g] = phase[g] /\ at'[g] = at[g] /\ seen'[g] = seen[g] /\ code'[g] = code[g]

\* Its place is one it has, it only goes on in its program, and it only admits the
\* root it finds.
LEMMA ControlStep ==
  ASSUME Typed, NEW h \in All, HelperStep(h)
  PROVE /\ Others(h)
        /\ phase' \in [All -> Live \cup Over] /\ touched' \subseteq All
        /\ seen' \in [All -> 0..1] /\ at' \in [All -> Nat]
        /\ at'[h] \in 1..Len(Program(h)) /\ code' \in [All -> Codes]
        /\ UNCHANGED at \/ (phase'[h] = "look" /\ at'[h] = at[h] + 1 /\ Advances(h))
        /\ seen' = seen \/ (phase'[h] = "preflight" /\ seen'[h] = root.id)
<1> USE DEF Goes
<1>1. \E p \in Live \cup Over : phase' = [phase EXCEPT ![h] = p]
  <2>1. CASE Start(h) \/ Admit(h) \/ MakeRoot(h) \/ ModRoot(h) \/ Preflight(h) \/ Revalidate(h) \/ OpenRoot(h)
    BY <2>1 DEF Start, Admit, MakeRoot, ModRoot, Preflight, Revalidate, OpenRoot, Refuses, Live, Over
  <2>2. CASE Look(h) \/ Make(h) \/ Own(h) \/ Mode(h)
    BY <2>2 DEF Look, Make, Made, Own, Mode, Refuses, Advances, Live, Over
  <2>3. CASE Check(h) \/ ModeAgain(h) \/ Cancel(h) \/ CallFails(h) \/ Die(h)
    BY <2>3 DEF Check, ModeAgain, Cancel, CallFails, Die, Refuses, Advances, Live, Over
  <2> QED
    BY <2>1, <2>2, <2>3 DEF HelperStep
<1>2. UNCHANGED at \/ (Advances(h) /\ at[h] # Len(Program(h)))
  BY DEF HelperStep, Start, Admit, MakeRoot, ModRoot, Preflight, Revalidate, OpenRoot, Look, Make, Own, Mode,
    Check, ModeAgain, Cancel, CallFails, Die, Refuses, OnlyPhase, Advances
<1>3. seen' = seen \/ (phase' = [phase EXCEPT ![h] = "preflight"] /\ seen' = [seen EXCEPT ![h] = root.id])
  BY DEF HelperStep, Start, Admit, MakeRoot, ModRoot, Preflight, Revalidate, OpenRoot, Look, Make, Own, Mode,
    Check, ModeAgain, Cancel, CallFails, Die, Refuses, OnlyPhase, Stay
<1>4. UNCHANGED <<root, removed>> /\ (touched' = touched \/ touched' = touched \cup {h})
  BY DEF HelperStep, Start, Admit, MakeRoot, ModRoot, Preflight, Revalidate, OpenRoot, Look, Make, Own, Mode,
    Check, ModeAgain, Cancel, CallFails, Die, Refuses, OnlyPhase, Stay, Changes
<1>7. code' = code \/ \E c \in Codes : code' = [code EXCEPT ![h] = c]
  <2>1. CASE Start(h) \/ Admit(h) \/ MakeRoot(h) \/ ModRoot(h) \/ Preflight(h) \/ Revalidate(h) \/ OpenRoot(h)
    BY <2>1 DEF Start, Admit, MakeRoot, ModRoot, Preflight, Revalidate, OpenRoot, Refuses, Codes, OnlyPhase, Stay
  <2>2. CASE Look(h) \/ Make(h) \/ Own(h) \/ Mode(h)
    BY <2>2 DEF Look, Make, Own, Mode, Refuses, Codes, OnlyPhase, Stay
  <2>3. CASE Check(h) \/ ModeAgain(h) \/ Cancel(h) \/ CallFails(h) \/ Die(h)
    BY <2>3 DEF Check, ModeAgain, Cancel, CallFails, Die, Refuses, Codes, Failures, OnlyPhase, Stay
  <2> QED
    BY <2>1, <2>2, <2>3 DEF HelperStep
<1>8. code' \in [All -> Codes] /\ \A g \in All \ {h} : code'[g] = code[g]
  <2>1. code \in [All -> Codes]
    BY DEF Typed
  <2> QED
    BY <1>7, <2>1
<1>9. UNCHANGED <<root, removed>> /\ touched' \subseteq All
  BY <1>4 DEF Typed
<1>5. CASE UNCHANGED at
  BY <1>1, <1>3, <1>5, <1>8, <1>9 DEF Typed, Others
<1>6. CASE Advances(h) /\ at[h] # Len(Program(h))
  <2>1. at[h] \in Nat /\ at[h] \in 1..Len(Program(h)) /\ Len(Program(h)) \in Nat
    BY DEF Typed, Program
  <2>2. phase' = [phase EXCEPT ![h] = "look"] /\ at' = [at EXCEPT ![h] = at[h] + 1]
    BY <1>6 DEF Advances
  <2>3. at' \in [All -> Nat] /\ at'[h] = at[h] + 1 /\ \A g \in All \ {h} : at'[g] = at[g]
    BY <2>1, <2>2 DEF Typed
  <2>4. at'[h] \in 1..Len(Program(h))
    BY <1>6, <2>1, <2>3
  <2>5. phase'[h] = "look"
    BY <2>2 DEF Typed
  <2> QED
    BY <1>1, <1>3, <1>4, <1>6, <1>8, <2>3, <2>4, <2>5 DEF Typed, Others
<1> QED
  BY <1>2, <1>5, <1>6

\* A helper that is giving a directory away gives it, finds it gone, or is stopped.
LEMMA OwnStep ==
  ASSUME Typed, NEW h \in All, HelperStep(h), phase[h] \in {"own", "cancelled", "dead", "refused"}
  PROVE \/ /\ phase'[h] \in {"cancelled", "dead"} \/ (phase'[h] = "refused" /\ code'[h] = "chown failed")
           /\ UNCHANGED <<tree, at>>
        \/ ~ Exists(Target(h)) /\ UNCHANGED tree
        \/ /\ tree'[Target(h)].owner = OwnerOf(Target(h))
           /\ \A d \in Dirs \ {Target(h)} : tree'[d] = tree[d]
<1>1. Own(h) \/ Cancel(h) \/ CallFails(h) \/ Die(h)
  BY DEF HelperStep, Start, Admit, MakeRoot, ModRoot, Preflight, Revalidate, OpenRoot, Look, Make, Mode,
    Check, ModeAgain, At, Live
<1>2. CASE Cancel(h) \/ Die(h)
  BY <1>2 DEF Cancel, Die, Goes, OnlyPhase, Typed
<1>4. CASE CallFails(h)
  BY <1>4 DEF CallFails, Refuses, Goes, At, Live, Typed
<1>3. CASE Own(h)
  <2>1. CASE ~ Exists(Target(h))
    BY <1>3, <2>1 DEF Own, Refuses
  <2>2. CASE Exists(Target(h))
    <3>1. Target(h) \in Dirs /\ tree' = [tree EXCEPT ![Target(h)] = [tree[Target(h)] EXCEPT !.owner = OwnerOf(Target(h))]]
      BY <1>3, <2>2, TargetIs DEF Own, Changes
    <3>2. [tree[Target(h)] EXCEPT !.owner = OwnerOf(Target(h))] = Dir(OwnerOf(Target(h)), tree[Target(h)].mode)
          /\ tree[Target(h)].mode \in Modes
      BY <2>2, <3>1, Node
    <3>3. tree'[Target(h)] = Dir(OwnerOf(Target(h)), tree[Target(h)].mode)
      BY <3>1, <3>2 DEF Typed
    <3> QED
      BY <3>1, <3>2, <3>3, AbsentIsNoDir DEF Typed
  <2> QED
    BY <2>1, <2>2
<1> QED
  BY <1>1, <1>2, <1>3, <1>4

LEMMA StrandedStep ==
  ASSUME IInv, NEW h \in All, HelperStep(h)
  PROVE StrandedAtOwnOnly'
<1>0. Typed /\ Effect(h) /\ Others(h)
  BY TreeStep, ControlStep DEF IInv
<1> DEFINE Excuse(g, d) ==
      /\ Target(g) = d
      /\ phase[g] \in {"own", "cancelled", "dead"} \/ (phase[g] = "refused" /\ code[g] = "chown failed")
<1> SUFFICES ASSUME NEW d \in Dirs, tree'[d].owner = "root", OwnerOf(d) # "root"
             PROVE \E g \in Helpers : Excuse(g, d)'
  BY DEF StrandedAtOwnOnly
<1>1. CASE New(d) /\ ~ Exists(d)
  <2>1. Given(h, d) \/ tree'[d] = tree[d]
    BY <1>0, <1>1 DEF Effect, Put
  <2>2. OwnerOf(d) # "root" /\ tree'[d] # tree[d]
    BY <1>1, AbsentIsNoDir DEF New, Exists
  <2> QED
    BY <2>1, <2>2 DEF Given, Target
<1>2. CASE Exists(d) /\ tree[d].owner = "root"
  <2>1. PICK g \in Helpers : Excuse(g, d)
    BY <1>2 DEF IInv, StrandedAtOwnOnly
  <2>2. CASE g # h
    BY <1>0, <2>1, <2>2 DEF Others, Target, All
  <2>3. CASE g = h
    <3>1. /\ phase'[h] \in {"cancelled", "dead"} \/ (phase'[h] = "refused" /\ code'[h] = "chown failed")
          /\ UNCHANGED at
      BY <1>0, <1>2, <2>1, <2>3, OwnStep
    <3> QED
      BY <2>1, <2>3, <3>1 DEF Target
  <2> QED
    BY <2>2, <2>3
<1>3. CASE Exists(d) /\ tree[d].owner # "root"
  <2>1. tree'[d] = tree[d] \/ Put(d)
    BY <1>0, <1>3 DEF Effect, New
  <2>2. PICK o \in {tree[d].owner, OwnerOf(d)}, m \in {tree[d].mode, ModeOf(d)} : tree'[d] = Dir(o, m)
    BY <1>3, <2>1 DEF Put
  <2>3. o # "root" /\ tree'[d].owner = o
    BY <1>3, <2>2 DEF Dir
  <2> QED
    BY <2>3
<1>4. CASE ~ Exists(d) /\ tree'[d] = tree[d]
  BY <1>4, Owner DEF Exists
<1> QED
  BY <1>0, <1>1, <1>2, <1>3, <1>4 DEF Effect, New, Put

-----------------------------------------------------------------------------
(* Progress *)

\* A helper that goes on leaves a directory that is as it must be, and one that
\* puts a mode right found the owner right.
LEMMA MakingStep ==
  ASSUME IInv, NEW h \in Helpers, HelperStep(h), phase[h] \in Making, phase'[h] \in Making,
         seen[h] = root.id
  PROVE /\ (UNCHANGED at /\ phase'[h] # "ready") \/ (Advances(h) /\ GoodNext(Target(h)))
        /\ phase'[h] = "mode again" => OwnedNext(Target(h)) /\ UNCHANGED at
<1>0. h \in All /\ Typed /\ Target(h) \in Dirs
  BY TargetIs DEF IInv, All
<1>1. Effect(h) /\ UNCHANGED removed
  BY <1>0, TreeStep, ControlStep DEF Others
<1>2. CASE Look(h) \/ Check(h)
  <2>1. CASE phase' = [phase EXCEPT ![h] = "mode again"]
    <3>1. UNCHANGED at /\ phase'[h] = "mode again" /\ Safe(Target(h)) /\ Exists(Target(h))
      BY <1>0, <1>2, <2>1 DEF Look, Check, Advances, Refuses, Goes, OnlyPhase, Typed
    <3>2. Owned(Target(h))
      BY <3>1 DEF Safe, Owned
    <3> QED
      BY <1>0, <1>1, <3>1, <3>2, EffectKeeps
  <2>2. CASE phase' = [phase EXCEPT ![h] = "make"]
    BY <1>0, <1>2, <2>2 DEF Look, Check, Advances, Refuses, Goes, OnlyPhase, Typed
  <2>3. CASE Advances(h) /\ Safe(Target(h)) /\ Exists(Target(h)) /\ tree[Target(h)].mode = ModeOf(Target(h))
    <3>1. tree[Target(h)] = Dir(OwnerOf(Target(h)), ModeOf(Target(h)))
      BY <1>0, <2>3, Node DEF Safe
    <3>2. GoodNext(Target(h)) /\ phase'[h] # "mode again"
      BY <1>0, <1>1, <2>3, <3>1, EffectKeeps DEF Good, Advances, Goes, Typed
    <3> QED
      BY <2>3, <3>2
  <2> QED
    BY <1>0, <1>2, <2>1, <2>2, <2>3 DEF Look, Check, Refuses, Goes, Typed, Making
<1>3. CASE ModeAgain(h)
  <2>1. CASE Exists(Target(h))
    <3>1. /\ tree' = [tree EXCEPT ![Target(h)] = [tree[Target(h)] EXCEPT !.mode = ModeOf(Target(h))]]
          /\ Advances(h) /\ phase[h] = "mode again"
      BY <1>3, <2>1 DEF ModeAgain, Changes, At
    <3>2. tree'[Target(h)] = Dir(tree[Target(h)].owner, ModeOf(Target(h)))
      BY <1>0, <2>1, <3>1, Node DEF Typed
    <3>3. Owned(Target(h))
      BY <3>1 DEF IInv, Progress, Making
    <3>4. GoodNext(Target(h))
      BY <1>1, <3>2, <3>3 DEF Owned, GoodNext
    <3> QED
      BY <1>0, <3>1, <3>4 DEF Advances, Goes, Typed
  <2>2. CASE ~ Exists(Target(h))
    BY <1>0, <1>3, <2>2 DEF ModeAgain, Refuses, Goes, Typed, Making
  <2> QED
    BY <2>1, <2>2
<1>4. CASE Make(h) \/ Own(h) \/ Mode(h)
  BY <1>0, <1>4 DEF Make, Made, Own, Mode, Refuses, Goes, Typed, Making
<1>5. Look(h) \/ Check(h) \/ ModeAgain(h) \/ Make(h) \/ Own(h) \/ Mode(h)
  BY <1>0 DEF HelperStep, Start, Admit, MakeRoot, ModRoot, Preflight, Revalidate, OpenRoot, Cancel, CallFails, Die, At,
    Making, Refuses, Goes, Typed
<1> QED
  BY <1>2, <1>3, <1>4, <1>5

\* A helper begins to make directories at the first, over a root that lets users pass.
LEMMA FirstStep ==
  ASSUME IInv, NEW h \in Helpers, HelperStep(h), phase[h] \notin Making, phase'[h] \in Making
  PROVE /\ at[h] = 1 /\ UNCHANGED at /\ phase'[h] = "look"
        /\ GoodNext(Backup)
<1>0. h \in All /\ Typed
  BY DEF IInv, All
<1>1. OpenRoot(h) /\ Exists(Backup)
  BY <1>0 DEF HelperStep, Start, Admit, MakeRoot, ModRoot, Preflight, Revalidate, OpenRoot, Look, Make, Own, Mode,
    Check, ModeAgain, Cancel, CallFails, Die, At, Making, Goes, Refuses, Typed
<1>2. at[h] = 1
  BY <1>0, <1>1 DEF OpenRoot, At, IInv, Starting, Early
<1>3. Backup \in Dirs /\ OwnerOf(Backup) = "root" /\ ModeOf(Backup) = "passable"
  BY Directories DEF ModeOf
<1>4. tree' = [tree EXCEPT ![Backup] = [tree[Backup] EXCEPT !.mode = "passable"]]
      /\ UNCHANGED at /\ phase' = [phase EXCEPT ![h] = "look"]
  BY <1>1 DEF OpenRoot, Changes, Goes
<1>5. tree'[Backup] = Dir("root", "passable")
  <2>1. [tree[Backup] EXCEPT !.mode = "passable"] = Dir(tree[Backup].owner, "passable")
        /\ tree[Backup].owner = "root"
    BY <1>0, <1>1, <1>3, Node DEF IInv, Approved, OpenRoot, At
  <2>2. tree'[Backup] = [tree[Backup] EXCEPT !.mode = "passable"]
    BY <1>0, <1>3, <1>4 DEF Typed
  <2> QED
    BY <2>1, <2>2
<1> QED
  BY <1>0, <1>2, <1>3, <1>4, <1>5 DEF GoodNext, Typed

LEMMA ProgressStep ==
  ASSUME IInv, NEW h \in All, HelperStep(h)
  PROVE Seen' /\ Starting' /\ Progress' /\ Approved' /\ Giving'
<1>0. Typed /\ Effect(h) /\ Others(h)
  BY TreeStep, ControlStep DEF IInv
<1>1. \A d \in Dirs : (Good(d) => GoodNext(d)) /\ (Owned(d) => OwnedNext(d))
  BY <1>0, EffectKeeps DEF Others
<1>2. Seen'
  <2>1. \A g \in All \ {h} : seen'[g] = seen[g]
    BY <1>0 DEF Others
  <2>2. seen'[h] = seen[h] \/ seen'[h] = root.id
    BY <1>0, ControlStep
  <2> QED
    BY <1>0, <2>1, <2>2 DEF IInv, Seen, Others
<1>3. Starting'
  <2>1. ASSUME h \in Helpers, phase'[h] \in Early PROVE at'[h] = 1
    <3>1. phase[h] \in Early
      BY <1>0, <2>1 DEF HelperStep, Start, Admit, MakeRoot, ModRoot, Preflight, Revalidate, OpenRoot, Look, Make,
        Made, Own, Mode, Check, ModeAgain, Cancel, CallFails, Die, Refuses, Advances, At, Goes, Typed, Early
    <3>2. UNCHANGED at
      BY <1>0, <2>1, ControlStep DEF Early
    <3> QED
      BY <2>1, <3>1, <3>2 DEF IInv, Starting
  <2> QED
    BY <1>0, <2>1 DEF IInv, Starting, Others, All
<1>4. \A g \in All : \A i \in 1..Len(Program(g)) : Program(g)[i] \in Dirs
  BY Programs
<1>5. ASSUME NEW g \in Helpers, g # h, seen'[g] = root'.id, phase'[g] \in Making
      PROVE /\ GoodNext(Backup)
            /\ \A i \in 1..Len(Program(g)) : i < at'[g] \/ phase'[g] = "ready" => GoodNext(Program(g)[i])
            /\ phase'[g] = "mode again" => OwnedNext(Target(g)) /\ at'[g] = at[g]
  <2>1. g \in All /\ phase'[g] = phase[g] /\ at'[g] = at[g] /\ seen'[g] = seen[g] /\ root' = root
    BY <1>0, <1>5 DEF Others, All
  <2>2. /\ Good(Backup)
        /\ \A i \in 1..Len(Program(g)) : i < at[g] \/ phase[g] = "ready" => Good(Program(g)[i])
        /\ phase[g] = "mode again" => Owned(Target(g))
    BY <1>5, <2>1 DEF IInv, Progress
  <2>3. Target(g) \in Dirs /\ Backup \in Dirs /\ Target(g)' = Target(g)
    BY <1>0, <2>1, TargetIs, Directories DEF Target
  <2>4. phase'[g] = "mode again" => OwnedNext(Target(g))
    BY <1>1, <2>1, <2>2, <2>3
  <2> QED
    BY <1>1, <1>4, <2>1, <2>2, <2>3, <2>4
<1>6. ASSUME h \in Helpers, seen'[h] = root'.id, phase'[h] \in Making
      PROVE /\ GoodNext(Backup)
            /\ \A i \in 1..Len(Program(h)) : i < at'[h] \/ phase'[h] = "ready" => GoodNext(Program(h)[i])
            /\ phase'[h] = "mode again" => OwnedNext(Target(h)) /\ at'[h] = at[h]
  <2>0. root' = root /\ seen'[h] = seen[h]
    BY <1>0, <1>6, ControlStep DEF Others, Making
  <2>1. CASE phase[h] \notin Making
    <3>1. at[h] = 1 /\ UNCHANGED at /\ phase'[h] = "look" /\ GoodNext(Backup)
      BY <1>6, <2>1, FirstStep
    <3>2. \A i \in 1..Len(Program(h)) : ~ (i < at'[h])
      BY <3>1 DEF Program
    <3> QED
      BY <3>1, <3>2
  <2>2. CASE phase[h] \in Making
    <3>1. /\ Good(Backup)
          /\ \A i \in 1..Len(Program(h)) : i < at[h] => Good(Program(h)[i])
      BY <1>6, <2>0, <2>2 DEF IInv, Progress
    <3>2. /\ (UNCHANGED at /\ phase'[h] # "ready") \/ (Advances(h) /\ GoodNext(Target(h)))
          /\ phase'[h] = "mode again" => OwnedNext(Target(h)) /\ UNCHANGED at
      BY <1>6, <2>0, <2>2, MakingStep
    <3>3. GoodNext(Backup) /\ \A i \in 1..Len(Program(h)) : i < at[h] => GoodNext(Program(h)[i])
      BY <1>1, <1>4, <3>1, Directories
    <3>4. CASE UNCHANGED at /\ phase'[h] # "ready"
      BY <3>2, <3>3, <3>4
    <3>5. CASE Advances(h) /\ GoodNext(Target(h))
      <4>1. at[h] \in Nat /\ Len(Program(h)) \in Nat /\ at[h] \in 1..Len(Program(h))
        BY <1>0 DEF Typed, Program
      <4>2. CASE at[h] = Len(Program(h)) /\ UNCHANGED at
        <5>1. \A i \in 1..Len(Program(h)) : i < at[h] \/ i = at[h]
          BY <4>1, <4>2
        <5>2. GoodNext(Program(h)[at[h]])
          BY <3>5 DEF Target
        <5>3. phase'[h] # "mode again"
          BY <1>0, <3>5, <4>2 DEF Advances, Goes, Typed
        <5> QED
          BY <3>3, <5>1, <5>2, <5>3
      <4>3. CASE at' = [at EXCEPT ![h] = at[h] + 1] /\ phase' = [phase EXCEPT ![h] = "look"]
        <5>1. at'[h] = at[h] + 1 /\ phase'[h] = "look"
          BY <1>0, <4>3 DEF Typed
        <5>2. GoodNext(Program(h)[at[h]])
          BY <3>5, <5>1 DEF Target
        <5> QED
          BY <3>3, <4>1, <5>1, <5>2
      <4> QED
        BY <3>5, <4>2, <4>3 DEF Advances, Goes
    <3> QED
      BY <3>2, <3>4, <3>5
  <2> QED
    BY <2>1, <2>2
<1>7. Approved'
  <2>1. tree[Backup].owner = "root" => tree'[Backup].owner = "root"
    <3>1. Backup \in Dirs /\ OwnerOf(Backup) = "root"
      BY Directories
    <3>2. CASE tree'[Backup] = tree[Backup]
      BY <3>2
    <3>3. CASE Put(Backup)
      BY <3>1, <3>3 DEF Put, Dir
    <3>4. CASE New(Backup)
      BY <3>4 DEF New, Dir
    <3> QED
      BY <1>0, <3>1, <3>2, <3>3, <3>4 DEF Effect
  <2>2. ASSUME phase'[h] = "open root" PROVE tree[Backup].owner = "root"
    <3>1. Revalidate(h)
      BY <1>0, <2>2 DEF HelperStep, Start, Admit, MakeRoot, ModRoot, Preflight, OpenRoot, Look, Make,
        Made, Own, Mode, Check, ModeAgain, Cancel, CallFails, Die, Refuses, Advances, At, Goes, Typed
    <3> QED
      BY <1>0, <2>2, <3>1 DEF Revalidate, OnlyPhase, Refuses, Admissible, Goes, Typed
  <2> QED
    <3>1. \A g \in All : phase'[g] = "open root" => tree'[Backup].owner = "root"
      <4>1. \A g \in All \ {h} : phase'[g] = phase[g]
        BY <1>0 DEF Others
      <4>2. \A g \in All : phase[g] = "open root" => tree[Backup].owner = "root"
        BY DEF IInv, Approved
      <4> TAKE g \in All
      <4>3. CASE g = h
        BY <2>1, <2>2, <4>3
      <4>4. CASE g # h
        <5> HAVE phase'[g] = "open root"
        <5>1. phase[g] = "open root"
          BY <4>1, <4>4
        <5>2. tree[Backup].owner = "root"
          BY <4>2, <5>1
        <5> QED
          BY <2>1, <5>2
      <4> QED
        BY <4>3, <4>4
    <3> QED
      BY <3>1 DEF Approved, Backup
<1>8. Giving'
  <2>1. ASSUME phase'[h] = "own" PROVE UNCHANGED at /\ OwnerOf(Target(h)) # "root"
    BY <1>0, <2>1 DEF HelperStep, Start, Admit, MakeRoot, ModRoot, Preflight, Revalidate, OpenRoot, Look, Make,
      Made, Own, Mode, Check, ModeAgain, Cancel, CallFails, Die, Refuses, Advances, OnlyPhase, At, Goes, Typed
  <2> QED
    BY <1>0, <2>1 DEF IInv, Giving, Others, Target
<1> QED
  BY <1>2, <1>3, <1>5, <1>6, <1>7, <1>8 DEF Progress, Good, GoodNext, Owned, OwnedNext, Exists, Target

LEMMA HelperInv == ASSUME IInv, NEW h \in All, HelperStep(h) PROVE IInv'
<1>1. Typed /\ Effect(h) /\ Others(h) /\ Nested
  BY TreeStep, ControlStep DEF IInv
<1>2. Nested' /\ \A d \in Dirs : tree'[d] \in Nodes(d)
  BY <1>1, EffectKeeps DEF Others
<1>3. \A g \in All : at'[g] \in 1..Len(Program(g))
  <2>1. at'[h] \in 1..Len(Program(h)) /\ \A g \in All \ {h} : at'[g] = at[g]
    BY <1>1, ControlStep DEF Others
  <2> QED
    BY <1>1, <2>1 DEF Typed
<1>4. Typed'
  <2>1. tree' \in [Dirs -> UNION {Nodes(d) : d \in Dirs}]
    BY <1>1 DEF Effect
  <2>2. /\ phase' \in [All -> Live \cup Over] /\ touched' \subseteq All
        /\ seen' \in [All -> 0..1] /\ at' \in [All -> Nat] /\ root' = root /\ code' \in [All -> Codes]
    BY <1>1, ControlStep DEF Others
  <2> QED
    BY <1>1, <1>2, <1>3, <2>1, <2>2 DEF Typed
<1> QED
  BY <1>2, <1>4, ProgressStep, StrandedStep DEF IInv

-----------------------------------------------------------------------------
(* The users and the administrator *)

LEMMA RemoveInv == ASSUME IInv, NEW u \in Users, Remove(u) PROVE IInv'
<1> USE DEF IInv
<1>1. /\ State(u) \in Dirs /\ tree' = [tree EXCEPT ![State(u)] = Absent]
      /\ removed' = removed \cup {State(u)} /\ UNCHANGED <<root, phase, at, seen, code, touched>>
      /\ State(u) # Backup
  BY Directories DEF Remove, helper, Parents
<1>2. /\ tree'[State(u)] = Absent
      /\ \A d \in Dirs \ {State(u)} : tree'[d] = tree[d]
      /\ tree' \in [Dirs -> UNION {Nodes(d) : d \in Dirs}]
      /\ \A d \in Dirs : tree'[d] \in Nodes(d)
  BY <1>1 DEF Typed, Nodes
<1>3. Typed'
  BY <1>1, <1>2 DEF Typed
<1>4. Nested'
  BY <1>2, Directories DEF Nested, Exists
<1>5. Seen' /\ Starting' /\ Approved' /\ Giving'
  BY <1>1, <1>2, Directories DEF Seen, Starting, Approved, Giving, Target
<1>6. \A d \in Dirs : (Good(d) => GoodNext(d)) /\ (Owned(d) => OwnedNext(d))
  BY <1>1, <1>2 DEF Good, GoodNext, Owned, OwnedNext, Exists
<1>7. Progress'
  <2>1. \A h \in Helpers : Target(h) \in Dirs /\ \A i \in 1..Len(Program(h)) : Program(h)[i] \in Dirs
    BY Programs, TargetIs DEF All
  <2>2. Backup \in Dirs
    BY Directories
  <2>3. \A h \in Helpers : seen'[h] = root'.id /\ phase'[h] \in Making =>
          /\ GoodNext(Backup)
          /\ \A i \in 1..Len(Program(h)) : i < at'[h] \/ phase'[h] = "ready" => GoodNext(Program(h)[i])
          /\ phase'[h] = "mode again" => OwnedNext(Target(h))
    BY <1>1, <1>6, <2>1, <2>2 DEF Progress
  <2> QED
    BY <1>1, <2>3 DEF Progress, Good, GoodNext, Owned, OwnedNext, Exists, Target
<1>8. StrandedAtOwnOnly'
  <2>1. \A d \in Dirs : tree'[d].owner = "root" => tree[d].owner = "root"
    BY <1>2, Owner
  <2> QED
    BY <1>1, <2>1 DEF StrandedAtOwnOnly, Target
<1> QED
  BY <1>3, <1>4, <1>5, <1>7, <1>8

LEMMA RemountInv == ASSUME IInv, Remount PROVE IInv'
<1> USE DEF IInv
<1>1. /\ root.id = 0 /\ root'.id = 1 /\ UNCHANGED <<phase, at, seen, code, touched, removed>>
      /\ root' \in [id : 0..1, custom : BOOLEAN, approved : BOOLEAN]
      /\ tree' = [d \in Dirs |-> IF d = Backup THEN Dir("root", "passable") ELSE Absent]
  <2>1. /\ root.id = 0 /\ root' = [root EXCEPT !.id = 1, !.approved = FALSE]
        /\ UNCHANGED <<phase, at, seen, code, touched, removed>>
        /\ tree' = [d \in Dirs |-> IF d = Backup THEN Dir("root", "passable") ELSE Absent]
    BY DEF Remount, helper
  <2>2. root \in [id : 0..1, custom : BOOLEAN, approved : BOOLEAN]
    BY DEF Typed
  <2>3. root'.id = 1 /\ root' \in [id : 0..1, custom : BOOLEAN, approved : BOOLEAN]
    <3>1. root' = [id |-> 1, custom |-> root.custom, approved |-> FALSE]
      <4>1. root = [id |-> root.id, custom |-> root.custom, approved |-> root.approved]
        BY <2>2
      <4> QED
        BY <2>1, <4>1
    <3> QED
      BY <2>2, <3>1
  <2> QED
    BY <2>1, <2>3
<1>2. /\ tree'[Backup] = Dir("root", "passable") /\ OwnerOf(Backup) = "root"
      /\ \A d \in Dirs \ {Backup} : tree'[d] = Absent
  BY <1>1, Directories
<1>3. Typed'
  <2>1. \A d \in Dirs : tree'[d] \in Nodes(d)
    BY <1>2, DirIsNode DEF Nodes, Modes, Owners
  <2>2. tree' \in [Dirs -> UNION {Nodes(d) : d \in Dirs}]
    BY <1>1, <2>1
  <2> QED
    BY <1>1, <2>1, <2>2 DEF Typed
<1>4. Nested'
  BY <1>2 DEF Nested, Exists
<1>5. Seen' /\ Starting' /\ Approved' /\ Giving'
  <2>1. tree'[Backup].owner = "root"
    BY <1>2, Owner
  <2> QED
    BY <1>1, <2>1 DEF Seen, Starting, Approved, Giving, Target, Backup
<1>6. Progress'
  <2>1. \A h \in Helpers : seen'[h] = 0
    BY <1>1 DEF Seen, All
  <2> QED
    <3>1. \A h \in Helpers : ~ (seen'[h] = root'.id)
      BY <1>1, <2>1
    <3> QED
      BY <3>1 DEF Progress
<1>7. StrandedAtOwnOnly'
  <2>1. \A d \in Dirs : tree'[d].owner = "root" => OwnerOf(d) = "root"
    BY <1>2, Owner
  <2> QED
    BY <2>1 DEF StrandedAtOwnOnly
<1> QED
  BY <1>3, <1>4, <1>5, <1>6, <1>7

LEMMA SameInv ==
  ASSUME IInv, UNCHANGED <<tree, phase, at, seen, code, touched, removed>>, root'.id = root.id,
         root' \in [id : 0..1, custom : BOOLEAN, approved : BOOLEAN]
  PROVE IInv'
<1> USE DEF IInv
<1>1. Typed' /\ Nested' /\ Seen' /\ Starting' /\ Approved' /\ Giving'
  BY DEF Typed, Nested, Seen, Starting, Approved, Giving, Exists, Target
<1>2. Progress'
  BY DEF Progress, Good, Owned, Exists, Target
<1>3. StrandedAtOwnOnly'
  BY DEF StrandedAtOwnOnly, Exists, Target
<1> QED
  BY <1>1, <1>2, <1>3

LEMMA NextInv == IInv /\ [Next]_vars => IInv'
<1> SUFFICES ASSUME IInv, [Next]_vars PROVE IInv'
  OBVIOUS
<1>1. CASE UNCHANGED vars
  BY <1>1, SameInv DEF vars, helper, IInv, Typed
<1>2. CASE Withdraw
  <2>1. root' = [root EXCEPT !.approved = FALSE] /\ UNCHANGED <<tree, phase, at, seen, code, touched, removed>>
    BY <1>2 DEF Withdraw, helper
  <2>2. root'.id = root.id /\ root' \in [id : 0..1, custom : BOOLEAN, approved : BOOLEAN]
    BY <2>1 DEF IInv, Typed
  <2> QED
    BY <2>1, <2>2, SameInv
<1> QED
  BY <1>1, <1>2, HelperInv, RemoveInv, RemountInv DEF Next, HelperStep

-----------------------------------------------------------------------------
(* The theorems *)

(* The strengthened invariant holds in every state the helpers can reach. *)
THEOREM Invariance == Spec => []IInv
BY InitInv, NextInv, PTL DEF Spec

(* The types of the variables, and every directory is in its parent
   (configure.py:513-554). *)
THEOREM ProvisionTypeCorrect == Spec => []TypeOK
<1>1. ASSUME IInv PROVE TypeOK
  <2>1. \A d \in Dirs : tree[d] \in {Absent} \cup [owner : {"root", "stranger"} \cup Users,
                                                  mode : {"private", "passable", "writable"}]
    BY <1>1, Directories DEF IInv, Typed, Nodes, Owners, Modes
  <2>2. \A h \in All : at[h] \in 1..4
    BY <1>1, Programs DEF IInv, Typed
  <2> QED
    BY <1>1, <2>1, <2>2 DEF IInv, Typed, Nested, TypeOK
<1> QED
  BY <1>1, Invariance, PTL

(* The directories of a ready session are its user's and private, and its parents let
   the user pass, whatever others do (configure.py:518-553). *)
THEOREM ReadyIsOursAlways == Spec => []ReadyIsOurs
<1>1. ASSUME IInv, NEW h \in Helpers, phase[h] = "ready", seen[h] = root.id,
             NEW d \in (Parents \cup {Leaf(UserOf[h]), State(UserOf[h])}) \ removed
      PROVE tree[d] = Dir(OwnerOf(d), ModeOf(d))
  <2>1. Good(Backup) /\ \A i \in 1..Len(Program(h)) : Good(Program(h)[i])
    BY <1>1 DEF IInv, Progress, Making
  <2>2. Program(h) = <<Internal, UsersDir, Leaf(UserOf[h]), State(UserOf[h])>>
    BY DEF Program
  <2>3. Good(Internal) /\ Good(UsersDir) /\ Good(Leaf(UserOf[h])) /\ Good(State(UserOf[h]))
    BY <2>1, <2>2
  <2> QED
    BY <1>1, <2>1, <2>3 DEF Good, Parents
<1>2. IInv => ReadyIsOurs
  BY <1>1 DEF ReadyIsOurs
<1> QED
  BY <1>2, Invariance, PTL

(* A directory of a user that root owns is one a helper is giving away, or was when it
   was cancelled, died or its chown failed (configure.py:413-417). *)
THEOREM StrandedAtOwnOnlyAlways == Spec => []StrandedAtOwnOnly
<1>1. IInv => StrandedAtOwnOnly
  BY DEF IInv
<1> QED
  BY <1>1, Invariance, PTL

-----------------------------------------------------------------------------
(* A helper that is alone                                                  *)

\* Nothing was changed before the root is opened, and a helper gives its reason when
\* it refuses.
Untouched ==
  /\ alone \subseteq All
  /\ \A h \in All : phase[h] \in Early => h \notin touched
  /\ \A h \in All : phase[h] # "refused" => code[h] = "none"

\* While a helper that met no other one alive runs, none does.
Solitary == \A h \in alone : phase[h] \in Live => \A g \in All \ {h} : phase[g] \notin Live

\* What such a helper found safe stays so, except what it has made and not given away yet.
Admitted == {"revalidate", "open root", "look", "make", "own", "mode", "check", "mode again"}
StaysSafe ==
  \A h \in alone \cap Helpers : phase[h] \in Admitted =>
    \A i \in 1..Len(Program(h)) : Safe(Program(h)[i]) \/ (phase[h] = "own" /\ Program(h)[i] = Target(h))

\* What helpers then found or made is there.
Opened == {"modroot", "admit again", "preflight", "revalidate", "open root"} \cup Making
Present ==
  Calm =>
    /\ root.custom => Exists(Backup) /\ Exists(Internal)
    /\ \A h \in Helpers : phase[h] \in Opened => Exists(Backup)
    /\ \A h \in Helpers : phase[h] \in {"own", "mode", "check", "mode again"} => Exists(Target(h))
    /\ \A h \in alone \cap Helpers : phase[h] = "make" => ~ Exists(Target(h))

CleanInv == Untouched /\ Solitary /\ StaysSafe /\ RefusalIsClean

LEMMA InitHistory == Init => CleanInv /\ Present
<1> SUFFICES ASSUME Init PROVE CleanInv /\ Present
  OBVIOUS
<1>1. Untouched /\ RefusalIsClean
  BY DEF Init, Untouched, RefusalIsClean, Codes
<1>2. Solitary /\ StaysSafe
  BY DEF Init, Solitary, StaysSafe, Live, Admitted, All
<1>3. Present
  BY DEF Init, Present, Calm, Opened, Making, All
<1> QED
  BY <1>1, <1>2, <1>3 DEF CleanInv

\* What a step of a helper does to its reason, what it has changed and who is alone.
LEMMA HistoryStep ==
  ASSUME Typed, Untouched, NEW h \in All, HelperStep(h)
  PROVE /\ phase[h] # "refused" /\ code[h] = "none"
        /\ \A g \in All \ {h} : code'[g] = code[g] /\ (g \in touched' => g \in touched)
        /\ alone' \subseteq alone
        /\ phase'[h] # "refused" => code'[h] = "none"
        /\ phase'[h] \in Early => h \notin touched'
        /\ Start(h) \/ (phase[h] \in Live /\ alone' = alone)
<1>1. phase[h] # "refused" /\ (Start(h) \/ (phase[h] \in Live /\ alone' = alone))
  BY DEF HelperStep, Start, Admit, MakeRoot, ModRoot, Preflight, Revalidate, OpenRoot, Look, Make, Own, Mode,
    Check, ModeAgain, Cancel, CallFails, Die, At, Live, BeforeChange, Refuses, OnlyPhase, Stay
<1>2. alone' \subseteq alone
  BY <1>1 DEF Start
<1>3. touched' = touched \/ touched' = touched \cup {h}
  BY DEF HelperStep, Start, Admit, MakeRoot, ModRoot, Preflight, Revalidate, OpenRoot, Look, Make, Own, Mode,
    Check, ModeAgain, Cancel, CallFails, Die, Refuses, OnlyPhase, Changes
<1>4. \/ code' = code /\ (\E p \in Live \cup Over : p # "refused" /\ phase' = [phase EXCEPT ![h] = p])
      \/ \E c \in Codes : Refuses(h, c)
  <2> USE DEF Goes
  <2>1. CASE Start(h) \/ Admit(h) \/ MakeRoot(h) \/ ModRoot(h) \/ Preflight(h) \/ Revalidate(h) \/ OpenRoot(h)
    BY <2>1 DEF Start, Admit, MakeRoot, ModRoot, Preflight, Revalidate, OpenRoot, Live, Over, Codes, OnlyPhase, Stay
  <2>2. CASE Look(h) \/ Make(h) \/ Own(h) \/ Mode(h)
    BY <2>2 DEF Look, Make, Made, Own, Mode, Advances, Live, Over, Codes, OnlyPhase, Stay
  <2>3. CASE Check(h) \/ ModeAgain(h) \/ Cancel(h) \/ CallFails(h) \/ Die(h)
    BY <2>3 DEF Check, ModeAgain, Cancel, CallFails, Die, Advances, Live, Over, Codes, Failures, OnlyPhase, Stay
  <2> QED
    BY <2>1, <2>2, <2>3 DEF HelperStep
<1>5. phase \in [All -> Live \cup Over] /\ code \in [All -> Codes] /\ code[h] = "none"
  BY <1>1 DEF Typed, Untouched
<1>6. /\ code' \in [All -> Codes] /\ \A g \in All \ {h} : code'[g] = code[g]
      /\ phase'[h] # "refused" => code'[h] = "none"
  BY <1>4, <1>5 DEF Refuses, Goes
<1>7. ASSUME phase'[h] \in Early PROVE h \notin touched'
  <2>1. phase[h] \in Early /\ touched' = touched
    BY <1>5, <1>7 DEF HelperStep, Start, Admit, MakeRoot, ModRoot, Preflight, Revalidate, OpenRoot, Look, Make,
      Made, Own, Mode, Check, ModeAgain, Cancel, CallFails, Die, Refuses, Advances, At, Goes, OnlyPhase, Changes, Early
  <2> QED
    BY <2>1 DEF Untouched
<1> QED
  BY <1>1, <1>2, <1>3, <1>5, <1>6, <1>7

\* No other helper moves while one that is alone runs.
LEMMA LoneMoves ==
  ASSUME Typed, Untouched, Solitary, NEW h \in All, HelperStep(h),
         NEW g \in alone', g # h, phase[g] \in Live
  PROVE FALSE
<1>1. g \in alone /\ g \in All
  BY HistoryStep DEF Untouched
<1>2. CASE Start(h)
  BY <1>1, <1>2 DEF Start
<1>3. CASE phase[h] \in Live
  BY <1>1, <1>3 DEF Solitary
<1> QED
  BY <1>2, <1>3, HistoryStep

LEMMA UntouchedStep ==
  ASSUME Typed, Untouched, NEW h \in All, HelperStep(h) PROVE Untouched'
BY HistoryStep, ControlStep DEF Untouched, Others

LEMMA SolitaryStep ==
  ASSUME Typed, Untouched, Solitary, NEW h \in All, HelperStep(h) PROVE Solitary'
<1> SUFFICES ASSUME NEW g \in alone', phase'[g] \in Live, NEW x \in All \ {g}, phase'[x] \in Live PROVE FALSE
  BY DEF Solitary
<1>1. g \in alone /\ g \in All /\ \A y \in All \ {h} : phase'[y] = phase[y]
  BY HistoryStep, ControlStep DEF Untouched, Others
<1>2. CASE g # h
  BY <1>1, <1>2, LoneMoves
<1>3. CASE g = h
  <2>1. x # h /\ phase[x] \in Live
    BY <1>1, <1>3
  <2>2. CASE Start(h)
    BY <1>3, <2>1, <2>2 DEF Start
  <2>3. CASE phase[h] \in Live
    BY <1>1, <1>3, <2>1, <2>3 DEF Solitary
  <2> QED
    BY <2>2, <2>3, HistoryStep
<1> QED
  BY <1>2, <1>3

\* Directories stay safe, except what the helper makes and has to give away.
LEMMA SafeStep ==
  ASSUME Typed, Typed', NEW h \in All, HelperStep(h), NEW d \in Dirs, Safe(d)
  PROVE Safe(d)' \/ (h \in Helpers /\ d = Target(h) /\ phase'[h] = "own" /\ UNCHANGED at)
<1>2. tree'[d] = tree[d] \/ Put(d) \/ (New(d) /\ Given(h, d))
  BY TreeStep DEF Effect
<1>3. ModeOf(d) # "writable" /\ \A m \in Tight : m # "writable"
  BY Directories DEF Tight
<1>4. CASE tree'[d] = tree[d]
  BY <1>4 DEF Safe, Exists
<1>5. CASE Put(d)
  <2>1. PICK o \in {tree[d].owner, OwnerOf(d)}, m \in {tree[d].mode, ModeOf(d)} : tree'[d] = Dir(o, m)
    BY <1>5 DEF Put
  <2>2. o = OwnerOf(d) /\ (OwnerOf(d) = "root" => m # "writable")
    BY <1>3, <1>5 DEF Put, Safe
  <2>3. tree'[d].owner = o /\ tree'[d].mode = m
    BY <2>1 DEF Dir
  <2> QED
    BY <2>2, <2>3 DEF Safe
<1>6. CASE New(d) /\ Given(h, d)
  <2>1. PICK m \in Tight : tree'[d] = Dir("root", m)
    BY <1>6 DEF New
  <2>2. tree'[d].owner = "root" /\ tree'[d].mode # "writable"
    BY <1>3, <2>1 DEF Dir
  <2> QED
    BY <1>6, <2>2 DEF Given, Safe
<1> QED
  BY <1>2, <1>4, <1>5, <1>6

LEMMA StaysSafeStep ==
  ASSUME Typed, Typed', Giving, Untouched, Solitary, StaysSafe, NEW h \in All, HelperStep(h) PROVE StaysSafe'
<1> SUFFICES ASSUME NEW g \in alone', g \in Helpers, phase'[g] \in Admitted, NEW i \in 1..Len(Program(g))
             PROVE Safe(Program(g)[i])' \/ (phase'[g] = "own" /\ Program(g)[i] = Target(g)')
  BY DEF StaysSafe
<1>0. /\ g \in alone /\ g \in All /\ \A y \in All \ {h} : phase'[y] = phase[y]
      /\ Program(g)[i] \in Dirs
  BY HistoryStep, ControlStep, Programs DEF Untouched, Others
<1>1. g = h
  <2>1. Admitted \subseteq Live
    BY DEF Admitted, Live
  <2> QED
    BY <1>0, <2>1, LoneMoves
<1>2. CASE Safe(Program(g)[i])
  <2>1. Safe(Program(g)[i])' \/ (Program(g)[i] = Target(h) /\ phase'[h] = "own" /\ UNCHANGED at)
    BY <1>0, <1>2, SafeStep
  <2> QED
    BY <1>1, <2>1 DEF Target
<1>3. CASE ~ Safe(Program(g)[i])
  <2>1. ~ Preflight(h)
    <3>1. DOMAIN Program(h) = 1..Len(Program(h))
      <4>1. /\ \A a, b, c, d : DOMAIN <<a, b, c, d>> = 1..Len(<<a, b, c, d>>)
            /\ \A a, b : DOMAIN <<a, b>> = 1..Len(<<a, b>>)
        OBVIOUS
      <4> QED
        BY <4>1, Zenon DEF Program
    <3> QED
      BY <1>0, <1>1, <1>3, <3>1 DEF Preflight, Refuses, Goes, Typed, Admitted
  <2>2. phase[h] \in Admitted
    BY <1>0, <1>1, <2>1 DEF HelperStep, Start, Admit, MakeRoot, ModRoot, Revalidate, OpenRoot, Look, Make,
      Own, Mode, Check, ModeAgain, Cancel, CallFails, Die, Refuses, At, Goes, Typed, Admitted
  <2>3. phase[h] = "own" /\ Program(g)[i] = Target(h)
    BY <1>0, <1>1, <1>3, <2>2 DEF StaysSafe
  <2>4. Own(h) /\ Exists(Target(h))
    BY <1>0, <1>1, <2>3 DEF HelperStep, Start, Admit, MakeRoot, ModRoot, Preflight, Revalidate, OpenRoot, Look, Make,
      Own, Mode, Check, ModeAgain, Cancel, CallFails, Die, Refuses, At, Goes, Typed, Admitted
  <2>5. tree' = [tree EXCEPT ![Target(h)] = [tree[Target(h)] EXCEPT !.owner = OwnerOf(Target(h))]]
    BY <2>4 DEF Own, Changes
  <2>6. tree'[Target(h)] = Dir(OwnerOf(Target(h)), tree[Target(h)].mode)
    <3>1. Target(h) \in Dirs /\ tree'[Target(h)] = [tree[Target(h)] EXCEPT !.owner = OwnerOf(Target(h))]
      BY <1>0, <2>3, <2>5 DEF Typed
    <3> QED
      BY <2>4, <3>1, Node
  <2>7. tree'[Target(h)].owner = OwnerOf(Target(h)) /\ OwnerOf(Target(h)) # "root"
    <3>1. tree'[Target(h)].owner = OwnerOf(Target(h))
      BY <2>6 DEF Dir
    <3>2. OwnerOf(Target(h)) # "root"
      BY <1>0, <1>1, <2>3 DEF Giving
    <3> QED
      BY <3>1, <3>2
  <2> QED
    BY <2>3, <2>7 DEF Safe
<1> QED
  BY <1>2, <1>3

LEMMA RefusalStep ==
  ASSUME Typed, Untouched, StaysSafe, RefusalIsClean, NEW h \in All, HelperStep(h) PROVE RefusalIsClean'
<1> SUFFICES ASSUME NEW g \in alone' \cap Helpers,
                    code'[g] \in {"invalid_backup_root", "unsafe_existing_path", "backup_root_changed"}
             PROVE g \notin touched'
  BY DEF RefusalIsClean
<1>0. g \in alone /\ g \in All
  BY HistoryStep DEF Untouched
<1>1. CASE g # h
  BY <1>0, <1>1, HistoryStep DEF RefusalIsClean
<1>2. CASE g = h
  <2>1. code'[h] # code[h] /\ code \in [All -> Codes]
    BY <1>2, HistoryStep DEF Typed
  <2>2. \/ phase[h] \in Early /\ touched' = touched
        \/ (Look(h) \/ Check(h)) /\ touched' = touched /\ ~ Safe(Target(h))
    BY <1>2, <2>1 DEF Failures, HelperStep, Start, Admit, MakeRoot, ModRoot, Preflight, Revalidate, OpenRoot, Look, Make,
      Own, Mode, Check, ModeAgain, Cancel, CallFails, Die, Refuses, At, OnlyPhase, Stay, Early, Untouched
  <2>3. CASE (Look(h) \/ Check(h)) /\ ~ Safe(Target(h))
    <3>2. h \in Helpers /\ phase[h] \in {"look", "check"}
      BY <1>2, <2>3 DEF Look, Check, At
    <3>3. Safe(Target(h))
      BY <1>0, <1>2, <3>2 DEF StaysSafe, Admitted, Typed, Target
    <3> QED
      BY <2>3, <3>3
  <2> QED
    BY <1>2, <2>2, <2>3 DEF Untouched
<1> QED
  BY <1>1, <1>2

\* A directory changes its owner only when the helper that made it gives it away.
LEMMA OwnerStep ==
  ASSUME Typed, NEW h \in All, HelperStep(h), NEW d \in Dirs, Exists(d)
  PROVE tree'[d].owner = tree[d].owner \/ (phase[h] = "own" /\ d = Target(h))
<1> DEFINE At1(e, new) == tree' = [tree EXCEPT ![e] = new]
<1>1. ASSUME NEW e \in Dirs, Exists(e), At1(e, [tree[e] EXCEPT !.mode = ModeOf(e)])
      PROVE tree'[d].owner = tree[d].owner
  <2>1. [tree[e] EXCEPT !.mode = ModeOf(e)] = Dir(tree[e].owner, ModeOf(e))
    BY <1>1, Node
  <2> QED
    BY <1>1, <2>1 DEF Typed, Dir
<1>2. ASSUME NEW e \in Dirs, NEW new, ~ Exists(e), At1(e, new) PROVE tree'[d] = tree[d]
  BY <1>2 DEF Typed
<1>3. Target(h) \in Dirs /\ Backup \in Dirs /\ ModeOf(Backup) = "passable"
  BY TargetIs, Directories DEF ModeOf
<1>4. CASE MakeRoot(h)
  BY <1>2, <1>3, <1>4 DEF MakeRoot, Changes, OnlyPhase
<1>5. CASE ModRoot(h) \/ OpenRoot(h)
  <2>1. UNCHANGED tree \/ (Exists(Backup) /\ At1(Backup, [tree[Backup] EXCEPT !.mode = ModeOf(Backup)]))
    BY <1>3, <1>5 DEF ModRoot, OpenRoot, Changes, Refuses
  <2> QED
    BY <1>1, <1>3, <2>1
<1>6. CASE Make(h)
  BY <1>2, <1>3, <1>6 DEF Make, Changes, Refuses
<1>7. CASE Own(h)
  <2>1. phase[h] = "own" /\ (UNCHANGED tree \/ \E new : At1(Target(h), new))
    BY <1>7 DEF Own, At, Changes, Refuses
  <2> QED
    BY <1>3, <2>1 DEF Typed
<1>8. CASE Mode(h) \/ ModeAgain(h)
  <2>1. UNCHANGED tree \/ (Exists(Target(h)) /\ At1(Target(h), [tree[Target(h)] EXCEPT !.mode = ModeOf(Target(h))]))
    BY <1>8 DEF Mode, ModeAgain, Changes, Refuses
  <2> QED
    BY <1>1, <1>3, <2>1
<1>9. (Start(h) \/ Admit(h) \/ Preflight(h) \/ Revalidate(h) \/ Look(h) \/ Check(h) \/ Cancel(h) \/ CallFails(h) \/ Die(h))
        => UNCHANGED tree
  BY DEF Start, Admit, Preflight, Revalidate, Look, Check, Cancel, CallFails, Die, Refuses, OnlyPhase
<1> QED
  BY <1>4, <1>5, <1>6, <1>7, <1>8, <1>9 DEF HelperStep

\* How a helper comes to a directory it is to change.
LEMMA PlaceStep ==
  ASSUME Typed, NEW h \in All, HelperStep(h)
  PROVE /\ phase'[h] \in {"own", "mode", "check", "mode again"} =>
             UNCHANGED at /\ (Exists(Target(h)) \/ (Make(h) /\ tree'[Target(h)] # Absent))
        /\ phase'[h] = "own" => UNCHANGED at /\ ~ Exists(Target(h))
        /\ phase'[h] = "make" => UNCHANGED <<at, tree>> /\ ~ Exists(Target(h))
<1>0. Target(h) \in Dirs /\ ModeOf(Target(h)) \in Tight
  BY TargetIs, Directories
<1>1. CASE Look(h) \/ Check(h)
  BY <1>1 DEF Look, Check, Refuses, OnlyPhase, Advances, Goes, Typed
<1>2. CASE Make(h)
  <2>1. CASE UNCHANGED tree
    <3>1. phase'[h] = "refused" \/ \E m \in Tight : tree' = [tree EXCEPT ![Target(h)] = Dir("root", m)]
      BY <1>0, <1>2 DEF Make, Changes, Refuses, Goes, Typed, Modes, Tight
    <3>2. CASE \E m \in Tight : tree' = [tree EXCEPT ![Target(h)] = Dir("root", m)]
      <4>1. tree'[Target(h)] # Absent
        BY <1>0, <3>2, AbsentIsNoDir DEF Typed
      <4>2. ~ Exists(Target(h)) \/ phase'[h] = "refused"
        BY <1>2 DEF Make, Refuses, Goes, Typed
      <4>3. phase'[h] \notin {"make", "refused"} => UNCHANGED at
        BY <1>2 DEF Make, Refuses, Goes, Typed
      <4> QED
        BY <1>2, <2>1, <4>1, <4>2, <4>3 DEF Exists, Make, Made, Refuses, Goes, Typed
    <3> QED
      BY <3>1, <3>2
  <2>2. CASE ~ UNCHANGED tree
    <3>1. /\ ~ Exists(Target(h)) /\ UNCHANGED at /\ phase' = [phase EXCEPT ![h] = Made(h)]
          /\ \E m \in Tight : tree' = [tree EXCEPT ![Target(h)] = Dir("root", m)]
      BY <1>0, <1>2, <2>2 DEF Make, Changes, Refuses, Goes, Modes, Tight
    <3>2. tree'[Target(h)] # Absent
      BY <1>0, <3>1, AbsentIsNoDir DEF Typed
    <3>3. phase'[h] # "make"
      BY <3>1 DEF Made, Typed
    <3> QED
      BY <1>2, <3>1, <3>2, <3>3
  <2> QED
    BY <2>1, <2>2
<1>3. CASE Own(h) \/ Mode(h) \/ ModeAgain(h)
  BY <1>3 DEF Own, Mode, ModeAgain, Refuses, Advances, Goes, Typed
<1>4. CASE Start(h) \/ Admit(h) \/ MakeRoot(h) \/ ModRoot(h) \/ Preflight(h) \/ Revalidate(h) \/ OpenRoot(h)
             \/ Cancel(h) \/ CallFails(h) \/ Die(h)
  BY <1>4 DEF Start, Admit, MakeRoot, ModRoot, Preflight, Revalidate, OpenRoot, Cancel, CallFails, Die, Refuses, Goes, Typed
<1> QED
  BY <1>1, <1>2, <1>3, <1>4 DEF HelperStep

LEMMA PresentStep ==
  ASSUME Typed, Untouched, Solitary, Present, NEW h \in All, HelperStep(h) PROVE Present'
<1> SUFFICES ASSUME Calm'
             PROVE (/\ root.custom => Exists(Backup) /\ Exists(Internal)
                    /\ \A g \in Helpers : phase[g] \in Opened => Exists(Backup)
                    /\ \A g \in Helpers : phase[g] \in {"own", "mode", "check", "mode again"} => Exists(Target(g))
                    /\ \A g \in alone \cap Helpers : phase[g] = "make" => ~ Exists(Target(g)))'
  BY DEF Present
<1>0. /\ Calm /\ root' = root /\ \A g \in All \ {h} : phase'[g] = phase[g] /\ at'[g] = at[g]
      /\ \A d \in Dirs : Exists(d) => tree'[d] # Absent
      /\ Backup \in Dirs /\ Internal \in Dirs /\ \A g \in All : Target(g) \in Dirs
      /\ Helpers \subseteq All /\ alone' \subseteq alone
  BY TreeStep, ControlStep, EffectKeeps, HistoryStep, TargetIs, Directories DEF Others, Exists, Calm, All, Parents
<1>1. /\ root.custom => Exists(Backup) /\ Exists(Internal)
      /\ \A g \in Helpers : phase[g] \in Opened => Exists(Backup)
      /\ \A g \in Helpers : phase[g] \in {"own", "mode", "check", "mode again"} => Exists(Target(g))
  BY <1>0 DEF Present
<1>2. ASSUME h \in Helpers, phase'[h] \in Opened PROVE tree'[Backup] # Absent
  <2>1. CASE phase[h] \in Opened
    BY <1>0, <1>1, <1>2, <2>1
  <2>2. CASE phase[h] \notin Opened
    <3>1. Admit(h) \/ MakeRoot(h)
      BY <1>0, <1>2, <2>2 DEF HelperStep, Start, Admit, MakeRoot, ModRoot, Preflight, Revalidate, OpenRoot, Look, Make,
        Own, Mode, Check, ModeAgain, Cancel, CallFails, Die, Refuses, At, Goes, Typed, Opened, Making
    <3>2. CASE Admit(h)
      <4>1. Exists(Backup)
        BY <1>0, <1>2, <3>2 DEF Admit, Admissible, Refuses, Goes, Typed, Opened, Making
      <4> QED
        BY <1>0, <4>1
    <3>3. CASE MakeRoot(h)
      <4>1. Exists(Backup) \/ \E m \in Tight : tree' = [tree EXCEPT ![Backup] = Dir("root", m)]
        BY <3>3 DEF MakeRoot, Changes, Modes, Tight
      <4>2. (\E m \in Tight : tree' = [tree EXCEPT ![Backup] = Dir("root", m)]) => tree'[Backup] # Absent
        BY <1>0, AbsentIsNoDir DEF Typed
      <4> QED
        BY <1>0, <4>1, <4>2
    <3> QED
      BY <3>1, <3>2, <3>3
  <2> QED
    BY <2>1, <2>2
<1>3. \A g \in Helpers : phase'[g] \in Opened => tree'[Backup] # Absent
  BY <1>0, <1>1, <1>2
<1>4. \A g \in Helpers : phase'[g] \in {"own", "mode", "check", "mode again"} => tree'[Target(g)'] # Absent
  <2> SUFFICES ASSUME NEW g \in Helpers, phase'[g] \in {"own", "mode", "check", "mode again"}
               PROVE tree'[Target(g)'] # Absent
    OBVIOUS
  <2>1. CASE g # h
    <3>1. Target(g)' = Target(g) /\ phase'[g] = phase[g]
      BY <1>0, <2>1 DEF Target
    <3> QED
      BY <1>0, <1>1, <3>1
  <2>2. CASE g = h
    <3>1. UNCHANGED at /\ (Exists(Target(h)) \/ tree'[Target(h)] # Absent)
      BY <2>2, PlaceStep
    <3>2. Target(h)' = Target(h)
      BY <3>1 DEF Target
    <3> QED
      BY <1>0, <2>2, <3>1, <3>2
  <2> QED
    BY <2>1, <2>2
<1>5. \A g \in alone' \cap Helpers : phase'[g] = "make" => ~ Exists(Target(g))'
  <2> SUFFICES ASSUME NEW g \in alone' \cap Helpers, phase'[g] = "make" PROVE ~ Exists(Target(g))'
    OBVIOUS
  <2>1. g = h
    BY <1>0, LoneMoves DEF Live
  <2>2. UNCHANGED <<at, tree>> /\ ~ Exists(Target(h))
    BY <2>1, PlaceStep
  <2> QED
    BY <2>1, <2>2 DEF Exists, Target
<1> QED
  BY <1>0, <1>1, <1>3, <1>4, <1>5 DEF Exists

\* A helper that is alone and undisturbed refuses only when it looks at what is there.
LEMMA LoneRefuses ==
  ASSUME Typed, Seen, Progress, Untouched, Solitary, StaysSafe, Present, Calm,
         NEW h \in alone \cap Helpers, HelperStep(h), phase'[h] = "refused", code'[h] \notin Failures,
         Safe(Backup), \A i \in DOMAIN Program(h) : Safe(Program(h)[i])
  PROVE FALSE
<1>0. /\ h \in All /\ Target(h) \in Dirs \ {Backup} /\ Internal \in Dirs /\ Backup \in Dirs
      /\ phase[h] # "refused" /\ UserOf[h] \in Users /\ seen[h] = 0 /\ root.id = 0
      /\ OwnerOf(Backup) = "root" /\ OwnerOf(Internal) = "root"
  BY TargetIs, HistoryStep, Directories DEF All, Users, Seen, Calm, Parents
<1>1. /\ Program(h) = <<Internal, UsersDir, Leaf(UserOf[h]), State(UserOf[h])>>
      /\ Len(Program(h)) = 4 /\ DOMAIN Program(h) = 1..4
  <2>1. Program(h) = <<Internal, UsersDir, Leaf(UserOf[h]), State(UserOf[h])>>
    BY DEF Program
  <2>2. \A a, b, c, d : DOMAIN <<a, b, c, d>> = 1..4 /\ Len(<<a, b, c, d>>) = 4
    OBVIOUS
  <2> QED
    BY <2>1, <2>2
<1>2. Exists(Backup) => Admissible
  <2>1. root.custom => root.approved /\ Exists(Internal)
    BY DEF Calm, Present
  <2>2. \A d \in {Backup, Internal} : Exists(d) => tree[d].owner = "root" /\ tree[d].mode # "writable"
    BY <1>0, <1>1 DEF Safe
  <2> QED
    BY <2>1, <2>2 DEF Admissible
<1>3. phase[h] \in Opened => Exists(Backup)
  BY DEF Present
<1>4. ~ Preflight(h)
  BY <1>0 DEF Preflight, OnlyPhase, Goes, Typed
<1>5. ~ (Admit(h) \/ Revalidate(h) \/ OpenRoot(h))
  <2>1. ~ Admit(h)
    <3>1. ASSUME Admit(h) PROVE phase'[h] # "refused"
      <4>1. CASE Exists(Backup)
        BY <1>0, <1>2, <3>1, <4>1 DEF Admit, Goes, Typed
      <4>2. CASE ~ Exists(Backup)
        <5>1. phase[h] = "admit" /\ ~ root.custom
          BY <1>3, <3>1, <4>2 DEF Admit, Opened, Present
        <5> QED
          BY <1>0, <3>1, <4>2, <5>1 DEF Admit, Admissible, At, Goes, Typed
      <4> QED
        BY <4>1, <4>2
    <3> QED
      BY <3>1
  <2>2. ~ Revalidate(h)
    BY <1>0, <1>2, <1>3 DEF Revalidate, At, Opened, Goes, Typed
  <2>3. ~ OpenRoot(h)
    BY <1>0, <1>3 DEF OpenRoot, At, Opened, Goes, Typed
  <2> QED
    BY <2>1, <2>2, <2>3
<1>6. phase[h] \in {"look", "check"} => Safe(Target(h))
  BY <1>0 DEF StaysSafe, Admitted, Typed, Target
<1>7. ~ (Look(h) \/ Check(h))
  <2>1. phase[h] = "check" => Exists(Target(h))
    BY DEF Present
  <2> QED
    BY <1>0, <1>6, <2>1 DEF Look, Check, Advances, OnlyPhase, At, Goes, Typed
<1>8. ~ (Own(h) \/ Mode(h) \/ ModeAgain(h))
  <2>1. phase[h] \in {"own", "mode", "mode again"} => Exists(Target(h))
    BY DEF Present
  <2> QED
    BY <1>0, <2>1 DEF Own, Mode, ModeAgain, Advances, At, Goes, Typed
<1>9. ~ Make(h)
  <2>1. ASSUME Make(h) PROVE FALSE
    <3>1. phase[h] = "make" /\ ~ Exists(Target(h)) /\ (Exists(Target(h)) \/ ~ Exists(ParentOf(Target(h))))
      BY <1>0, <2>1 DEF Make, Made, Goes, At, Typed, Present
    <3>2. Good(Backup) /\ \A i \in 1..4 : i < at[h] => Good(Program(h)[i])
      BY <1>0, <1>1, <3>1 DEF Progress, Making
    <3>3. \A d \in Dirs : Good(d) => Exists(d)
      BY AbsentIsNoDir, Directories DEF Good, Exists, Calm
    <3>4. at[h] \in 1..4
      BY <1>0, <1>1 DEF Typed
    <3>5. /\ Program(h)[1] = Internal /\ Program(h)[2] = UsersDir
          /\ Program(h)[3] = Leaf(UserOf[h]) /\ Program(h)[4] = State(UserOf[h])
      BY <1>1
    <3>6. /\ ParentOf(Internal) = Backup /\ ParentOf(UsersDir) = Internal
          /\ ParentOf(Leaf(UserOf[h])) = UsersDir /\ ParentOf(State(UserOf[h])) = Leaf(UserOf[h])
      BY <1>0 DEF ParentOf, OwnerOf, Internal, UsersDir, Plans, Leaf, State
    <3>7. \A i \in 1..4 : Program(h)[i] \in Dirs
      BY <1>0, <1>1, Programs
    <3>8. CASE at[h] = 1
      BY <1>0, <3>1, <3>2, <3>3, <3>5, <3>6, <3>8 DEF Target
    <3>9. CASE at[h] # 1
      <4>1. at[h] - 1 \in 1..4 /\ at[h] - 1 < at[h]
        BY <3>4, <3>9
      <4>2. Exists(Program(h)[at[h] - 1])
        BY <3>2, <3>3, <3>7, <4>1
      <4>3. ParentOf(Program(h)[at[h]]) = Program(h)[at[h] - 1]
        <5>1. CASE at[h] = 2
          BY <3>5, <3>6, <5>1
        <5>2. CASE at[h] = 3
          BY <3>5, <3>6, <5>2
        <5>3. CASE at[h] = 4
          BY <3>5, <3>6, <5>3
        <5> QED
          BY <3>4, <3>9, <5>1, <5>2, <5>3
      <4> QED
        BY <3>1, <4>2, <4>3 DEF Target
    <3> QED
      BY <3>8, <3>9
  <2> QED
    BY <2>1
<1>11. ~ CallFails(h)
  BY <1>0 DEF CallFails, Refuses, Failures, Typed
<1>10. ~ (Start(h) \/ MakeRoot(h) \/ ModRoot(h) \/ Cancel(h) \/ Die(h))
  BY <1>0 DEF Start, MakeRoot, ModRoot, Cancel, Die, Goes, Typed
<1> QED
  BY <1>4, <1>5, <1>7, <1>8, <1>9, <1>10, <1>11 DEF HelperStep

\* What users and the administrator do.
LEMMA EnvironmentStep ==
  ASSUME Typed, CleanInv, Present,
         (\E u \in Users : Remove(u)) \/ Remount \/ Withdraw \/ UNCHANGED vars
  PROVE CleanInv' /\ Present'
<1>1. UNCHANGED <<phase, at, seen, code, touched, alone>>
  BY DEF Remove, Remount, Withdraw, vars, helper
<1>2. CleanInv'
  <2>1. \A d \in Dirs \ {Backup} : tree'[d] = tree[d] \/ tree'[d] = Absent
    <3>1. CASE \E u \in Users : Remove(u)
      BY <3>1, Directories DEF Remove, Typed
    <3>2. CASE Remount
      BY <3>2 DEF Remount
    <3> QED
      BY <3>1, <3>2 DEF Withdraw, vars
  <2>2. StaysSafe'
    <3> SUFFICES ASSUME NEW h \in alone' \cap Helpers, phase'[h] \in Admitted, NEW i \in 1..Len(Program(h))
                 PROVE Safe(Program(h)[i])' \/ (phase'[h] = "own" /\ Program(h)[i] = Target(h)')
      BY DEF StaysSafe
    <3>1. Program(h)[i] \in Dirs \ {Backup}
      BY Programs DEF All
    <3>2. Safe(Program(h)[i]) \/ (phase[h] = "own" /\ Program(h)[i] = Target(h))
      BY <1>1 DEF CleanInv, StaysSafe
    <3>3. Target(h)' = Target(h)
      BY <1>1 DEF Target
    <3>4. Safe(Program(h)[i]) => Safe(Program(h)[i])'
      BY <2>1, <3>1 DEF Safe, Exists
    <3> QED
      BY <1>1, <3>2, <3>3, <3>4
  <2> QED
    BY <1>1, <2>2 DEF CleanInv, Untouched, Solitary, RefusalIsClean
<1>3. Present'
  <2>1. CASE Calm'
    <3>1. Calm /\ UNCHANGED tree /\ root'.custom = root.custom
      <4>1. root \in [id : 0..1, custom : BOOLEAN, approved : BOOLEAN]
        BY DEF Typed
      <4>2. ~ \E u \in Users : Remove(u)
        BY <2>1 DEF Remove, Calm
      <4>3. ~ Remount
        <5>1. root = [id |-> root.id, custom |-> root.custom, approved |-> root.approved]
          BY <4>1
        <5>2. Remount => root' = [id |-> 1, custom |-> root.custom, approved |-> FALSE]
          BY <5>1 DEF Remount
        <5>3. root'.id = 0
          BY <2>1 DEF Calm
        <5> QED
          BY <5>2, <5>3
      <4>4. CASE Withdraw
        BY <2>1, <4>1, <4>4 DEF Withdraw, Calm
      <4>5. CASE UNCHANGED vars
        BY <2>1, <4>5 DEF vars, Calm
      <4> QED
        BY <4>2, <4>3, <4>4, <4>5
    <3> QED
      BY <1>1, <3>1 DEF Present, Exists, Target
  <2>2. CASE ~ Calm'
    BY <2>2 DEF Present
  <2> QED
    BY <2>1, <2>2
<1> QED
  BY <1>2, <1>3

LEMMA HistoryInv == IInv /\ CleanInv /\ Present /\ [Next]_vars => CleanInv' /\ Present'
<1> SUFFICES ASSUME IInv, CleanInv, Present, [Next]_vars PROVE CleanInv' /\ Present'
  OBVIOUS
<1>1. Typed /\ Typed'
  BY NextInv DEF IInv
<1>2. ASSUME NEW h \in All, HelperStep(h) PROVE CleanInv' /\ Present'
  <2>1. CleanInv'
    BY <1>1, <1>2, UntouchedStep, SolitaryStep, StaysSafeStep, RefusalStep DEF IInv, CleanInv
  <2>2. Present'
    BY <1>1, <1>2, PresentStep DEF CleanInv
  <2> QED
    BY <2>1, <2>2
<1>3. CASE (\E u \in Users : Remove(u)) \/ Remount \/ Withdraw \/ UNCHANGED vars
  BY <1>1, <1>3, EnvironmentStep
<1> QED
  BY <1>2, <1>3 DEF Next, HelperStep

(* A helper that refuses while it is alone has changed nothing (configure.py:511-517). *)
THEOREM RefusalIsCleanAlways == Spec => []RefusalIsClean
<1>1. CleanInv => RefusalIsClean
  BY DEF CleanInv
<1> QED
  BY <1>1, InitInv, NextInv, InitHistory, HistoryInv, PTL DEF Spec

(* A lone, undisturbed helper refuses only where a call fails or a directory in its way
   is not as the code demands (configure.py:392-396, 430-438). *)
THEOREM LoneRefusalHasReasonAlways == Spec => LoneRefusalHasReason
<1>1. IInv /\ CleanInv /\ Present /\ [Next]_vars =>
        [\A h \in alone \cap Helpers :
           Calm /\ phase[h] # "refused" /\ phase'[h] = "refused" /\ code'[h] \notin Failures =>
             ~ Safe(Backup) \/ \E i \in DOMAIN Program(h) : ~ Safe(Program(h)[i])]_vars
  <2> SUFFICES ASSUME IInv, CleanInv, Present, Next,
                      NEW h \in alone \cap Helpers, Calm, phase[h] # "refused", phase'[h] = "refused",
                      code'[h] \notin Failures,
                      Safe(Backup), \A i \in DOMAIN Program(h) : Safe(Program(h)[i])
               PROVE FALSE
    OBVIOUS
  <2>1. PICK g \in All : HelperStep(g)
    BY DEF Next, HelperStep, Remove, Remount, Withdraw, helper
  <2>2. h \in All
    BY DEF All
  <2>3. g = h
    BY <2>1, <2>2, ControlStep DEF IInv, Others
  <2> QED
    BY <2>1, <2>2, <2>3, LoneRefuses DEF IInv, CleanInv
<1> QED
  BY <1>1, InitInv, NextInv, InitHistory, HistoryInv, PTL DEF Spec, LoneRefusalHasReason
=============================================================================
