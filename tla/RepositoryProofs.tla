--------------------------- MODULE RepositoryProofs ---------------------------
(***************************************************************************)
(* Repository for any helpers, domains, files and number of requests: one  *)
(* writer per domain, snapshots of one plan, and the refinement of         *)
(* Archive.                                                                *)
(***************************************************************************)
EXTENDS Repository, TLAPS

-----------------------------------------------------------------------------
(* The inductive invariant *)

RequestSet == [kind : {"backup", "preview", "delete", "consolidate"}, comp : Components, named : Ids]

Typed ==
  /\ lock \in [Components -> Helpers \cup {NoHelper}]
  /\ state \in [Components -> [Fields -> 0 .. MaxRequests]]
  /\ DOMAIN snaps = Components
  /\ clock \in Nat
  /\ phase \in [Helpers -> Phases] /\ job \in [Helpers -> 0 .. MaxRequests]
  /\ next \in [Helpers -> 1 .. Len(Parts) + 1]
  /\ lists \in [Helpers -> [Fields -> 0 .. MaxRequests]]
  /\ targets \in [Helpers -> SUBSET Ids]
  /\ asked \in [Ids -> RequestSet \cup {NotAsked}]
  /\ told \in [Ids -> {"none", "ok", "failed"}]
  /\ made \in Seq(Ids)

\* A helper that is not idle serves a request of its own, which has no answer.
Serving ==
  /\ \A h \in Helpers : phase[h] # "idle" =>
       /\ job[h] \in Ids /\ asked[job[h]] \in RequestSet /\ told[job[h]] = "none"
  /\ \A g, h \in Helpers : g # h /\ phase[g] # "idle" /\ phase[h] # "idle" => job[g] # job[h]
  /\ \A r \in Ids : told[r] # "none" => asked[r] # NotAsked

\* Each handler has its phases.
Kinds ==
  \A h \in Helpers :
    /\ phase[h] \in {"waiting"} \cup Holding => Kind(h) \in {"backup", "preview"}
    /\ phase[h] \in {"engine", "checked", "forgetting"} => Kind(h) \in {"delete", "consolidate"}

\* Directories come first.
Provided ==
  /\ layout \subseteq Components /\ repo \subseteq layout
  /\ \A h \in Helpers : phase[h] \notin {"idle", "entered", "making"} => Comp(h) \in layout

\* The lock of a domain is its writer's.
Locked == \A h \in Helpers : phase[h] \in Holding => lock[Comp(h)] = h

\* What the writer has written is there.
Written ==
  \A h \in Helpers : \A f \in Fields :
    /\ phase[h] = "writing" /\ f < next[h] => state[Comp(h)][f] = job[h]
    /\ phase[h] \in {"planned", "restic"} => state[Comp(h)][f] = job[h]
    /\ phase[h] = "restic" => lists[h][f] = job[h]

\* Snapshots are of one plan, and made once.
Plan(r) == [f \in Fields |-> r]
Whole == \A c \in Components : \A s \in snaps[c] : s.id \in Ids /\ s.parts = Plan(s.id)
Made(r) == \E i \in 1 .. Len(made) : made[i] = r
Saved ==
  /\ \A r \in Ids : asked[r] = NotAsked => ~ Made(r)
  /\ \A h \in Helpers :
       /\ phase[h] \in {"entered", "making", "waiting", "locked", "writing", "planned", "restic"} =>
            ~ Made(job[h])
       /\ phase[h] = "saved" /\ Kind(h) = "backup" => Made(job[h])

\* What is to be forgotten follows from the request.
Targeted ==
  \A h \in Helpers : phase[h] \in {"checked", "forgetting"} =>
    \A id \in targets[h] :
      /\ Kind(h) = "delete" => id = asked[job[h]].named
      /\ Kind(h) = "consolidate" => id # asked[job[h]].named

\* What a window shows are snapshots that were made.
Shown ==
  /\ DOMAIN shown = Helpers
  /\ \A h \in Helpers : DOMAIN shown[h] = Components
  /\ \A h \in Helpers, c \in Components : \A s \in shown[h][c] : s.id \in Ids

IInv ==
  /\ Typed /\ Serving /\ Kinds /\ Provided /\ Locked /\ Written /\ Whole /\ Saved /\ Targeted /\ Shown

-----------------------------------------------------------------------------
(* The fields are the first numbers; no request is none. *)
LEMMA FieldsAre == Fields = 1 .. Len(Parts) /\ Len(Parts) \in Nat
  BY RepositoryAssumption DEF Fields

LEMMA NotARequest == NotAsked \notin RequestSet
  BY DEF NotAsked, RequestSet

(* The initial states satisfy the invariant. *)
LEMMA InitInv == Init => IInv
  <1> SUFFICES ASSUME Init PROVE IInv OBVIOUS
  <1> USE RepositoryAssumption, FieldsAre
  <1>1. Typed BY DEF Init, Typed, Phases, Ids, NoJob
  <1>2. Serving /\ Kinds /\ Provided /\ Locked /\ Written /\ Targeted
    BY DEF Init, Serving, Kinds, Provided, Locked, Written, Targeted, Holding
  <1>3. Whole /\ Saved /\ Shown BY DEF Init, Whole, Saved, Made, Shown
  <1> QED BY <1>1, <1>2, <1>3 DEF IInv

-----------------------------------------------------------------------------
(* Every action preserves it *)

(* Prepare preserves the invariant. *)
LEMMA PrepareInv ==
  ASSUME IInv, NEW h \in Helpers, Prepare(h) PROVE IInv'
  <1> USE RepositoryAssumption, FieldsAre DEF IInv, files, requests
  <1>1. Typed' BY DEF Prepare, Goes, AfterPrepare, Typed, Phases, Holding, Ids
  <1>2. Serving' BY DEF Prepare, Goes, Typed, Serving, Ids
  <1>3. Kinds' BY DEF Prepare, Goes, Typed, Serving, Kinds, Kind, IsBackup, AfterPrepare, Holding, RequestSet
  <1>4. Provided' BY DEF Prepare, Goes, Typed, Serving, Provided, Comp, RequestSet, AfterPrepare
  <1>5. Locked' BY DEF Prepare, Goes, Typed, Serving, Locked, Comp, Holding, AfterPrepare
  <1>6. Written' BY DEF Prepare, Goes, Typed, Serving, Locked, Written, Comp, Holding, AfterPrepare
  <1>7. Whole' BY DEF Prepare, Goes, Typed, Whole
  <1>8. Saved' BY DEF Prepare, Goes, Typed, Serving, Saved, Made, Kind, AfterPrepare
  <1>9. Targeted' BY DEF Prepare, Goes, Typed, Serving, Targeted, Kind, AfterPrepare
  <1>10. Shown' BY DEF Prepare, Shown
  <1> QED BY <1>1, <1>2, <1>3, <1>4, <1>5, <1>6, <1>7, <1>8, <1>9, <1>10

(* MakeLayout preserves the invariant. *)
LEMMA MakeLayoutInv ==
  ASSUME IInv, NEW h \in Helpers, MakeLayout(h) PROVE IInv'
  <1> USE RepositoryAssumption, FieldsAre DEF IInv, files, requests
  <1>1. Typed' BY DEF MakeLayout, Goes, AfterPrepare, Typed, Phases, Holding, Ids
  <1>2. Serving' BY DEF MakeLayout, Goes, Typed, Serving, Ids
  <1>3. Kinds' BY DEF MakeLayout, Goes, Typed, Serving, Kinds, Kind, IsBackup, AfterPrepare, Holding, RequestSet
  <1>4. Provided' BY DEF MakeLayout, Goes, Typed, Serving, Provided, Comp, RequestSet, AfterPrepare
  <1>5. Locked' BY DEF MakeLayout, Goes, Typed, Serving, Locked, Comp, Holding, AfterPrepare
  <1>6. Written' BY DEF MakeLayout, Goes, Typed, Serving, Locked, Written, Comp, Holding, AfterPrepare
  <1>7. Whole' BY DEF MakeLayout, Goes, Typed, Whole
  <1>8. Saved' BY DEF MakeLayout, Goes, Typed, Serving, Saved, Made, Kind, AfterPrepare
  <1>9. Targeted' BY DEF MakeLayout, Goes, Typed, Serving, Targeted, Kind, AfterPrepare
  <1>10. Shown' BY DEF MakeLayout, Shown
  <1> QED BY <1>1, <1>2, <1>3, <1>4, <1>5, <1>6, <1>7, <1>8, <1>9, <1>10

(* AcquireLock preserves the invariant. *)
LEMMA AcquireLockInv ==
  ASSUME IInv, NEW h \in Helpers, AcquireLock(h) PROVE IInv'
  <1> USE RepositoryAssumption, FieldsAre DEF IInv, files, requests
  <1>1. Typed' BY DEF AcquireLock, Goes, Typed, Phases, Holding, Ids
  <1>2. Serving' BY DEF AcquireLock, Goes, Typed, Serving, Ids
  <1>3. Kinds' BY DEF AcquireLock, Goes, Typed, Serving, Kinds, Kind, IsBackup, AfterPrepare, Holding
  <1>4. Provided' BY DEF AcquireLock, Goes, Typed, Serving, Provided, Comp, RequestSet, AfterPrepare
  <1>5. Locked' BY DEF AcquireLock, Goes, Typed, Serving, Provided, Locked, Comp, Holding
  <1>6. Written' BY DEF AcquireLock, Goes, Typed, Serving, Locked, Written, Comp, Holding, AfterPrepare
  <1>7. Whole' BY DEF AcquireLock, Goes, Typed, Whole
  <1>8. Saved' BY DEF AcquireLock, Goes, Typed, Serving, Saved, Made, Kind, AfterPrepare
  <1>9. Targeted' BY DEF AcquireLock, Goes, Typed, Serving, Targeted, Kind, AfterPrepare
  <1>10. Shown' BY DEF AcquireLock, Shown
  <1> QED BY <1>1, <1>2, <1>3, <1>4, <1>5, <1>6, <1>7, <1>8, <1>9, <1>10

(* Discover preserves the invariant. *)
LEMMA DiscoverInv ==
  ASSUME IInv, NEW h \in Helpers, Discover(h) PROVE IInv'
  <1> USE RepositoryAssumption, FieldsAre DEF IInv, files, requests
  <1>1. Typed' BY DEF Discover, Goes, Typed, Phases, Holding, Ids
  <1>2. Serving' BY DEF Discover, Goes, Typed, Serving, Ids
  <1>3. Kinds' BY DEF Discover, Goes, Typed, Serving, Kinds, Kind, IsBackup, AfterPrepare, Holding
  <1>4. Provided' BY DEF Discover, Goes, Typed, Serving, Provided, Comp, RequestSet, AfterPrepare
  <1>5. Locked' BY DEF Discover, Goes, Typed, Serving, Locked, Comp, Holding, AfterPrepare
  <1>6. Written' BY DEF Discover, Goes, Typed, Serving, Locked, Written, Comp, Holding, AfterPrepare
  <1>7. Whole' BY DEF Discover, Goes, Typed, Whole
  <1>8. Saved' BY DEF Discover, Goes, Typed, Serving, Saved, Made, Kind, AfterPrepare
  <1>9. Targeted' BY DEF Discover, Goes, Typed, Serving, Targeted, Kind, AfterPrepare
  <1>10. Shown' BY DEF Discover, Shown
  <1> QED BY <1>1, <1>2, <1>3, <1>4, <1>5, <1>6, <1>7, <1>8, <1>9, <1>10

(* WritePart preserves the invariant. *)
LEMMA WritePartInv ==
  ASSUME IInv, NEW h \in Helpers, WritePart(h) PROVE IInv'
  <1> USE RepositoryAssumption, FieldsAre DEF IInv, files, requests
  <1>a. Comp(h) \in Components /\ next[h] \in 1 .. Len(Parts) /\ job[h] \in 0 .. MaxRequests
    BY DEF WritePart, Typed, Provided
  <1>b. state' \in [Components -> [Fields -> 0 .. MaxRequests]] BY <1>a DEF WritePart, Typed
  <1>c. next' \in [Helpers -> 1 .. Len(Parts) + 1] BY <1>a DEF WritePart, Typed
  <1>1. Typed' BY <1>b, <1>c DEF WritePart, Typed, Ids
  <1>2. Serving' BY DEF WritePart, Goes, Typed, Serving, Ids
  <1>3. Kinds' BY DEF WritePart, Goes, Typed, Serving, Kinds, Kind, IsBackup, AfterPrepare, Holding
  <1>4. Provided' BY DEF WritePart, Goes, Typed, Serving, Provided, Comp, RequestSet, AfterPrepare
  <1>5. Locked' BY DEF WritePart, Goes, Typed, Serving, Locked, Comp, Holding, AfterPrepare
  <1>6. Written'
    <2>1. \A c \in Components, f \in Fields :
            state'[c][f] = IF c = Comp(h) /\ f = next[h] THEN job[h] ELSE state[c][f]
      BY <1>a DEF WritePart, Typed
    <2>2. \A g \in Helpers \ {h} : phase[g] \in {"writing", "planned", "restic"} => Comp(g) # Comp(h)
      BY DEF WritePart, Locked, Holding
    <2>3. \A g \in Helpers : phase[g] \in {"writing", "planned", "restic"} => Comp(g) \in Components
      BY DEF Provided
    <2>4. \A g \in Helpers : Comp(g)' = Comp(g) BY DEF WritePart, Comp
    <2>5. next'[h] = next[h] + 1 /\ \A g \in Helpers \ {h} : next'[g] = next[g] BY DEF WritePart, Typed
    <2> QED BY <1>a, <2>1, <2>2, <2>3, <2>4, <2>5 DEF WritePart, Written
  <1>7. Whole' BY DEF WritePart, Goes, Typed, Whole
  <1>8. Saved' BY DEF WritePart, Goes, Typed, Serving, Saved, Made, Kind, AfterPrepare
  <1>9. Targeted' BY DEF WritePart, Goes, Typed, Serving, Targeted, Kind, AfterPrepare
  <1>10. Shown' BY DEF WritePart, Shown
  <1> QED BY <1>1, <1>2, <1>3, <1>4, <1>5, <1>6, <1>7, <1>8, <1>9, <1>10

(* PlanWritten preserves the invariant. *)
LEMMA PlanWrittenInv ==
  ASSUME IInv, NEW h \in Helpers, PlanWritten(h) PROVE IInv'
  <1> USE RepositoryAssumption, FieldsAre DEF IInv, files, requests
  <1>1. Typed' BY DEF PlanWritten, Goes, Typed, Phases, Holding, Ids
  <1>2. Serving' BY DEF PlanWritten, Goes, Typed, Serving, Ids
  <1>3. Kinds' BY DEF PlanWritten, Goes, Typed, Serving, Kinds, Kind, IsBackup, AfterPrepare, Holding
  <1>4. Provided' BY DEF PlanWritten, Goes, Typed, Serving, Provided, Comp, RequestSet, AfterPrepare
  <1>5. Locked' BY DEF PlanWritten, Goes, Typed, Serving, Locked, Comp, Holding, AfterPrepare
  <1>6. Written' BY DEF PlanWritten, Goes, Typed, Serving, Locked, Written, Comp, Holding, AfterPrepare
  <1>7. Whole' BY DEF PlanWritten, Goes, Typed, Whole
  <1>8. Saved' BY DEF PlanWritten, Goes, Typed, Serving, Saved, Made, Kind, AfterPrepare
  <1>9. Targeted' BY DEF PlanWritten, Goes, Typed, Serving, Targeted, Kind, AfterPrepare
  <1>10. Shown' BY DEF PlanWritten, Shown
  <1> QED BY <1>1, <1>2, <1>3, <1>4, <1>5, <1>6, <1>7, <1>8, <1>9, <1>10

(* StartRestic preserves the invariant. *)
LEMMA StartResticInv ==
  ASSUME IInv, NEW h \in Helpers, StartRestic(h) PROVE IInv'
  <1> USE RepositoryAssumption, FieldsAre DEF IInv, files, requests
  <1>1. Typed' BY DEF StartRestic, Goes, Typed, Serving, Provided, Comp, Phases, Holding, Ids
  <1>2. Serving' BY DEF StartRestic, Goes, Typed, Serving, Ids
  <1>3. Kinds' BY DEF StartRestic, Goes, Typed, Serving, Kinds, Kind, IsBackup, AfterPrepare, Holding
  <1>4. Provided' BY DEF StartRestic, Goes, Typed, Serving, Provided, Comp, RequestSet, AfterPrepare
  <1>5. Locked' BY DEF StartRestic, Goes, Typed, Serving, Locked, Comp, Holding, AfterPrepare
  <1>6. Written' BY DEF StartRestic, Goes, Typed, Serving, Locked, Written, Comp, Holding, AfterPrepare
  <1>7. Whole' BY DEF StartRestic, Goes, Typed, Whole
  <1>8. Saved' BY DEF StartRestic, Goes, Typed, Serving, Saved, Made, Kind, AfterPrepare
  <1>9. Targeted' BY DEF StartRestic, Goes, Typed, Serving, Targeted, Kind, AfterPrepare
  <1>10. Shown' BY DEF StartRestic, Shown
  <1> QED BY <1>1, <1>2, <1>3, <1>4, <1>5, <1>6, <1>7, <1>8, <1>9, <1>10

(* CheckLatest preserves the invariant. *)
LEMMA CheckLatestInv ==
  ASSUME IInv, NEW h \in Helpers, CheckLatest(h) PROVE IInv'
  <1> USE RepositoryAssumption, FieldsAre DEF IInv, files, requests
  <1>1. Typed' BY DEF CheckLatest, Goes, Typed, Serving, Provided, Whole, Comp, Phases, Holding, Ids
  <1>2. Serving' BY DEF CheckLatest, Goes, Typed, Serving, Ids
  <1>3. Kinds' BY DEF CheckLatest, Goes, Typed, Serving, Kinds, Kind, IsBackup, AfterPrepare, Holding
  <1>4. Provided' BY DEF CheckLatest, Goes, Typed, Serving, Provided, Comp, RequestSet, AfterPrepare
  <1>5. Locked' BY DEF CheckLatest, Goes, Typed, Serving, Locked, Comp, Holding, AfterPrepare
  <1>6. Written' BY DEF CheckLatest, Goes, Typed, Serving, Locked, Written, Comp, Holding, AfterPrepare
  <1>7. Whole' BY DEF CheckLatest, Goes, Typed, Whole
  <1>8. Saved' BY DEF CheckLatest, Goes, Typed, Serving, Saved, Made, Kind, AfterPrepare
  <1>9. Targeted' BY DEF CheckLatest, Goes, Typed, Serving, Targeted, Kind, AfterPrepare
  <1>10. Shown' BY DEF CheckLatest, Shown
  <1> QED BY <1>1, <1>2, <1>3, <1>4, <1>5, <1>6, <1>7, <1>8, <1>9, <1>10

(* StartForget preserves the invariant. *)
LEMMA StartForgetInv ==
  ASSUME IInv, NEW h \in Helpers, StartForget(h) PROVE IInv'
  <1> USE RepositoryAssumption, FieldsAre DEF IInv, files, requests
  <1>1. Typed' BY DEF StartForget, Goes, Typed, Phases, Holding, Ids
  <1>2. Serving' BY DEF StartForget, Goes, Typed, Serving, Ids
  <1>3. Kinds' BY DEF StartForget, Goes, Typed, Serving, Kinds, Kind, IsBackup, AfterPrepare, Holding
  <1>4. Provided' BY DEF StartForget, Goes, Typed, Serving, Provided, Comp, RequestSet, AfterPrepare
  <1>5. Locked' BY DEF StartForget, Goes, Typed, Serving, Locked, Comp, Holding, AfterPrepare
  <1>6. Written' BY DEF StartForget, Goes, Typed, Serving, Locked, Written, Comp, Holding, AfterPrepare
  <1>7. Whole' BY DEF StartForget, Goes, Typed, Whole
  <1>8. Saved' BY DEF StartForget, Goes, Typed, Serving, Saved, Made, Kind, AfterPrepare
  <1>9. Targeted' BY DEF StartForget, Goes, Typed, Serving, Targeted, Kind, AfterPrepare
  <1>10. Shown' BY DEF StartForget, Shown
  <1> QED BY <1>1, <1>2, <1>3, <1>4, <1>5, <1>6, <1>7, <1>8, <1>9, <1>10

(* ResticSaves preserves the invariant. *)
LEMMA ResticSavesInv ==
  ASSUME IInv, NEW h \in Helpers, NEW whole \in BOOLEAN, ResticSaves(h, whole) PROVE IInv'
  <1> USE RepositoryAssumption, FieldsAre DEF IInv, files, requests
  <1>a. Comp(h) \in Components /\ job[h] \in Ids BY DEF ResticSaves, Goes, Provided, Serving
  <1>b. made' \in Seq(Ids) /\ \A r \in Ids : Made(r)' <=> Made(r) \/ (Kind(h) # "preview" /\ r = job[h])
    <2>1. CASE Kind(h) = "preview" BY <2>1 DEF ResticSaves, Typed, Made
    <2>2. CASE Kind(h) # "preview"
      <3>1. made' = Append(made, job[h]) BY <2>2 DEF ResticSaves
      <3>2. made \in Seq(Ids) BY DEF Typed
      <3>3. Len(made') = Len(made) + 1 /\ Len(made) \in Nat /\ made'[Len(made) + 1] = job[h]
        BY <3>1, <3>2, <1>a
      <3>4. \A i \in 1 .. Len(made) : made'[i] = made[i] BY <3>1, <3>2, <1>a
      <3> QED BY <1>a, <2>2, <3>1, <3>2, <3>3, <3>4 DEF Made
    <2> QED BY <2>1, <2>2
  <1>c. DOMAIN snaps' = Components /\ clock' \in Nat BY DEF ResticSaves, Typed
  <1>1. Typed' BY <1>b, <1>c DEF ResticSaves, Goes, Typed, Phases, Holding
  <1>2. Serving' BY DEF ResticSaves, Goes, Typed, Serving, Ids
  <1>3. Kinds' BY DEF ResticSaves, Goes, Typed, Serving, Kinds, Kind, Holding
  <1>4. Provided' BY DEF ResticSaves, Goes, Typed, Serving, Provided, Comp
  <1>5. Locked' BY DEF ResticSaves, Goes, Typed, Serving, Locked, Comp, Holding
  <1>6. Written' BY DEF ResticSaves, Goes, Typed, Serving, Written, Comp
  <1>7. Whole'
    <2> DEFINE new == [id |-> job[h], at |-> clock, whole |-> whole,
                       parts |-> [f \in Fields |-> IF f \in Lists THEN lists[h][f] ELSE state[Comp(h)][f]]]
    <2>1. new.id = job[h] /\ new.parts = Plan(job[h])
      BY DEF ResticSaves, Goes, Written, Plan
    <2>2. \A c \in Components : snaps'[c] = snaps[c] \/ snaps'[c] = snaps[c] \cup {new}
      BY <1>a DEF ResticSaves, Typed
    <2> HIDE DEF new
    <2> QED BY <1>a, <2>1, <2>2 DEF Whole
  <1>8. Saved'
    <2>1. \A r \in Ids : asked[r] = NotAsked => r # job[h] BY DEF ResticSaves, Goes, Serving, RequestSet, NotAsked
    <2>2. \A g \in Helpers : phase[g] # "idle" => job[g] \in Ids /\ (g # h => job[g] # job[h])
      BY DEF ResticSaves, Goes, Serving
    <2>3. \A g \in Helpers : Kind(g)' = Kind(g) /\ job'[g] = job[g] BY DEF ResticSaves, Kind
    <2> QED BY <1>a, <1>b, <2>1, <2>2, <2>3 DEF ResticSaves, Goes, Typed, Saved
  <1>9. Targeted' BY DEF ResticSaves, Goes, Typed, Serving, Targeted, Kind
  <1>10. Shown' BY DEF ResticSaves, Shown
  <1> QED BY <1>1, <1>2, <1>3, <1>4, <1>5, <1>6, <1>7, <1>8, <1>9, <1>10

(* ForgetOne preserves the invariant. *)
LEMMA ForgetOneInv ==
  ASSUME IInv, NEW h \in Helpers, NEW id \in Ids, ForgetOne(h, id) PROVE IInv'
  <1> USE RepositoryAssumption, FieldsAre DEF IInv, files, requests
  <1>1. Typed' BY DEF ForgetOne, Typed
  <1>2. Serving' BY DEF ForgetOne, Serving
  <1>3. Kinds' BY DEF ForgetOne, Kinds, Kind
  <1>4. Provided' BY DEF ForgetOne, Provided, Comp
  <1>5. Locked' BY DEF ForgetOne, Locked, Comp
  <1>6. Written' BY DEF ForgetOne, Written, Comp
  <1>7. Whole' BY DEF ForgetOne, Typed, Whole
  <1>8. Saved' BY DEF ForgetOne, Saved, Made, Kind
  <1>9. Targeted' BY DEF ForgetOne, Typed, Targeted, Kind
  <1>10. Shown' BY DEF ForgetOne, Shown
  <1> QED BY <1>1, <1>2, <1>3, <1>4, <1>5, <1>6, <1>7, <1>8, <1>9, <1>10

(* A new request preserves the invariant. *)
LEMMA BeginInv ==
  ASSUME IInv, NEW h \in Helpers, NEW r \in Ids, NEW request \in RequestSet, Begin(h, r, request)
  PROVE  IInv'
  <1> USE RepositoryAssumption, FieldsAre DEF IInv, files
  <1>a. /\ asked[r] = NotAsked /\ told[r] = "none" /\ ~ Made(r)
        /\ \A g \in Helpers : phase[g] # "idle" => job[g] # r
    BY NotARequest DEF Begin, Fresh, Typed, Serving, Saved
  <1>b. /\ phase' = [phase EXCEPT ![h] = "entered"] /\ job' = [job EXCEPT ![h] = r]
        /\ asked' = [asked EXCEPT ![r] = request] /\ phase[h] = "idle"
        /\ UNCHANGED <<layout, lock, state, repo, snaps, clock, next, lists, targets, told, made>>
    BY DEF Begin
  <1>c. /\ phase'[h] = "entered" /\ job'[h] = r /\ asked'[r] = request
        /\ \A g \in Helpers \ {h} : /\ phase'[g] = phase[g] /\ job'[g] = job[g]
                                     /\ phase[g] # "idle" => asked'[job[g]] = asked[job[g]]
        /\ \A q \in Ids \ {r} : asked'[q] = asked[q]
    BY <1>a, <1>b DEF Typed, Serving
  <1>d. request # NotAsked BY DEF RequestSet, NotAsked
  <1>1. Typed' BY <1>b DEF Typed, Phases, Holding, Ids
  <1>2. Serving' BY <1>a, <1>b, <1>c, <1>d DEF Serving
  <1>3. Kinds' BY <1>a, <1>b, <1>c DEF Kinds, Kind, Holding
  <1>4. Provided' BY <1>b, <1>c DEF Provided, Comp
  <1>5. Locked' BY <1>b, <1>c DEF Locked, Comp, Holding
  <1>6. Written' BY <1>b, <1>c DEF Written, Comp
  <1>7. Whole' BY <1>b DEF Whole
  <1>8. Saved' BY <1>a, <1>b, <1>c, <1>d DEF Saved, Made, Kind
  <1>9. Targeted' BY <1>b, <1>c DEF Targeted, Kind
  <1>10. Shown' BY DEF Begin, Shown
  <1> QED BY <1>1, <1>2, <1>3, <1>4, <1>5, <1>6, <1>7, <1>8, <1>9, <1>10

(* The end of a request preserves the invariant. *)
LEMMA EndsInv ==
  ASSUME IInv, NEW h \in Helpers, NEW answer \in {"ok", "failed"},
         phase[h] # "idle", lock' = Released(h), Ends(h, answer)
  PROVE  IInv'
  <1> USE RepositoryAssumption, FieldsAre DEF IInv
  <1>a. job[h] \in Ids /\ asked[job[h]] # NotAsked BY DEF Serving, RequestSet, NotAsked
  <1>b. /\ phase' = [phase EXCEPT ![h] = "idle"] /\ job' = [job EXCEPT ![h] = 0]
        /\ told' = [told EXCEPT ![job[h]] = answer] /\ targets' = [targets EXCEPT ![h] = {}]
        /\ UNCHANGED <<layout, state, repo, snaps, clock, next, lists, asked, made>>
    BY DEF Ends, NoJob
  <1>c. /\ phase'[h] = "idle"
        /\ \A g \in Helpers \ {h} : /\ phase'[g] = phase[g] /\ job'[g] = job[g] /\ targets'[g] = targets[g]
                                     /\ phase[g] # "idle" => told'[job[g]] = told[job[g]]
    BY <1>a, <1>b DEF Typed, Serving
  <1>d. \A c \in Components : lock'[c] = IF lock[c] = h THEN NoHelper ELSE lock[c] BY DEF Released
  <1>e. lock' \in [Components -> Helpers \cup {NoHelper}] BY DEF Typed, Released
  <1>f. told' \in [Ids -> {"none", "ok", "failed"}] BY <1>b DEF Typed
  <1>g. targets' \in [Helpers -> SUBSET Ids] /\ phase' \in [Helpers -> Phases] BY <1>b DEF Typed, Phases
  <1>h. job' \in [Helpers -> 0 .. MaxRequests] BY <1>b DEF Typed
  <1>1. Typed' BY <1>b, <1>e, <1>f, <1>g, <1>h DEF Typed
  <1>2. Serving' BY <1>a, <1>b, <1>c DEF Typed, Serving
  <1>3. Kinds' BY <1>b, <1>c DEF Kinds, Kind, Holding
  <1>4. Provided' BY <1>b, <1>c DEF Provided, Comp
  <1>5. Locked'
    <2>1. \A g \in Helpers : phase[g] \in Holding => Comp(g) \in Components BY DEF Provided, Holding
    <2> QED BY <1>b, <1>c, <1>d, <2>1 DEF Locked, Comp, Holding
  <1>6. Written' BY <1>b, <1>c DEF Written, Comp
  <1>7. Whole' BY <1>b DEF Whole
  <1>8. Saved' BY <1>b, <1>c DEF Saved, Made, Kind
  <1>9. Targeted' BY <1>b, <1>c DEF Targeted, Kind
  <1>10. Shown' BY DEF Ends, Shown
  <1> QED BY <1>1, <1>2, <1>3, <1>4, <1>5, <1>6, <1>7, <1>8, <1>9, <1>10

(* The steps that touch neither helpers nor files preserve the invariant. *)
LEMMA IdleInv ==
  ASSUME IInv, UNCHANGED <<files, snaps, helpers, requests, made>>, clock' \in Nat, Shown' PROVE IInv'
  BY DEF IInv, files, helpers, requests, Typed, Serving, Kinds, Provided, Locked, Written, Whole, Saved, Made,
         Targeted, Comp, Kind

-----------------------------------------------------------------------------
(* IInv is inductive. *)
LEMMA NextInv == IInv /\ [Next]_vars => IInv'
  <1> SUFFICES ASSUME IInv, [Next]_vars PROVE IInv' OBVIOUS
  <1>1. ASSUME NEW h \in Helpers, Step(h) PROVE IInv'
    <2>1. CASE Succeed(h) BY <2>1, EndsInv DEF Succeed
    <2>2. CASE Answer(h) BY <2>2, EndsInv DEF Answer
    <2> QED
      BY <1>1, <2>1, <2>2, PrepareInv, MakeLayoutInv, AcquireLockInv, DiscoverInv, WritePartInv, PlanWrittenInv,
         StartResticInv, ResticSavesInv, CheckLatestInv, StartForgetInv, ForgetOneInv DEF Step
  <1>2. ASSUME NEW h \in Helpers, Crash(h) PROVE IInv' BY <1>2, EndsInv DEF Crash
  <1>3. ASSUME NEW h \in Helpers, NEW r \in Ids, NEW c \in Components,
               NEW kind \in {"backup", "preview"}, BeginBackup(h, r, c, kind)
        PROVE  IInv'
    BY <1>3, BeginInv DEF BeginBackup, RequestSet
  <1>4. ASSUME NEW h \in Helpers, NEW r \in Ids, NEW c \in Components,
               NEW kind \in {"delete", "consolidate"}, BeginMaintenance(h, r, c, kind)
        PROVE  IInv'
    <2>1. PICK s \in shown[h][c] : Begin(h, r, [kind |-> kind, comp |-> c, named |-> s.id])
      BY <1>4 DEF BeginMaintenance
    <2>2. s.id \in Ids BY DEF IInv, Shown
    <2> QED BY <2>1, <2>2, BeginInv DEF RequestSet
  <1>5. ASSUME NEW h \in Helpers, NEW c \in Components, ShowHistory(h, c) PROVE IInv'
    
    <2>1. Shown' BY <1>5 DEF ShowHistory, IInv, Typed, Whole, Shown
    <2> QED BY <1>5, <2>1, IdleInv DEF ShowHistory, IInv, Typed
  <1>6. CASE ClocksGoBack BY <1>6, IdleInv DEF ClocksGoBack, IInv, Typed, Shown
  <1>7. CASE UNCHANGED vars BY <1>7, IdleInv DEF vars, IInv, Typed, Shown
  <1> QED BY <1>1, <1>2, <1>3, <1>4, <1>5, <1>6, <1>7 DEF Next

(* Every behaviour keeps the invariant. *)
THEOREM Invariance == Spec => []IInv
  <1>1. Init => IInv BY InitInv
  <1>2. IInv /\ [Next]_vars => IInv' BY NextInv
  <1> QED BY <1>1, <1>2, PTL DEF Spec

(* The clocks go back at most once. *)
LEMMA AutumnStep == [Next]_vars => autumn' \in {autumn, TRUE}
  <1> SUFFICES ASSUME [Next]_vars PROVE autumn' \in {autumn, TRUE} OBVIOUS
  <1>1. ASSUME NEW h \in Helpers, Step(h) \/ Crash(h) PROVE autumn' = autumn
    BY <1>1 DEF Step, Prepare, MakeLayout, AcquireLock, Discover, WritePart, PlanWritten, StartRestic,
                ResticSaves, CheckLatest, StartForget, ForgetOne, Succeed, Answer, Crash, Ends
  <1>2. ASSUME NEW h \in Helpers, NEW r \in Ids, NEW c \in Components, NEW kind,
               BeginBackup(h, r, c, kind) \/ BeginMaintenance(h, r, c, kind)
        PROVE  autumn' = autumn
    BY <1>2 DEF BeginBackup, BeginMaintenance, Begin
  <1>3. ASSUME NEW h \in Helpers, NEW c \in Components, ShowHistory(h, c) PROVE autumn' = autumn
    BY <1>3 DEF ShowHistory
  <1> QED BY <1>1, <1>2, <1>3 DEF Next, ClocksGoBack, vars

(* Every variable has its type, for any helpers, domains and files. *)
THEOREM RepositoryTypeCorrect == Spec => []TypeOK
  <1>1. Init => autumn \in BOOLEAN BY DEF Init
  <1>2. autumn \in BOOLEAN /\ [Next]_vars => (autumn \in BOOLEAN)' BY AutumnStep
  <1>3. IInv /\ autumn \in BOOLEAN => TypeOK
    BY FieldsAre DEF IInv, Typed, Provided, TypeOK
  <1> QED BY <1>1, <1>2, <1>3, Invariance, PTL DEF Spec

(* For any number of helpers, two never hold a domain between its lock and its
   answer. *)
THEOREM OneWriterAlways == Spec => []OneWriter
  <1>1. IInv => OneWriter BY DEF IInv, Locked, OneWriter
  <1> QED BY <1>1, Invariance, PTL

(* Every snapshot, of any number of files, is of the plan of its own request. *)
THEOREM SnapshotIsOnePlanAlways == Spec => []SnapshotIsOnePlan
  <1>1. IInv => SnapshotIsOnePlan BY DEF IInv, Whole, Plan, SnapshotIsOnePlan
  <1> QED BY <1>1, Invariance, PTL

-----------------------------------------------------------------------------
(* Repository implements Archive *)

MadeIds == {made[i] : i \in DOMAIN made}
Holds == [c \in Components |-> {s.parts : s \in snaps[c]}]

LEMMA MadeIdsAre == ASSUME Typed PROVE MadeIds \subseteq Ids /\ \A r \in Ids : r \in MadeIds <=> Made(r)
  <1>1. made \in Seq(Ids) BY DEF Typed
  <1>2. DOMAIN made = 1 .. Len(made) /\ \A i \in 1 .. Len(made) : made[i] \in Ids BY <1>1
  <1> QED BY <1>2 DEF MadeIds, Made

(* The initial states are initial states of Archive. *)
LEMMA InitRefines == Init => A!Init
  BY DEF Init, A!Init, NotAsked, A!NotAsked

(* A new request is one of Archive. *)
LEMMA BeginRefines ==
  ASSUME IInv, NEW h \in Helpers, NEW r \in Ids, NEW request \in RequestSet, Begin(h, r, request)
  PROVE  A!Ask(r)
  BY DEF Begin, Fresh, A!Ask, A!Requests, RequestSet, NotAsked, A!NotAsked

(* Saving a snapshot is Archive's Save, of a preview nothing. *)
LEMMA SaveRefines ==
  ASSUME IInv, NEW h \in Helpers, NEW whole \in BOOLEAN, ResticSaves(h, whole)
  PROVE  (\E r \in Ids : A!Save(r)) \/ UNCHANGED A!archiveVars
  <1> USE RepositoryAssumption, FieldsAre DEF IInv
  <1>1. CASE Kind(h) = "preview"
    BY <1>1 DEF ResticSaves, requests, A!archiveVars
  <1>2. CASE Kind(h) # "preview"
    <2> DEFINE new == [id |-> job[h], at |-> clock, whole |-> whole,
                       parts |-> [f \in Fields |-> IF f \in Lists THEN lists[h][f] ELSE state[Comp(h)][f]]]
    <2>1. new.parts = A!PlanOf(job[h]) BY DEF ResticSaves, Goes, Written, A!PlanOf
    <2>2. snaps' = [snaps EXCEPT ![Comp(h)] = @ \cup {new}] BY <1>2 DEF ResticSaves
    <2> HIDE DEF new
    <2>3. Comp(h) \in Components /\ job[h] \in Ids /\ Kind(h) = "backup" /\ ~ Made(job[h])
      BY <1>2 DEF ResticSaves, Goes, Provided, Serving, Kinds, Saved, Holding
    <2>4. Holds' = [Holds EXCEPT ![Comp(h)] = @ \cup {A!PlanOf(job[h])}]
      <3>1. \A c \in Components :
              snaps'[c] = IF c = Comp(h) THEN snaps[c] \cup {new} ELSE snaps[c]
        BY <2>2, <2>3 DEF Typed
      <3>2. \A c \in Components : {s.parts : s \in snaps'[c]} =
              IF c = Comp(h) THEN {s.parts : s \in snaps[c]} \cup {A!PlanOf(job[h])} ELSE {s.parts : s \in snaps[c]}
        BY <3>1, <2>1
      <3> QED BY <3>2, <2>3 DEF Holds
    <2>5. MadeIds' = MadeIds \cup {job[h]}
      <3>1. made' = Append(made, job[h]) BY <1>2 DEF ResticSaves
      <3>2. made \in Seq(Ids) BY DEF Typed
      <3>3. DOMAIN made' = 1 .. Len(made) + 1 /\ DOMAIN made = 1 .. Len(made) /\ Len(made) \in Nat
            /\ made'[Len(made) + 1] = job[h]
        BY <3>1, <3>2, <2>3
      <3>4. \A i \in 1 .. Len(made) : made'[i] = made[i] BY <3>1, <3>2, <2>3
      <3> QED BY <3>3, <3>4 DEF MadeIds
    <2>6. job[h] \notin MadeIds BY <2>3, MadeIdsAre
    <2>7. asked[job[h]] # A!NotAsked /\ told[job[h]] = "none"
      BY NotARequest DEF ResticSaves, Goes, Serving, NotAsked, A!NotAsked
    <2>8. \A r : r = job[h] => A!Save(r)
      BY <2>3, <2>4, <2>5, <2>6, <2>7
      DEF A!Save, A!Open, Comp, Kind, Holds, MadeIds, ResticSaves, requests
    <2> QED BY <2>3, <2>8
  <1> QED BY <1>1, <1>2

(* Forgetting a snapshot is Archive's Remove. *)
LEMMA ForgetRefines ==
  ASSUME IInv, NEW h \in Helpers, NEW id \in Ids, ForgetOne(h, id)
  PROVE  A!Remove(job[h], id)
  <1> USE DEF IInv
  <1>1. /\ Comp(h) \in Components /\ job[h] \in Ids /\ asked[job[h]] # A!NotAsked /\ told[job[h]] = "none"
    BY NotARequest DEF ForgetOne, Provided, Serving, NotAsked, A!NotAsked
  <1>2. \/ Kind(h) = "delete" /\ id = asked[job[h]].named
        \/ Kind(h) = "consolidate" /\ id # asked[job[h]].named
    BY DEF ForgetOne, Kinds, Targeted
  <1>3. Holds' = [Holds EXCEPT ![Comp(h)] = @ \ {A!PlanOf(id)}]
    <2>1. \A c \in Components :
            snaps'[c] = IF c = Comp(h) THEN {s \in snaps[c] : s.id # id} ELSE snaps[c]
      BY <1>1 DEF ForgetOne, Named, Typed
    <2>2. \A s \in snaps[Comp(h)] : s.parts = A!PlanOf(id) <=> s.id = id
      <3>1. Fields # {}
        <4>1. Len(Parts) # 0 BY RepositoryAssumption, PartsAssumption
        <4>2. 1 \in 1 .. Len(Parts) BY <4>1, FieldsAre
        <4> QED BY <4>2, FieldsAre
      <3>2. \A r, q \in Ids : A!PlanOf(r) = A!PlanOf(q) => r = q BY <3>1 DEF A!PlanOf
      <3>3. \A s \in snaps[Comp(h)] : s.id \in Ids /\ s.parts = A!PlanOf(s.id)
        BY <1>1 DEF Whole, Plan, A!PlanOf
      <3> QED BY <3>2, <3>3
    <2>3. {s.parts : s \in snaps'[Comp(h)]} = {s.parts : s \in snaps[Comp(h)]} \ {A!PlanOf(id)}
      BY <1>1, <2>1, <2>2
    <2> QED BY <1>1, <2>1, <2>3 DEF Holds
  <1> QED BY <1>1, <1>2, <1>3 DEF A!Remove, A!Open, Comp, Kind, Holds, ForgetOne, requests

(* An answer is Archive's Tell: success needs the snapshot. *)
LEMMA EndsRefines ==
  ASSUME IInv, NEW h \in Helpers, NEW answer \in {"ok", "failed"}, phase[h] # "idle",
         answer = "ok" /\ Kind(h) = "backup" => phase[h] = "saved", Ends(h, answer)
  PROVE  A!Tell(job[h])
  <1> USE DEF IInv
  <1>1. job[h] \in Ids /\ asked[job[h]] # A!NotAsked /\ told[job[h]] = "none"
    BY NotARequest DEF Serving, NotAsked, A!NotAsked
  <1>2. answer = "ok" /\ asked[job[h]].kind = "backup" => job[h] \in MadeIds
    BY <1>1, MadeIdsAre DEF Saved, Kind
  <1> QED BY <1>1, <1>2 DEF A!Tell, A!Open, Ends, MadeIds

(* Every other step is a stutter. *)
LEMMA NextRefines == IInv /\ [Next]_vars => [A!Next]_(A!archiveVars)
  <1> SUFFICES ASSUME IInv, [Next]_vars PROVE A!Next \/ UNCHANGED A!archiveVars OBVIOUS
  <1> USE DEF requests, A!archiveVars
  <1>1. ASSUME NEW h \in Helpers, Step(h) PROVE A!Next \/ UNCHANGED A!archiveVars
    <2>0. phase[h] # "idle" => job[h] \in Ids BY DEF IInv, Serving
    <2>1. CASE Succeed(h)
      <3>1. Kind(h) = "backup" => phase[h] = "saved" BY <2>1 DEF Succeed, IInv, Kinds
      <3> QED BY <2>0, <2>1, <3>1, EndsRefines DEF Succeed, A!Next
    <2>2. CASE Answer(h) BY <2>0, <2>2, EndsRefines DEF Answer, A!Next
    <2>3. ASSUME NEW whole \in BOOLEAN, ResticSaves(h, whole) PROVE A!Next \/ UNCHANGED A!archiveVars
      <3>1. (\E r \in Ids : A!Save(r)) => A!Next BY DEF A!Next
      <3>2. (\E r \in Ids : A!Save(r)) \/ UNCHANGED A!archiveVars BY <2>3, SaveRefines
      <3> QED BY <3>1, <3>2
    <2>4. ASSUME NEW id \in Ids, ForgetOne(h, id) PROVE A!Next
      BY <2>0, <2>4, ForgetRefines DEF ForgetOne, A!Next
    <2>5. CASE Prepare(h) \/ MakeLayout(h) \/ AcquireLock(h) \/ Discover(h) \/ WritePart(h)
      BY <2>5 DEF Prepare, MakeLayout, AcquireLock, Discover, WritePart
    <2>6. CASE PlanWritten(h) \/ StartRestic(h) \/ CheckLatest(h) \/ StartForget(h)
      BY <2>6 DEF PlanWritten, StartRestic, CheckLatest, StartForget
    <2> QED BY <1>1, <2>1, <2>2, <2>3, <2>4, <2>5, <2>6 DEF Step
  <1>2. ASSUME NEW h \in Helpers, Crash(h) PROVE A!Next
    <2>1. job[h] \in Ids BY <1>2 DEF Crash, IInv, Serving
    <2> QED BY <1>2, <2>1, EndsRefines DEF Crash, A!Next
  <1>3. ASSUME NEW h \in Helpers, NEW r \in Ids, NEW c \in Components,
               NEW kind \in {"backup", "preview"}, BeginBackup(h, r, c, kind)
        PROVE  A!Next
    BY <1>3, BeginRefines DEF BeginBackup, RequestSet, A!Next
  <1>4. ASSUME NEW h \in Helpers, NEW r \in Ids, NEW c \in Components,
               NEW kind \in {"delete", "consolidate"}, BeginMaintenance(h, r, c, kind)
        PROVE  A!Next
    <2>1. PICK s \in shown[h][c] : Begin(h, r, [kind |-> kind, comp |-> c, named |-> s.id])
      BY <1>4 DEF BeginMaintenance
    <2>2. s.id \in Ids BY DEF IInv, Shown
    <2> QED BY <2>1, <2>2, BeginRefines DEF RequestSet, A!Next
  <1>5. ASSUME NEW h \in Helpers, NEW c \in Components, ShowHistory(h, c) PROVE UNCHANGED A!archiveVars
    BY <1>5 DEF ShowHistory
  <1>6. CASE ClocksGoBack BY <1>6 DEF ClocksGoBack
  <1>7. CASE UNCHANGED vars BY <1>7 DEF vars
  <1> QED BY <1>1, <1>2, <1>3, <1>4, <1>5, <1>6, <1>7 DEF Next

(* Whatever helpers interleave, wait, fail or die: a backup adds at most one
   snapshot, of its own plan; success means it was made; only an unanswered
   maintenance request removes, and only what it may. *)
THEOREM RepositoryImplementsArchive == Spec => Implements
  <1>1. Init => A!Init BY InitRefines
  <1>2. IInv /\ [Next]_vars => [A!Next]_(A!archiveVars) BY NextRefines
  <1> QED BY <1>1, <1>2, Invariance, PTL DEF Spec, Implements, A!Spec
=============================================================================
