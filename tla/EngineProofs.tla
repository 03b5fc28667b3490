---------------------------- MODULE EngineProofs ----------------------------
(***************************************************************************)
(* What surrounds one Restic engine. Credentials, for any requests and any *)
(* number of rewrites: a password is what its file held at one moment, and *)
(* what a request that is over left behind goes later.                     *)
(* Stream, for any outputs and window: a success lost no line.            *)
(***************************************************************************)
EXTENDS Credentials, Stream, FiniteSetTheorems, SequenceTheorems, WellFoundedInduction, TLAPS

-----------------------------------------------------------------------------
(* The credentials: the inductive invariant *)

Halves == [first : Nat, second : Nat]

Typed ==
  /\ phase \in [Requests -> Live \cup {"none", "ended", "dead"}]
  /\ pinned \in [Requests -> Nat] /\ content \in [Requests -> Halves]
  /\ secret \in [Requests -> Halves] /\ cleaned \in [Requests -> SUBSET Requests]
  /\ dirs \subseteq Requests /\ aged \subseteq dirs /\ stuck \subseteq Requests
  /\ file \in [first : Nat, second : Nat, writes : Nat] /\ safe \in BOOLEAN
  /\ Content(file) \in past

SecretsHaveDirectories == \A r \in Requests : secret[r] # NoSecret => r \in dirs

\* What a request has read since the file was opened is what the file holds, as
\* long as it was not written; and what was found unchanged it once held.
ReadIsPinned ==
  \A r \in Requests :
    /\ phase[r] \in {"opened", "half", "read", "unchanged"} => r \in External /\ pinned[r] <= file.writes
    /\ phase[r] = "half" /\ pinned[r] = file.writes => content[r].first = file.first
    /\ phase[r] = "read" /\ pinned[r] = file.writes => content[r] = Content(file)
    /\ phase[r] = "unchanged" => content[r] \in past

IInv == Typed /\ SecretsHaveDirectories /\ ReadIsPinned /\ SecretIsOneMoment

LEMMA InitInv == Init => IInv
<1> SUFFICES ASSUME Init PROVE IInv
  OBVIOUS
<1> USE DEF Init
<1>1. Typed
  BY CredentialsAssumption DEF Typed, Halves, NoSecret, Content
<1>2. SecretsHaveDirectories /\ ReadIsPinned /\ SecretIsOneMoment
  BY DEF SecretsHaveDirectories, ReadIsPinned, SecretIsOneMoment
<1> QED
  BY <1>1, <1>2 DEF IInv

-----------------------------------------------------------------------------
(* One lemma per kind of step *)

\* A request that goes on from its phases of reading, or anywhere else, changes
\* nothing private.
LEMMA PhaseInv ==
  ASSUME IInv, NEW r \in Requests,
         Arrive(r) \/ OpenExternal(r) \/ Leave(r) \/ Crash(r)
  PROVE IInv'
<1> USE DEF IInv, Goes, private, external
<1>1. Typed'
  BY DEF Typed, Arrive, OpenExternal, Leave, Crash, Live, Content
<1>2. SecretsHaveDirectories'
  BY DEF SecretsHaveDirectories, Arrive, OpenExternal, Leave, Crash
<1>3. ReadIsPinned'
  BY DEF ReadIsPinned, Typed, Arrive, OpenExternal, Leave, Crash, Live
<1>4. SecretIsOneMoment'
  BY DEF SecretIsOneMoment, Typed, Arrive, OpenExternal, Leave, Crash
<1> QED
  BY <1>1, <1>2, <1>3, <1>4

LEMMA ReadInv ==
  ASSUME IInv, NEW r \in Requests,
         ReadFirst(r) \/ ReadSecond(r) \/ CheckUnchanged(r)
  PROVE IInv'
<1> USE DEF IInv, Goes, private, external
<1>1. Typed'
  <2>1. phase' \in [Requests -> Live \cup {"none", "ended", "dead"}]
    BY DEF Typed, ReadFirst, ReadSecond, CheckUnchanged, Live
  <2>2. content[r] \in Halves /\ file.first \in Nat /\ file.second \in Nat
    BY DEF Typed
  <2>3. content' \in [Requests -> Halves]
    <3>1. [content[r] EXCEPT !.first = file.first] \in Halves /\ [content[r] EXCEPT !.second = file.second] \in Halves
      BY <2>2 DEF Halves
    <3> QED
      BY <3>1 DEF Typed, ReadFirst, ReadSecond, CheckUnchanged
  <2> QED
    BY <2>1, <2>3 DEF Typed, ReadFirst, ReadSecond, CheckUnchanged, Content
<1>2. SecretsHaveDirectories'
  BY DEF SecretsHaveDirectories, ReadFirst, ReadSecond, CheckUnchanged
<1>3. ReadIsPinned'
  <2>1. CASE ReadFirst(r)
    BY <2>1 DEF ReadIsPinned, Typed, ReadFirst, Halves
  <2>2. CASE ReadSecond(r)
    BY <2>2 DEF ReadIsPinned, Typed, ReadSecond, Halves, Content
  <2>3. CASE CheckUnchanged(r)
    BY <2>3 DEF ReadIsPinned, Typed, CheckUnchanged
  <2> QED
    BY <2>1, <2>2, <2>3
<1>4. SecretIsOneMoment'
  BY DEF SecretIsOneMoment, Typed, ReadFirst, ReadSecond, CheckUnchanged
<1> QED
  BY <1>1, <1>2, <1>3, <1>4

LEMMA ErasedInv ==
  ASSUME IInv, NEW r \in Requests, NEW d \in Requests, Clean(r, d) \/ (d = r /\ Remove(r))
  PROVE IInv'
<1> USE DEF IInv, Goes, Erased, RemovalFails, private, external
<1>1. Typed'
  <2>1. phase' \in [Requests -> Live \cup {"none", "ended", "dead"}]
    BY DEF Typed, Clean, Remove
  <2>2. NoSecret \in Halves
    BY CredentialsAssumption DEF NoSecret, Halves
  <2>3. secret' \in [Requests -> Halves] /\ dirs' \subseteq Requests /\ aged' \subseteq dirs'
    BY <2>2 DEF Typed, Clean, Remove
  <2>4. cleaned' \in [Requests -> SUBSET Requests]
    BY DEF Typed, Clean, Remove
  <2> QED
    BY <2>1, <2>3, <2>4 DEF Typed, Clean, Remove, Content
<1>2. SecretsHaveDirectories'
  BY DEF SecretsHaveDirectories, Typed, Clean, Remove
<1>3. ReadIsPinned'
  BY DEF ReadIsPinned, Typed, Clean, Remove
<1>4. SecretIsOneMoment'
  BY DEF SecretIsOneMoment, Typed, Clean, Remove
<1> QED
  BY <1>1, <1>2, <1>3, <1>4

LEMMA MakeInv ==
  ASSUME IInv, NEW r \in Requests, MakeDirectory(r) \/ SetPassword(r) \/ CopySecret(r) \/ WriteFails(r)
  PROVE IInv'
<1> USE DEF IInv, Goes, WriteSecret, private, external
<1>1. Typed'
  <2>1. phase' \in [Requests -> Live \cup {"none", "ended", "dead"}]
    BY DEF Typed, MakeDirectory, SetPassword, CopySecret, WriteFails, Live
  <2>2. Given \in Halves /\ Torn \in Halves
    BY CredentialsAssumption DEF Given, Torn, Halves
  <2>3. secret' \in [Requests -> Halves] /\ dirs' \subseteq Requests /\ aged' \subseteq dirs'
    BY <2>2 DEF Typed, MakeDirectory, SetPassword, CopySecret, WriteFails
  <2> QED
    BY <2>1, <2>3 DEF Typed, MakeDirectory, SetPassword, CopySecret, WriteFails, Content
<1>2. SecretsHaveDirectories'
  BY DEF SecretsHaveDirectories, Typed, MakeDirectory, SetPassword, CopySecret, WriteFails
<1>3. ReadIsPinned'
  BY DEF ReadIsPinned, Typed, MakeDirectory, SetPassword, CopySecret, WriteFails
<1>4. SecretIsOneMoment'
  BY DEF SecretIsOneMoment, ReadIsPinned, Typed, MakeDirectory, SetPassword, CopySecret, WriteFails
<1> QED
  BY <1>1, <1>2, <1>3, <1>4

LEMMA WorldInv ==
  ASSUME IInv, DayPasses \/ WriteHalf \/ ChangeAncestry
  PROVE IInv'
<1> USE DEF IInv, request, private
<1>1. Typed'
  <2>1. CASE WriteHalf
    <3> DEFINE Files == [first : Nat, second : Nat, writes : Nat]
    <3>0. file \in Files
      BY DEF Typed
    <3>a. ASSUME NEW f \in Files, NEW n \in Nat
          PROVE [f EXCEPT !.first = n] \in Files /\ [f EXCEPT !.second = n] \in Files
                /\ [f EXCEPT !.writes = n] \in Files
      OBVIOUS
    <3>b. file.first + 1 \in Nat /\ file.second + 1 \in Nat /\ file.writes + 1 \in Nat
      BY <3>0
    <3>c. [[file EXCEPT !.first = file.first + 1] EXCEPT !.writes = file.writes + 1] \in Files
          /\ [[file EXCEPT !.second = file.second + 1] EXCEPT !.writes = file.writes + 1] \in Files
      <4> HIDE DEF Files
      <4> QED
        BY <3>0, <3>a, <3>b, Zenon
    <3>1. file' \in Files
      BY <2>1, <3>c DEF WriteHalf
    <3>2. Content(file)' \in past'
      BY <2>1 DEF WriteHalf, Content
    <3> QED
      BY <2>1, <3>1, <3>2 DEF Typed, WriteHalf
  <2>2. CASE DayPasses \/ ChangeAncestry
    BY <2>2 DEF Typed, DayPasses, ChangeAncestry, external, Content
  <2> QED
    BY <2>1, <2>2
<1>2. SecretsHaveDirectories'
  BY DEF SecretsHaveDirectories, DayPasses, WriteHalf, ChangeAncestry
<1>3. ReadIsPinned'
  <2>1. CASE WriteHalf
    <3>1. file'.writes = file.writes + 1 /\ past \subseteq past'
      BY <2>1 DEF WriteHalf, Typed
    <3> QED
      BY <2>1, <3>1 DEF ReadIsPinned, Typed, WriteHalf
  <2>2. CASE DayPasses \/ ChangeAncestry
    BY <2>2 DEF ReadIsPinned, DayPasses, ChangeAncestry, external, Content
  <2> QED
    BY <2>1, <2>2
<1>4. SecretIsOneMoment'
  BY DEF SecretIsOneMoment, Typed, DayPasses, WriteHalf, ChangeAncestry, external
<1> QED
  BY <1>1, <1>2, <1>3, <1>4

LEMMA NextInv == IInv /\ [Next]_vars => IInv'
<1> SUFFICES ASSUME IInv, [Next]_vars PROVE IInv'
  OBVIOUS
<1>1. CASE UNCHANGED vars
  BY <1>1 DEF IInv, Typed, SecretsHaveDirectories, ReadIsPinned, SecretIsOneMoment,
    vars, request, private, external, Content
<1>2. CASE Next
  BY <1>2, PhaseInv, ReadInv, ErasedInv, MakeInv, WorldInv DEF Next
<1> QED
  BY <1>1, <1>2

-----------------------------------------------------------------------------
(* IInv always holds. *)
THEOREM Invariance == Spec => []IInv
<1> QED
  BY InitInv, NextInv, PTL DEF Spec

(* The variables have their types, a password lies in its directory, and only a
   directory has an age (credentials.py:127-158, paths.py:267-317). *)
THEOREM CredentialsTypeCorrect == Spec => []TypeOK
<1>1. IInv => TypeOK
  BY DEF IInv, Typed, SecretsHaveDirectories, TypeOK
<1> QED
  BY <1>1, Invariance, PTL

(* No password is made of halves of two contents of the external file, whenever its
   owner rewrites it (credentials.py:78-112). *)
THEOREM SecretIsOneMomentAlways == Spec => []SecretIsOneMoment
<1>1. IInv => SecretIsOneMoment
  BY DEF IInv
<1> QED
  BY <1>1, Invariance, PTL

-----------------------------------------------------------------------------
(* What was left behind: the inductive invariant of a request and a directory *)

\* The owner of d is over, and d is gone, or a cleanup failed on it, or it is old and
\* still before the request r, or r will never run.
Doomed(r, d) ==
  /\ phase[d] \in {"ended", "dead"}
  /\ d \in dirs \ stuck =>
       /\ d \in aged
       /\ \/ phase[r] = "none"
          \/ phase[r] = "cleaning" /\ d \in cleaned[r]
          \/ phase[r] \in {"leaving", "ended", "dead"}

LEMMA DoomedStep ==
  ASSUME TypeOK, [Next]_vars, NEW r \in Requests, NEW d \in Requests, Doomed(r, d)
  PROVE  Doomed(r, d)'
<1> USE DEF TypeOK, Goes
<1>1. CASE UNCHANGED vars
  BY <1>1 DEF vars, request, private, Doomed
<1>2. ASSUME NEW q \in Requests, Arrive(q) PROVE Doomed(r, d)'
  BY <1>2 DEF Arrive, Doomed, private
<1>3. ASSUME NEW q \in Requests, NEW e \in Requests, Clean(q, e) PROVE Doomed(r, d)'
  BY <1>3 DEF Clean, Erased, RemovalFails, Doomed, private
<1>4. ASSUME NEW q \in Requests, MakeDirectory(q) PROVE Doomed(r, d)'
  BY <1>4 DEF MakeDirectory, Doomed
<1>5. ASSUME NEW q \in Requests, SetPassword(q) \/ CopySecret(q) \/ WriteFails(q) PROVE Doomed(r, d)'
  BY <1>5 DEF SetPassword, CopySecret, WriteFails, WriteSecret, Doomed
<1>6. ASSUME NEW q \in Requests, OpenExternal(q) \/ ReadFirst(q) \/ ReadSecond(q) \/ CheckUnchanged(q)
      PROVE  Doomed(r, d)'
  BY <1>6 DEF OpenExternal, ReadFirst, ReadSecond, CheckUnchanged, private, Doomed
<1>7. ASSUME NEW q \in Requests, Leave(q) \/ Remove(q) \/ Crash(q) PROVE Doomed(r, d)'
  BY <1>7 DEF Leave, Remove, Erased, RemovalFails, Crash, Live, private, Doomed
<1>8. CASE DayPasses \/ WriteHalf \/ ChangeAncestry
  BY <1>8 DEF DayPasses, WriteHalf, ChangeAncestry, request, private, Doomed
<1> QED
  BY <1>1, <1>2, <1>3, <1>4, <1>5, <1>6, <1>7, <1>8 DEF Next

(* What a request that is over has left for a day is gone when a request that arrives
   after that day runs, whoever cleans, dies or arrives meanwhile, unless a cleanup
   failed on it (paths.py:267-317, credentials.py:164-172). *)
THEOREM StaleSecretsGoAlways == Spec => StaleSecretsGo
<1>1. ASSUME NEW r \in Requests, NEW d \in Requests
      PROVE  Spec => [](phase[d] \in {"ended", "dead"} /\ d \in aged /\ phase[r] = "none" =>
                          [](phase[r] = "running" => d \notin dirs \/ d \in stuck))
  <2>1. phase[d] \in {"ended", "dead"} /\ d \in aged /\ phase[r] = "none" => Doomed(r, d)
    BY DEF Doomed
  <2>2. TypeOK /\ [Next]_vars /\ Doomed(r, d) => Doomed(r, d)'
    BY DoomedStep
  <2>3. Doomed(r, d) => (phase[r] = "running" => d \notin dirs \/ d \in stuck)
    BY DEF Doomed
  <2>4. Spec => []TypeOK
    BY CredentialsTypeCorrect
  <2> QED
    BY <2>1, <2>2, <2>3, <2>4, PTL DEF Spec
<1> QED
  BY <1>1 DEF StaleSecretsGo

-----------------------------------------------------------------------------
(* The streamed command: the first keys of a listing                        *)

\* A nonempty finite set of numbers has a greatest: otherwise take a smallest
\* such set that has none, and one element out of it.
LEMMA GreatestExists ==
  ASSUME NEW S \in SUBSET Nat, IsFiniteSet(S), S # {}
  PROVE  \E m \in S : \A x \in S : x <= m
<1> DEFINE HasMax(U) == \E m \in U : \A x \in U : x <= m
           Bad == {U \in SUBSET S : U # {} /\ ~ HasMax(U)}
<1>1. SUFFICES ASSUME Bad # {} PROVE FALSE
  OBVIOUS
<1>2. Bad \subseteq FiniteSubsetsOf(S)
  BY FS_Subset DEF FiniteSubsetsOf
<1>3. PICK T \in Bad : \A U \in Bad : <<U, T>> \notin StrictSubsetOrdering(S)
  <2> HIDE DEF Bad
  <2> QED
    BY <1>1, <1>2, FS_StrictSubsetOrderingWellFounded, WFMin
<1>4. PICK x \in T : x \in Nat
  OBVIOUS
<1>5. T \ {x} \notin Bad
  BY <1>3, <1>4 DEF StrictSubsetOrdering
<1>6. CASE T \ {x} = {}
  BY <1>3, <1>4, <1>6
<1>7. CASE T \ {x} # {}
  <2>1. PICK m \in T \ {x} : \A y \in T \ {x} : y <= m
    BY <1>5, <1>7
  <2>2. HasMax(T)
    <3>1. CASE m <= x
      BY <1>4, <2>1, <3>1
    <3>2. CASE ~ (m <= x)
      BY <1>4, <2>1, <3>2
    <3> QED
      BY <3>1, <3>2
  <2> QED
    BY <1>3, <2>2
<1> QED
  BY <1>6, <1>7

LEMMA MaxIsGreatest ==
  ASSUME NEW S \in SUBSET Nat, IsFiniteSet(S), S # {}
  PROVE  Max(S) \in S /\ \A x \in S : x <= Max(S)
<1>1. \E m \in S : \A x \in S : m >= x
  BY GreatestExists
<1> QED
  BY <1>1 DEF Max

Window == Offset + Limit

\* S holds the first keys of T, as many as a window has.
FirstOf(S, T) ==
  /\ S \subseteq T /\ IsFiniteSet(S) /\ Cardinality(S) <= Window
  /\ S = T \/ (Cardinality(S) = Window /\ \A x \in T \ S : \A y \in S : y < x)

LEMMA KeepsFirst ==
  ASSUME NEW T \in SUBSET Nat, NEW k \in Nat \ T, FirstOf(kept, T)
  PROVE  FirstOf(Keep(k), T \cup {k})
<1>1. Window \in Nat \ {0} /\ Cardinality(kept) \in Nat /\ kept \subseteq Nat
  BY StreamAssumption, FS_CardinalityType DEF Window, FirstOf
<1>2. CASE Cardinality(kept) < Window
  <2>1. kept = T /\ Keep(k) = kept \cup {k}
    BY <1>1, <1>2 DEF FirstOf, Keep, Window
  <2>2. IsFiniteSet(Keep(k)) /\ Cardinality(Keep(k)) <= Window
    BY <1>1, <1>2, <2>1, FS_AddElement DEF FirstOf
  <2> QED
    BY <2>1, <2>2 DEF FirstOf
<1>3. CASE ~ (Cardinality(kept) < Window)
  <2> DEFINE m == Max(kept)
  <2>1. Cardinality(kept) = Window /\ kept # {} /\ \A x \in T \ kept : \A y \in kept : y < x
    <3>1. Cardinality(kept) = Window
      BY <1>1, <1>3 DEF FirstOf
    <3> QED
      BY <1>1, <3>1, FS_EmptySet DEF FirstOf
  <2>2. m \in kept /\ \A x \in kept : x <= m
    BY <1>1, <2>1, MaxIsGreatest DEF FirstOf
  <2> HIDE DEF m
  <2>3. Keep(k) = IF k < m THEN (kept \ {m}) \cup {k} ELSE kept
    BY <1>3 DEF Keep, Window, m
  <2>4. CASE k < m
    <3> DEFINE New == (kept \ {m}) \cup {k}
    <3>1. k \notin kept \ {m} /\ kept \subseteq T
      BY DEF FirstOf
    <3>2. IsFiniteSet(kept \ {m}) /\ Cardinality(kept \ {m}) = Window - 1
      BY <2>1, <2>2, FS_RemoveElement DEF FirstOf
    <3>3. IsFiniteSet(New) /\ Cardinality(New) = Window
      <4>1. Window - 1 + 1 = Window
        BY <1>1
      <4> QED
        BY <3>1, <3>2, <4>1, FS_AddElement, Zenon
    <3>4. ASSUME NEW x \in (T \cup {k}) \ New, NEW y \in New
          PROVE  y < x
      <4>1. x = m \/ x \in T \ kept
        OBVIOUS
      <4>2. x \in Nat /\ y \in Nat /\ m \in Nat
        BY <1>1, <2>2, <4>1
      <4>3. m <= x
        BY <2>1, <2>2, <4>1, <4>2
      <4>4. y < m
        BY <2>2, <2>4, <4>2
      <4> QED
        BY <4>2, <4>3, <4>4
    <3>5. New \subseteq T \cup {k} /\ Keep(k) = New
      BY <2>3, <2>4, <3>1
    <3> HIDE DEF New
    <3>6. Cardinality(New) <= Window
      BY <1>1, <3>3
    <3>7. FirstOf(New, T \cup {k})
      <4>1. \A x \in (T \cup {k}) \ New : \A y \in New : y < x
        BY <3>4
      <4> QED
        BY <3>3, <3>5, <3>6, <4>1, Zenon DEF FirstOf
    <3> QED
      BY <3>5, <3>7
  <2>5. CASE ~ (k < m)
    <3>1. ASSUME NEW y \in kept PROVE y < k
      <4>1. y \in Nat /\ m \in Nat /\ k # m
        BY <1>1, <2>2 DEF FirstOf
      <4> QED
        BY <2>2, <2>5, <4>1
    <3> QED
      BY <1>1, <2>1, <2>3, <2>5, <3>1 DEF FirstOf
  <2> QED
    BY <2>4, <2>5
<1> QED
  BY <1>2, <1>3

\* The page is the same whether it is cut out of the first keys or out of all.
LEMMA PageOfFirst ==
  ASSUME NEW S, NEW T \in SUBSET Nat, IsFiniteSet(T), FirstOf(S, T)
  PROVE  Page(S) = Page(T)
<1> DEFINE Before(U, k) == {j \in U : j < k}
<1>1. SUFFICES ASSUME S # T PROVE Page(S) = Page(T)
  OBVIOUS
<1>2. S \subseteq T /\ Cardinality(S) = Window /\ \A x \in T \ S : \A y \in S : y < x
  BY <1>1 DEF FirstOf
<1>3. ASSUME NEW k \in S PROVE Before(S, k) = Before(T, k)
  <2>1. ASSUME NEW j \in T \ S, j < k PROVE FALSE
    <3>1. k < j /\ j \in Nat /\ k \in Nat
      BY <1>2
    <3> QED
      BY <2>1, <3>1
  <2> QED
    BY <1>2, <2>1
<1>4. ASSUME NEW k \in T \ S PROVE k \notin Page(T)
  <2>1. S \subseteq Before(T, k)
    BY <1>2
  <2>2. IsFiniteSet(Before(T, k))
    BY FS_Subset
  <2>3. Window <= Cardinality(Before(T, k)) /\ Cardinality(Before(T, k)) \in Nat
    BY <1>2, <2>1, <2>2, FS_Subset, FS_CardinalityType
  <2> HIDE DEF Before
  <2>4. Cardinality(Before(T, k)) \notin Offset .. (Offset + Limit - 1)
    BY <2>3, StreamAssumption DEF Window
  <2> QED
    BY <2>4 DEF Page, Before
<1>5. Page(S) \subseteq Page(T)
  BY <1>2, <1>3 DEF Page
<1>6. Page(T) \subseteq Page(S)
  BY <1>2, <1>3, <1>4 DEF Page
<1> QED
  BY <1>5, <1>6
-----------------------------------------------------------------------------
(* The streamed command: the inductive invariant                           *)

\* The lines the reader has taken.
Taken == Len(printed) - Len(output) - Len(pipe)

\* The keys of the entries among the first n lines.
Keys(n) == {printed[i][2] : i \in {j \in 1..n : printed[j][1] = "node"}}

StreamTyped ==
  /\ command \in {"backup", "ls"} /\ printed \in Seq(Lines) /\ output \in Seq(Lines) /\ pipe \in Seq(Lines)
  /\ printed \in IF command = "backup" THEN BackupOutputs ELSE ListingOutputs
  /\ status \in {"running", "complete", "incomplete", "failed"}
  /\ reader \in {"reading", "telling", "discarding", "ended"}
  /\ main \in {"waiting", "joining", "checking", "warning", "answering", "done", "dead"}

\* After what was taken come the lines in the pipe and then those Restic has left.
Ordered ==
  /\ Taken >= 0
  /\ \A i \in 1..Len(pipe) : pipe[i] = printed[Taken + i]
  /\ \A i \in 1..Len(output) : output[i] = printed[Taken + Len(pipe) + i]

\* A command that ran to its end has nothing left, and a reader that has ended
\* has seen the end of the output.
Finished ==
  /\ status \in {"complete", "incomplete"} => output = <<>>
  /\ reader = "ended" => ~ Running /\ pipe = <<>>

\* Unless something was refused, what was taken is kept: no line was too long, the
\* summary was seen or is being told, and the heap holds the first keys.
Kept ==
  /\ reader \in {"telling", "discarding"} => command = "backup"
  /\ reader = "discarding" => refused
  /\ ~ refused =>
       /\ \A i \in 1..Taken : printed[i][1] # "long"
       /\ reader = "telling" => Taken > 0 /\ line = printed[Taken][1]
       /\ command = "backup" => \A i \in 1..Taken :
            printed[i][1] = "summary" => summary \/ (reader = "telling" /\ i = Taken)
       /\ command = "ls" => FirstOf(kept, Keys(Taken))

\* A command was only judged a success when its reader had ended and nothing was
\* refused, unless the join gave up.
Judged ==
  /\ main \in {"checking", "warning"} /\ ~ gaveUp => reader = "ended"
  /\ main = "warning" => command = "backup"
  /\ (main = "warning" \/ answer = "success") /\ ~ gaveUp =>
       reader = "ended" /\ ~ refused /\ status \in {"complete", "incomplete"}

StreamInv == StreamTyped /\ Ordered /\ Finished /\ Kept /\ Judged

LEMMA TailIs ==
  ASSUME NEW s \in Seq(Lines), s # <<>>
  PROVE  /\ Tail(s) \in Seq(Lines) /\ Len(s) \in Nat \ {0} /\ Len(Tail(s)) = Len(s) - 1
         /\ Head(s) = s[1] /\ Head(s) \in Lines
         /\ \A i \in 1..(Len(s) - 1) : Tail(s)[i] = s[i + 1]
<1>1. Len(s) \in Nat \ {0}
  BY EmptySeq, LenProperties
<1> QED
  BY <1>1, HeadTailProperties

LEMMA StreamInitInv == StreamInit => StreamInv
<1> SUFFICES ASSUME StreamInit PROVE StreamInv
  OBVIOUS
<1> USE DEF StreamInit
<1>1. StreamTyped
  <2>1. <<>> \in Seq(Lines)
    BY EmptySeq
  <2> QED
    BY <2>1, StreamAssumption DEF StreamTyped
<1>2. Taken = 0 /\ Len(pipe) = 0 /\ Len(output) \in Nat
  <2>1. printed \in Seq(Lines) /\ output = printed /\ pipe = <<>>
    BY <1>1 DEF StreamTyped
  <2>2. Len(printed) \in Nat /\ Len(pipe) = 0
    <3>1. Len(<<>>) = 0
      BY EmptySeq, Zenon
    <3> QED
      BY <2>1, <3>1, LenProperties
  <2>3. Len(output) = Len(printed) /\ Len(printed) - Len(printed) - 0 = 0
    BY <2>1, <2>2
  <2> HIDE DEF StreamInit
  <2> QED
    BY <2>2, <2>3 DEF Taken
<1>3. Ordered
  BY <1>2 DEF Ordered
<1>4. FirstOf(kept, Keys(Taken))
  <2>1. Keys(0) = {}
    BY DEF Keys
  <2> QED
    BY <1>2, <2>1, FS_EmptySet, StreamAssumption DEF FirstOf, Window
<1>5. Finished /\ Kept /\ Judged
  BY <1>2, <1>4 DEF Finished, Kept, Judged
<1> QED
  BY <1>1, <1>3, <1>5 DEF StreamInv

\* Restic writes a line, or ends.
LEMMA ResticInv ==
  ASSUME StreamInv, Emit \/ Exit \/ Fail
  PROVE  StreamInv'
<1> USE DEF StreamInv, restic, drain, helper
<1>1. StreamTyped'
  <2>1. CASE Emit
    <3>1. output \in Seq(Lines) /\ output # <<>> /\ pipe \in Seq(Lines)
      BY <2>1 DEF Emit, StreamTyped
    <3>2. Append(pipe, Head(output)) \in Seq(Lines) /\ Tail(output) \in Seq(Lines)
      BY <3>1, TailIs, AppendProperties
    <3> QED
      BY <2>1, <3>2 DEF Emit, StreamTyped
  <2> QED
    BY <2>1 DEF Exit, Fail, StreamTyped
<1>2. Taken' = Taken /\ Ordered'
  <2>1. CASE Emit
    <3>1. output \in Seq(Lines) /\ output # <<>> /\ pipe \in Seq(Lines) /\ printed \in Seq(Lines)
          /\ pipe' = Append(pipe, Head(output)) /\ output' = Tail(output) /\ printed' = printed
      BY <2>1 DEF Emit, StreamTyped
    <3>2. Len(pipe) \in Nat /\ Len(output) \in Nat \ {0} /\ Len(printed) \in Nat
      BY <3>1, TailIs, LenProperties
    <3>3. Len(pipe') = Len(pipe) + 1 /\ Len(output') = Len(output) - 1
      BY <3>1, TailIs, AppendProperties
    <3>4. Taken' = Taken /\ Taken \in Int
      BY <3>1, <3>2, <3>3 DEF Taken
    <3>5. ASSUME NEW i \in 1..Len(pipe') PROVE pipe'[i] = printed[Taken + i]
      <4>1. CASE i = Len(pipe) + 1
        <5>1. pipe'[i] = output[1]
          BY <3>1, <4>1, TailIs, AppendProperties
        <5>2. output[1] = printed[Taken + Len(pipe) + 1]
          BY <3>2 DEF Ordered
        <5> QED
          BY <3>2, <3>4, <4>1, <5>1, <5>2
      <4>2. CASE i \in 1..Len(pipe)
        BY <3>1, <4>2, AppendProperties DEF Ordered
      <4> QED
        BY <3>2, <3>3, <4>1, <4>2
    <3>6. ASSUME NEW i \in 1..Len(output') PROVE output'[i] = printed[Taken + Len(pipe') + i]
      <4>1. output'[i] = output[i + 1] /\ i + 1 \in 1..Len(output)
        BY <3>1, <3>2, <3>3, TailIs
      <4>2. output[i + 1] = printed[Taken + Len(pipe) + (i + 1)]
        BY <4>1 DEF Ordered
      <4>3. Taken + Len(pipe) + (i + 1) = Taken + Len(pipe') + i
        BY <3>2, <3>3, <3>4
      <4> QED
        BY <4>1, <4>2, <4>3
    <3> QED
      BY <3>1, <3>4, <3>5, <3>6 DEF Ordered
  <2>2. CASE Exit \/ Fail
    BY <2>2 DEF Exit, Fail, Ordered, Taken
  <2> QED
    BY <2>1, <2>2
<1>3. Finished'
  BY DEF Emit, Exit, Fail, Finished, Running
<1>4. Kept'
  BY <1>2 DEF Emit, Exit, Fail, Kept, FirstOf, Keys
<1>5. Judged'
  BY DEF Emit, Exit, Fail, Judged, Finished, Running
<1> QED
  BY <1>1, <1>2, <1>3, <1>4, <1>5

\* The reader takes a line out of the pipe.
LEMMA TakenNext ==
  ASSUME StreamTyped, Ordered, pipe # <<>>, pipe' = Tail(pipe), UNCHANGED restic
  PROVE  /\ Taken \in Nat /\ Taken' = Taken + 1 /\ Taken + 1 \in 1..Len(printed)
         /\ Head(pipe) = printed[Taken + 1] /\ Head(pipe) \in Lines
         /\ pipe' \in Seq(Lines) /\ Ordered'
<1>1. /\ printed \in Seq(Lines) /\ output \in Seq(Lines) /\ pipe \in Seq(Lines)
      /\ printed' = printed /\ output' = output
  BY DEF StreamTyped, restic
<1>2. Len(pipe) \in Nat \ {0} /\ Len(output) \in Nat /\ Len(printed) \in Nat
  BY <1>1, TailIs, LenProperties
<1>3. Len(pipe') = Len(pipe) - 1 /\ pipe' \in Seq(Lines)
  BY <1>1, TailIs
<1>4. Taken \in Nat /\ Taken' = Taken + 1 /\ Taken + 1 \in 1..Len(printed)
  BY <1>1, <1>2, <1>3 DEF Taken, Ordered
<1>5. Head(pipe) = printed[Taken + 1] /\ Head(pipe) \in Lines
  <2>1. pipe[1] = printed[Taken + 1]
    BY <1>2 DEF Ordered
  <2> QED
    BY <1>1, <2>1, TailIs
<1>6. ASSUME NEW i \in 1..Len(pipe') PROVE pipe'[i] = printed[Taken' + i]
  <2>1. pipe'[i] = pipe[i + 1] /\ i + 1 \in 1..Len(pipe)
    BY <1>1, <1>2, <1>3, TailIs
  <2>2. pipe[i + 1] = printed[Taken + (i + 1)] /\ Taken + (i + 1) = Taken' + i
    BY <1>4, <2>1 DEF Ordered
  <2> QED
    BY <2>1, <2>2
<1>7. ASSUME NEW i \in 1..Len(output') PROVE output'[i] = printed[Taken' + Len(pipe') + i]
  <2>1. output[i] = printed[Taken + Len(pipe) + i] /\ Taken' + Len(pipe') + i = Taken + Len(pipe) + i
    BY <1>1, <1>2, <1>3, <1>4 DEF Ordered
  <2> QED
    BY <1>1, <2>1
<1>8. Taken' >= 0 /\ printed' = printed
  BY <1>1, <1>4
<1> QED
  BY <1>3, <1>4, <1>5, <1>6, <1>7, <1>8 DEF Ordered

\* What one more line does to the keys.
LEMMA KeysNext ==
  ASSUME NEW n \in Nat
  PROVE  Keys(n + 1) = IF printed[n + 1][1] = "node" THEN Keys(n) \cup {printed[n + 1][2]} ELSE Keys(n)
<1>1. 1..(n + 1) = 1..n \cup {n + 1}
  OBVIOUS
<1>2. {j \in 1..(n + 1) : printed[j][1] = "node"}
      = {j \in 1..n : printed[j][1] = "node"} \cup {j \in {n + 1} : printed[j][1] = "node"}
  BY <1>1, Zenon
<1> QED
  BY <1>2, Zenon DEF Keys

\* The entries of a listing are numbers, finitely many, and each comes once.
LEMMA KeysAre ==
  ASSUME StreamTyped, NEW n \in 0..Len(printed)
  PROVE  /\ Keys(n) \in SUBSET Nat /\ IsFiniteSet(Keys(n))
         /\ command = "ls" /\ n < Len(printed) /\ printed[n + 1][1] = "node" => printed[n + 1][2] \notin Keys(n)
<1>1. printed \in Seq(Lines) /\ Len(printed) \in Nat /\ n \in Nat
  BY LenProperties DEF StreamTyped
<1>2. \A i \in 1..Len(printed) : printed[i] \in Lines
  BY <1>1, ElementOfSeq
<1>3. \A i \in 1..Len(printed) : printed[i][2] \in Nat /\ printed[i] = <<printed[i][1], printed[i][2]>>
  BY <1>2 DEF Lines
<1>4. Keys(n) \subseteq Nat
  BY <1>1, <1>3 DEF Keys
<1>5. IsFiniteSet(Keys(n))
  <2> DEFINE f == [i \in 1..n |-> printed[i][2]]
             All == {printed[i][2] : i \in 1..n}
  <2>1. f \in Surjection(1..n, All)
    BY DEF Surjection
  <2>2. IsFiniteSet(1..n)
    BY <1>1, FS_Interval
  <2>3. IsFiniteSet(All)
    <3> HIDE DEF f, All
    <3> QED
      BY <2>1, <2>2, FS_Surjection
  <2>4. Keys(n) \in SUBSET All
    BY DEF Keys
  <2> HIDE DEF All
  <2> QED
    BY <2>3, <2>4, FS_Subset
<1>6. ASSUME command = "ls", n < Len(printed), printed[n + 1][1] = "node", printed[n + 1][2] \in Keys(n)
      PROVE  FALSE
  <2>1. PICK i \in 1..n : printed[i][1] = "node" /\ printed[i][2] = printed[n + 1][2]
    BY <1>6 DEF Keys
  <2>2. i \in 1..Len(printed) /\ n + 1 \in 1..Len(printed) /\ i # n + 1
    BY <1>1, <1>6
  <2>3. printed[i] = printed[n + 1]
    BY <1>3, <1>6, <2>1, <2>2
  <2>4. printed \in ListingOutputs /\ DOMAIN printed = 1..Len(printed)
    BY <1>1, <1>6, LenProperties DEF StreamTyped
  <2> QED
    BY <2>1, <2>2, <2>3, <2>4, StreamAssumption
<1> QED
  BY <1>4, <1>5, <1>6

LEMMA TakeInv ==
  ASSUME StreamInv, Take
  PROVE  StreamInv'
<1> USE DEF StreamInv
<1>0. /\ reader = "reading" /\ pipe # <<>> /\ pipe' = Tail(pipe)
      /\ UNCHANGED <<restic, summary, wire, helper, cancelled>>
  BY DEF Take
<1> DEFINE kind == Head(pipe)[1]
<1>1. /\ Taken \in Nat /\ Taken' = Taken + 1 /\ Taken + 1 \in 1..Len(printed)
      /\ Head(pipe) = printed[Taken + 1] /\ Head(pipe) \in Lines /\ pipe' \in Seq(Lines) /\ Ordered'
  BY <1>0, TakenNext
<1>2. \/ kind = "long" /\ refused' /\ UNCHANGED <<reader, line, garbled, kept>>
      \/ kind # "long" /\ command = "backup"
         /\ reader' = "telling" /\ line' = kind /\ UNCHANGED <<refused, garbled, kept>>
      \/ kind \notin {"long", "node"} /\ command = "ls" /\ UNCHANGED <<reader, line, refused, kept>>
      \/ kind = "node" /\ command = "ls"
         /\ kept' = Keep(Head(pipe)[2]) /\ UNCHANGED <<reader, line, refused, garbled>>
  BY DEF Take, StreamTyped
<1>3. /\ command' = command /\ printed' = printed /\ output' = output /\ status' = status
      /\ main' = main /\ answer' = answer /\ gaveUp' = gaveUp /\ summary' = summary
      /\ reader' \in {"reading", "telling"}
  BY <1>0, <1>2 DEF restic, helper
<1>4. StreamTyped'
  BY <1>1, <1>3 DEF StreamTyped
<1>5. Finished' /\ Judged'
  BY <1>0, <1>3 DEF Finished, Judged, Running
<1>6. Kept'
  <2>1. SUFFICES ASSUME ~ refused'
                 PROVE  /\ \A i \in 1..Taken' : printed'[i][1] # "long"
                        /\ reader' = "telling" => Taken' > 0 /\ line' = printed'[Taken'][1]
                        /\ command' = "backup" => \A i \in 1..Taken' :
                             printed'[i][1] = "summary" => summary' \/ (reader' = "telling" /\ i = Taken')
                        /\ command' = "ls" => FirstOf(kept, Keys(Taken))'
    <3>1. reader' \in {"telling", "discarding"} => command' = "backup"
      BY <1>0, <1>2, <1>3
    <3>2. reader' # "discarding"
      BY <1>3
    <3> QED
      BY <3>1, <3>2 DEF Kept
  <2>2. ~ refused /\ kind # "long" /\ kind = printed[Taken + 1][1]
    BY <1>1, <1>2, <2>1
  <2>3. 1..Taken' = 1..Taken \cup {Taken'}
    BY <1>1
  <2>4. \A i \in 1..Taken' : printed'[i][1] # "long"
    BY <1>1, <1>3, <2>2, <2>3 DEF Kept
  <2>5. reader' = "telling" => Taken' > 0 /\ line' = printed'[Taken'][1]
    BY <1>0, <1>1, <1>2, <1>3, <2>2
  <2>6. command = "backup" => reader' = "telling"
    BY <1>2, <2>2
  <2>7. command = "ls" => FirstOf(kept, Keys(Taken))'
    <3>1. SUFFICES ASSUME command = "ls" PROVE FirstOf(kept', Keys(Taken + 1))
      BY <1>1, <1>3 DEF FirstOf, Keys
    <3>2. FirstOf(kept, Keys(Taken))
      BY <2>2, <3>1 DEF Kept
    <3>3. Taken \in 0..Len(printed) /\ Taken < Len(printed)
      BY <1>1
    <3>4. CASE kind = "node"
      <4> DEFINE k == printed[Taken + 1][2]
      <4>1. Keys(Taken) \in SUBSET Nat /\ k \notin Keys(Taken) /\ k \in Nat
        BY <1>1, <2>2, <3>1, <3>3, <3>4, KeysAre DEF Lines
      <4>2. kept' = Keep(k) /\ Keys(Taken + 1) = Keys(Taken) \cup {k}
        BY <1>1, <1>2, <2>2, <3>1, <3>4, KeysNext
      <4> HIDE DEF k
      <4> QED
        BY <3>2, <4>1, <4>2, KeepsFirst
    <3>5. CASE kind # "node"
      <4>1. kept' = kept /\ Keys(Taken + 1) = Keys(Taken)
        BY <1>1, <1>2, <2>2, <3>1, <3>5, KeysNext
      <4> QED
        BY <3>2, <4>1
    <3> QED
      BY <3>4, <3>5
  <2>8. ASSUME command = "backup", NEW i \in 1..Taken', printed'[i][1] = "summary"
        PROVE  summary' \/ (reader' = "telling" /\ i = Taken')
    <3>1. CASE i = Taken'
      BY <2>6, <2>8, <3>1
    <3>2. CASE i \in 1..Taken
      BY <1>0, <1>3, <2>2, <2>8, <3>2 DEF Kept
    <3> QED
      BY <2>3, <3>1, <3>2
  <2> QED
    BY <1>3, <2>4, <2>5, <2>7, <2>8
<1> QED
  BY <1>1, <1>4, <1>5, <1>6

\* Kept, where neither the reader nor the lines change.
LEMMA KeptStays ==
  ASSUME Kept, UNCHANGED <<drain, command, printed>>, Taken' = Taken \/ refused
  PROVE  Kept'
BY DEF Kept, FirstOf, Keys, drain

LEMMA ReaderInv ==
  ASSUME StreamInv, Tell \/ Discard \/ EndOfOutput
  PROVE  StreamInv'
<1> USE DEF StreamInv
<1>1. CASE Discard
  <2>1. /\ reader = "discarding" /\ pipe # <<>> /\ pipe' = Tail(pipe)
        /\ UNCHANGED <<restic, drain, wire, helper, cancelled>>
    BY <1>1 DEF Discard
  <2>2. Ordered' /\ pipe' \in Seq(Lines) /\ refused
    BY <2>1, TakenNext DEF Kept
  <2>3. Kept'
    BY <2>1, <2>2, KeptStays DEF restic
  <2>4. StreamTyped' /\ Finished' /\ Judged'
    BY <2>1, <2>2 DEF restic, drain, helper, StreamTyped, Finished, Judged, Running
  <2> QED
    BY <2>2, <2>3, <2>4
<1>2. CASE Tell \/ EndOfOutput
  <2>1. UNCHANGED <<command, printed, output, status, pipe, main, answer, gaveUp, kept, line>>
    BY <1>2 DEF Tell, EndOfOutput, restic, helper
  <2>2. Taken' = Taken /\ Ordered'
    BY <2>1 DEF Taken, Ordered
  <2>3. StreamTyped' /\ Finished' /\ Judged'
    BY <1>2, <2>1 DEF Tell, EndOfOutput, StreamTyped, Finished, Judged, Running
  <2>4. CASE Tell
    <3>1. Kept'
      <4>1. reader = "telling" /\ command = "backup"
        BY <2>4 DEF Tell, Kept
      <4>2. CASE refused'
        BY <2>1, <2>4, <4>1, <4>2 DEF Tell, Kept
      <4>3. CASE ~ refused'
        <5>1. reader' = "reading" /\ ~ refused /\ summary' = (summary \/ line = "summary")
          BY <2>4, <4>3 DEF Tell
        <5>2. \A j \in 1..Taken : printed[j][1] = "summary" => summary'
          BY <4>1, <5>1 DEF Kept
        <5> QED
          BY <2>1, <2>2, <4>1, <5>1, <5>2 DEF Kept
      <4> QED
        BY <4>2, <4>3
    <3> QED
      BY <2>2, <2>3, <3>1
  <2>5. CASE EndOfOutput
    <3>1. Kept'
      BY <2>1, <2>2, <2>5 DEF EndOfOutput, Kept, FirstOf, Keys
    <3> QED
      BY <2>2, <2>3, <3>1
  <2> QED
    BY <1>2, <2>4, <2>5
<1> QED
  BY <1>1, <1>2

LEMMA MainInv ==
  ASSUME StreamInv, Main \/ Cancel \/ Read
  PROVE  StreamInv'
<1> USE DEF StreamInv, Main, Continues, Answers
<1>1. UNCHANGED <<command, printed, output, pipe, drain>>
  BY DEF Wait, Join, Check, Warn, Answer, Cancel, Read, restic
<1>2. Taken' = Taken /\ Ordered'
  BY <1>1 DEF Taken, Ordered
<1>3. Kept'
  BY <1>1, <1>2, KeptStays
<1>4. status' = status \/ (Running /\ status' = "failed")
  BY DEF Wait, Join, Check, Warn, Answer, Cancel, Read, restic, Running
<1>5. StreamTyped'
  <2>1. main' \in {"waiting", "joining", "checking", "warning", "answering", "done", "dead"}
    BY DEF StreamTyped, Wait, Join, Check, Warn, Answer, Cancel, Read, helper
  <2> QED
    BY <1>1, <1>4, <2>1 DEF StreamTyped, drain
<1>6. Finished'
  BY <1>1, <1>4 DEF Finished, Running, drain
<1>7. Judged'
  <2>1. reader' = reader /\ refused' = refused /\ command' = command
    BY <1>1 DEF drain
  <2>2. CASE Wait
    BY <2>1, <2>2, <1>4 DEF Wait, Judged, Finished, Running
  <2>3. CASE Join
    BY <2>1, <2>3 DEF Join, Judged, restic
  <2>4. CASE Check
    BY <2>1, <2>4 DEF Check, Judged, Accepted, restic
  <2>5. CASE Warn
    BY <2>1, <2>5 DEF Warn, Judged, restic
  <2>6. CASE Answer \/ Cancel \/ Read
    BY <2>1, <2>6 DEF Answer, Cancel, Read, Judged, restic, helper
  <2> QED
    BY <2>2, <2>3, <2>4, <2>5, <2>6
<1> QED
  BY <1>2, <1>3, <1>5, <1>6, <1>7

LEMMA StreamNextInv == StreamInv /\ [StreamNext]_streamVars => StreamInv'
<1> SUFFICES ASSUME StreamInv, [StreamNext]_streamVars PROVE StreamInv'
  OBVIOUS
<1>1. CASE UNCHANGED streamVars
  <2>1. UNCHANGED <<restic, pipe, drain, helper>>
    BY <1>1 DEF streamVars
  <2>2. Taken' = Taken /\ Ordered'
    BY <2>1 DEF restic, Taken, Ordered, StreamInv
  <2>3. Kept'
    BY <2>1, <2>2, KeptStays DEF restic, StreamInv
  <2>4. StreamTyped' /\ Finished' /\ Judged'
    BY <2>1 DEF restic, drain, helper, Running, StreamInv, StreamTyped, Finished, Judged
  <2> QED
    BY <2>2, <2>3, <2>4 DEF StreamInv
<1>2. CASE StreamNext
  BY <1>2, ResticInv, TakeInv, ReaderInv, MainInv DEF StreamNext, Reader
<1> QED
  BY <1>1, <1>2

LEMMA StreamInvWhole == StreamInv => SuccessIsWhole
<1> SUFFICES ASSUME StreamInv, answer = "success", ~ gaveUp
             PROVE  /\ "long" \notin Kinds
                    /\ IF command = "backup" THEN "summary" \in Kinds => summary ELSE Page(kept) = Page(Entries)
  BY DEF SuccessIsWhole
<1>1. reader = "ended" /\ ~ refused /\ output = <<>> /\ pipe = <<>>
  BY DEF StreamInv, Judged, Finished
<1>2. Taken = Len(printed) /\ Len(printed) \in Nat /\ DOMAIN printed = 1..Len(printed)
  <2>1. printed \in Seq(Lines) /\ Len(<<>>) = 0
    BY EmptySeq, Zenon DEF StreamInv, StreamTyped
  <2>2. Len(printed) \in Nat /\ DOMAIN printed = 1..Len(printed)
    BY <2>1, LenProperties
  <2>3. Taken = Len(printed) - 0 - 0
    BY <1>1, <2>1, Zenon DEF Taken
  <2> QED
    BY <2>2, <2>3
<1>3. "long" \notin Kinds
  BY <1>1, <1>2 DEF StreamInv, Kept, Kinds
<1>4. CASE command = "backup"
  BY <1>1, <1>2, <1>3, <1>4 DEF StreamInv, Kept, Kinds
<1>5. CASE command = "ls"
  <2>1. Entries = Keys(Len(printed))
    BY <1>2 DEF Entries, Keys
  <2>2. Entries \in SUBSET Nat /\ IsFiniteSet(Entries)
    BY <1>2, <2>1, KeysAre DEF StreamInv
  <2>3. FirstOf(kept, Entries)
    BY <1>1, <1>2, <1>5, <2>1 DEF StreamInv, Kept
  <2> QED
    BY <1>3, <1>5, <2>2, <2>3, PageOfFirst
<1> QED
  BY <1>4, <1>5 DEF StreamInv, StreamTyped

(* A command that succeeds, its reader waited for, has lost no line: a backup has the
   summary that Restic printed, a listing the page of the directory, however the
   lines, cancellations and the GUI's reading were interleaved (restic_engine.py:409-416,
   459-523). *)
THEOREM SuccessIsWholeAlways == StreamSpec => []SuccessIsWhole
<1> QED
  BY StreamInitInv, StreamNextInv, StreamInvWhole, PTL DEF StreamSpec
=============================================================================
