----------------------------- MODULE Credentials -----------------------------
(***************************************************************************)
(* The request-private files of the helpers: the directory of a request    *)
(* under plans/, the password file in it, made from a given password or    *)
(* copied from an external file that its owner may rewrite at any time,    *)
(* and the removal of what dead helpers left (privileged/credentials.py,   *)
(* privileged/backup.py, paths.py).                                        *)
(*                                                                         *)
(* A file is read in two halves, and a rewrite in place replaces one half  *)
(* after the other.  Of the time it matters only whether a directory is    *)
(* older than a day.  Every listing, write and removal may fail, and the   *)
(* code goes on after a removal that did.                                  *)
(***************************************************************************)
EXTENDS Naturals, FiniteSets

CONSTANTS
  Requests,
  External,  \* the requests whose credential is an external file
  Backups,   \* the requests that make their directory themselves
  MaxWrites  \* a bound on the rewrites of the external file

ASSUME CredentialsAssumption ==
  External \subseteq Requests /\ Backups \subseteq Requests /\ MaxWrites \in Nat

VARIABLES
  phase,    \* how far each request is
  pinned,   \* what fstat said of the external file when it was opened
  content,  \* what was read of it
  dirs,     \* the directories under plans/
  secret,   \* the password file of each request
  aged,     \* the directories older than a day
  stuck,    \* history: the directories a cleanup could not list or remove
  cleaned,  \* the directories a request still has to look at
  file,     \* the external file: its halves, and how often it was written
  safe,     \* the directories above it are in order
  past      \* history: the contents the file has had

request == <<phase, pinned, content, cleaned>>
private == <<dirs, secret, aged, stuck>>
external == <<file, safe, past>>
vars == <<request, private, external>>

Given == [first |-> 0, second |-> 0]
NoSecret == [first |-> MaxWrites + 1, second |-> MaxWrites + 1]
Torn == [first |-> MaxWrites + 2, second |-> MaxWrites + 2]
Content(f) == [first |-> f.first, second |-> f.second]

Live == {"cleaning", "empty", "opened", "half", "read", "unchanged", "running", "leaving"}

Init ==
  /\ phase = [r \in Requests |-> "none"]
  /\ pinned = [r \in Requests |-> 0] /\ content = [r \in Requests |-> NoSecret]
  /\ dirs = {} /\ aged = {} /\ stuck = {} /\ secret = [r \in Requests |-> NoSecret]
  /\ cleaned = [r \in Requests |-> {}]
  /\ file = [first |-> 1, second |-> 1, writes |-> 2] /\ safe \in BOOLEAN
  /\ past = {[first |-> 1, second |-> 1]}

Goes(r, from, to) == phase[r] = from /\ phase' = [phase EXCEPT ![r] = to]

(* cleanup_stale_request_artifacts: the entries of this moment, one by one; none
   if they cannot be listed *)
Arrive(r) ==
  /\ Goes(r, "none", "cleaning")
  /\ \/ cleaned' = [cleaned EXCEPT ![r] = dirs \ {r}] /\ UNCHANGED stuck
     \/ UNCHANGED cleaned /\ stuck' = stuck \cup (dirs \ {r})
  /\ UNCHANGED <<pinned, content, dirs, secret, aged, external>>

\* Fault: the password file stays
ErasedDirectory(r) == dirs' = dirs \ {r} /\ aged' = aged \ {r} /\ UNCHANGED secret

Erased(r) == dirs' = dirs \ {r} /\ aged' = aged \ {r} /\ secret' = [secret EXCEPT ![r] = NoSecret]

(* a removal that fails at one of the files or at the directory: what it did remove
   makes the directory young *)
RemovalFails(r) ==
  /\ r \in dirs /\ UNCHANGED dirs
  /\ \/ UNCHANGED <<aged, secret>>
     \/ secret[r] # NoSecret /\ secret' = [secret EXCEPT ![r] = NoSecret] /\ aged' = aged \ {r}
     \/ r \in Backups /\ UNCHANGED secret /\ aged' = aged \ {r}

\* Fault: the age is compared the wrong way
CleanYoung(r, d) ==
  /\ phase[r] = "cleaning" /\ d \in cleaned[r]
  /\ cleaned' = [cleaned EXCEPT ![r] = @ \ {d}]
  /\ IF d \in dirs \ aged THEN Erased(d) /\ UNCHANGED stuck ELSE UNCHANGED private
  /\ UNCHANGED <<phase, pinned, content, external>>

Clean(r, d) ==
  /\ phase[r] = "cleaning" /\ d \in cleaned[r]
  /\ cleaned' = [cleaned EXCEPT ![r] = @ \ {d}]
  /\ \/ d \notin dirs \cap aged /\ UNCHANGED private
     \/ d \in dirs \cap aged /\ Erased(d) /\ UNCHANGED stuck
     \/ d \in dirs \cap aged /\ RemovalFails(d) /\ stuck' = stuck \cup {d}
  /\ UNCHANGED <<phase, pinned, content, external>>

(* _request_paths for a backup, credentialed_engine for the others *)
MakeDirectory(r) ==
  /\ cleaned[r] = {} /\ r \notin dirs
  /\ Goes(r, "cleaning", "empty")
  /\ dirs' = dirs \cup {r}
  /\ UNCHANGED <<pinned, content, cleaned, secret, aged, stuck, external>>

(* a new file in a directory makes it young; it fails if another helper took
   the directory for stale *)
WriteSecret(r, value) ==
  /\ r \in dirs /\ secret[r] = NoSecret
  /\ secret' = [secret EXCEPT ![r] = value]
  /\ aged' = aged \ {r} /\ UNCHANGED <<dirs, stuck>>

(* set_password *)
SetPassword(r) ==
  /\ r \notin External
  /\ Goes(r, "empty", "running")
  /\ WriteSecret(r, Given)
  /\ UNCHANGED <<pinned, content, cleaned, external>>

(* _open_external_password_file: the descriptor pins the file *)
OpenExternal(r) ==
  /\ r \in External /\ safe
  /\ Goes(r, "empty", "opened")
  /\ pinned' = [pinned EXCEPT ![r] = file.writes]
  /\ UNCHANGED <<content, cleaned, private, external>>

ReadFirst(r) ==
  /\ Goes(r, "opened", "half")
  /\ content' = [content EXCEPT ![r].first = file.first]
  /\ UNCHANGED <<pinned, cleaned, private, external>>

ReadSecond(r) ==
  /\ Goes(r, "half", "read")
  /\ content' = [content EXCEPT ![r].second = file.second]
  /\ UNCHANGED <<pinned, cleaned, private, external>>

\* Fault: the file is not looked at again
CheckUnchangedNever(r) ==
  /\ Goes(r, "read", "unchanged")
  /\ UNCHANGED <<pinned, content, cleaned, private, external>>

(* fstat again: size, times, owner and mode are those of the opening *)
CheckUnchanged(r) ==
  /\ file.writes = pinned[r]
  /\ Goes(r, "read", "unchanged")
  /\ UNCHANGED <<pinned, content, cleaned, private, external>>

CopySecret(r) ==
  /\ Goes(r, "unchanged", "running")
  /\ WriteSecret(r, content[r])
  /\ UNCHANGED <<pinned, content, cleaned, external>>

(* either write fails: the file may be there, with any part of the password *)
WriteFails(r) ==
  /\ \/ r \notin External /\ Goes(r, "empty", "leaving")
     \/ Goes(r, "unchanged", "leaving")
  /\ WriteSecret(r, Torn)
  /\ UNCHANGED <<pinned, content, cleaned, external>>

(* the body of the engine's context ends, or any step before it raises *)
Leave(r) ==
  /\ phase[r] \in Live \ {"leaving"}
  /\ phase' = [phase EXCEPT ![r] = "leaving"]
  /\ UNCHANGED <<pinned, content, cleaned, private, external>>

(* clear_session_password, unlink, rmdir; rmtree of a backup's plan directory: a
   failure is swallowed and the request ends all the same *)
Remove(r) ==
  /\ Goes(r, "leaving", "ended")
  /\ Erased(r) \/ RemovalFails(r)
  /\ UNCHANGED <<pinned, content, cleaned, stuck, external>>

Crash(r) ==
  /\ phase[r] \in Live
  /\ phase' = [phase EXCEPT ![r] = "dead"]
  /\ UNCHANGED <<pinned, content, cleaned, private, external>>

(* a day passes: the machine sleeps, or its clock is set *)
DayPasses ==
  /\ aged' = dirs /\ aged # dirs
  /\ UNCHANGED <<request, dirs, secret, stuck, external>>

(* the owner rewrites the external file in place *)
WriteHalf ==
  /\ file.writes < 2 * MaxWrites
  /\ file' = IF file.writes % 2 = 0
             THEN [file EXCEPT !.first = @ + 1, !.writes = @ + 1]
             ELSE [file EXCEPT !.second = @ + 1, !.writes = @ + 1]
  /\ past' = past \cup {Content(file')}
  /\ UNCHANGED <<request, private, safe>>

(* the mode or owner of a directory above it changes *)
ChangeAncestry ==
  /\ safe' = ~ safe
  /\ UNCHANGED <<request, private, file, past>>

Next ==
  \/ \E r \in Requests :
       \/ Arrive(r) \/ \E d \in Requests : Clean(r, d)
       \/ MakeDirectory(r) \/ SetPassword(r)
       \/ OpenExternal(r) \/ ReadFirst(r) \/ ReadSecond(r) \/ CheckUnchanged(r) \/ CopySecret(r)
       \/ WriteFails(r) \/ Leave(r) \/ Remove(r) \/ Crash(r)
  \/ DayPasses \/ WriteHalf \/ ChangeAncestry

Spec == Init /\ [][Next]_vars

-----------------------------------------------------------------------------
(* The types of the variables; a password file lies in its directory, and only a
   directory has an age (credentials.py:127-158, paths.py:267-317). *)
TypeOK ==
  /\ phase \in [Requests -> Live \cup {"none", "ended", "dead"}]
  /\ dirs \subseteq Requests /\ aged \subseteq dirs /\ stuck \subseteq Requests
  /\ {r \in Requests : secret[r] # NoSecret} \subseteq dirs
  /\ cleaned \in [Requests -> SUBSET Requests]
  /\ safe \in BOOLEAN /\ Content(file) \in past

(* The password Restic is given is the one the user gave, or what the external file
   held at one moment, never halves of two (credentials.py:78-97). *)
SecretIsOneMoment ==
  \A r \in Requests : phase[r] = "running" /\ secret[r] # NoSecret =>
    IF r \in External THEN secret[r] \in past ELSE secret[r] = Given

(* What a request that is over has left for a day, whether its helper died or its own
   removal failed unnoticed, is gone when a request that arrives after that day runs,
   unless a cleanup, too, failed on it (paths.py:267-317, credentials.py:164-172,
   backup.py:451). *)
StaleSecretsGo ==
  \A r, d \in Requests :
    [](phase[d] \in {"ended", "dead"} /\ d \in aged /\ phase[r] = "none" =>
         [](phase[r] = "running" => d \notin dirs \/ d \in stuck))

(* paths.py:274 "Remove only old, root-private UUID plan directories after a crash"
   (violated: a live request's directory is as old when a day has passed while it
   waited or the machine slept). *)
RemovesOnlyAfterCrash ==
  [][\A r, d \in Requests : Clean(r, d) /\ d \in dirs \ dirs' => phase[d] = "dead"]_vars
=============================================================================
