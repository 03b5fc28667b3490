------------------------------- MODULE Stream --------------------------------
(***************************************************************************)
(* One Restic command whose output is streamed                             *)
(* (restic_engine.py, ResticEngine._stream_process): Restic writes lines   *)
(* to a pipe, a thread of the helper reads them and tells the GUI of each  *)
(* line of a backup, and the main thread waits for the command, then for   *)
(* the reader, but for two seconds only, and answers.                      *)
(*                                                                         *)
(* A frame is written whole.  A listing keeps the first entries of a       *)
(* directory in the order of their keys, which are numbers here: a line is *)
(* its kind and its key.                                                   *)
(***************************************************************************)
EXTENDS Naturals, Sequences, FiniteSets, FiniteSetsExt

CONSTANTS
  BackupOutputs,   \* what Restic may print in a backup
  ListingOutputs,  \* what it may print in a listing
  Offset, Limit,  \* the page of the listing, with the entry that tells of more
  Pipe,      \* the lines Restic's pipe holds
  Wire       \* the frames the pipe to the GUI holds

Lines == {"status", "bad", "long", "summary", "node", "other"} \X Nat

(* A page is not empty, and Restic lists an entry of a directory once. *)
ASSUME StreamAssumption ==
  /\ Offset \in Nat /\ Limit \in Nat \ {0} /\ Pipe \in Nat \ {0} /\ Wire \in Nat \ {0}
  /\ BackupOutputs \subseteq Seq(Lines) /\ ListingOutputs \subseteq Seq(Lines)
  /\ \A s \in ListingOutputs : \A i, j \in DOMAIN s :
       s[i][1] = "node" /\ s[j] = s[i] => i = j

VARIABLES
  command,  \* "backup" or "ls"
  printed,  \* history: the lines Restic prints
  output,   \* the lines it has left
  status,   \* "running", or the code it ended with
  pipe,     \* its output, not yet read
  reader,   \* the phase of drain_stdout
  line,     \* the line it tells the GUI of
  refused,  \* stdout_error
  garbled,  \* parse_error
  kept,     \* the heap of the listing
  summary,  \* the summary names the snapshot
  wire,     \* frames to the GUI
  main,     \* the phase of the main thread
  answer,   \* its response
  cancelled,
  gaveUp    \* history: the join timed out

restic == <<command, printed, output, status>>
drain == <<reader, line, refused, garbled, kept, summary>>
helper == <<main, answer, gaveUp>>
streamVars == <<restic, pipe, drain, wire, helper, cancelled>>

Running == status = "running"
Full == Len(wire) = Wire

StreamInit ==
  /\ \/ command = "backup" /\ printed \in BackupOutputs
     \/ command = "ls" /\ printed \in ListingOutputs
  /\ output = printed /\ status = "running" /\ pipe = <<>>
  /\ reader = "reading" /\ line = "none" /\ refused = FALSE /\ garbled = FALSE
  /\ kept = {} /\ summary = FALSE
  /\ wire = <<>> /\ main = "waiting" /\ answer = "none" /\ cancelled = FALSE /\ gaveUp = FALSE

-----------------------------------------------------------------------------
(* Restic *)

Emit ==
  /\ Running /\ output # <<>> /\ Len(pipe) < Pipe
  /\ pipe' = Append(pipe, Head(output)) /\ output' = Tail(output)
  /\ UNCHANGED <<command, printed, status, drain, wire, helper, cancelled>>

(* 0, or 3 when some files could not be read *)
Exit ==
  /\ Running /\ output = <<>> /\ status' \in {"complete", "incomplete"}
  /\ UNCHANGED <<command, printed, output, pipe, drain, wire, helper, cancelled>>

Fail ==
  /\ Running /\ status' = "failed"
  /\ UNCHANGED <<command, printed, output, pipe, drain, wire, helper, cancelled>>

-----------------------------------------------------------------------------
(* The thread drain_stdout *)

\* Fault: the entry on top is replaced by whatever comes
KeepLast(k) ==
  IF Cardinality(kept) < Offset + Limit THEN kept \cup {k} ELSE (kept \ {Max(kept)}) \cup {k}

(* heapq with the greatest key on top *)
Keep(k) ==
  IF Cardinality(kept) < Offset + Limit THEN kept \cup {k}
  ELSE IF k < Max(kept) THEN (kept \ {Max(kept)}) \cup {k} ELSE kept

Take ==
  /\ reader = "reading" /\ pipe # <<>> /\ pipe' = Tail(pipe)
  /\ LET kind == Head(pipe)[1] IN
     CASE kind = "long" ->
            refused' = TRUE /\ UNCHANGED <<reader, line, garbled, kept>>
       [] kind # "long" /\ command = "backup" ->
            reader' = "telling" /\ line' = kind /\ UNCHANGED <<refused, garbled, kept>>
       [] kind = "bad" /\ command = "ls" ->
            garbled' = TRUE /\ UNCHANGED <<reader, line, refused, kept>>
       [] kind = "node" /\ command = "ls" ->
            kept' = Keep(Head(pipe)[2]) /\ UNCHANGED <<reader, line, refused, garbled>>
       [] OTHER ->
            UNCHANGED <<reader, line, refused, garbled, kept>>
  /\ UNCHANGED <<restic, summary, wire, helper, cancelled>>

(* on_message, then the summary; a cancellation or a full pipe makes the callback raise *)
Tell ==
  /\ reader = "telling"
  /\ IF cancelled \/ Full
     THEN refused' = TRUE /\ reader' = "discarding" /\ UNCHANGED <<summary, wire>>
     ELSE /\ wire' = Append(wire, "progress")
          /\ summary' = (summary \/ line = "summary") /\ reader' = "reading" /\ UNCHANGED refused
  /\ UNCHANGED <<restic, pipe, line, garbled, kept, helper, cancelled>>

\* Fault: nobody reads the output after the callback has raised
DiscardNothing ==
  /\ reader = "discarding" /\ reader' = "ended"
  /\ UNCHANGED <<restic, pipe, line, refused, garbled, kept, summary, wire, helper, cancelled>>

Discard ==
  /\ reader = "discarding" /\ pipe # <<>> /\ pipe' = Tail(pipe)
  /\ UNCHANGED <<restic, drain, wire, helper, cancelled>>

EndOfOutput ==
  /\ reader \in {"reading", "discarding"} /\ pipe = <<>> /\ ~ Running /\ reader' = "ended"
  /\ UNCHANGED <<restic, pipe, line, refused, garbled, kept, summary, wire, helper, cancelled>>

-----------------------------------------------------------------------------
(* The main thread *)

Continues(p) == main' = p
Answers(a) == Continues("answering") /\ answer' = a

(* _wait_with_cancellation: a cancelled command is killed; then it raises *)
Wait ==
  /\ main = "waiting"
  /\ \/ cancelled /\ status' = (IF Running THEN "failed" ELSE status) /\ answer' = "cancelled"
     \/ ~ cancelled /\ ~ Running /\ UNCHANGED <<status, answer>>
  /\ Continues("joining")
  /\ UNCHANGED <<command, printed, output, pipe, drain, wire, gaveUp, cancelled>>

\* Fault: the reader is not waited for
JoinNothing ==
  /\ main = "joining"
  /\ IF answer = "none" THEN Continues("checking") ELSE Continues("answering")
  /\ UNCHANGED <<restic, pipe, drain, wire, answer, gaveUp, cancelled>>

(* two seconds: shorter than a write to a GUI that does not read may take *)
Join ==
  /\ main = "joining"
  /\ \/ reader = "ended" /\ UNCHANGED gaveUp
     \/ reader = "telling" /\ Full /\ gaveUp' = TRUE
  /\ IF answer = "none" THEN Continues("checking") ELSE Continues("answering")
  /\ UNCHANGED <<restic, pipe, drain, wire, answer, cancelled>>

Accepted == IF command = "backup" THEN {"complete", "incomplete"} ELSE {"complete"}

Check ==
  /\ main = "checking"
  /\ IF refused \/ status \notin Accepted \/ garbled THEN Answers("error")
     ELSE IF command = "backup" /\ status = "incomplete" THEN Continues("warning") /\ UNCHANGED answer
     ELSE Answers("success")
  /\ UNCHANGED <<restic, pipe, drain, wire, gaveUp, cancelled>>

(* the warning of an incomplete snapshot is a message too *)
Warn ==
  /\ main = "warning"
  /\ IF cancelled \/ Full THEN Answers("error") /\ UNCHANGED wire
     ELSE Answers("success") /\ wire' = Append(wire, "progress")
  /\ UNCHANGED <<restic, pipe, drain, gaveUp, cancelled>>

(* a GUI that never reads the response ends the helper *)
Answer ==
  /\ main = "answering"
  /\ IF Full THEN Continues("dead") /\ UNCHANGED wire ELSE Continues("done") /\ wire' = Append(wire, "response")
  /\ UNCHANGED <<restic, pipe, drain, answer, gaveUp, cancelled>>

Cancel ==
  /\ ~ cancelled /\ main # "done" /\ main # "dead" /\ cancelled' = TRUE
  /\ UNCHANGED <<restic, pipe, drain, wire, helper>>

Read ==
  /\ wire # <<>> /\ wire' = Tail(wire)
  /\ UNCHANGED <<restic, pipe, drain, helper, cancelled>>

Reader == Take \/ Tell \/ Discard \/ EndOfOutput
Main == Wait \/ Join \/ Check \/ Warn \/ Answer
StreamNext == Emit \/ Exit \/ Fail \/ Reader \/ Main \/ Cancel \/ Read

StreamSpec == StreamInit /\ [][StreamNext]_streamVars

(* Restic goes on while it can write; the GUI need not read *)
FairSpec ==
  StreamSpec /\ WF_streamVars(Emit \/ Exit) /\ WF_streamVars(Reader) /\ WF_streamVars(Main)

-----------------------------------------------------------------------------
(* What a directory page holds: the entries with as many before them as the page has. *)
Page(keys) ==
  {k \in keys : Cardinality({j \in keys : j < k}) \in Offset..(Offset + Limit - 1)}
Kinds == {printed[i][1] : i \in DOMAIN printed}
Entries == {printed[i][2] : i \in {j \in DOMAIN printed : printed[j][1] = "node"}}

(* A command that succeeds, its reader waited for, has lost no line: a backup has the
   summary that Restic printed, which names its snapshot, and a listing is the page of
   the directory (restic_engine.py:409-416, 459-523). *)
SuccessIsWhole ==
  answer = "success" /\ ~ gaveUp =>
    /\ "long" \notin Kinds
    /\ IF command = "backup" THEN "summary" \in Kinds => summary ELSE Page(kept) = Page(Entries)

(* A command ends though its lines are refused and the GUI reads nothing: Restic never
   waits for a pipe nobody reads (restic_engine.py:343-351, 371). *)
CommandEnds == <>(main \in {"done", "dead"})
=============================================================================
