------------------------------ MODULE Session ------------------------------
(***************************************************************************)
(* The persistent privileged session after its navigation-ready frame:     *)
(* the GUI's StartupSession (request and close, privilege_broker.py), the  *)
(* root helper's run_session loop with its _ControlMonitor (startup.py,    *)
(* runtime.py) and the two pipes between them.                             *)
(*                                                                         *)
(* A worker thread of the GUI holds _request_lock for a whole request, so  *)
(* one requester is modelled; the main thread may close the session at any *)
(* time.  Frames are the unit of the pipes.  A writer that gives up inside *)
(* a frame leaves it torn; a reader that lost its place reads garbage.     *)
(***************************************************************************)
EXTENDS Naturals, Sequences

CONSTANTS Requests,          \* the request ids, one uuid per request
          NoReq,             \* no request
          MaxChunks,         \* the most frames a request or a response takes
          InCap, OutCap,     \* frames that fit the helper's stdin and stdout
          CallbackMayRaise   \* whether a caller's progress callback can raise

ASSUME SessionAssumption == /\ NoReq \notin Requests
                            /\ MaxChunks \in Nat \ {0}
                            /\ InCap \in Nat \ {0}
                            /\ OutCap \in Nat \ {0}
                            /\ CallbackMayRaise \in BOOLEAN

VARIABLES
  outcome, op,               \* per request: what its caller was told, how far the helper got
  gpc, cur, gnext, gcount,   \* the requester: its place, its request, its chunk counters
  closepc, lock,             \* close(): the place of each closing thread, who holds _lock
  stdinOpen, closed,         \* the GUI's end of stdin is open; _closed
  stream, reuse,             \* history: how the last failure left the stream; what it was when last reused
  toHelper, toGui,           \* the pipes
  hpc, hreq, hnext, hcount,  \* run_session: its place, its request, its chunk counters
  out,                       \* response frames not written yet
  cancelled, monitor, seen,  \* the cancellation flag; the control monitor; its seen_control
  stragglers                 \* per request whose stdout thread outlived its bounded join,
                             \* the id of the frame the thread writes next; NoReq if none

guiVars == <<outcome, gpc, cur, gnext, gcount, closed, stream, reuse>>
closeVars == <<closepc, lock, stdinOpen>>
runVars == <<op, hpc, hreq, hnext, hcount, out>>
monitorVars == <<cancelled, monitor, seen>>
vars == <<guiVars, closeVars, toHelper, toGui, runVars, monitorVars, stragglers>>

-----------------------------------------------------------------------------
(* Frames *)

Frame(kind, r, i, n) == [kind |-> kind, id |-> r, index |-> i, count |-> n]

RequestFrame(r, i, n)  == Frame("request", r, i, n)
Cancel                 == Frame("cancel", NoReq, 0, 1)
Progress(r)            == Frame("progress", r, 0, 1)
ResultFrame(r, i, n)   == Frame("result", r, i, n)
ErrorFrame(r)          == Frame("error", r, 0, 1)
Torn                   == Frame("torn", NoReq, 0, 1)     \* a prefix of a frame
Garbage                == Frame("garbage", NoReq, 0, 1)  \* bytes from inside a frame

Ids == Requests \cup {NoReq}
Late == [Requests -> Ids]
Kinds == {"request", "cancel", "progress", "result", "error", "torn", "garbage"}
Frames == [kind : Kinds, id : Ids, index : Nat, count : Nat]

\* Fault: chunk numbers start one too low.
ResultFramesOffByOne(r, n) == [i \in 1..n |-> ResultFrame(r, i - 2, n)]

ResultFrames(r, n) == [i \in 1..n |-> ResultFrame(r, i - 1, n)]

\* A pipe after k of its frames were read, the last perhaps not to its end.
Rest(pipe, k) == { SubSeq(pipe, k + 1, Len(pipe)),
                   <<Garbage>> \o SubSeq(pipe, k + 1, Len(pipe)) }

Closers == {"gui", "worker"}

-----------------------------------------------------------------------------
Init ==
  /\ outcome = [r \in Requests |-> "none"]
  /\ op = [r \in Requests |-> "none"]
  /\ gpc = "idle" /\ cur = NoReq /\ gnext = 0 /\ gcount = 1
  /\ closepc = [t \in Closers |-> "none"] /\ lock = "free"
  /\ stdinOpen = TRUE /\ closed = FALSE
  /\ stream = "clean" /\ reuse = "none"
  /\ toHelper = <<>> /\ toGui = <<>>
  /\ hpc = "reading" /\ hreq = NoReq /\ hnext = 0 /\ hcount = 1
  /\ out = <<>>
  /\ cancelled = FALSE /\ monitor = "off" /\ seen = FALSE
  /\ stragglers = [r \in Requests |-> NoReq]

-----------------------------------------------------------------------------
(* The GUI: StartupSession.request *)

\* Fault: a request id is used again instead of a fresh one.
RequestBeginReusedId(r, n) ==
  /\ gpc = "idle" /\ ~closed /\ stdinOpen
  /\ outcome' = [outcome EXCEPT ![r] = "pending"]
  /\ cur' = r /\ gpc' = "sending" /\ gnext' = 0 /\ gcount' = n
  /\ reuse' = IF stream = "clean" THEN reuse ELSE stream
  /\ UNCHANGED <<closed, stream, closeVars, toHelper, toGui, runVars, monitorVars, stragglers>>

\* request() under _request_lock, up to its encoded frames.
RequestBegin(r, n) ==
  /\ gpc = "idle" /\ outcome[r] = "none"
  /\ ~closed /\ stdinOpen
  /\ outcome' = [outcome EXCEPT ![r] = "pending"]
  /\ cur' = r /\ gpc' = "sending" /\ gnext' = 0 /\ gcount' = n
  /\ reuse' = IF stream = "clean" THEN reuse ELSE stream
  /\ UNCHANGED <<closed, stream, closeVars, toHelper, toGui, runVars, monitorVars, stragglers>>

\* The requester ends its call with outcome o.
Return(o) == /\ outcome' = [outcome EXCEPT ![cur] = o]
             /\ gpc' = "idle"
             /\ UNCHANGED <<cur, gnext, gcount, reuse>>

\* It raises, and leaves the session open for the next request.
RaiseOpen(s) == /\ Return("failed")
                /\ stream' = s
                /\ UNCHANGED closed

SendFrame ==
  /\ gpc = "sending" /\ ~closed /\ stdinOpen /\ hpc # "exited"
  /\ Len(toHelper) < InCap
  /\ toHelper' = Append(toHelper, RequestFrame(cur, gnext, gcount))
  /\ IF gnext + 1 = gcount
       THEN gpc' = "receiving" /\ gnext' = 0
       ELSE gpc' = gpc /\ gnext' = gnext + 1
  /\ UNCHANGED <<outcome, cur, gcount, closed, stream, reuse, closeVars, toGui, runVars,
                 monitorVars, stragglers>>

\* _write raises: the session was closed under the writer, the helper is
\* gone, or the pipe stayed full until the deadline, perhaps inside a frame.
SendFails ==
  /\ gpc = "sending"
  /\ \/ /\ closed \/ ~stdinOpen \/ hpc = "exited"
        /\ RaiseOpen("abandoned")
        /\ UNCHANGED toHelper
     \/ /\ ~closed /\ stdinOpen /\ Len(toHelper) >= InCap
        /\ toHelper' \in {toHelper, Append(toHelper, Garbage)}
        /\ RaiseOpen("failed")
  /\ UNCHANGED <<closeVars, toGui, runVars, monitorVars, stragglers>>

\* The requester gives up on the stream and calls close() itself.
FramingFailure == /\ gpc' = "closing"
                  /\ closepc' = [closepc EXCEPT !["worker"] = "want"]
                  /\ UNCHANGED <<outcome, cur, gnext, gcount, closed, stream, reuse, lock, stdinOpen>>

\* Fault: the identity of a message is not compared.
DecodesAny(f) == f.id # NoReq

\* decode_session_message accepts only messages of the current request.
Decodes(f) == f.id = cur

\* A whole frame, read where the terminal response may start.
ReceiveFrame ==
  /\ gpc = "receiving" /\ ~closed /\ toGui # <<>>
  /\ LET f == Head(toGui) IN
     /\ f.kind \notin {"torn", "garbage"}
     /\ toGui' = Tail(toGui)
     /\ \/ ~Decodes(f) /\ RaiseOpen("failed")
        \/ /\ Decodes(f) /\ f.kind = "progress"
           /\ UNCHANGED guiVars
        \/ /\ Decodes(f) /\ f.kind = "progress" /\ CallbackMayRaise
           /\ RaiseOpen("abandoned")
        \/ /\ Decodes(f) /\ f.kind = "error"
           /\ Return("error") /\ UNCHANGED <<closed, stream>>
        \/ /\ Decodes(f) /\ f.kind = "result" /\ f.count = 1
           /\ Return("result") /\ UNCHANGED <<closed, stream>>
        \/ /\ Decodes(f) /\ f.kind = "result" /\ f.count > 1 /\ f.index = 0
           /\ gpc' = "collecting" /\ gnext' = 1 /\ gcount' = f.count
           /\ UNCHANGED <<outcome, cur, closed, stream, reuse>>
        \/ /\ Decodes(f) /\ f.kind = "result" /\ f.count > 1 /\ f.index # 0
           /\ RaiseOpen("failed")
  /\ UNCHANGED <<closeVars, toHelper, runVars, monitorVars, stragglers>>

\* A torn frame is completed with bytes of the frames behind it, which makes
\* a message that does not decode and leaves the reader anywhere in the pipe.
ReceiveTorn ==
  /\ gpc = "receiving" /\ ~closed /\ toGui # <<>>
  /\ Head(toGui).kind = "torn" /\ Len(toGui) > 1
  /\ \E k \in 2..Len(toGui) : toGui' \in Rest(toGui, k)
  /\ RaiseOpen("failed")
  /\ UNCHANGED <<closeVars, toHelper, runVars, monitorVars, stragglers>>

\* Fault: the read has no deadline.
ReceiveFramingFailureNoDeadline ==
  /\ gpc = "receiving" /\ ~closed
  /\ toGui # <<>> /\ Head(toGui).kind \in {"torn", "garbage"}
  /\ toGui' = Tail(toGui)
  /\ FramingFailure
  /\ UNCHANGED <<toHelper, runVars, monitorVars, stragglers>>

\* read_frame_fd_deadline raises ProtocolError: the deadline, a truncated
\* frame, or a header that is no length.
ReceiveFramingFailure ==
  /\ gpc = "receiving" /\ ~closed
  /\ \/ UNCHANGED toGui                          \* timeout
     \/ /\ toGui # <<>> /\ Head(toGui).kind \in {"torn", "garbage"}
        /\ toGui' = Tail(toGui)
  /\ FramingFailure
  /\ UNCHANGED <<toHelper, runVars, monitorVars, stragglers>>

\* EOF before a frame: request() marks the session closed and raises.  A
\* stdout that close() took away under the reader raises as well.
ReceiveEof ==
  /\ gpc = "receiving"
  /\ closed \/ (hpc = "exited" /\ toGui = <<>>)
  /\ Return("failed") /\ closed' = TRUE
  /\ UNCHANGED <<stream, closeVars, toHelper, toGui, runVars, monitorVars, stragglers>>

\* The later chunks of a response.
CollectFrame ==
  /\ gpc = "collecting" /\ ~closed /\ toGui # <<>>
  /\ LET f == Head(toGui) IN
     /\ toGui' = Tail(toGui)
     /\ \/ /\ f.kind \in {"torn", "garbage"} \/ ~Decodes(f)
           /\ FramingFailure
        \/ /\ f.kind \notin {"torn", "garbage"} /\ Decodes(f)
           /\ f.kind # "result" \/ f.index # gnext \/ f.count # gcount
           /\ RaiseOpen("failed") /\ UNCHANGED closeVars
        \/ /\ Decodes(f) /\ f.kind = "result" /\ f.index = gnext /\ f.count = gcount
           /\ IF gnext + 1 = gcount
                THEN Return("result")
                ELSE gnext' = gnext + 1 /\ UNCHANGED <<outcome, gpc, cur, gcount, reuse>>
           /\ UNCHANGED <<closed, stream, closeVars>>
  /\ UNCHANGED <<toHelper, runVars, monitorVars, stragglers>>

CollectFails ==
  /\ gpc = "collecting"
  /\ \/ ~closed /\ FramingFailure               \* timeout, or EOF inside the sequence
     \/ closed /\ Return("failed") /\ UNCHANGED <<closed, stream, closeVars>>
  /\ UNCHANGED <<toHelper, toGui, runVars, monitorVars, stragglers>>

-----------------------------------------------------------------------------
(* The GUI: StartupSession.close, by the main thread at shutdown or by the *)
(* requester after a framing failure.                                      *)

\* Thread t leaves close(); a requester then raises out of its request.
Leave(t) ==
  /\ closepc' = [closepc EXCEPT ![t] = IF t = "worker" THEN "none" ELSE "done"]
  /\ IF t = "worker"
       THEN Return("failed")
       ELSE UNCHANGED <<outcome, gpc, cur, gnext, gcount, reuse>>

MainClose ==
  /\ closepc["gui"] = "none"
  /\ closepc' = [closepc EXCEPT !["gui"] = "want"]
  /\ UNCHANGED <<guiVars, lock, stdinOpen, toHelper, toGui, runVars, monitorVars, stragglers>>

CloseEnter(t) ==
  /\ closepc[t] = "want"
  /\ \/ /\ closed /\ Leave(t) /\ UNCHANGED lock
     \/ /\ ~closed /\ lock = "free"
        /\ lock' = t /\ closepc' = [closepc EXCEPT ![t] = "cancel"]
        /\ UNCHANGED <<outcome, gpc, cur, gnext, gcount, reuse>>
  /\ UNCHANGED <<closed, stream, stdinOpen, toHelper, toGui, runVars, monitorVars, stragglers>>

\* cancel(): nothing for a helper that is gone; half a second for the cancel
\* frame otherwise; ValueError when an earlier close took stdin away.
CloseCancel(t) ==
  /\ closepc[t] = "cancel"
  /\ \/ /\ hpc = "exited"
        /\ closepc' = [closepc EXCEPT ![t] = "eof"]
        /\ UNCHANGED <<toHelper, lock, outcome, gpc, cur, gnext, gcount, reuse>>
     \/ /\ hpc # "exited" /\ stdinOpen
        /\ toHelper' \in IF Len(toHelper) < InCap
                           THEN {Append(toHelper, Cancel)} ELSE {toHelper}
        /\ closepc' = [closepc EXCEPT ![t] = "eof"]
        /\ UNCHANGED <<lock, outcome, gpc, cur, gnext, gcount, reuse>>
     \/ /\ hpc # "exited" /\ ~stdinOpen
        /\ Leave(t) /\ lock' = "free"
        /\ UNCHANGED toHelper
  /\ UNCHANGED <<closed, stream, stdinOpen, toGui, runVars, monitorVars, stragglers>>

CloseEof(t) ==
  /\ closepc[t] = "eof"
  /\ closepc' = [closepc EXCEPT ![t] = "drain"]
  /\ stdinOpen' = FALSE
  /\ UNCHANGED <<guiVars, lock, toHelper, toGui, runVars, monitorVars, stragglers>>

\* The drain loop reads the same stdout as a requester that still waits, and
\* may take the end of a frame whose start that requester has read.
CloseDrain(t) ==
  /\ closepc[t] = "drain" /\ hpc # "exited" /\ toGui # <<>>
  /\ toGui' \in IF gpc \in {"receiving", "collecting"} THEN {<<>>, <<Torn>>} ELSE {<<>>}
  /\ UNCHANGED <<guiVars, closeVars, toHelper, runVars, monitorVars, stragglers>>

\* _finalize_process once the helper was reaped.
CloseFinalize(t) ==
  /\ closepc[t] = "drain" /\ hpc = "exited"
  /\ Leave(t) /\ lock' = "free"
  /\ closed' = TRUE /\ toGui' = <<>>
  /\ UNCHANGED <<stream, stdinOpen, toHelper, runVars, monitorVars, stragglers>>

\* The cleanup budget passes and the helper still runs: close() raises.
CloseGivesUp(t) ==
  /\ closepc[t] = "drain" /\ hpc # "exited"
  /\ Leave(t) /\ lock' = "free"
  /\ UNCHANGED <<closed, stream, stdinOpen, toHelper, toGui, runVars, monitorVars, stragglers>>

-----------------------------------------------------------------------------
(* The helper: run_session *)

Exit == hpc' = "exited" /\ UNCHANGED <<op, hreq, hnext, hcount, out>>

\* A complete request: its monitor starts, then the operation.
StartOperation(r) ==
  /\ hpc' = "running" /\ hreq' = r /\ monitor' = "on" /\ seen' = FALSE
  /\ op' = [op EXCEPT ![r] = "running"]

\* The first frame of a request; reset_cancellation precedes every check.
\* Whatever is not a request or its first chunk ends the session.
HelperRead ==
  /\ hpc = "reading" /\ toHelper # <<>>
  /\ toHelper' = Tail(toHelper)
  /\ cancelled' = FALSE
  /\ LET f == Head(toHelper) IN
     \/ /\ f.kind = "request" /\ f.index = 0 /\ f.count = 1
        /\ StartOperation(f.id) /\ UNCHANGED <<hnext, hcount, out>>
     \/ /\ f.kind = "request" /\ f.index = 0 /\ f.count > 1
        /\ hpc' = "assembling" /\ hreq' = f.id /\ hnext' = 1 /\ hcount' = f.count
        /\ UNCHANGED <<op, out, monitor, seen>>
     \/ /\ f.kind # "request" \/ f.index # 0
        /\ Exit /\ UNCHANGED <<monitor, seen>>
  /\ UNCHANGED <<guiVars, closeVars, toGui, stragglers>>

HelperAssemble ==
  /\ hpc = "assembling" /\ toHelper # <<>>
  /\ toHelper' = Tail(toHelper)
  /\ LET f == Head(toHelper)
         expected == f.kind = "request" /\ f.id = hreq /\ f.index = hnext /\ f.count = hcount
     IN \/ /\ expected /\ hnext + 1 = hcount
           /\ StartOperation(hreq) /\ UNCHANGED <<hnext, hcount, out>>
        \/ /\ expected /\ hnext + 1 # hcount
           /\ hnext' = hnext + 1
           /\ UNCHANGED <<op, hpc, hreq, hcount, out, monitor, seen>>
        \/ /\ ~expected
           /\ Exit /\ UNCHANGED <<monitor, seen>>
  /\ UNCHANGED <<guiVars, closeVars, toGui, cancelled, stragglers>>

\* EOF between requests or inside a chunk sequence, or the 10 s a chunk
\* sequence may take.
HelperInputEnds ==
  /\ \/ hpc = "reading" /\ toHelper = <<>> /\ ~stdinOpen
     \/ hpc = "assembling" /\ toHelper = <<>>
  /\ Exit
  /\ UNCHANGED <<guiVars, closeVars, toHelper, toGui, monitorVars, stragglers>>

\* The root helper is killed.
HelperKilled ==
  /\ hpc # "exited"
  /\ Exit
  /\ UNCHANGED <<guiVars, closeVars, toHelper, toGui, monitorVars, stragglers>>

\* Fault: the monitor is not joined before the response is written.
OperationEndsMonitorLeft(status, frames) ==
  /\ op' = [op EXCEPT ![hreq] = status]
  /\ out' = frames /\ hpc' = "responding"
  /\ stragglers' \in {stragglers, [stragglers EXCEPT ![hreq] = hreq]}
  /\ UNCHANGED <<guiVars, closeVars, toHelper, hreq, hnext, hcount, monitorVars>>

\* The operation of hreq ends and its monitor is joined before any response
\* is written.  A restic operation waits two seconds for the thread that reads
\* restic's stdout and relays it as progress; that thread may outlive it.
OperationEnds(status, frames) ==
  /\ op' = [op EXCEPT ![hreq] = status]
  /\ monitor' = "off"
  /\ out' = frames /\ hpc' = "responding"
  /\ stragglers' \in {stragglers, [stragglers EXCEPT ![hreq] = hreq]}
  /\ UNCHANGED <<guiVars, closeVars, toHelper, hreq, hnext, hcount, cancelled, seen>>

HelperProgress ==
  /\ hpc = "running" /\ ~cancelled /\ Len(toGui) < OutCap
  /\ toGui' = Append(toGui, Progress(hreq))
  /\ UNCHANGED <<guiVars, closeVars, toHelper, runVars, monitorVars, stragglers>>

\* The progress write gives up inside a frame, after 10 s or on cancellation:
\* the callback raises and the operation ends in an error.
HelperProgressTorn ==
  /\ hpc = "running" /\ Len(toGui) = OutCap
  /\ toGui' = Append(toGui, Torn)
  /\ OperationEnds("error", <<ErrorFrame(hreq)>>)

\* The handler returned and the flag was clear in the last check.
OperationSucceeds(n) ==
  /\ hpc = "running" /\ ~cancelled
  /\ OperationEnds("ok", ResultFrames(hreq, n))
  /\ UNCHANGED toGui

\* The handler raised, by itself or at one of its cancellation checks.
OperationFails ==
  /\ hpc = "running"
  /\ OperationEnds("error", <<ErrorFrame(hreq)>>)
  /\ UNCHANGED toGui

HelperRespond ==
  /\ hpc = "responding" /\ Len(toGui) < OutCap
  /\ toGui' = Append(toGui, Head(out))
  /\ out' = Tail(out)
  /\ hpc' = IF Len(out) = 1 THEN "reading" ELSE hpc
  /\ UNCHANGED <<guiVars, closeVars, toHelper, op, hreq, hnext, hcount, monitorVars, stragglers>>

\* The response cannot be written for 30 s.  The error leaves run_session;
\* main tries to report it in a frame of the startup protocol and exits.
HelperRespondFails ==
  /\ hpc = "responding" /\ Len(toGui) >= OutCap
  /\ \E rest \in {<<>>, <<Torn>>, <<Torn, ErrorFrame(NoReq)>>} : toGui' = toGui \o rest
  /\ Exit
  /\ UNCHANGED <<guiVars, closeVars, toHelper, monitorVars, stragglers>>

\* A thread that outlived its operation still relays its lines, until they run
\* out or a write of it fails. progress_cb reads the id from run_session when it
\* builds a frame: it is that of the current or the last request, and while a
\* request is decoded there is none (StragglerEnds). A frame that was built
\* earlier keeps its id.
StragglerBuilds(r) ==
  /\ stragglers[r] \notin {NoReq, hreq} /\ ~cancelled
  /\ hpc \in {"reading", "running", "responding"}
  /\ stragglers' = [stragglers EXCEPT ![r] = hreq]
  /\ UNCHANGED <<guiVars, closeVars, toHelper, toGui, runVars, monitorVars>>

StragglerWrites(r) ==
  /\ stragglers[r] # NoReq /\ hpc # "exited" /\ ~cancelled
  /\ \/ /\ Len(toGui) < OutCap
        /\ toGui' = Append(toGui, Progress(stragglers[r]))
        /\ UNCHANGED stragglers
     \/ /\ Len(toGui) = OutCap
        /\ toGui' = Append(toGui, Torn)
        /\ stragglers' = [stragglers EXCEPT ![r] = NoReq]
  /\ UNCHANGED <<guiVars, closeVars, toHelper, runVars, monitorVars>>

StragglerEnds(r) ==
  /\ stragglers[r] # NoReq
  /\ stragglers' = [stragglers EXCEPT ![r] = NoReq]
  /\ UNCHANGED <<guiVars, closeVars, toHelper, toGui, runVars, monitorVars>>

-----------------------------------------------------------------------------
(* The helper: _ControlMonitor, a thread of its own while an operation runs *)

\* One cancel frame is a cancellation.  Anything else, a second cancel too,
\* is one as well: the monitor drops what its read returned and ends.
MonitorRead ==
  /\ monitor = "on" /\ hpc # "exited" /\ toHelper # <<>>
  /\ cancelled' = TRUE
  /\ \/ /\ Head(toHelper).kind = "cancel" /\ ~seen
        /\ toHelper' = Tail(toHelper) /\ seen' = TRUE
        /\ UNCHANGED monitor
     \/ /\ Head(toHelper).kind # "cancel" \/ seen
        /\ \E k \in 1..Len(toHelper) : toHelper' \in Rest(toHelper, k)
        /\ monitor' = "ended" /\ UNCHANGED seen
  /\ UNCHANGED <<guiVars, closeVars, toGui, runVars, stragglers>>

\* EOF, or the 3700 s an operation may take.
MonitorCancels ==
  /\ monitor = "on" /\ hpc # "exited"
  /\ cancelled' = TRUE /\ monitor' = "ended"
  /\ UNCHANGED <<guiVars, closeVars, toHelper, toGui, runVars, seen, stragglers>>
\* Fault: only a cancel frame cancels.
MonitorEofIgnored == toHelper = <<>> /\ ~stdinOpen /\ seen /\ MonitorCancels

MonitorEof == toHelper = <<>> /\ ~stdinOpen /\ MonitorCancels
MonitorDeadline == MonitorCancels

-----------------------------------------------------------------------------
Requester ==
  \/ \E r \in Requests, n \in 1..MaxChunks : RequestBegin(r, n)
  \/ SendFrame \/ SendFails
  \/ ReceiveFrame \/ ReceiveTorn \/ ReceiveFramingFailure \/ ReceiveEof
  \/ CollectFrame \/ CollectFails

Close ==
  \/ MainClose
  \/ \E t \in Closers : \/ CloseEnter(t) \/ CloseCancel(t) \/ CloseEof(t) \/ CloseDrain(t)
                        \/ CloseFinalize(t) \/ CloseGivesUp(t)

Helper ==
  \/ HelperRead \/ HelperAssemble \/ HelperInputEnds \/ HelperKilled
  \/ HelperProgress \/ HelperProgressTorn \/ OperationFails
  \/ \E n \in 1..MaxChunks : OperationSucceeds(n)
  \/ HelperRespond \/ HelperRespondFails
  \/ \E r \in Requests : StragglerBuilds(r) \/ StragglerWrites(r) \/ StragglerEnds(r)

Monitor == MonitorRead \/ MonitorEof \/ MonitorDeadline

Next == Requester \/ Close \/ Helper \/ Monitor

Spec == Init /\ [][Next]_vars

-----------------------------------------------------------------------------
(* Fairness: a thread that can run does, and every bounded wait ends.  No  *)
(* operation is assumed to end unless it was cancelled, nobody is assumed  *)
(* to close the session or to issue a request.                             *)

OperationCancelled == cancelled /\ OperationFails

Fairness ==
  /\ WF_vars(SendFrame) /\ WF_vars(SendFails)
  /\ WF_vars(ReceiveFrame) /\ WF_vars(ReceiveFramingFailure) /\ WF_vars(ReceiveEof)
  /\ WF_vars(CollectFrame) /\ WF_vars(CollectFails)
  /\ \A t \in Closers : /\ WF_vars(CloseEnter(t)) /\ WF_vars(CloseCancel(t))
                        /\ WF_vars(CloseEof(t)) /\ WF_vars(CloseFinalize(t))
                        /\ WF_vars(CloseGivesUp(t))
  /\ WF_vars(HelperRead) /\ WF_vars(HelperAssemble) /\ WF_vars(HelperInputEnds)
  /\ WF_vars(HelperRespond) /\ WF_vars(HelperRespondFails) /\ WF_vars(OperationCancelled)
  /\ WF_vars(MonitorRead) /\ WF_vars(MonitorEof)

FairSpec == Spec /\ Fairness

-----------------------------------------------------------------------------
(* Properties *)

\* Every variable has its type.
TypeOK ==
  /\ outcome \in [Requests -> {"none", "pending", "result", "error", "failed"}]
  /\ op \in [Requests -> {"none", "running", "ok", "error"}]
  /\ gpc \in {"idle", "sending", "receiving", "collecting", "closing"}
  /\ cur \in Ids /\ gnext \in Nat /\ gcount \in Nat
  /\ closepc \in [Closers -> {"none", "want", "cancel", "eof", "drain", "done"}]
  /\ lock \in Closers \cup {"free"}
  /\ stdinOpen \in BOOLEAN /\ closed \in BOOLEAN
  /\ stream \in {"clean", "abandoned", "failed"}
  /\ reuse \in {"none", "abandoned", "failed"}
  /\ toHelper \in Seq(Frames) /\ toGui \in Seq(Frames) /\ out \in Seq(Frames)
  /\ hpc \in {"reading", "assembling", "running", "responding", "exited"}
  /\ hreq \in Ids /\ hnext \in Nat /\ hcount \in Nat
  /\ cancelled \in BOOLEAN /\ seen \in BOOLEAN
  /\ monitor \in {"off", "on", "ended"}
  /\ stragglers \in Late

\* What request() returns for r, a result or a helper error, is what the
\* helper computed for r: a response left in the pipe by an earlier request
\* is never taken for the answer to a later one.
ResultAuthentic ==
  \A r \in Requests : /\ outcome[r] = "result" => op[r] = "ok"
                      /\ outcome[r] = "error" => op[r] = "error"

Holds(pipe, r, kinds) == \E i \in 1..Len(pipe) : pipe[i].kind \in kinds /\ pipe[i].id = r
Broken(pipe) == \E i \in 1..Len(pipe) : pipe[i].kind \in {"torn", "garbage"}

\* A request the GUI waits for is always on its way: in the helper's stdin, in
\* the helper, or answered in the pipe back.  In particular a control monitor
\* never swallows it.  Said of a session nobody closes, whose helper lives and
\* in which no earlier request gave up on the stream.
RequestNeverLost ==
  (gpc \in {"receiving", "collecting"} /\ stdinOpen /\ hpc # "exited"
     /\ stream = "clean" /\ reuse = "none") =>
  \/ Holds(toHelper, cur, {"request"})
  \/ hreq = cur /\ hpc \in {"assembling", "running", "responding"}
  \/ Holds(toGui, cur, {"result", "error"})
  \/ Broken(toGui)

\* The session implements the abstract RPC: one call at a time, each operation
\* run at most once and alone, no answer before the operation ended.
R == INSTANCE Rpc
ImplementsRpc == R!Spec

\* Once the GUI gave up its end of stdin the helper ends, whatever it was
\* doing: no privileged operation survives the GUI.
HelperEnds == ~stdinOpen ~> hpc = "exited"

\* Every request() returns or raises: neither a lost answer, a silent helper,
\* nor close() on another thread blocks its worker for good.
EveryRequestReturns ==
  \A r \in Requests : outcome[r] = "pending" ~> outcome[r] # "pending"

\* "Never reuse a request/response stream after a framing timeout or protocol
\* failure" (privilege_broker.py:393-396; violated: only the read of a frame is
\* treated so).
NeverReusesFailedStream == reuse # "failed"

\* "While the root operation is running no second RPC is permitted"
\* (startup.py:310-313): none arrives at the helper's control monitor (violated:
\* after a late progress frame).
NoSecondRpcWhileRunning ==
  hpc = "running" => \A i \in 1..Len(toHelper) : toHelper[i].kind # "request"
=============================================================================
