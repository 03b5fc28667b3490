------------------------------ MODULE Handshake ------------------------------
(***************************************************************************)
(* The startup of a window: the privileged helper is authorized,           *)
(* provisions, waits for the one start command, sends the inventories and  *)
(* becomes the session (privileged/startup.py); the GUI's main thread      *)
(* opens the StartupSession, a worker starts it and reads its events, and  *)
(* the main thread may close it at any moment (privilege_broker.py,        *)
(* gui/startup_flow.py, gui/main_window.py, app.py).                       *)
(*                                                                         *)
(* Frames arrive one by one.  Any budget may pass before what it is for:   *)
(* the user may leave the dialog of polkit open for longer.                *)
(***************************************************************************)
EXTENDS Naturals, Sequences

CONSTANTS
  Pages,    \* the pages of the inventories
  Capacity  \* the frames the pipe to the GUI holds

ASSUME HandshakeAssumption == Pages \in Nat /\ Capacity \in Nat \ {0}

VARIABLES
  helper,     \* the phase of the helper process
  page,       \* the pages it has sent
  flag,       \* its cancellation code
  monitor,    \* its control monitor reads the pipe
  code,       \* the code of the error it is about to send
  toHelper, stdinOpen, toGui,  \* the two pipes
  pc,         \* what each thread of the GUI is doing
  outcome,    \* what a reader that finalizes will return
  lock,       \* who holds StartupSession._lock
  reader,     \* _reader_thread
  parser,     \* the last frame StartupFrameParser has accepted
  closed,     \* the process is reaped and the pipes are closed
  attached,   \* the window has not let go of the session
  connected,  \* the worker's signals reach the window
  queue,      \* signals under way to the main thread
  flow,       \* StartupFlow
  then,       \* what the main thread does after closing
  failed,     \* history: a close raised
  expired,    \* history: a budget for cleaning up has passed
  signalled   \* history: when SIGTERM came

process == <<helper, page, flag, monitor, code, signalled>>
pipes == <<toHelper, stdinOpen, toGui>>
session == <<outcome, lock, reader, parser, closed>>
window == <<attached, connected, queue, flow, then, failed, expired>>
vars == <<process, pipes, pc, session, window>>

Threads == {"main", "worker"}
Error(c) == <<"error", c>>
Frame(k) == <<k, "none">>

Init ==
  /\ helper = "auth" /\ page = 0 /\ flag = "none" /\ monitor = FALSE /\ code = "none"
  /\ toHelper = <<>> /\ stdinOpen = TRUE /\ toGui = <<>>
  /\ pc = [t \in Threads |-> IF t = "main" THEN "claim" ELSE "none"]
  /\ outcome = [t \in Threads |-> "none"] /\ lock = "free" /\ reader = "none"
  /\ parser = "nothing" /\ closed = FALSE
  /\ attached = TRUE /\ connected = TRUE /\ queue = <<>> /\ flow = "pending"
  /\ then = "over" /\ failed = FALSE /\ expired = FALSE /\ signalled = "never"

-----------------------------------------------------------------------------
(* The helper *)

Alive == helper \notin {"auth", "ended"}
Becomes(p) == helper' = p
Fails(c) == Becomes("failing") /\ code' = c /\ monitor' = FALSE
Full == Len(toGui) = Capacity
Sends(f) == ~ Full /\ toGui' = Append(toGui, f)
Gui == UNCHANGED <<pc, session, window>>

(* request_cancellation: an ordinary cancel does not hide another code *)
Raised(c) == IF flag \in {"none", "cancelled"} \/ c = "protocol_error" THEN c ELSE flag

(* pkexec authorizes or not; the request is on the pipe *)
Authorize ==
  /\ helper = "auth"
  /\ \/ Becomes("provision") /\ monitor' = TRUE
     \/ Becomes("ended") /\ UNCHANGED monitor
  /\ UNCHANGED <<page, flag, code, signalled, pipes>> /\ Gui

(* _ControlMonitor: a control frame, another frame, or the end of the pipe *)
Observe ==
  /\ monitor
  /\ IF toHelper # <<>>
     THEN /\ flag' = Raised(IF Head(toHelper) = "cancel" THEN "cancelled" ELSE "protocol_error")
          /\ toHelper' = Tail(toHelper) /\ UNCHANGED monitor
     ELSE /\ ~ stdinOpen
          /\ flag' = Raised("cancelled") /\ monitor' = FALSE /\ UNCHANGED toHelper
  /\ UNCHANGED <<helper, page, code, signalled, stdinOpen, toGui>> /\ Gui

Deadline ==
  /\ monitor /\ flag = "none"
  /\ flag' = Raised("timeout") /\ monitor' = FALSE
  /\ UNCHANGED <<helper, page, code, signalled, pipes>> /\ Gui

(* SIGTERM *)
Terminate ==
  /\ Alive /\ signalled = "never"
  /\ flag' = Raised("cancelled")
  /\ signalled' = IF helper \in {"session", "failing"} THEN "late" ELSE "before"
  /\ UNCHANGED <<helper, page, monitor, code, pipes>> /\ Gui

(* the checkpoints may come before the flag is raised *)
Provision ==
  /\ helper = "provision"
  /\ \/ flag # "none" /\ Fails(flag)
     \/ Fails("failed")
     \/ Becomes("ready") /\ monitor' = FALSE /\ UNCHANGED code
  /\ UNCHANGED <<page, flag, signalled, pipes>> /\ Gui

(* _send refuses as soon as the flag is raised, and when the pipe stays full *)
SendReady ==
  /\ helper = "ready"
  /\ \/ flag # "none" /\ Fails(flag) /\ UNCHANGED toGui
     \/ flag = "none" /\ Sends(Frame("ready")) /\ Becomes("waiting") /\ UNCHANGED <<monitor, code>>
  /\ UNCHANGED <<page, flag, signalled, toHelper, stdinOpen>> /\ Gui

(* exactly one start frame; a cancel or the end are the only other ways on *)
AwaitStart ==
  /\ helper = "waiting"
  /\ \/ /\ toHelper # <<>> /\ toHelper' = Tail(toHelper)
        /\ IF Head(toHelper) = "start"
           THEN Becomes("plan") /\ monitor' = TRUE /\ UNCHANGED code
           ELSE Fails("cancelled")
     \/ toHelper = <<>> /\ ~ stdinOpen /\ Fails("cancelled") /\ UNCHANGED toHelper
     \/ Fails("timeout") /\ UNCHANGED toHelper
  /\ UNCHANGED <<page, flag, signalled, stdinOpen, toGui>> /\ Gui

(* run_plan: revalidation, the tree, then page after page *)
SendPage ==
  /\ helper = "plan" /\ page < Pages /\ flag = "none"
  /\ Sends(Frame("page")) /\ page' = page + 1
  /\ UNCHANGED <<helper, flag, monitor, code, signalled, toHelper, stdinOpen>> /\ Gui

PlanFails ==
  /\ helper = "plan"
  /\ \/ flag # "none" /\ Fails(flag)
     \/ Fails("failed")
  /\ UNCHANGED <<page, flag, signalled, pipes>> /\ Gui

SendDone ==
  /\ helper = "plan" /\ page = Pages /\ flag = "none"
  /\ Sends(Frame("done")) /\ Becomes("planned") /\ monitor' = FALSE
  /\ UNCHANGED <<page, flag, code, signalled, toHelper, stdinOpen>> /\ Gui

\* Fault: the last frame is sent whatever was raised
SendNavigationAlways ==
  /\ helper = "planned" /\ Sends(Frame("navigation-ready")) /\ Becomes("session")
  /\ UNCHANGED <<page, flag, monitor, code, signalled, toHelper, stdinOpen>> /\ Gui

SendNavigation ==
  /\ helper = "planned"
  /\ \/ flag # "none" /\ Fails(flag) /\ UNCHANGED toGui
     \/ Full /\ Fails("timeout") /\ UNCHANGED toGui
     \/ flag = "none" /\ Sends(Frame("navigation-ready")) /\ Becomes("session") /\ UNCHANGED <<monitor, code>>
  /\ UNCHANGED <<page, flag, signalled, toHelper, stdinOpen>> /\ Gui

\* Fault: the end of the pipe is no frame and ends no session
SessionEndsOnFrame ==
  /\ helper = "session" /\ toHelper # <<>>
  /\ Becomes("ended")
  /\ UNCHANGED <<page, flag, monitor, code, signalled, pipes>> /\ Gui

(* run_session reads a frame that is no request, or the end *)
SessionEnds ==
  /\ helper = "session" /\ (toHelper # <<>> \/ ~ stdinOpen)
  /\ Becomes("ended")
  /\ UNCHANGED <<page, flag, monitor, code, signalled, pipes>> /\ Gui

(* _send_terminal does not look at the flag; a full pipe loses the frame *)
SendTerminal ==
  /\ helper = "failing" /\ Becomes("ended")
  /\ IF Full THEN UNCHANGED toGui ELSE Sends(Error(code))
  /\ UNCHANGED <<page, flag, monitor, code, signalled, toHelper, stdinOpen>> /\ Gui

Die == Alive /\ Becomes("ended") /\ UNCHANGED <<page, flag, monitor, code, signalled, pipes>> /\ Gui

-----------------------------------------------------------------------------
(* StartupSession: a thread of the GUI reads *)

Step(t, from, to) == pc[t] = from /\ pc' = [pc EXCEPT ![t] = to]
Emits(s) == queue' = IF connected THEN Append(queue, s) ELSE queue

(* the call returns to begin_startup, or to the worker *)
Finishes(t, o) ==
  IF t = "main"
  THEN pc' = [pc EXCEPT !.main = "closing"] /\ then' = "over" /\ UNCHANGED queue
  ELSE pc' = [pc EXCEPT !.worker = "over"] /\ Emits(IF o = "raise" THEN "error" ELSE "result") /\ UNCHANGED then

WindowRest == UNCHANGED <<attached, connected, flow, failed, expired>>

\* Fault: the reader is claimed without the lock
ClaimUnlocked(t) ==
  /\ reader \in {"none", t} /\ Step(t, "claim", "read") /\ reader' = t
  /\ UNCHANGED <<process, pipes, outcome, lock, parser, closed, window>>

Claim(t) ==
  /\ pc[t] = "claim" /\ lock = "free"
  /\ IF reader \in {"none", t}
     THEN Step(t, "claim", "read") /\ reader' = t /\ UNCHANGED <<queue, then>>
     ELSE Finishes(t, "raise") /\ UNCHANGED reader
  /\ UNCHANGED <<process, pipes, outcome, lock, parser, closed>> /\ WindowRest

(* StartupFrameParser._validate *)
Accepts(f) ==
  CASE f[1] = "ready" -> parser = "nothing"
    [] f[1] \in {"page", "done"} -> parser = "ready"
    [] f[1] = "error" -> parser \in {"nothing", "ready"}
    [] f[1] = "navigation-ready" -> parser = "done"
Accepted(f) == IF f[1] = "page" THEN "ready" ELSE IF f[1] = "error" THEN "done" ELSE f[1]

Finalizes(t, o) ==
  /\ pc' = [pc EXCEPT ![t] = "finalize"] /\ outcome' = [outcome EXCEPT ![t] = o]
  /\ UNCHANGED <<queue, then>>

(* _read_one, one frame *)
Read(t) ==
  LET f == Head(toGui) IN
  /\ pc[t] = "read" /\ ~ closed /\ toGui # <<>> /\ toGui' = Tail(toGui)
  /\ IF Accepts(f)
     THEN /\ parser' = Accepted(f) /\ UNCHANGED stdinOpen
          /\ CASE f[1] = "ready" ->
                    pc' = [pc EXCEPT ![t] = "window"] /\ reader' = "none" /\ UNCHANGED <<outcome, queue, then>>
               [] f[1] = "page" ->
                    pc' = [pc EXCEPT ![t] = "claim"] /\ Emits("page") /\ UNCHANGED <<outcome, reader, then>>
               [] f[1] = "done" ->
                    pc' = [pc EXCEPT ![t] = "claim"] /\ UNCHANGED <<outcome, reader, queue, then>>
               [] f[1] = "navigation-ready" ->
                    Finishes(t, "none") /\ reader' = "none" /\ UNCHANGED outcome
               [] f[1] = "error" ->
                    Finalizes(t, IF f[2] \in {"cancelled", "timeout"} THEN "none" ELSE "raise") /\ UNCHANGED reader
     ELSE /\ Finalizes(t, "raise") /\ stdinOpen' = FALSE /\ UNCHANGED <<parser, reader>>
  /\ UNCHANGED <<process, toHelper, lock, closed>> /\ WindowRest

(* the end of the stream, or the broker's deadline, which is looked at before the pipe *)
ReadNothing(t) ==
  /\ pc[t] = "read" /\ ~ closed
  /\ \/ toGui = <<>> /\ helper = "ended" /\ Finalizes(t, IF parser = "done" THEN "none" ELSE "raise")
     \/ Finalizes(t, "raise")
  /\ stdinOpen' = FALSE
  /\ UNCHANGED <<process, toHelper, toGui, lock, reader, parser, closed>> /\ WindowRest

ReadClosed(t) ==
  /\ pc[t] = "read" /\ closed /\ Finishes(t, "none")
  /\ UNCHANGED <<process, pipes, session>> /\ WindowRest

\* Fault: the pipes are closed before the helper has ended
FinalizeAtOnce(t) ==
  /\ pc[t] = "finalize" /\ closed' = TRUE /\ Finishes(t, outcome[t])
  /\ UNCHANGED <<process, pipes, outcome, lock, reader, parser>> /\ WindowRest

(* _finalize_process waits for the helper to end *)
Finalize(t) ==
  /\ pc[t] = "finalize" /\ helper = "ended"
  /\ closed' = TRUE /\ Finishes(t, outcome[t])
  /\ UNCHANGED <<process, pipes, outcome, lock, reader, parser>> /\ WindowRest

(* "startup helper was not reaped": it raises, and leaves the pipes as they are *)
FinalizeExpires(t) ==
  /\ pc[t] = "finalize" /\ helper # "ended"
  /\ expired' = TRUE /\ Finishes(t, "raise")
  /\ UNCHANGED <<process, pipes, session, attached, connected, flow, failed>>

(* StartupSession.start *)
Start ==
  /\ pc.worker = "start" /\ lock = "free"
  /\ IF closed \/ ~ stdinOpen \/ helper = "ended"
     THEN Finishes("worker", "raise") /\ UNCHANGED toHelper
     ELSE Step("worker", "start", "claim") /\ toHelper' = Append(toHelper, "start") /\ UNCHANGED <<queue, then>>
  /\ UNCHANGED <<process, stdinOpen, toGui, session>> /\ WindowRest

-----------------------------------------------------------------------------
(* StartupSession.close, by the main thread *)

GoesOn == pc' = [pc EXCEPT !.main = then]

CloseDone ==
  /\ pc.main = "closing" /\ closed /\ GoesOn
  /\ UNCHANGED <<process, pipes, session, window>>

(* cancel, which raises over a pipe a reader has closed meanwhile, then the end *)
CloseBegins ==
  /\ pc.main = "closing" /\ ~ closed /\ lock = "free"
  /\ IF ~ stdinOpen /\ helper # "ended"
     THEN GoesOn /\ failed' = TRUE /\ UNCHANGED <<pipes, lock>>
     ELSE /\ toHelper' = IF helper = "ended" THEN toHelper ELSE Append(toHelper, "cancel")
          /\ stdinOpen' = FALSE /\ lock' = "main"
          /\ pc' = [pc EXCEPT !.main = IF reader = "worker" THEN "waiting" ELSE "draining"]
          /\ UNCHANGED <<toGui, failed>>
  /\ UNCHANGED <<process, outcome, reader, parser, closed, attached, connected, queue, flow, then, expired>>

CloseWaits ==
  /\ pc.main = "waiting" /\ closed /\ lock' = "free" /\ GoesOn
  /\ UNCHANGED <<process, pipes, outcome, reader, parser, closed, window>>

\* Fault: the reader is waited for without a budget
CloseWaitsForever ==
  /\ pc.main = "waiting" /\ closed /\ lock' = "free" /\ GoesOn
  /\ UNCHANGED <<process, pipes, outcome, reader, parser, closed, window>>

(* the budget passes; the reader may be waiting for the lock or have gone *)
CloseGivesUp ==
  /\ pc.main = "waiting" /\ ~ closed
  /\ lock' = "free" /\ failed' = TRUE /\ expired' = TRUE /\ GoesOn
  /\ UNCHANGED <<process, pipes, outcome, reader, parser, closed, attached, connected, queue, flow, then>>

CloseDrains ==
  /\ pc.main = "draining"
  /\ IF helper = "ended" THEN closed' = TRUE /\ lock' = "free" /\ GoesOn /\ UNCHANGED toGui
     ELSE toGui # <<>> /\ toGui' = <<>> /\ UNCHANGED <<closed, lock, pc>>
  /\ UNCHANGED <<process, toHelper, stdinOpen, outcome, reader, parser, window>>

(* the budget of the drain passes: _finalize_process raises over a live helper *)
CloseExpires ==
  /\ pc.main = "draining" /\ helper # "ended"
  /\ lock' = "free" /\ failed' = TRUE /\ expired' = TRUE /\ GoesOn
  /\ UNCHANGED <<process, pipes, outcome, reader, parser, closed, attached, connected, queue, flow, then>>

-----------------------------------------------------------------------------
(* The window *)

Closes(next) == pc' = [pc EXCEPT !.main = "closing"] /\ then' = next /\ attached' = FALSE
Settles(s) == flow' = IF flow = "pending" THEN s ELSE flow

(* the dependencies are there and the credentials given *)
StartWorker ==
  /\ pc.main = "window" /\ attached /\ pc.worker = "none"
  /\ pc' = [pc EXCEPT !.worker = "start"]
  /\ UNCHANGED <<process, pipes, session, window>>

(* or not; without credentials the session is also cancelled first *)
GiveUp ==
  /\ pc.main = "window" /\ attached /\ pc.worker = "none"
  /\ Settles("cancelled") /\ Closes("window")
  /\ toHelper' \in {toHelper} \cup (IF helper # "ended" THEN {Append(toHelper, "cancel")} ELSE {})
  /\ UNCHANGED <<process, stdinOpen, toGui, session, connected, queue, failed, expired>>

Deliver ==
  /\ pc.main = "window" /\ queue # <<>> /\ queue' = Tail(queue)
  /\ CASE Head(queue) = "page" -> UNCHANGED <<flow, pc, then, attached>>
       [] Head(queue) = "result" -> Settles("success") /\ UNCHANGED <<pc, then, attached>>
       [] Head(queue) = "error" ->
            /\ Settles("failed")
            /\ IF flow = "pending" /\ attached THEN Closes("window") ELSE UNCHANGED <<pc, then, attached>>
  /\ UNCHANGED <<process, pipes, session, connected, failed, expired>>

(* shutdown *)
Quit ==
  /\ pc.main = "window"
  /\ Settles("cancelled") /\ connected' = FALSE /\ queue' = <<>>
  /\ IF attached THEN Closes("leaving") ELSE pc' = [pc EXCEPT !.main = "leaving"] /\ UNCHANGED <<then, attached>>
  /\ UNCHANGED <<process, pipes, session, failed, expired>>

(* waitForDone, which has a budget too, then _safe_close of the application *)
Leave ==
  /\ pc.main = "leaving"
  /\ expired' = (expired \/ pc.worker \notin {"none", "over"})
  /\ Closes("over")
  /\ UNCHANGED <<process, pipes, session, connected, queue, flow, failed>>

HelperStep ==
  \/ Observe \/ Provision \/ SendReady \/ AwaitStart \/ SendPage \/ PlanFails
  \/ SendDone \/ SendNavigation \/ SessionEnds \/ SendTerminal

ThreadStep(t) == Claim(t) \/ Read(t) \/ ReadNothing(t) \/ ReadClosed(t) \/ Finalize(t) \/ FinalizeExpires(t)

CloseStep == CloseDone \/ CloseBegins \/ CloseWaits \/ CloseGivesUp \/ CloseDrains \/ CloseExpires

Next ==
  \/ Authorize \/ HelperStep \/ Deadline \/ Terminate \/ Die
  \/ \E t \in Threads : ThreadStep(t)
  \/ Start \/ CloseStep
  \/ StartWorker \/ GiveUp \/ Deliver \/ Quit \/ Leave

Spec == Init /\ [][Next]_vars

(* every process and thread runs; the user need not do anything, nor answer polkit *)
FairSpec ==
  /\ Spec /\ WF_vars(HelperStep) /\ WF_vars(Observe) /\ \A t \in Threads : WF_vars(ThreadStep(t))
  /\ WF_vars(Start) /\ WF_vars(CloseStep) /\ WF_vars(Leave)

-----------------------------------------------------------------------------
(* The types of the variables; a closed session has no process left
   (privilege_broker.py:325-346). *)
TypeOK ==
  /\ helper \in {"auth", "provision", "ready", "waiting", "plan", "planned", "session", "failing", "ended"}
  /\ page \in 0..Pages /\ Len(toGui) <= Capacity /\ lock \in {"free", "main"}
  /\ flag \in {"none", "cancelled", "timeout", "protocol_error"}
  /\ pc.worker \in {"none", "start", "claim", "read", "finalize", "over"}
  /\ pc.main \in {"claim", "read", "finalize", "window", "closing", "waiting", "draining", "leaving", "over"}
  /\ parser \in {"nothing", "ready", "done", "navigation-ready"}
  /\ flow \in {"pending", "success", "failed", "cancelled"}
  /\ closed => helper = "ended"

(* Two threads never read the helper's frames at once, through the hand-over of the
   ready frame, the events and a close (privilege_broker.py:245-251, 496-530). *)
OneReader == pc.worker = "read" => pc.main \notin {"read", "draining"}

(* A SIGTERM that comes before the session stops the helper there; it never serves
   (startup.py:65-66, 421-427). *)
TermBeforeSessionStops == signalled = "before" => helper # "session"

(* A window that is left, however its startup went, and a startup that fails before
   there is a window, end the GUI, even if polkit is never answered, and leave no helper
   and no open pipe unless a budget for cleaning up has passed (app.py:32-34, 92-99,
   main_window.py:284-316, privilege_broker.py:337-338, 510-535, 1105-1121). *)
LeavingReaps ==
  (~ connected \/ (pc.main = "closing" /\ then = "over"))
    ~> (pc.main = "over" /\ (closed \/ expired))

(* A helper that was authorized ends once the GUI has closed its pipe, whatever it was
   doing and whether anybody still reads what it sends or waits for it
   (startup.py:364-439, runtime.py:418-484). *)
HelperFollows == (~ stdinOpen /\ helper # "auth") ~> (helper = "ended")

(* privilege_broker.py:508-509 "The events owner must consume the cancellation
   terminal frame and perform finalization; close only waits" (violated: the owner
   needs the lock close holds). *)
CloseOnlyWaits == ~ failed

(* main_window.py:912 "Privileged helper session is ready" (violated: a startup the
   helper gave up for its time or a signal is a success). *)
SuccessMeansReady == flow = "success" => parser = "navigation-ready"
=============================================================================
