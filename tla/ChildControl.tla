---------------------------- MODULE ChildControl ----------------------------
(* One privileged action of a fixed helper and the child processes it runs: *)
(* the registry of the active child group, its cancellation by the control  *)
(* monitor and by SIGTERM, and the wait loops that end a child.             *)
(*                                                                          *)
(* The main thread runs the action, one command after the other. The        *)
(* monitor is a second thread; the SIGTERM handler interrupts the main      *)
(* thread between any two steps. Command output, its reader threads and     *)
(* what a handler does between two commands are left out.                   *)
EXTENDS Naturals, FiniteSets

CONSTANTS
  Pids,         \* process group ids; the kernel reuses an id once its group is empty
  NoPid,        \* no group (None)
  MaxCommands,  \* bound: commands an action runs
  MaxSignals    \* bound: SIGTERM or SIGINT that reach the helper

ASSUME ChildAssumption ==
  /\ NoPid \notin Pids
  /\ MaxCommands \in Nat \ {0}
  /\ MaxSignals \in Nat

Commands == 1 .. MaxCommands

\* Who runs a command: restic_engine.py, run_cancellable_subprocess, or the
\* latter below a discovery function that catches every Exception.
Kinds == {"engine", "scanner", "discovery"}

\* The codes request_cancellation accepts.
CancelCodes == {"cancelled", "timeout", "protocol_error"}

VARIABLES
  cancelled,   \* _cancellation_requested
  code,        \* _cancellation_code
  active,      \* _active_child_group
  lock,        \* _child_group_lock: "free", or "main" inside register_child_group
  pc,          \* the main thread
  cmd,         \* commands started so far; the last one is the current one
  kind,        \* who runs the current command
  why,         \* the code of the ChildProcessError to raise, or "none"
  after,       \* where the main thread goes on when the child group is ended
  resp,        \* the response: "none", "success", "error" or a code
  sig,         \* the signal handler: "none", "entered", "kill"
  sigTarget,   \* its local pgid
  signals,     \* signals received so far
  mon,         \* the monitor: "off", "reading", "kill", "lastkill", "ended"
  monTarget,   \* its local pgid
  seen,        \* seen_control
  pgid,        \* the group of each command
  leader,      \* its leader: "none", "running", "zombie", "reaped"
  kin,         \* whether descendants of the leader are alive in its group
  foreign,     \* a group id that some other program has taken
  signalled,   \* history: commands whose live leader a cancellation signalled
  ended,       \* history: commands the main thread has ended
  observed,    \* history: the code when the main thread met the cancellation
  raised,      \* history: some command raised a ChildProcessError
  strayed      \* history: a signal reached a group of another program

registry  == <<cancelled, code, active, lock>>
action    == <<pc, cmd, kind, why, after, resp>>
handler   == <<sig, sigTarget, signals>>
monitor   == <<mon, monTarget, seen>>
processes == <<pgid, leader, kin, foreign>>
history   == <<signalled, ended, observed, raised, strayed>>
vars == <<registry, action, handler, monitor, processes, history>>

Init ==
  /\ cancelled = FALSE /\ code = "cancelled" /\ active = NoPid /\ lock = "free"
  /\ pc = "reset" /\ cmd = 0 /\ kind = "engine" /\ why = "none"
  /\ after = "raise" /\ resp = "none"
  /\ sig = "none" /\ sigTarget = NoPid /\ signals = 0
  /\ mon = "off" /\ monTarget = NoPid /\ seen = FALSE
  /\ pgid = [c \in Commands |-> NoPid]
  /\ leader = [c \in Commands |-> "none"]
  /\ kin = [c \in Commands |-> FALSE]
  /\ foreign = NoPid
  /\ signalled = {} /\ ended = {} /\ observed = "none"
  /\ raised = FALSE /\ strayed = FALSE

----------------------------------------------------------------------------
(* Processes. *)

\* The commands with a process, dead or alive, in group p; at most one.
Group(p) ==
  {c \in Commands : pgid[c] = p /\ (leader[c] \in {"running", "zombie"} \/ kin[c])}

Unused(p) == foreign # p /\ Group(p) = {}

\* os.killpg(p, SIGTERM). A process may ignore it, and may end at any time
\* (LeaderEnds, KinEnd), so that only the history changes.
Term(p) ==
  /\ strayed' = (strayed \/ foreign = p)
  /\ UNCHANGED processes

\* os.killpg(p, SIGKILL). An empty group raises ProcessLookupError, ignored.
Kill(p) ==
  /\ leader' = [c \in Commands |->
                  IF c \in Group(p) /\ leader[c] = "running" THEN "zombie" ELSE leader[c]]
  /\ kin' = [c \in Commands |-> kin[c] /\ c \notin Group(p)]
  /\ strayed' = (strayed \/ foreign = p)
  /\ UNCHANGED <<pgid, foreign>>

\* process.wait() returns: the leader is reaped.
Reap ==
  /\ leader[cmd] # "running"
  /\ leader' = [leader EXCEPT ![cmd] = "reaped"]
  /\ UNCHANGED <<pgid, kin, foreign>>

\* A command exits, by itself or because of SIGTERM.
LeaderEnds(c) ==
  /\ leader[c] = "running"
  /\ leader' = [leader EXCEPT ![c] = "zombie"]
  /\ UNCHANGED <<registry, action, handler, monitor, pgid, kin, foreign, history>>

KinEnd(c) ==
  /\ kin[c]
  /\ kin' = [kin EXCEPT ![c] = FALSE]
  /\ UNCHANGED <<registry, action, handler, monitor, pgid, leader, foreign, history>>

\* Some other program starts or ends; its group id is one the kernel has free.
ForeignChanges ==
  /\ foreign' \in {NoPid} \cup {p \in Pids : Unused(p)}
  /\ foreign' # foreign
  /\ UNCHANGED <<registry, action, handler, monitor, pgid, leader, kin, history>>

----------------------------------------------------------------------------
(* The main thread. It makes no step while the signal handler runs. *)

At(place) == pc = place /\ sig = "none"
Goto(place) == pc' = place

\* ensure_not_cancelled raises, or the wait loop ends the child: what is
\* recorded at that time is what a response should tell.
Observe == observed' = code

\* The action ends with response r; run_fixed_helper closes the monitor.
Respond(r) == resp' = r /\ Goto("close")

ResetCancellation ==
  /\ At("reset")
  /\ cancelled' = FALSE /\ code' = "cancelled" /\ active' = NoPid
  /\ Goto("request")
  /\ UNCHANGED <<lock, cmd, kind, why, after, resp, handler, monitor, processes, history>>

\* The request is read and its kind gives the deadline of the monitor.
StartMonitor ==
  /\ At("request")
  /\ mon' = "reading"
  /\ Goto("enter")
  /\ UNCHANGED <<registry, cmd, kind, why, after, resp, handler, monTarget, seen,
                 processes, history>>

\* The first ensure_not_cancelled of handle_fixed_request.
EnterHandler ==
  /\ At("enter") /\ ~cancelled
  /\ Goto("handler")
  /\ UNCHANGED <<registry, cmd, kind, why, after, resp, handler, monitor, processes, history>>

\* ensure_not_cancelled raises, before, inside or after the handler.
Checkpoint ==
  /\ \/ At("enter") \/ At("handler") \/ At("respond")
  /\ cancelled
  /\ Observe /\ Respond(code)
  /\ UNCHANGED <<registry, cmd, kind, why, after, handler, monitor, processes,
                 signalled, ended, raised, strayed>>

\* A request, payload or path is refused, Popen fails, a command exits with an
\* error, the result is too large.
HandlerFails ==
  /\ pc \in {"request", "enter", "handler", "respond"} /\ sig = "none"
  /\ Respond("error")
  /\ UNCHANGED <<registry, cmd, kind, why, after, handler, monitor, processes, history>>

HandlerReturns ==
  /\ At("handler")
  /\ Goto("respond")
  /\ UNCHANGED <<registry, cmd, kind, why, after, resp, handler, monitor, processes, history>>

\* Fault: the last ensure_not_cancelled is missing.
SucceedUnchecked ==
  /\ At("respond")
  /\ Respond("success")
  /\ UNCHANGED <<registry, cmd, kind, why, after, handler, monitor, processes, history>>

\* The last ensure_not_cancelled of handle_fixed_request passes.
Succeed ==
  /\ At("respond") /\ ~cancelled
  /\ Respond("success")
  /\ UNCHANGED <<registry, cmd, kind, why, after, handler, monitor, processes, history>>

\* Popen with start_new_session: a group of its own, perhaps of many processes.
Launch ==
  /\ At("handler") /\ cmd < MaxCommands
  /\ cmd' = cmd + 1
  /\ kind' \in Kinds
  /\ \E p \in Pids :
       /\ Unused(p)
       /\ pgid' = [pgid EXCEPT ![cmd + 1] = p]
  /\ leader' = [leader EXCEPT ![cmd + 1] = "running"]
  /\ \E forks \in BOOLEAN : kin' = [kin EXCEPT ![cmd + 1] = forks]
  /\ why' = "none"
  /\ Goto("register")
  /\ UNCHANGED <<registry, after, resp, handler, monitor, foreign, history>>

\* register_child_group, first half: under the lock, the group becomes the
\* active one. If another child is active, the engine raises and leaves the
\* new child alone, and run_cancellable_subprocess kills and reaps it.
RegisterClaim ==
  /\ At("register") /\ lock = "free"
  /\ IF active = NoPid
     THEN active' = pgid[cmd] /\ lock' = "main" /\ Goto("registered") /\ UNCHANGED why
     ELSE /\ why' = "internal_error"
          /\ Goto(IF kind = "engine" THEN "raise" ELSE "rekill")
          /\ UNCHANGED <<active, lock>>
  /\ UNCHANGED <<cancelled, code, cmd, kind, after, resp, handler, monitor,
                 processes, history>>

\* Fault: the arguments are swapped.
EndChildSwapped(c, next) ==
  /\ why' = next /\ after' = c
  /\ Goto("term")

\* The main thread begins to end its child, to raise code c and then go to next.
EndChild(c, next) ==
  /\ why' = c /\ after' = next
  /\ Goto("term")

\* register_child_group, second half: the flag is read before the lock is
\* released; a cancellation that came before the registration is made up for.
RegisterCheck ==
  /\ At("registered")
  /\ lock' = "free"
  /\ \/ /\ cancelled
        /\ Observe
        /\ EndChild("cancelled", IF kind = "engine" THEN "raise" ELSE "rekill")
     \/ /\ ~cancelled
        /\ Goto("poll")
        /\ UNCHANGED <<why, after, observed>>
  /\ UNCHANGED <<cancelled, code, active, cmd, kind, resp, handler, monitor, processes,
                 signalled, ended, raised, strayed>>

\* The wait loops meet the flag: _wait_with_cancellation always says
\* "cancelled", run_cancellable_subprocess the recorded code.
MeetCancellation ==
  /\ \/ At("poll") \/ At("recheck")
  /\ cancelled
  /\ Observe
  /\ EndChild(IF kind = "engine" THEN "cancelled" ELSE code, "raise")
  /\ UNCHANGED <<registry, cmd, kind, resp, handler, monitor, processes,
                 signalled, ended, raised, strayed>>

\* The checkpoint of run_cancellable_subprocess, which only debsums has, raises
\* before the flag is looked at. A leader that still runs is ended as above;
\* after one that has exited the group is released as it is.
CheckpointRaises ==
  /\ At("poll") /\ kind = "scanner" /\ cancelled /\ Reap
  /\ Observe
  /\ why' = code
  /\ Goto("release")
  /\ UNCHANGED <<registry, cmd, kind, after, resp, handler, monitor,
                 signalled, ended, raised, strayed>>

Release ==
  /\ At("release") /\ lock = "free"
  /\ active' = IF active = pgid[cmd] THEN NoPid ELSE active
  /\ Goto("raise")
  /\ UNCHANGED <<cancelled, code, lock, cmd, kind, why, after, resp, handler, monitor,
                 processes, history>>

PollPasses ==
  /\ At("poll") /\ ~cancelled
  /\ Goto("wait")
  /\ UNCHANGED <<registry, cmd, kind, why, after, resp, handler, monitor, processes, history>>

\* The deadline of the command.
WaitDeadline ==
  /\ At("wait")
  /\ EndChild("timeout", "raise")
  /\ UNCHANGED <<registry, cmd, kind, resp, handler, monitor, processes, history>>

\* process.wait expires after a tenth of a second, or returns.
WaitExpires ==
  /\ At("wait") /\ leader[cmd] = "running"
  /\ Goto("poll")
  /\ UNCHANGED <<registry, cmd, kind, why, after, resp, handler, monitor, processes, history>>

WaitReturns ==
  /\ At("wait") /\ Reap
  /\ Goto("recheck")
  /\ UNCHANGED <<registry, cmd, kind, why, after, resp, handler, monitor, history>>

\* Fault: a command that ended by itself stays registered.
CommandReturnsRegistered ==
  /\ At("recheck") /\ ~cancelled /\ lock = "free"
  /\ Goto("handler")
  /\ UNCHANGED <<registry, cmd, kind, why, after, resp, handler, monitor, processes, history>>

\* The command ended uncancelled: the finally of the runners unregisters it.
CommandReturns ==
  /\ At("recheck") /\ ~cancelled /\ lock = "free"
  /\ active' = IF active = pgid[cmd] THEN NoPid ELSE active
  /\ Goto("handler")
  /\ UNCHANGED <<cancelled, code, lock, cmd, kind, why, after, resp, handler, monitor,
                 processes, history>>

\* _terminate_child, _terminate_process_group, _terminate_registered_child:
\* TERM, wait for two seconds, KILL, reap, unregister.
TerminateTerm ==
  /\ At("term")
  /\ Term(pgid[cmd])
  /\ Goto("grace")
  /\ UNCHANGED <<registry, cmd, kind, why, after, resp, handler, monitor,
                 signalled, ended, observed, raised>>

\* The leader ended within the grace time; what is left of its group follows.
GraceReaps ==
  /\ At("grace") /\ Reap
  /\ Goto("kill")
  /\ UNCHANGED <<registry, cmd, kind, why, after, resp, handler, monitor, history>>

\* Fault: the descendants of a leader that ended are left alone.
TerminateKinLeft ==
  /\ At("kill")
  /\ Goto("unregister")
  /\ UNCHANGED <<registry, cmd, kind, why, after, resp, handler, monitor, processes, history>>

TerminateKin ==
  /\ At("kill")
  /\ Kill(pgid[cmd])
  /\ Goto("unregister")
  /\ UNCHANGED <<registry, cmd, kind, why, after, resp, handler, monitor,
                 signalled, ended, observed, raised>>

\* Fault: TERM again where KILL is due, and another wait.
GraceExpiresTerm ==
  /\ At("grace") /\ leader[cmd] = "running"
  /\ Term(pgid[cmd])
  /\ Goto("grace")
  /\ UNCHANGED <<registry, cmd, kind, why, after, resp, handler, monitor,
                 signalled, ended, observed, raised>>

GraceExpires ==
  /\ At("grace") /\ leader[cmd] = "running"
  /\ Kill(pgid[cmd])
  /\ Goto("reap")
  /\ UNCHANGED <<registry, cmd, kind, why, after, resp, handler, monitor,
                 signalled, ended, observed, raised>>

KilledReaped ==
  /\ At("reap") /\ Reap
  /\ Goto("unregister")
  /\ UNCHANGED <<registry, cmd, kind, why, after, resp, handler, monitor, history>>

\* unregister_child_group; a second one in a finally finds nothing to do.
Unregister ==
  /\ At("unregister") /\ lock = "free"
  /\ active' = IF active = pgid[cmd] THEN NoPid ELSE active
  /\ ended' = ended \cup {cmd}
  /\ Goto(after)
  /\ UNCHANGED <<cancelled, code, lock, cmd, kind, why, after, resp, handler, monitor,
                 processes, signalled, observed, raised, strayed>>

\* run_cancellable_subprocess kills and reaps a child whose registration raised.
Rekill ==
  /\ At("rekill")
  /\ Kill(pgid[cmd])
  /\ Goto("rereap")
  /\ UNCHANGED <<registry, cmd, kind, why, after, resp, handler, monitor,
                 signalled, ended, observed, raised>>

RekilledReaped ==
  /\ At("rereap") /\ Reap
  /\ Goto("raise")
  /\ UNCHANGED <<registry, cmd, kind, why, after, resp, handler, monitor, history>>

\* The ChildProcessError reaches the response, or a discovery function returns
\* an empty list in its place.
Raise ==
  /\ At("raise")
  /\ raised' = TRUE
  /\ \/ kind = "discovery" /\ Goto("handler") /\ UNCHANGED resp
     \/ kind # "discovery" /\ Respond(why)
  /\ UNCHANGED <<registry, cmd, kind, why, after, handler, monitor, processes,
                 signalled, ended, observed, strayed>>

\* _ControlMonitor.close joins the monitor, if it was started; the response is
\* written and the helper exits.
CloseMonitor ==
  /\ At("close")
  /\ mon \in {"off", "reading", "ended"}
  /\ mon' = "ended"
  /\ Goto("done")
  /\ UNCHANGED <<registry, cmd, kind, why, after, resp, handler, monTarget, seen,
                 processes, history>>

Main ==
  \/ ResetCancellation \/ StartMonitor \/ EnterHandler \/ Checkpoint
  \/ HandlerFails \/ HandlerReturns \/ Succeed \/ Launch
  \/ RegisterClaim \/ RegisterCheck
  \/ MeetCancellation \/ CheckpointRaises \/ Release \/ PollPasses \/ WaitDeadline \/ WaitExpires \/ WaitReturns
  \/ CommandReturns
  \/ TerminateTerm \/ GraceReaps \/ TerminateKin \/ GraceExpires \/ KilledReaped
  \/ Unregister \/ Rekill \/ RekilledReaped \/ Raise \/ CloseMonitor

----------------------------------------------------------------------------
(* request_cancellation, from the monitor and from the signal handler. The  *)
(* group is read under the lock and signalled after its release.            *)

RequestCancellation(c) ==
  /\ cancelled' = TRUE
  /\ code' = IF code = "cancelled" \/ c = "protocol_error" THEN c ELSE code
  /\ UNCHANGED <<active, lock>>

\* os.killpg of request_cancellation, with the history of whom it reaches.
SignalGroup(p) ==
  /\ Term(p)
  /\ signalled' = signalled \cup {c \in Group(p) : leader[c] = "running"}
  /\ UNCHANGED <<ended, observed, raised>>

\* A SIGTERM or SIGINT interrupts the main thread.
SignalArrives ==
  /\ sig = "none" /\ pc # "done" /\ signals < MaxSignals
  /\ sig' = "entered" /\ signals' = signals + 1
  /\ UNCHANGED <<registry, action, sigTarget, monitor, processes, history>>

\* The lock is reentrant: it never keeps the handler out of a section of the
\* thread it interrupts.
HandlerRequests ==
  /\ sig = "entered"
  /\ RequestCancellation("cancelled")
  /\ sigTarget' = active
  /\ sig' = IF active = NoPid THEN "none" ELSE "kill"
  /\ UNCHANGED <<action, signals, monitor, processes, history>>

HandlerKills ==
  /\ sig = "kill"
  /\ SignalGroup(sigTarget)
  /\ sig' = "none"
  /\ UNCHANGED <<registry, action, sigTarget, signals, monitor>>

Signals == SignalArrives \/ HandlerRequests \/ HandlerKills

\* The monitor requests a cancellation with code c, then goes on or ends.
MonitorRequests(c, last) ==
  /\ mon = "reading" /\ lock = "free"
  /\ RequestCancellation(c)
  /\ monTarget' = active
  /\ mon' = IF active # NoPid THEN (IF last THEN "lastkill" ELSE "kill")
            ELSE (IF last THEN "ended" ELSE "reading")
  /\ UNCHANGED <<action, handler, processes, history>>

\* One cancel frame.
MonitorFrame ==
  /\ ~seen /\ seen' = TRUE
  /\ MonitorRequests("cancelled", FALSE)

\* A second frame, a malformed or oversized one, a read error.
MonitorRejects ==
  /\ seen' \in {seen, TRUE}
  /\ MonitorRequests("protocol_error", TRUE)

MonitorEof == UNCHANGED seen /\ MonitorRequests("cancelled", TRUE)

MonitorDeadline == UNCHANGED seen /\ MonitorRequests("timeout", TRUE)

MonitorKills ==
  /\ mon \in {"kill", "lastkill"}
  /\ SignalGroup(monTarget)
  /\ mon' = IF mon = "kill" THEN "reading" ELSE "ended"
  /\ UNCHANGED <<registry, action, handler, monTarget, seen>>

Monitor == MonitorFrame \/ MonitorRejects \/ MonitorEof \/ MonitorDeadline \/ MonitorKills

Environment ==
  \/ \E c \in Commands : LeaderEnds(c) \/ KinEnd(c)
  \/ ForeignChanges

\* The helper has exited.
Stopped == pc = "done" /\ UNCHANGED vars

Next == Main \/ Signals \/ Monitor \/ Environment \/ Stopped

Spec == Init /\ [][Next]_vars

\* The main thread and the handler that interrupts it run, and the monitor
\* sends the signal it is about to send. No command is assumed to end, nobody to
\* cancel, and no deadline to pass.
FairSpec == Spec /\ WF_vars(Main) /\ WF_vars(HandlerRequests \/ HandlerKills)
                 /\ WF_vars(MonitorKills)

----------------------------------------------------------------------------
(* Properties. *)

Places == {"reset", "request", "enter", "handler", "respond", "register", "registered",
           "poll", "wait", "recheck", "term", "grace", "kill", "reap", "unregister",
           "release", "rekill", "rereap", "raise", "close", "done"}

\* The variables have their types, the groups of commands are told apart, and
\* the current command is one that was started.
TypeOK ==
  /\ cancelled \in BOOLEAN /\ code \in CancelCodes
  /\ active \in Pids \cup {NoPid} /\ lock \in {"free", "main"}
  /\ pc \in Places /\ cmd \in 0 .. MaxCommands /\ kind \in Kinds
  /\ why \in CancelCodes \cup {"none", "internal_error"}
  /\ after \in {"raise", "rekill"}
  /\ resp \in CancelCodes \cup {"none", "success", "error", "internal_error"}
  /\ sig \in {"none", "entered", "kill"} /\ sigTarget \in Pids \cup {NoPid}
  /\ signals \in 0 .. MaxSignals
  /\ mon \in {"off", "reading", "kill", "lastkill", "ended"}
  /\ monTarget \in Pids \cup {NoPid} /\ seen \in BOOLEAN
  /\ pgid \in [Commands -> Pids \cup {NoPid}]
  /\ leader \in [Commands -> {"none", "running", "zombie", "reaped"}]
  /\ kin \in [Commands -> BOOLEAN] /\ foreign \in Pids \cup {NoPid}
  /\ signalled \subseteq Commands /\ ended \subseteq Commands
  /\ observed \in CancelCodes \cup {"none"}
  /\ raised \in BOOLEAN /\ strayed \in BOOLEAN

\* The places where the main thread owns a registered child.
Owning == {"registered", "poll", "wait", "recheck", "term", "grace", "kill", "reap",
           "unregister", "release"}

\* A command that runs is the current one, and from its registration until it
\* is reaped the registry holds its group: a cancellation cannot miss it, and a
\* registration never meets another active child.
RunningIsRegistered ==
  \A c \in Commands : leader[c] = "running" =>
    /\ c = cmd
    /\ \/ pc = "register" /\ active = NoPid
       \/ pc \in Owning /\ active = pgid[c]

\* A group that the helper ended, rather than released after its leader, has no
\* process left, neither the leader nor a descendant of it
\* (test_broker_timeout_uses_control_cancel_and_helper_cleans_nested_children).
EndedGroupsAreGone ==
  \A c \in ended : leader[c] = "reaped" /\ ~kin[c]

\* A command that a cancellation cut short never contributes to a success,
\* even where the code that ran it catches every exception.
CutShortNeverSucceeds == resp = "success" => signalled = {}

\* Once a cancellation is recorded, the action ends with a response, and no
\* command of it runs on, however the command treats SIGTERM. A cancellation
\* that precedes reset_cancellation does not count.
CancelledActionEnds ==
  (cancelled /\ pc # "reset") ~>
    (resp # "none" /\ \A c \in Commands : leader[c] # "running")

\* "A bounded child deadline/cancellation that must never become success"
\* (runtime.py:47): a success response reports no action in which one occurred
\* (violated: the discovery functions catch it, system_scan.py:214).
ChildErrorNeverSuccess == resp = "success" => ~raised

\* "A malformed/additional control frame must not be hidden by a later EOF or
\* ordinary cancel event" (runtime.py:178): a cancellation response tells a
\* protocol error that was recorded when the action met the cancellation
\* (violated: the code raised is "cancelled", runtime.py:143, restic_engine.py:118).
ProtocolErrorTold ==
  observed = "protocol_error" /\ resp \in CancelCodes => resp = "protocol_error"

\* "TERM the one known child process group" (runtime.py:172), "Terminate only the
\* registered child group" (restic_engine.py:89): no signal of the helper reaches
\* a group of another program (violated: the signal follows the lock,
\* runtime.py:183-187).
SignalsOnlyChildren == ~strayed
=============================================================================
