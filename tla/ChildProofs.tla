---------------------------- MODULE ChildProofs ----------------------------
(* Theorems about ChildControl, for any number of commands and signals and  *)
(* every set of group ids.                                                  *)
EXTENDS ChildControl, TLAPS

----------------------------------------------------------------------------
(* The inductive invariant. *)

\* The registry holds the group of the current command from its registration
\* to its release, and nothing otherwise.
Registered ==
  /\ lock = "main" <=> pc = "registered"
  /\ pc \in Owning => active = pgid[cmd]
  /\ pc \notin Owning => active = NoPid

\* Commands are started one after the other, each in a group of its own.
Started ==
  /\ pc \in Owning \cup {"register", "rekill", "rereap"} => cmd # 0
  /\ \A c \in Commands : c > cmd => leader[c] = "none" /\ ~kin[c]
  /\ \A c \in Commands : c <= cmd => pgid[c] \in Pids

\* Only the current command runs, and only where the main thread waits for it;
\* what termination has done to it so far.
Running ==
  /\ \A c \in Commands : leader[c] = "running" =>
       c = cmd /\ pc \in {"register", "registered", "poll", "wait", "term", "grace"}
  /\ pc \in {"kill", "unregister"} => leader[cmd] = "reaped"
  /\ pc \in {"reap", "unregister"} => ~kin[cmd]

\* The groups that were ended are gone, and their numbers are behind.
Ended == \A c \in ended : c <= cmd /\ leader[c] = "reaped" /\ ~kin[c]

\* A signal is sent, or about to be, only under a cancellation that is still
\* recorded; a success was given in its absence.
Caused ==
  /\ signalled # {} \/ sig = "kill" \/ mon \in {"kill", "lastkill"} =>
       cancelled /\ pc # "reset"
  /\ pc \in {"reset", "request"} => mon = "off"
  /\ resp = "success" => pc \in {"close", "done"} /\ signalled = {}

IInv == TypeOK /\ Registered /\ Started /\ Running /\ Ended /\ Caused

----------------------------------------------------------------------------
(* Signals. *)

\* What SIGKILL does to the group of command c: no member is left, and nothing
\* is revived.
OnlyKilled(c) ==
  /\ leader' \in [Commands -> {"none", "running", "zombie", "reaped"}]
  /\ kin' \in [Commands -> BOOLEAN]
  /\ leader'[c] # "running" /\ ~kin'[c]
  /\ \A d \in Commands :
       /\ leader'[d] = "running" => leader[d] = "running"
       /\ leader[d] \in {"none", "reaped"} => leader'[d] = leader[d]
       /\ kin'[d] => kin[d]

\* os.killpg with SIGKILL has that effect.
LEMMA KillEffect ==
  ASSUME TypeOK, NEW c \in Commands, Kill(pgid[c])
  PROVE  OnlyKilled(c)
<1>1. leader' = [d \in Commands |->
                  IF d \in Group(pgid[c]) /\ leader[d] = "running" THEN "zombie" ELSE leader[d]]
  BY DEF Kill
<1>2. kin' = [d \in Commands |-> kin[d] /\ d \notin Group(pgid[c])]
  BY DEF Kill
<1>3. leader[c] = "running" \/ kin[c] => c \in Group(pgid[c])
  BY DEF Group
<1>4. kin' \in [Commands -> BOOLEAN]
  BY <1>2
<1>. QED BY <1>1, <1>2, <1>3, <1>4 DEF TypeOK, OnlyKilled

\* A signal of request_cancellation changes histories only, and the commands it
\* adds to signalled are running.
LEMMA SignalEffect ==
  ASSUME TypeOK, NEW p, SignalGroup(p)
  PROVE  /\ strayed' \in BOOLEAN
         /\ signalled' \subseteq Commands
         /\ signalled' \subseteq signalled \cup {c \in Commands : leader[c] = "running"}
         /\ UNCHANGED <<processes, ended, observed, raised>>
<1>1. strayed' \in BOOLEAN
  BY DEF SignalGroup, Term
<1>2. signalled' = signalled \cup {c \in Group(p) : leader[c] = "running"}
  BY DEF SignalGroup
<1>3. Group(p) \subseteq Commands
  BY DEF Group
<1>. QED BY <1>1, <1>2, <1>3 DEF TypeOK, SignalGroup, Term

----------------------------------------------------------------------------
(* Every step preserves the invariant. *)

\* Initially no child exists and the registry is empty.
LEMMA InitInv == Init => IInv
<1>. SUFFICES ASSUME Init PROVE IInv
  OBVIOUS
<1>1. /\ cancelled \in BOOLEAN /\ seen \in BOOLEAN /\ raised \in BOOLEAN /\ strayed \in BOOLEAN
      /\ kin \in [Commands -> BOOLEAN]
  BY DEF Init
<1>2. TypeOK
  BY <1>1, ChildAssumption DEF Init, TypeOK, Places, Kinds, CancelCodes, Commands
<1>3. Registered /\ Started /\ Running /\ Ended /\ Caused
  BY ChildAssumption DEF Init, Registered, Started, Running, Ended, Caused, Owning, Commands
<1>. QED BY <1>2, <1>3 DEF IInv

\* The steps of the main thread.
LEMMA MainStep == IInv /\ Main => IInv'
<1>. SUFFICES ASSUME IInv, Main PROVE IInv'
  OBVIOUS
<1>. USE ChildAssumption DEF IInv, TypeOK, Registered, Started, Running, Ended, Caused,
       Owning, Places, Commands, Goto, At, registry, action, handler, monitor, processes,
       history
<1>1. CASE ResetCancellation
  <2>1. TypeOK'
    <3>1. cancelled' \in BOOLEAN
      BY <1>1 DEF ResetCancellation
    <3>. QED BY <1>1, <3>1 DEF Kinds, CancelCodes, ResetCancellation
  <2>2. Registered' /\ Started' /\ Running' /\ Ended' /\ Caused'
    BY <1>1 DEF CancelCodes, ResetCancellation
  <2>. QED BY <2>1, <2>2
<1>2. CASE StartMonitor
  <2>1. TypeOK'
    BY <1>2 DEF Kinds, CancelCodes, StartMonitor
  <2>2. Registered' /\ Started' /\ Running' /\ Ended' /\ Caused'
    BY <1>2 DEF CancelCodes, StartMonitor
  <2>. QED BY <2>1, <2>2
<1>3. CASE EnterHandler
  <2>1. TypeOK'
    BY <1>3 DEF Kinds, CancelCodes, EnterHandler
  <2>2. Registered' /\ Started' /\ Running' /\ Ended' /\ Caused'
    BY <1>3 DEF CancelCodes, EnterHandler
  <2>. QED BY <2>1, <2>2
<1>4. CASE Checkpoint
  <2>1. TypeOK'
    BY <1>4 DEF Kinds, CancelCodes, Checkpoint, Observe, Respond
  <2>2. Registered' /\ Started' /\ Running' /\ Ended' /\ Caused'
    BY <1>4 DEF CancelCodes, Checkpoint, Observe, Respond
  <2>. QED BY <2>1, <2>2
<1>5. CASE HandlerFails
  <2>1. TypeOK'
    BY <1>5 DEF Kinds, CancelCodes, HandlerFails, Respond
  <2>2. Registered' /\ Started' /\ Running' /\ Ended' /\ Caused'
    BY <1>5 DEF CancelCodes, HandlerFails, Respond
  <2>. QED BY <2>1, <2>2
<1>6. CASE HandlerReturns
  <2>1. TypeOK'
    BY <1>6 DEF Kinds, CancelCodes, HandlerReturns
  <2>2. Registered' /\ Started' /\ Running' /\ Ended' /\ Caused'
    BY <1>6 DEF CancelCodes, HandlerReturns
  <2>. QED BY <2>1, <2>2
<1>7. CASE Succeed
  <2>1. TypeOK'
    BY <1>7 DEF Kinds, CancelCodes, Succeed, Respond
  <2>2. Registered' /\ Started' /\ Running' /\ Ended' /\ Caused'
    BY <1>7 DEF CancelCodes, Succeed, Respond
  <2>. QED BY <2>1, <2>2
<1>8. CASE Launch
  <2>1. TypeOK'
    BY <1>8 DEF Kinds, CancelCodes, Group, Unused, Launch
  <2>2. Registered' /\ Started' /\ Running' /\ Ended' /\ Caused'
    BY <1>8 DEF CancelCodes, Group, Unused, Launch
  <2>. QED BY <2>1, <2>2
<1>9. CASE RegisterClaim
  <2>1. TypeOK'
    BY <1>9 DEF Kinds, CancelCodes, RegisterClaim
  <2>2. Registered' /\ Started' /\ Running' /\ Ended' /\ Caused'
    BY <1>9 DEF CancelCodes, RegisterClaim
  <2>. QED BY <2>1, <2>2
<1>10. CASE RegisterCheck
  <2>1. TypeOK'
    BY <1>10 DEF Kinds, CancelCodes, RegisterCheck, Observe, EndChild
  <2>2. Registered' /\ Started' /\ Running' /\ Ended' /\ Caused'
    BY <1>10 DEF CancelCodes, RegisterCheck, Observe, EndChild
  <2>. QED BY <2>1, <2>2
<1>11. CASE MeetCancellation
  <2>1. TypeOK'
    BY <1>11 DEF Kinds, CancelCodes, MeetCancellation, Observe, EndChild
  <2>2. Registered' /\ Started' /\ Running' /\ Ended' /\ Caused'
    BY <1>11 DEF CancelCodes, MeetCancellation, Observe, EndChild
  <2>. QED BY <2>1, <2>2
<1>12. CASE PollPasses
  <2>1. TypeOK'
    BY <1>12 DEF Kinds, CancelCodes, PollPasses
  <2>2. Registered' /\ Started' /\ Running' /\ Ended' /\ Caused'
    BY <1>12 DEF CancelCodes, PollPasses
  <2>. QED BY <2>1, <2>2
<1>13. CASE WaitDeadline
  <2>1. TypeOK'
    BY <1>13 DEF Kinds, CancelCodes, WaitDeadline, EndChild
  <2>2. Registered' /\ Started' /\ Running' /\ Ended' /\ Caused'
    BY <1>13 DEF CancelCodes, WaitDeadline, EndChild
  <2>. QED BY <2>1, <2>2
<1>14. CASE WaitExpires
  <2>1. TypeOK'
    BY <1>14 DEF Kinds, CancelCodes, WaitExpires
  <2>2. Registered' /\ Started' /\ Running' /\ Ended' /\ Caused'
    BY <1>14 DEF CancelCodes, WaitExpires
  <2>. QED BY <2>1, <2>2
<1>15. CASE WaitReturns
  <2>1. TypeOK'
    BY <1>15 DEF Kinds, CancelCodes, WaitReturns, Reap
  <2>2. Registered' /\ Started' /\ Running' /\ Ended' /\ Caused'
    BY <1>15 DEF CancelCodes, WaitReturns, Reap
  <2>. QED BY <2>1, <2>2
<1>16. CASE CommandReturns
  <2>1. TypeOK'
    BY <1>16 DEF Kinds, CancelCodes, CommandReturns
  <2>2. Registered' /\ Started' /\ Running' /\ Ended' /\ Caused'
    BY <1>16 DEF CancelCodes, CommandReturns
  <2>. QED BY <2>1, <2>2
<1>17. CASE TerminateTerm
  <2>1. TypeOK'
    BY <1>17 DEF Kinds, CancelCodes, TerminateTerm, Term
  <2>2. Registered' /\ Started' /\ Running' /\ Ended' /\ Caused'
    BY <1>17 DEF CancelCodes, TerminateTerm, Term
  <2>. QED BY <2>1, <2>2
<1>18. CASE GraceReaps
  <2>1. TypeOK'
    BY <1>18 DEF Kinds, CancelCodes, GraceReaps, Reap
  <2>2. Registered' /\ Started' /\ Running' /\ Ended' /\ Caused'
    BY <1>18 DEF CancelCodes, GraceReaps, Reap
  <2>. QED BY <2>1, <2>2
<1>19. CASE TerminateKin
  <2>1. cmd \in Commands /\ Kill(pgid[cmd])
    BY <1>19 DEF TerminateKin
  <2>2. OnlyKilled(cmd)
    BY <2>1, KillEffect
  <2>3. strayed' \in BOOLEAN /\ UNCHANGED <<pgid, foreign>>
    BY <2>1 DEF Kill
  <2>4. TypeOK'
    BY <1>19, <2>2, <2>3 DEF OnlyKilled, Kinds, CancelCodes, TerminateKin
  <2>5. Registered' /\ Started' /\ Running' /\ Ended' /\ Caused'
    BY <1>19, <2>2, <2>3 DEF OnlyKilled, TerminateKin
  <2>. QED BY <2>4, <2>5
<1>20. CASE GraceExpires
  <2>1. cmd \in Commands /\ Kill(pgid[cmd])
    BY <1>20 DEF GraceExpires
  <2>2. OnlyKilled(cmd)
    BY <2>1, KillEffect
  <2>3. strayed' \in BOOLEAN /\ UNCHANGED <<pgid, foreign>>
    BY <2>1 DEF Kill
  <2>4. TypeOK'
    BY <1>20, <2>2, <2>3 DEF OnlyKilled, Kinds, CancelCodes, GraceExpires
  <2>5. Registered' /\ Started' /\ Running' /\ Ended' /\ Caused'
    BY <1>20, <2>2, <2>3 DEF OnlyKilled, GraceExpires
  <2>. QED BY <2>4, <2>5
<1>21. CASE KilledReaped
  <2>1. TypeOK'
    BY <1>21 DEF Kinds, CancelCodes, KilledReaped, Reap
  <2>2. Registered' /\ Started' /\ Running' /\ Ended' /\ Caused'
    BY <1>21 DEF CancelCodes, KilledReaped, Reap
  <2>. QED BY <2>1, <2>2
<1>22. CASE Unregister
  <2>1. TypeOK'
    BY <1>22 DEF Kinds, CancelCodes, Unregister
  <2>2. Registered' /\ Started' /\ Running' /\ Ended' /\ Caused'
    BY <1>22 DEF CancelCodes, Unregister
  <2>. QED BY <2>1, <2>2
<1>23. CASE Rekill
  <2>1. cmd \in Commands /\ Kill(pgid[cmd])
    BY <1>23 DEF Rekill
  <2>2. OnlyKilled(cmd)
    BY <2>1, KillEffect
  <2>3. strayed' \in BOOLEAN /\ UNCHANGED <<pgid, foreign>>
    BY <2>1 DEF Kill
  <2>4. TypeOK'
    BY <1>23, <2>2, <2>3 DEF OnlyKilled, Kinds, CancelCodes, Rekill
  <2>5. Registered' /\ Started' /\ Running' /\ Ended' /\ Caused'
    BY <1>23, <2>2, <2>3 DEF OnlyKilled, Rekill
  <2>. QED BY <2>4, <2>5
<1>24. CASE RekilledReaped
  <2>1. TypeOK'
    BY <1>24 DEF Kinds, CancelCodes, RekilledReaped, Reap
  <2>2. Registered' /\ Started' /\ Running' /\ Ended' /\ Caused'
    BY <1>24 DEF CancelCodes, RekilledReaped, Reap
  <2>. QED BY <2>1, <2>2
<1>25. CASE Raise
  <2>1. TypeOK'
    BY <1>25 DEF Kinds, CancelCodes, Raise, Respond
  <2>2. Registered' /\ Started' /\ Running' /\ Ended' /\ Caused'
    BY <1>25 DEF CancelCodes, Raise, Respond
  <2>. QED BY <2>1, <2>2
<1>26. CASE CloseMonitor
  <2>1. TypeOK'
    BY <1>26 DEF Kinds, CancelCodes, CloseMonitor
  <2>2. Registered' /\ Started' /\ Running' /\ Ended' /\ Caused'
    BY <1>26 DEF CancelCodes, CloseMonitor
  <2>. QED BY <2>1, <2>2
<1>27. CASE CheckpointRaises
  <2>1. TypeOK'
    BY <1>27 DEF Kinds, CancelCodes, CheckpointRaises, Observe, Reap
  <2>2. Registered' /\ Started' /\ Running' /\ Ended' /\ Caused'
    BY <1>27 DEF CancelCodes, CheckpointRaises, Observe, Reap
  <2>. QED BY <2>1, <2>2
<1>28. CASE Release
  <2>1. TypeOK'
    BY <1>28 DEF Kinds, CancelCodes, Release
  <2>2. Registered' /\ Started' /\ Running' /\ Ended' /\ Caused'
    BY <1>28 DEF CancelCodes, Release
  <2>. QED BY <2>1, <2>2
<1>. QED BY <1>1, <1>2, <1>3, <1>4, <1>5, <1>6, <1>7, <1>8, <1>9, <1>10, <1>11, <1>12, <1>13,
           <1>14, <1>15, <1>16, <1>17, <1>18, <1>19, <1>20, <1>21, <1>22, <1>23, <1>24, <1>25, <1>26,
           <1>27, <1>28 DEF Main

\* The signal handler.
LEMMA SignalsStep == IInv /\ Signals => IInv'
<1>. SUFFICES ASSUME IInv, Signals PROVE IInv'
  OBVIOUS
<1>. USE ChildAssumption DEF IInv, TypeOK, Registered, Started, Running, Ended, Caused,
       Owning, Places, Commands, Goto, At, registry, action, handler, monitor, processes,
       history
<1>1. CASE SignalArrives
  <2>1. TypeOK'
    BY <1>1 DEF Kinds, CancelCodes, SignalArrives
  <2>2. Registered' /\ Started' /\ Running' /\ Ended' /\ Caused'
    BY <1>1 DEF CancelCodes, SignalArrives
  <2>. QED BY <2>1, <2>2
<1>2. CASE HandlerRequests
  <2>1. TypeOK'
    BY <1>2 DEF Kinds, CancelCodes, HandlerRequests, RequestCancellation
  <2>2. Registered' /\ Started' /\ Running' /\ Ended' /\ Caused'
    BY <1>2 DEF CancelCodes, HandlerRequests, RequestCancellation
  <2>. QED BY <2>1, <2>2
<1>3. CASE HandlerKills
  <2>1. /\ strayed' \in BOOLEAN
        /\ signalled' \subseteq Commands
        /\ signalled' \subseteq signalled \cup {c \in Commands : leader[c] = "running"}
        /\ UNCHANGED <<processes, ended, observed, raised>>
    BY <1>3, SignalEffect DEF HandlerKills
  <2>2. TypeOK'
    BY <1>3, <2>1 DEF HandlerKills
  <2>3. Registered' /\ Started' /\ Running' /\ Ended' /\ Caused'
    BY <1>3, <2>1 DEF HandlerKills
  <2>. QED BY <2>2, <2>3
<1>. QED BY <1>1, <1>2, <1>3 DEF Signals

\* The monitor.
LEMMA MonitorStep == IInv /\ Monitor => IInv'
<1>. SUFFICES ASSUME IInv, Monitor PROVE IInv'
  OBVIOUS
<1>. USE ChildAssumption DEF IInv, TypeOK, Registered, Started, Running, Ended, Caused,
       Owning, Places, Commands, Goto, At, registry, action, handler, monitor, processes,
       history
<1>1. CASE MonitorFrame
  <2>1. TypeOK'
    BY <1>1 DEF Kinds, CancelCodes, MonitorFrame, MonitorRequests, RequestCancellation
  <2>2. Registered' /\ Started' /\ Running' /\ Ended' /\ Caused'
    BY <1>1 DEF CancelCodes, MonitorFrame, MonitorRequests, RequestCancellation
  <2>. QED BY <2>1, <2>2
<1>2. CASE MonitorRejects
  <2>1. TypeOK'
    <3>1. cancelled' \in BOOLEAN /\ seen' \in BOOLEAN
      BY <1>2 DEF MonitorRejects, MonitorRequests, RequestCancellation
    <3>. QED BY <1>2, <3>1 DEF Kinds, CancelCodes, MonitorRejects, MonitorRequests, RequestCancellation
  <2>2. Registered' /\ Started' /\ Running' /\ Ended' /\ Caused'
    BY <1>2 DEF CancelCodes, MonitorRejects, MonitorRequests, RequestCancellation
  <2>. QED BY <2>1, <2>2
<1>3. CASE MonitorEof
  <2>1. TypeOK'
    BY <1>3 DEF Kinds, CancelCodes, MonitorEof, MonitorRequests, RequestCancellation
  <2>2. Registered' /\ Started' /\ Running' /\ Ended' /\ Caused'
    BY <1>3 DEF CancelCodes, MonitorEof, MonitorRequests, RequestCancellation
  <2>. QED BY <2>1, <2>2
<1>4. CASE MonitorDeadline
  <2>1. TypeOK'
    BY <1>4 DEF Kinds, CancelCodes, MonitorDeadline, MonitorRequests, RequestCancellation
  <2>2. Registered' /\ Started' /\ Running' /\ Ended' /\ Caused'
    BY <1>4 DEF CancelCodes, MonitorDeadline, MonitorRequests, RequestCancellation
  <2>. QED BY <2>1, <2>2
<1>5. CASE MonitorKills
  <2>1. /\ strayed' \in BOOLEAN
        /\ signalled' \subseteq Commands
        /\ signalled' \subseteq signalled \cup {c \in Commands : leader[c] = "running"}
        /\ UNCHANGED <<processes, ended, observed, raised>>
    BY <1>5, SignalEffect DEF MonitorKills
  <2>2. TypeOK'
    BY <1>5, <2>1 DEF MonitorKills
  <2>3. Registered' /\ Started' /\ Running' /\ Ended' /\ Caused'
    BY <1>5, <2>1 DEF MonitorKills
  <2>. QED BY <2>2, <2>3
<1>. QED BY <1>1, <1>2, <1>3, <1>4, <1>5 DEF Monitor

\* Processes that end, and other programs.
LEMMA EnvironmentStep == IInv /\ Environment => IInv'
<1>. SUFFICES ASSUME IInv, Environment PROVE IInv'
  OBVIOUS
<1>. USE ChildAssumption DEF IInv, TypeOK, Registered, Started, Running, Ended, Caused,
       Owning, Places, Commands, registry, action, handler, monitor, history
<1>1. ASSUME NEW c \in Commands, LeaderEnds(c) PROVE IInv'
  BY <1>1 DEF LeaderEnds
<1>2. ASSUME NEW c \in Commands, KinEnd(c) PROVE IInv'
  BY <1>2 DEF KinEnd
<1>3. CASE ForeignChanges
  BY <1>3 DEF ForeignChanges
<1>. QED BY <1>1, <1>2, <1>3 DEF Environment

\* IInv is inductive.
LEMMA StepInv == IInv /\ [Next]_vars => IInv'
<1>1. UNCHANGED vars /\ IInv => IInv'
  BY DEF vars, IInv, TypeOK, Registered, Started, Running, Ended, Caused, Group, registry,
         action, handler, monitor, processes, history
<1>. QED BY <1>1, MainStep, SignalsStep, MonitorStep, EnvironmentStep DEF Next, Stopped

\* So it always holds.
LEMMA Inductive == Spec => []IInv
  BY InitInv, StepInv, PTL DEF Spec

----------------------------------------------------------------------------
(* What it says. *)

\* Every variable of the model of runtime.py's child registry has its type.
THEOREM ChildTypeCorrect == Spec => []TypeOK
<1>1. IInv => TypeOK
  BY DEF IInv
<1>. QED BY <1>1, Inductive, PTL

\* A cancellation finds the running child in the registry, except in the
\* window that register_child_group makes up for; a registration never finds
\* another child active.
THEOREM CancellationMissesNoChild == Spec => []RunningIsRegistered
<1>1. IInv => RunningIsRegistered
  BY DEF IInv, TypeOK, Registered, Started, Running, RunningIsRegistered, Owning, Commands
<1>. QED BY <1>1, Inductive, PTL

\* _terminate_child and its two siblings leave no process of the group behind.
THEOREM TerminationIsComplete == Spec => []EndedGroupsAreGone
<1>1. IInv => EndedGroupsAreGone
  BY DEF IInv, Ended, EndedGroupsAreGone
<1>. QED BY <1>1, Inductive, PTL

\* handle_fixed_request never reports success for an action in which a
\* cancellation signalled a running command.
THEOREM CancellationIsTold == Spec => []CutShortNeverSucceeds
<1>1. IInv => CutShortNeverSucceeds
  BY DEF IInv, Caused, CutShortNeverSucceeds
<1>. QED BY <1>1, Inductive, PTL
=============================================================================
