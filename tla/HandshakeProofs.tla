--------------------------- MODULE HandshakeProofs ---------------------------
(***************************************************************************)
(* Handshake for any number of pages and any pipe: the types, one reader   *)
(* at a time, and a SIGTERM that is not forgotten.                         *)
(***************************************************************************)
EXTENDS Handshake, SequenceTheorems, TLAPS

-----------------------------------------------------------------------------
(* The inductive invariant *)

Codes == {"none", "cancelled", "timeout", "protocol_error", "failed"}
Frames == {"ready", "page", "done", "navigation-ready", "error"} \X Codes
Phases == {"auth", "provision", "ready", "waiting", "plan", "planned", "session", "failing", "ended"}
MainPlaces == {"claim", "read", "finalize", "window", "closing", "waiting", "draining", "leaving", "over"}
WorkerPlaces == {"none", "start", "claim", "read", "finalize", "over"}

HelperTyped ==
  /\ helper \in Phases /\ page \in 0..Pages
  /\ flag \in {"none", "cancelled", "timeout", "protocol_error"} /\ code \in Codes
  /\ signalled \in {"never", "before", "late"}

PipesTyped ==
  /\ toHelper \in Seq({"start", "cancel"})
  /\ toGui \in Seq(Frames) /\ Len(toGui) <= Capacity

GuiTyped ==
  /\ pc \in [Threads -> MainPlaces \cup WorkerPlaces]
  /\ pc["main"] \in MainPlaces /\ pc["worker"] \in WorkerPlaces
  /\ outcome \in [Threads -> {"none", "raise"}]
  /\ lock \in {"free", "main"} /\ reader \in Threads \cup {"none"}
  /\ parser \in {"nothing", "ready", "done", "navigation-ready"} /\ closed \in BOOLEAN
  /\ closed => helper = "ended"

WindowTyped ==
  /\ queue \in Seq({"page", "result", "error"})
  /\ flow \in {"pending", "success", "failed", "cancelled"}
  /\ then \in {"window", "leaving", "over"}

\* Who reads has claimed the reader, and a close keeps the lock while it waits or
\* reads itself, which it only does when no worker has the claim.
Claimed ==
  /\ \A t \in Threads : pc[t] \in {"read", "finalize"} => reader = t
  /\ pc["main"] \in {"waiting", "draining"} <=> lock = "main"
  /\ pc["main"] = "draining" => reader # "worker"

\* The flag a SIGTERM raised stays up.
Remembered == signalled = "before" => flag # "none" /\ helper # "session"

\* There is a window, and a worker, only after the ready frame.
Begun == parser = "nothing" => pc["worker"] = "none" /\ pc["main"] # "window" /\ then # "window"

IInv == HelperTyped /\ PipesTyped /\ GuiTyped /\ WindowTyped /\ Claimed /\ Begun /\ Remembered

LEMMA InitInv == Init => IInv
<1> SUFFICES ASSUME Init PROVE IInv
  OBVIOUS
<1> USE DEF Init
<1>1. HelperTyped
  BY HandshakeAssumption DEF HelperTyped, Phases, Codes
<1>2. PipesTyped
  BY HandshakeAssumption DEF PipesTyped
<1>3. GuiTyped
  BY DEF GuiTyped, Threads, MainPlaces, WorkerPlaces
<1>4. WindowTyped
  BY DEF WindowTyped
<1>5. Claimed /\ Begun /\ Remembered
  BY DEF Claimed, Begun, Remembered, Threads
<1> QED
  BY <1>1, <1>2, <1>3, <1>4, <1>5 DEF IInv

-----------------------------------------------------------------------------
(* The pipes *)

\* A frame the helper sends keeps the pipe typed and within its capacity.
LEMMA SendsTyped ==
  ASSUME PipesTyped, NEW f \in Frames, Sends(f)
  PROVE toGui' \in Seq(Frames) /\ Len(toGui') <= Capacity
<1>1. Len(toGui') = Len(toGui) + 1 /\ toGui' \in Seq(Frames)
  BY AppendProperties DEF PipesTyped, Sends
<1>2. Len(toGui) \in Nat /\ Len(toGui) # Capacity
  BY LenProperties DEF PipesTyped, Sends, Full
<1> QED
  BY <1>1, <1>2, HandshakeAssumption DEF PipesTyped

\* What is taken from a pipe is one of its frames, and the rest stays one.
LEMMA TailTyped ==
  ASSUME NEW S, NEW s \in Seq(S), s # <<>>
  PROVE Head(s) \in S /\ Tail(s) \in Seq(S) /\ Len(Tail(s)) <= Len(s) /\ Len(s) \in Nat
BY HeadTailProperties, LenProperties

LEMMA FramesAre ==
  /\ \A k \in {"ready", "page", "done", "navigation-ready", "error"} : Frame(k) \in Frames
  /\ \A c \in Codes : Error(c) \in Frames
BY DEF Frames, Frame, Error, Codes

-----------------------------------------------------------------------------
(* The helper: the GUI stays as it is, and so does whom the reader belongs to *)

LEMMA GuiStays ==
  ASSUME IInv, Gui, helper = "ended" => helper' = "ended"
  PROVE GuiTyped' /\ WindowTyped' /\ Claimed' /\ Begun'
<1> USE DEF Gui, session, window
<1>1. GuiTyped'
  BY DEF IInv, GuiTyped
<1>2. WindowTyped'
  BY DEF IInv, WindowTyped
<1>3. Claimed'
  BY DEF IInv, Claimed
<1>4. Begun'
  BY DEF IInv, Begun
<1> QED
  BY <1>1, <1>2, <1>3, <1>4

LEMMA HelperInv == ASSUME IInv, Authorize \/ HelperStep \/ Deadline \/ Terminate \/ Die PROVE IInv'
<1> USE DEF Becomes, Fails
<1>1. Gui /\ (helper = "ended" => helper' = "ended")
  BY DEF HelperStep, Authorize, Observe, Provision, SendReady, AwaitStart, SendPage, PlanFails,
    SendDone, SendNavigation, SessionEnds, SendTerminal, Deadline, Terminate, Die, Alive, process
<1>2. HelperTyped'
  <2> USE DEF IInv, HelperTyped, Phases, Codes
  <2>1. CASE Observe \/ Deadline \/ Terminate
    BY <2>1 DEF Observe, Deadline, Terminate, Raised
  <2>2. CASE Authorize \/ Provision \/ AwaitStart \/ PlanFails \/ SessionEnds \/ Die
    BY <2>2 DEF Authorize, Provision, AwaitStart, PlanFails, SessionEnds, Die
  <2>3. CASE SendReady \/ SendPage \/ SendDone \/ SendNavigation \/ SendTerminal
    BY <2>3, HandshakeAssumption DEF SendReady, SendPage, SendDone, SendNavigation, SendTerminal
  <2> QED
    BY <1>1, <2>1, <2>2, <2>3 DEF HelperStep
<1>3. PipesTyped'
  <2>1. CASE UNCHANGED <<toHelper, toGui>>
    BY <2>1 DEF IInv, PipesTyped
  <2>2. CASE toHelper # <<>> /\ toHelper' = Tail(toHelper) /\ UNCHANGED toGui
    BY <2>2, TailTyped DEF IInv, PipesTyped
  <2>3. CASE (\E f \in Frames : Sends(f)) /\ UNCHANGED toHelper
    BY <2>3, SendsTyped DEF IInv, PipesTyped
  <2>4. (SendReady \/ SendPage \/ SendDone \/ SendNavigation \/ SendTerminal)
          => UNCHANGED toHelper /\ (UNCHANGED toGui \/ \E f \in Frames : Sends(f))
    BY FramesAre DEF SendReady, SendPage, SendDone, SendNavigation, SendTerminal, IInv, HelperTyped
  <2> QED
    BY <2>1, <2>2, <2>3, <2>4 DEF HelperStep, Authorize, Observe, Provision, AwaitStart, PlanFails,
      SessionEnds, Deadline, Terminate, Die, pipes
<1>4. Remembered'
  <2> USE DEF IInv, Remembered, HelperTyped
  <2>1. CASE Observe \/ Deadline \/ Terminate
    BY <2>1 DEF Observe, Deadline, Terminate, Raised
  <2>2. CASE Authorize \/ Provision \/ AwaitStart \/ PlanFails \/ SessionEnds \/ Die
    BY <2>2 DEF Authorize, Provision, AwaitStart, PlanFails, SessionEnds, Die
  <2>3. CASE SendReady \/ SendPage \/ SendDone \/ SendNavigation \/ SendTerminal
    BY <2>3 DEF SendReady, SendPage, SendDone, SendNavigation, SendTerminal
  <2> QED
    BY <2>1, <2>2, <2>3 DEF HelperStep
<1> QED
  BY <1>1, <1>2, <1>3, <1>4, GuiStays DEF IInv

-----------------------------------------------------------------------------
(* The GUI: the helper's state stays as it is *)

LEMMA HelperStays ==
  ASSUME IInv, UNCHANGED process
  PROVE HelperTyped' /\ Remembered'
BY DEF IInv, HelperTyped, Remembered, process

LEMMA PipesStay ==
  ASSUME IInv,
         UNCHANGED toHelper \/ (\E k \in {"start", "cancel"} : toHelper' = Append(toHelper, k)),
         UNCHANGED toGui \/ toGui' = <<>> \/ (toGui # <<>> /\ toGui' = Tail(toGui))
  PROVE PipesTyped'
<1>1. toHelper' \in Seq({"start", "cancel"})
  BY AppendProperties DEF IInv, PipesTyped
<1>2. toGui' \in Seq(Frames) /\ Len(toGui') <= Capacity
  <2>1. CASE UNCHANGED toGui
    BY <2>1 DEF IInv, PipesTyped
  <2>2. CASE toGui' = <<>>
    BY <2>2, HandshakeAssumption
  <2>3. CASE toGui # <<>> /\ toGui' = Tail(toGui)
    BY <2>3, TailTyped, LenProperties, HandshakeAssumption DEF IInv, PipesTyped
  <2> QED
    BY <2>1, <2>2, <2>3
<1> QED
  BY <1>1, <1>2 DEF PipesTyped

\* A signal more, or one less, keeps the queue typed.
LEMMA QueueStays ==
  ASSUME IInv,
         \/ UNCHANGED queue
         \/ queue' = <<>>
         \/ queue # <<>> /\ queue' = Tail(queue)
         \/ \E s \in {"page", "result", "error"} : queue' = Append(queue, s)
  PROVE queue' \in Seq({"page", "result", "error"})
<1> DEFINE S == {"page", "result", "error"}
<1>0. queue \in Seq(S)
  BY DEF IInv, WindowTyped
<1>1. CASE UNCHANGED queue
  BY <1>0, <1>1
<1>2. CASE queue' = <<>>
  BY <1>2
<1>3. CASE queue # <<>> /\ queue' = Tail(queue)
  <2> HIDE DEF S
  <2>1. queue' \in Seq(S)
    BY <1>0, <1>3, TailTyped
  <2> QED
    BY <2>1 DEF S
<1>4. CASE \E s \in S : queue' = Append(queue, s)
  BY <1>0, <1>4, AppendProperties
<1> QED
  BY <1>1, <1>2, <1>3, <1>4

\* What a thread that reads leaves: its own place, the queue, and where a close goes.
LEMMA FinishesTyped ==
  ASSUME IInv, NEW t \in Threads, NEW o \in {"none", "raise"}, Finishes(t, o), UNCHANGED flow
  PROVE /\ WindowTyped'
        /\ pc' \in [Threads -> MainPlaces \cup WorkerPlaces]
        /\ pc'["main"] \in MainPlaces /\ pc'["worker"] \in WorkerPlaces
        /\ \A u \in Threads \ {t} : pc'[u] = pc[u]
        /\ pc'[t] \in {"closing", "over"}
<1>1. queue' \in Seq({"page", "result", "error"})
  BY QueueStays DEF Finishes, Emits
<1>2. WindowTyped'
  BY <1>1 DEF IInv, WindowTyped, Finishes
<1> QED
  BY <1>2 DEF IInv, GuiTyped, Finishes, Threads, MainPlaces, WorkerPlaces

LEMMA StepTyped ==
  ASSUME IInv, NEW t \in Threads, NEW p \in {"claim", "read", "finalize"}, pc' = [pc EXCEPT ![t] = p]
  PROVE /\ pc' \in [Threads -> MainPlaces \cup WorkerPlaces]
        /\ pc'["main"] \in MainPlaces /\ pc'["worker"] \in WorkerPlaces
        /\ pc'[t] = p /\ \A u \in Threads \ {t} : pc'[u] = pc[u]
BY DEF IInv, GuiTyped, Threads, MainPlaces, WorkerPlaces

\* What a step of a reader of the process may do, the window and the pipes apart.
ReaderMoves(t) ==
  /\ UNCHANGED <<process, lock>>
  /\ pc' \in [Threads -> MainPlaces \cup WorkerPlaces]
  /\ pc'["main"] \in MainPlaces /\ pc'["worker"] \in WorkerPlaces
  /\ \A u \in Threads \ {t} : pc'[u] = pc[u]
  /\ pc[t] \notin {"none", "window", "waiting", "draining"}
  /\ pc'[t] \notin {"waiting", "draining"}
  /\ pc'[t] \in {"read", "finalize"} => reader' = t
  /\ reader' = reader \/ reader = t \/ (reader = "none" /\ lock = "free")
  /\ reader' \in {reader, t, "none"}
  /\ outcome' \in [Threads -> {"none", "raise"}]
  /\ closed' \in BOOLEAN /\ (closed' => helper = "ended")
  /\ parser' \in {"nothing", "ready", "done", "navigation-ready"}
  /\ parser' = "nothing" => parser = "nothing" /\ pc'[t] # "window"
  /\ then' \in {then, "over"}

LEMMA ReaderStays ==
  ASSUME IInv, NEW t \in Threads, ReaderMoves(t), WindowTyped', PipesTyped'
  PROVE IInv'
<1> USE DEF ReaderMoves
<1>1. GuiTyped'
  BY DEF IInv, GuiTyped, process, Threads
<1>2. Claimed'
  BY DEF IInv, Claimed, GuiTyped, Threads
<1>3. Begun'
  BY DEF IInv, Begun, Threads
<1> QED
  BY <1>1, <1>2, <1>3, HelperStays DEF IInv

LEMMA ClaimInv == ASSUME IInv, NEW t \in Threads, Claim(t) PROVE IInv'
<1>1. CASE reader \in {"none", t}
  <2>1. pc' = [pc EXCEPT ![t] = "read"] /\ reader' = t /\ lock = "free" /\ pc[t] = "claim"
        /\ UNCHANGED <<process, pipes, outcome, lock, parser, closed, queue, then, attached, connected, flow, failed>>
    BY <1>1 DEF Claim, Step, WindowRest
  <2>2. WindowTyped'
    BY <2>1 DEF IInv, WindowTyped
  <2>3. PipesTyped'
    BY <2>1, PipesStay DEF pipes
  <2>m. ReaderMoves(t)
    BY <1>1, <2>1, <2>2, <2>3, StepTyped DEF IInv, GuiTyped, ReaderMoves
  <2> QED
    BY <1>1, <2>1, <2>2, <2>3, <2>m, ReaderStays
<1>2. CASE reader \notin {"none", t}
  <2>1. Finishes(t, "raise") /\ lock = "free" /\ pc[t] = "claim"
        /\ UNCHANGED <<process, pipes, outcome, lock, reader, parser, closed, flow>>
    BY <1>2 DEF Claim, WindowRest
  <2>2. PipesTyped'
    BY <2>1, PipesStay DEF pipes
  <2>3. then' \in {then, "over"}
    BY <2>1 DEF Finishes
  <2>m. ReaderMoves(t)
    BY <2>1, <2>2, <2>3, FinishesTyped DEF IInv, GuiTyped, ReaderMoves
  <2> QED
    BY <2>1, <2>2, <2>3, FinishesTyped, <2>m, ReaderStays
<1> QED
  BY <1>1, <1>2

LEMMA FinalizesInv ==
  ASSUME IInv, NEW t \in Threads, NEW o \in {"none", "raise"}, Finalizes(t, o), WindowRest,
         pc[t] = "read", UNCHANGED <<process, lock, reader, parser, closed>>, PipesTyped'
  PROVE IInv'
<1>1. WindowTyped'
  BY DEF IInv, WindowTyped, WindowRest, Finalizes
<1>2. reader = t
  BY DEF IInv, Claimed
<1>3. pc' = [pc EXCEPT ![t] = "finalize"] /\ outcome' \in [Threads -> {"none", "raise"}] /\ then' = then
  BY DEF IInv, GuiTyped, Finalizes
<1>4. /\ pc' \in [Threads -> MainPlaces \cup WorkerPlaces]
      /\ pc'["main"] \in MainPlaces /\ pc'["worker"] \in WorkerPlaces
      /\ pc'[t] = "finalize" /\ \A u \in Threads \ {t} : pc'[u] = pc[u]
  BY <1>3, StepTyped
<1>5. /\ closed' \in BOOLEAN /\ (closed' => helper = "ended") /\ reader' = t
      /\ parser' = parser /\ parser' \in {"nothing", "ready", "done", "navigation-ready"}
  BY <1>2 DEF IInv, GuiTyped
<1>m. ReaderMoves(t)
  BY <1>1, <1>2, <1>3, <1>4, <1>5 DEF ReaderMoves
<1> QED
  BY <1>1, <1>2, <1>3, <1>4, <1>5, <1>m, ReaderStays

LEMMA FinishesInv ==
  ASSUME IInv, NEW t \in Threads, NEW o \in {"none", "raise"}, Finishes(t, o), UNCHANGED flow,
         pc[t] \in {"read", "finalize"}, reader' \in {reader, "none"},
         UNCHANGED <<process, lock, outcome>>,
         closed' \in BOOLEAN, closed' => helper = "ended",
         parser' \in {parser, "navigation-ready"}, PipesTyped'
  PROVE IInv'
<1>1. reader = t
  BY DEF IInv, Claimed
<1>2. then' \in {then, "over"}
  BY DEF Finishes
<1>3. parser' \in {"nothing", "ready", "done", "navigation-ready"} /\ outcome' \in [Threads -> {"none", "raise"}]
  BY DEF IInv, GuiTyped
<1>4. /\ WindowTyped'
      /\ pc' \in [Threads -> MainPlaces \cup WorkerPlaces]
      /\ pc'["main"] \in MainPlaces /\ pc'["worker"] \in WorkerPlaces
      /\ \A u \in Threads \ {t} : pc'[u] = pc[u]
      /\ pc'[t] \in {"closing", "over"}
  BY FinishesTyped
<1>m. ReaderMoves(t)
  BY <1>1, <1>2, <1>3, <1>4 DEF ReaderMoves
<1> QED
  BY <1>1, <1>2, <1>3, <1>4, <1>m, ReaderStays

LEMMA ReadInv == ASSUME IInv, NEW t \in Threads, Read(t) PROVE IInv'
<1> DEFINE f == Head(toGui)
<1>1. /\ pc[t] = "read" /\ toGui # <<>> /\ toGui' = Tail(toGui)
      /\ UNCHANGED <<process, toHelper, lock, closed, flow>> /\ WindowRest
  BY DEF Read, WindowRest
<1>2. PipesTyped'
  BY <1>1, PipesStay
<1>3. f \in Frames
  <2>1. toGui \in Seq(Frames)
    BY DEF IInv, PipesTyped
  <2> QED
    BY <1>1, <2>1, TailTyped
<1>4. reader = t
  BY <1>1 DEF IInv, Claimed
<1>5. CASE ~ Accepts(f)
  BY <1>1, <1>2, <1>5, FinalizesInv DEF Read
<1>6. CASE Accepts(f) /\ f[1] = "ready"
  <2>1. parser = "nothing" /\ parser' = "ready" /\ pc' = [pc EXCEPT ![t] = "window"] /\ reader' = "none"
        /\ UNCHANGED <<outcome, queue, then>>
    BY <1>6 DEF Read, Accepts, Accepted
  <2>2. t = "main"
    BY <1>1, <2>1 DEF IInv, Begun, Threads
  <2>3. WindowTyped'
    BY <1>1, <2>1 DEF IInv, WindowTyped, WindowRest
  <2>4. GuiTyped' /\ Claimed' /\ Begun'
    BY <1>1, <2>1, <2>2 DEF IInv, GuiTyped, Claimed, Begun, Threads, MainPlaces, process
  <2> QED
    BY <1>1, <1>2, <2>3, <2>4, HelperStays DEF IInv
<1>7. CASE Accepts(f) /\ f[1] \in {"page", "done"}
  <2>1. parser' \in {"ready", "done"} /\ pc' = [pc EXCEPT ![t] = "claim"]
        /\ (Emits("page") \/ UNCHANGED queue) /\ UNCHANGED <<outcome, reader, then>>
    BY <1>7 DEF Read, Accepted
  <2>2. queue' \in Seq({"page", "result", "error"})
    BY <2>1, QueueStays DEF Emits
  <2>3. WindowTyped'
    BY <1>1, <2>1, <2>2 DEF IInv, WindowTyped, WindowRest
  <2>4. /\ pc' \in [Threads -> MainPlaces \cup WorkerPlaces]
        /\ pc'["main"] \in MainPlaces /\ pc'["worker"] \in WorkerPlaces
        /\ pc'[t] = "claim" /\ \A u \in Threads \ {t} : pc'[u] = pc[u]
    BY <2>1, StepTyped
  <2>5. /\ closed' \in BOOLEAN /\ (closed' => helper = "ended") /\ reader' = t
        /\ outcome' \in [Threads -> {"none", "raise"}] /\ then' = then
        /\ parser' \in {"ready", "done"}
    BY <1>1, <1>4, <2>1 DEF IInv, GuiTyped
  <2>m. ReaderMoves(t)
    BY <1>1, <1>2, <1>4, <2>1, <2>3, <2>4, <2>5 DEF ReaderMoves
  <2> QED
    BY <1>1, <1>2, <1>4, <2>1, <2>3, <2>4, <2>5, <2>m, ReaderStays
<1>8. CASE Accepts(f) /\ f[1] = "navigation-ready"
  <2>1. Finishes(t, "none") /\ reader' = "none" /\ parser' = "navigation-ready" /\ UNCHANGED outcome
    BY <1>8 DEF Read, Accepted
  <2> QED
    BY <1>1, <1>2, <2>1, FinishesInv DEF IInv, GuiTyped
<1>9. CASE Accepts(f) /\ f[1] = "error"
  <2>1. parser' = "done" /\ UNCHANGED reader /\ \E o \in {"none", "raise"} : Finalizes(t, o)
    BY <1>9 DEF Read, Accepted
  <2>2. PICK o \in {"none", "raise"} : Finalizes(t, o)
    BY <2>1
  <2>3. WindowTyped'
    BY <1>1, <2>2 DEF IInv, WindowTyped, WindowRest, Finalizes
  <2>4. pc' = [pc EXCEPT ![t] = "finalize"] /\ outcome' \in [Threads -> {"none", "raise"}] /\ then' = then
    BY <2>2 DEF IInv, GuiTyped, Finalizes
  <2>5. /\ pc' \in [Threads -> MainPlaces \cup WorkerPlaces]
        /\ pc'["main"] \in MainPlaces /\ pc'["worker"] \in WorkerPlaces
        /\ pc'[t] = "finalize" /\ \A u \in Threads \ {t} : pc'[u] = pc[u]
    BY <2>4, StepTyped
  <2>6. /\ closed' \in BOOLEAN /\ (closed' => helper = "ended") /\ reader' = t
        /\ outcome' \in [Threads -> {"none", "raise"}] /\ then' = then
        /\ parser' \in {"ready", "done"}
    BY <1>1, <1>4, <2>1, <2>4 DEF IInv, GuiTyped
  <2>m. ReaderMoves(t)
    BY <1>1, <1>2, <1>4, <2>1, <2>3, <2>4, <2>5, <2>6 DEF ReaderMoves
  <2> QED
    BY <1>1, <1>2, <1>4, <2>1, <2>3, <2>4, <2>5, <2>6, <2>m, ReaderStays
<1>10. f[1] \in {"ready", "page", "done", "navigation-ready", "error"}
  BY <1>3 DEF Frames
<1> QED
  BY <1>5, <1>6, <1>7, <1>8, <1>9, <1>10

LEMMA ThreadInv == ASSUME IInv, NEW t \in Threads, ThreadStep(t) PROVE IInv'
<1>1. CASE ReadNothing(t)
  <2>1. /\ pc[t] = "read" /\ UNCHANGED <<process, toHelper, toGui, lock, reader, parser, closed>> /\ WindowRest
        /\ \E o \in {"none", "raise"} : Finalizes(t, o)
    BY <1>1 DEF ReadNothing
  <2> QED
    BY <2>1, PipesStay, FinalizesInv
<1>2. CASE ReadClosed(t)
  <2>1. /\ pc[t] = "read" /\ UNCHANGED <<process, pipes, session, flow>> /\ Finishes(t, "none")
    BY <1>2 DEF ReadClosed, WindowRest
  <2>2. PipesTyped'
    BY <2>1, PipesStay DEF pipes
  <2> QED
    BY <2>1, <2>2, FinishesInv DEF IInv, GuiTyped, session
<1>3. CASE Finalize(t)
  <2>1. /\ pc[t] = "finalize" /\ helper = "ended" /\ closed' = TRUE /\ Finishes(t, outcome[t])
        /\ UNCHANGED <<process, pipes, outcome, lock, reader, parser, flow>>
    BY <1>3 DEF Finalize, WindowRest
  <2>2. PipesTyped' /\ outcome[t] \in {"none", "raise"}
    BY <2>1, PipesStay DEF pipes, IInv, GuiTyped
  <2> QED
    BY <2>1, <2>2, FinishesInv
<1>4. CASE FinalizeExpires(t)
  <2>1. /\ pc[t] = "finalize" /\ Finishes(t, "raise")
        /\ UNCHANGED <<process, pipes, session, flow>>
    BY <1>4 DEF FinalizeExpires
  <2>2. PipesTyped'
    BY <2>1, PipesStay DEF pipes
  <2> QED
    BY <2>1, <2>2, FinishesInv DEF IInv, GuiTyped, session
<1> QED
  BY <1>1, <1>2, <1>3, <1>4, ClaimInv, ReadInv DEF ThreadStep

LEMMA StartInv == ASSUME IInv, Start PROVE IInv'
<1>1. pc["worker"] = "start" /\ UNCHANGED <<process, session, flow>> /\ WindowRest
  BY DEF Start, WindowRest
<1>2. PipesTyped'
  BY PipesStay DEF Start
<1>3. CASE Finishes("worker", "raise")
  <2>1. ReaderMoves("worker")
    BY <1>1, <1>3, FinishesTyped DEF IInv, GuiTyped, ReaderMoves, session, Threads, Finishes
  <2> QED
    BY <1>1, <1>2, <1>3, <2>1, FinishesTyped, ReaderStays DEF Threads
<1>4. CASE pc' = [pc EXCEPT !["worker"] = "claim"] /\ UNCHANGED <<queue, then>>
  <2>1. ReaderMoves("worker")
    BY <1>1, <1>4, StepTyped DEF IInv, GuiTyped, ReaderMoves, session, Threads
  <2>2. WindowTyped'
    BY <1>1, <1>4 DEF IInv, WindowTyped, WindowRest
  <2> QED
    BY <1>2, <2>1, <2>2, ReaderStays DEF Threads
<1> QED
  BY <1>3, <1>4 DEF Start, Step

-----------------------------------------------------------------------------
(* The main thread: the worker's place and what it reads stay as they are *)

\* What a step of the main thread may do, outside of reading.
MainMoves ==
  /\ UNCHANGED <<process, outcome, reader, parser>>
  /\ pc' = [pc EXCEPT !["main"] = pc'["main"]]
  /\ pc["main"] \notin {"read", "finalize"}
  /\ pc'["main"] \in MainPlaces \ {"read", "finalize"}
  /\ lock' \in {"free", "main"}
  /\ pc'["main"] \in {"waiting", "draining"} <=> lock' = "main"
  /\ pc'["main"] = "draining" => reader # "worker"
  /\ closed' \in BOOLEAN /\ (closed' => helper = "ended")
  /\ pc'["main"] = "window" => "window" \in {pc["main"], then}
  /\ then' = "window" => "window" \in {pc["main"], then}

LEMMA MainStays ==
  ASSUME IInv, MainMoves, WindowTyped', PipesTyped'
  PROVE IInv'
<1> USE DEF MainMoves
<1>1. /\ pc' \in [Threads -> MainPlaces \cup WorkerPlaces]
      /\ pc'["main"] \in MainPlaces /\ pc'["worker"] \in WorkerPlaces
      /\ pc'["worker"] = pc["worker"]
  BY DEF IInv, GuiTyped, Threads
<1>2. GuiTyped'
  BY <1>1 DEF IInv, GuiTyped, process
<1>3. Claimed'
  BY <1>1 DEF IInv, Claimed, GuiTyped, Threads
<1>4. Begun'
  BY <1>1 DEF IInv, Begun
<1> QED
  BY <1>2, <1>3, <1>4, HelperStays DEF IInv

\* A place the main thread is sent to is the place it has then.
LEMMA MainAt ==
  ASSUME IInv, NEW p, pc' = [pc EXCEPT !["main"] = p]
  PROVE pc'["main"] = p /\ pc' = [pc EXCEPT !["main"] = pc'["main"]]
BY DEF IInv, GuiTyped, Threads

LEMMA CloseInv == ASSUME IInv, CloseStep PROVE IInv'
<1>0. /\ then \in {"window", "leaving", "over"} /\ closed \in BOOLEAN /\ lock \in {"free", "main"}
      /\ (closed => helper = "ended")
      /\ (pc["main"] \in {"waiting", "draining"} <=> lock = "main")
      /\ pc["main"] = "draining" => reader # "worker"
  BY DEF IInv, WindowTyped, GuiTyped, Claimed
<1>1. CASE CloseDone
  <2>1. MainMoves
    BY <1>0, <1>1, MainAt DEF CloseDone, GoesOn, MainMoves, MainPlaces, session, window
  <2>2. WindowTyped' /\ PipesTyped'
    BY <1>1, PipesStay DEF CloseDone, pipes, window, IInv, WindowTyped
  <2> QED
    BY <2>1, <2>2, MainStays
<1>2. CASE CloseBegins
  <2>1. MainMoves
    <3>1. CASE ~ stdinOpen /\ helper # "ended"
      BY <1>0, <1>2, <3>1, MainAt DEF CloseBegins, GoesOn, MainMoves, MainPlaces
    <3>2. CASE ~ (~ stdinOpen /\ helper # "ended")
      <4>1. pc' = [pc EXCEPT !["main"] = IF reader = "worker" THEN "waiting" ELSE "draining"]
        BY <1>2, <3>2 DEF CloseBegins
      <4>2. pc'["main"] = IF reader = "worker" THEN "waiting" ELSE "draining"
        BY <4>1, MainAt
      <4> QED
        BY <1>0, <1>2, <3>2, <4>1, <4>2, MainAt DEF CloseBegins, MainMoves, MainPlaces
    <3> QED
      BY <3>1, <3>2
  <2>2. PipesTyped'
    BY <1>2, PipesStay DEF CloseBegins, pipes
  <2>3. WindowTyped'
    BY <1>2 DEF CloseBegins, IInv, WindowTyped
  <2> QED
    BY <2>1, <2>2, <2>3, MainStays
<1>3. CASE CloseWaits \/ CloseGivesUp \/ CloseExpires
  <2>1. /\ pc["main"] \in {"waiting", "draining"} /\ pc' = [pc EXCEPT !["main"] = then]
        /\ lock' = "free" /\ UNCHANGED <<process, outcome, reader, parser, closed, then>>
    BY <1>3 DEF CloseWaits, CloseGivesUp, CloseExpires, GoesOn, window
  <2>4. pc'["main"] = then /\ pc' = [pc EXCEPT !["main"] = pc'["main"]]
    BY <2>1, MainAt
  <2>5. MainMoves
    BY <1>0, <2>1, <2>4 DEF MainMoves, MainPlaces
  <2>2. WindowTyped' /\ PipesTyped'
    BY <1>3, PipesStay DEF CloseWaits, CloseGivesUp, CloseExpires, pipes, window, IInv, WindowTyped
  <2> QED
    BY <2>2, <2>5, MainStays
<1>4. CASE CloseDrains
  <2>1. MainMoves
    <3>1. CASE helper = "ended"
      <4>1. /\ pc["main"] = "draining" /\ pc' = [pc EXCEPT !["main"] = then] /\ lock' = "free"
            /\ closed' = TRUE /\ UNCHANGED <<process, outcome, reader, parser, then>>
        BY <1>4, <3>1 DEF CloseDrains, GoesOn, window
      <4>2. pc'["main"] = then /\ pc' = [pc EXCEPT !["main"] = pc'["main"]]
        BY <4>1, MainAt
      <4> QED
        BY <1>0, <3>1, <4>1, <4>2 DEF MainMoves, MainPlaces
    <3>2. CASE helper # "ended"
      <4>1. /\ pc["main"] = "draining" /\ UNCHANGED <<pc, lock, closed>>
            /\ UNCHANGED <<process, outcome, reader, parser, then>>
        BY <1>4, <3>2 DEF CloseDrains, window
      <4>2. pc = [pc EXCEPT !["main"] = pc["main"]]
        BY DEF IInv, GuiTyped, Threads
      <4> QED
        BY <1>0, <4>1, <4>2 DEF MainMoves, MainPlaces
    <3> QED
      BY <3>1, <3>2
  <2>2. PipesTyped'
    BY <1>4, PipesStay DEF CloseDrains
  <2>3. WindowTyped'
    BY <1>4 DEF CloseDrains, window, IInv, WindowTyped
  <2> QED
    BY <2>1, <2>2, <2>3, MainStays
<1> QED
  BY <1>1, <1>2, <1>3, <1>4 DEF CloseStep

-----------------------------------------------------------------------------
(* The window *)

LEMMA StartWorkerInv == ASSUME IInv, StartWorker PROVE IInv'
<1>1. GuiTyped'
  BY DEF IInv, GuiTyped, StartWorker, Threads, WorkerPlaces, session, process
<1>2. Claimed' /\ Begun'
  BY DEF IInv, GuiTyped, Claimed, Begun, StartWorker, Threads, session, window
<1>3. WindowTyped' /\ PipesTyped'
  BY PipesStay DEF IInv, WindowTyped, StartWorker, pipes, window
<1> QED
  BY <1>1, <1>2, <1>3, HelperStays DEF IInv, StartWorker

LEMMA WindowInv == ASSUME IInv, GiveUp \/ Deliver \/ Quit \/ Leave PROVE IInv'
<1>0. /\ closed \in BOOLEAN /\ lock \in {"free", "main"} /\ (closed => helper = "ended")
      /\ (pc["main"] \in {"waiting", "draining"} <=> lock = "main")
  BY DEF IInv, GuiTyped, Claimed
<1>1. CASE GiveUp
  <2>1. MainMoves
    BY <1>0, <1>1, MainAt DEF GiveUp, Closes, MainMoves, MainPlaces, session
  <2>2. PipesTyped'
    BY <1>1, PipesStay DEF GiveUp
  <2>3. WindowTyped'
    BY <1>1 DEF GiveUp, Closes, Settles, IInv, WindowTyped
  <2> QED
    BY <2>1, <2>2, <2>3, MainStays
<1>2. CASE Deliver
  <2>1. queue \in Seq({"page", "result", "error"}) /\ queue # <<>> /\ queue' = Tail(queue)
    BY <1>2 DEF Deliver, IInv, WindowTyped
  <2>2. Head(queue) \in {"page", "result", "error"} /\ queue' \in Seq({"page", "result", "error"})
    BY <2>1, QueueStays, HeadTailProperties
  <2>3. \/ UNCHANGED <<pc, then, attached>>
        \/ pc' = [pc EXCEPT !["main"] = "closing"] /\ then' = "window"
    BY <1>2, <2>2 DEF Deliver, Closes
  <2>4. pc = [pc EXCEPT !["main"] = pc["main"]]
    BY DEF IInv, GuiTyped, Threads
  <2>5. MainMoves
    BY <1>0, <1>2, <2>3, <2>4, MainAt DEF Deliver, MainMoves, MainPlaces, session
  <2>6. WindowTyped'
    BY <1>2, <2>2, <2>3 DEF Deliver, Settles, IInv, WindowTyped
  <2>7. PipesTyped'
    BY <1>2, PipesStay DEF Deliver, pipes
  <2> QED
    BY <2>5, <2>6, <2>7, MainStays
<1>3. CASE Quit
  <2>1. MainMoves
    BY <1>0, <1>3, MainAt DEF Quit, Closes, MainMoves, MainPlaces, session
  <2>2. PipesTyped'
    BY <1>3, PipesStay DEF Quit, pipes
  <2>3. WindowTyped'
    BY <1>3 DEF Quit, Closes, Settles, IInv, WindowTyped
  <2> QED
    BY <2>1, <2>2, <2>3, MainStays
<1>4. CASE Leave
  <2>1. MainMoves
    BY <1>0, <1>4, MainAt DEF Leave, Closes, MainMoves, MainPlaces, session
  <2>2. PipesTyped'
    BY <1>4, PipesStay DEF Leave, pipes
  <2>3. WindowTyped'
    BY <1>4 DEF Leave, Closes, IInv, WindowTyped
  <2> QED
    BY <2>1, <2>2, <2>3, MainStays
<1> QED
  BY <1>1, <1>2, <1>3, <1>4

LEMMA NextInv == IInv /\ [Next]_vars => IInv'
<1> SUFFICES ASSUME IInv, [Next]_vars PROVE IInv'
  OBVIOUS
<1>1. CASE UNCHANGED vars
  <2>1. HelperTyped' /\ PipesTyped' /\ WindowTyped' /\ Begun' /\ Remembered'
    BY <1>1 DEF IInv, HelperTyped, PipesTyped, WindowTyped, Begun, Remembered, vars, process, pipes, session, window
  <2>2. GuiTyped' /\ Claimed'
    BY <1>1 DEF IInv, GuiTyped, Claimed, vars, process, pipes, session, window
  <2> QED
    BY <2>1, <2>2 DEF IInv
<1>2. CASE Next
  BY <1>2, HelperInv, ThreadInv, StartInv, CloseInv, StartWorkerInv, WindowInv DEF Next
<1> QED
  BY <1>1, <1>2

-----------------------------------------------------------------------------
(* The theorems *)

(* The strengthened invariant holds in every state the startup can reach. *)
THEOREM Invariance == Spec => []IInv
BY InitInv, NextInv, PTL DEF Spec

(* The types, and a closed session has no process left (privilege_broker.py:325-346). *)
THEOREM HandshakeTypeCorrect == Spec => []TypeOK
<1>1. IInv => TypeOK
  BY DEF IInv, HelperTyped, PipesTyped, GuiTyped, WindowTyped, TypeOK, Phases, MainPlaces, WorkerPlaces
<1> QED
  BY <1>1, Invariance, PTL

(* Two threads never read the helper's frames at once (privilege_broker.py:245-251,
   496-530). *)
THEOREM OneReaderAlways == Spec => []OneReader
<1>1. IInv => OneReader
  BY DEF IInv, Claimed, OneReader, Threads
<1> QED
  BY <1>1, Invariance, PTL

(* A SIGTERM before the session is not forgotten (startup.py:65-66, 421-427). *)
THEOREM TermBeforeSessionStopsAlways == Spec => []TermBeforeSessionStops
<1>1. IInv => TermBeforeSessionStops
  BY DEF IInv, Remembered, TermBeforeSessionStops
<1> QED
  BY <1>1, Invariance, PTL
=============================================================================
