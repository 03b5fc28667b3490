--------------------------- MODULE SessionProofs ---------------------------
(***************************************************************************)
(* Theorems about Session, for every set of requests and all pipe sizes:   *)
(* its types, that its answers are authentic, that it implements Rpc, and  *)
(* that no request is lost.                                                *)
(***************************************************************************)
EXTENDS Session, SequenceTheorems, TLAPS

-----------------------------------------------------------------------------
(* Frames and pipes *)

\* Every frame constructor yields a frame.
LEMMA FrameTypes ==
  ASSUME NEW r \in Ids, NEW i \in Nat, NEW n \in Nat
  PROVE  /\ RequestFrame(r, i, n) \in Frames /\ ResultFrame(r, i, n) \in Frames
         /\ Progress(r) \in Frames /\ ErrorFrame(r) \in Frames
  BY DEF RequestFrame, ResultFrame, Progress, ErrorFrame, Frame, Frames, Kinds, Ids

\* So do the constants.
LEMMA FrameConstants ==
  Cancel \in Frames /\ Torn \in Frames /\ Garbage \in Frames /\ ErrorFrame(NoReq) \in Frames
  BY DEF Cancel, Torn, Garbage, ErrorFrame, Frame, Frames, Kinds, Ids

\* p holds, in order, frames that pipe holds d places later, and garbage.
Shifted(p, pipe, d) == \A i \in 1..Len(p) : \/ p[i] = Garbage
                                            \/ i + d \in 1..Len(pipe) /\ p[i] = pipe[i + d]

\* Taking the first frame out of a pipe.
LEMMA TailShifted ==
  ASSUME NEW S, NEW pipe \in Seq(S), pipe # <<>>
  PROVE  /\ Tail(pipe) \in Seq(S) /\ Shifted(Tail(pipe), pipe, 1)
         /\ Head(pipe) \in S /\ Head(pipe) = pipe[1] /\ 1 \in 1..Len(pipe)
<1>1. Len(pipe) \in Nat \ {0}
  BY EmptySeq, LenProperties
<1>2. Len(Tail(pipe)) = Len(pipe) - 1 /\ \A i \in 1..Len(Tail(pipe)) : Tail(pipe)[i] = pipe[i + 1]
  BY HeadTailProperties
<1> QED BY <1>1, <1>2, HeadTailProperties, ElementOfSeq DEF Shifted

\* Reading k frames, the last perhaps not to its end.
LEMMA RestShifted ==
  ASSUME NEW S, Garbage \in S, NEW pipe \in Seq(S), NEW k \in 1..Len(pipe),
         NEW p \in Rest(pipe, k)
  PROVE  p \in Seq(S) /\ \E d \in Nat : Shifted(p, pipe, d)
<1> DEFINE rest == SubSeq(pipe, k + 1, Len(pipe))
<1>1. Len(pipe) \in Nat /\ \A i \in 1..Len(pipe) : pipe[i] \in S
  BY ElementOfSeq, LenProperties
<1>2. /\ rest \in Seq(S) /\ Len(rest) = Len(pipe) - k
      /\ \A i \in 1..Len(rest) : rest[i] = pipe[i + k]
  BY <1>1, SubSeqProperties
<1>3. CASE p = rest
  <2>1. Shifted(p, pipe, k)
    BY <1>1, <1>2, <1>3 DEF Shifted
  <2> QED BY <1>1, <1>2, <1>3, <2>1
<1>4. CASE p = <<Garbage>> \o rest
  <2>1. <<Garbage>> \in Seq(S) /\ Len(<<Garbage>>) = 1 /\ <<Garbage>>[1] = Garbage
    OBVIOUS
  <2>2. /\ p \in Seq(S) /\ Len(p) = Len(pipe) - k + 1 /\ p[1] = Garbage
        /\ \A i \in 2..Len(p) : p[i] = rest[i - 1]
    BY <1>1, <1>2, <1>4, <2>1, ConcatProperties
  <2>3. Shifted(p, pipe, k - 1)
    BY <1>1, <1>2, <2>2 DEF Shifted
  <2> QED BY <1>1, <2>2, <2>3
<1> QED BY <1>3, <1>4 DEF Rest

\* The frames of a response form a sequence over any set that has them all.
LEMMA ResultFramesType ==
  ASSUME NEW S, NEW r, NEW n \in Nat, \A i \in 0..(n - 1) : ResultFrame(r, i, n) \in S
  PROVE  ResultFrames(r, n) \in Seq(S) /\ Len(ResultFrames(r, n)) = n
<1>1. \A i \in 1..n : i - 1 \in 0..(n - 1)
  OBVIOUS
<1>2. ResultFrames(r, n) \in [1..n -> S]
  BY <1>1 DEF ResultFrames
<1> QED BY <1>2, SeqDef
-----------------------------------------------------------------------------
(* Type correctness *)

\* Where a request id or a response is needed there is one, and only the requester's own
\* call is pending; it closes the session only at the end of it.
Identified ==
  /\ \A i \in 1..Len(toHelper) : toHelper[i].kind = "request" => toHelper[i].id \in Requests
  /\ hpc \in {"assembling", "running", "responding"} => hreq \in Requests
  /\ gpc # "idle" => cur \in Requests /\ outcome[cur] = "pending"
  /\ \A r \in Requests : outcome[r] = "pending" => gpc # "idle" /\ r = cur
  /\ closepc["worker"] # "none" => gpc = "closing"
  /\ hpc = "responding" => out # <<>>

Typed == TypeOK /\ Identified

\* Frames in the response to r.
LEMMA ResponseTypes ==
  ASSUME NEW r \in Ids
  PROVE  /\ \A n \in 1..MaxChunks : ResultFrames(r, n) \in Seq(Frames) \ {<<>>}
         /\ <<ErrorFrame(r)>> \in Seq(Frames) \ {<<>>}
<1>1. \A n \in 1..MaxChunks : n \in Nat /\ \A i \in 0..(n - 1) : i \in Nat
  BY SessionAssumption
<1>2. ASSUME NEW n \in 1..MaxChunks PROVE ResultFrames(r, n) \in Seq(Frames) \ {<<>>}
  <2>1. ResultFrames(r, n) \in Seq(Frames) /\ Len(ResultFrames(r, n)) = n
    BY <1>1, FrameTypes, ResultFramesType
  <2> QED BY <2>1
<1>3. ErrorFrame(r) \in Frames
  BY FrameTypes
<1> QED BY <1>2, <1>3

\* Types and identities hold initially.
LEMMA InitTyped == Init => Typed
<1> SUFFICES ASSUME Init PROVE Typed
  OBVIOUS
<1>1. <<>> \in Seq(Frames) /\ Len(<<>>) = 0
  BY EmptySeq
<1>2. stragglers \in Late
  BY DEF Init, Late, Ids
<1>3. TypeOK
  BY <1>1, <1>2 DEF Init, TypeOK, Ids
<1>4. Identified
  BY <1>1 DEF Init, Identified, Closers
<1> QED BY <1>3, <1>4 DEF Typed

\* Appending a frame that is no request.
LEMMA AppendOther ==
  ASSUME Typed, NEW f \in Frames, f.kind # "request", toHelper' \in {toHelper, Append(toHelper, f)}
  PROVE  /\ toHelper' \in Seq(Frames)
         /\ \A i \in 1..Len(toHelper') : toHelper'[i].kind = "request" =>
              i \in 1..Len(toHelper) /\ toHelper'[i] = toHelper[i]
<1>1. toHelper \in Seq(Frames) /\ Len(toHelper) \in Nat
  BY LenProperties DEF Typed, TypeOK
<1>2. CASE toHelper' = Append(toHelper, f)
  <2>1. /\ toHelper' \in Seq(Frames) /\ Len(toHelper') = Len(toHelper) + 1
        /\ \A i \in 1..Len(toHelper) : toHelper'[i] = toHelper[i]
        /\ toHelper'[Len(toHelper) + 1] = f
    BY <1>1, <1>2, AppendProperties
  <2> QED BY <1>1, <2>1
<1> QED BY <1>1, <1>2

\* The requester's steps.
LEMMA RequesterTyped == Typed /\ Requester => Typed'
<1> SUFFICES ASSUME Typed, Requester PROVE Typed'
  OBVIOUS
<1> USE DEF Typed
<1>1. ASSUME NEW r \in Requests, NEW n \in 1..MaxChunks, RequestBegin(r, n) PROVE Typed'
  <2>1. TypeOK'
    BY <1>1, SessionAssumption DEF RequestBegin, TypeOK, Ids, closeVars, runVars, monitorVars
  <2>2. Identified'
    BY <1>1 DEF RequestBegin, TypeOK, Identified, closeVars, runVars, monitorVars
  <2> QED BY <2>1, <2>2
<1>2. CASE SendFrame
  <2> DEFINE f == RequestFrame(cur, gnext, gcount)
  <2>1. f \in Frames /\ f.kind = "request" /\ f.id = cur /\ cur \in Requests
    BY <1>2, FrameTypes DEF SendFrame, TypeOK, Identified, RequestFrame, Frame
  <2>2. /\ toHelper' \in Seq(Frames) /\ Len(toHelper') = Len(toHelper) + 1
        /\ \A i \in 1..Len(toHelper) : toHelper'[i] = toHelper[i]
        /\ toHelper'[Len(toHelper) + 1] = f
    BY <1>2, <2>1, AppendProperties DEF SendFrame, TypeOK
  <2>3. TypeOK'
    BY <1>2, <2>2 DEF SendFrame, TypeOK, closeVars, runVars, monitorVars
  <2>4. Len(toHelper) \in Nat
    BY LenProperties DEF TypeOK
  <2>5. Identified'
    BY <1>2, <2>1, <2>2, <2>4 DEF SendFrame, TypeOK, Identified, closeVars, runVars, monitorVars
  <2> QED BY <2>3, <2>5
<1>3. CASE SendFails
  <2>1. toHelper' \in {toHelper, Append(toHelper, Garbage)}
    BY <1>3 DEF SendFails
  <2>2. Garbage.kind # "request"
    BY DEF Garbage, Frame
  <2>3. /\ toHelper' \in Seq(Frames)
        /\ \A i \in 1..Len(toHelper') : toHelper'[i].kind = "request" =>
             i \in 1..Len(toHelper) /\ toHelper'[i] = toHelper[i]
    BY <2>1, <2>2, FrameConstants, AppendOther DEF Typed
  <2>4. /\ gpc = "sending" /\ cur \in Requests /\ Return("failed") /\ UNCHANGED closed
        /\ stream' \in {"abandoned", "failed"}
        /\ UNCHANGED <<closeVars, toGui, runVars, monitorVars, stragglers>>
    BY <1>3 DEF SendFails, RaiseOpen, Identified
  <2>5. TypeOK'
    BY <2>3, <2>4 DEF Return, TypeOK, closeVars, runVars, monitorVars
  <2>6. Identified'
    BY <2>3, <2>4 DEF Return, TypeOK, Identified, closeVars, runVars, monitorVars
  <2> QED BY <2>5, <2>6
<1>4. CASE ReceiveFrame
  <2> DEFINE f == Head(toGui)
  <2>0. Tail(toGui) \in Seq(Frames) /\ f \in Frames
    BY <1>4, TailShifted DEF ReceiveFrame, TypeOK
  <2>1. f.count \in Nat
    BY <2>0 DEF Frames
  <2>2. /\ gpc = "receiving" /\ cur \in Requests /\ toGui' \in Seq(Frames)
        /\ UNCHANGED <<closeVars, toHelper, runVars, monitorVars, stragglers>>
        /\ \/ UNCHANGED guiVars
           \/ /\ Return("failed") \/ Return("error") \/ Return("result")
              /\ UNCHANGED closed /\ stream' \in {stream, "failed", "abandoned"}
           \/ /\ gpc' = "collecting" /\ gnext' = 1 /\ gcount' = f.count
              /\ UNCHANGED <<outcome, cur, closed, stream, reuse>>
    BY <1>4, <2>0 DEF ReceiveFrame, RaiseOpen, Identified
  <2> HIDE DEF f
  <2>3. TypeOK'
    BY <2>1, <2>2 DEF Return, TypeOK, guiVars, closeVars, runVars, monitorVars
  <2>4. Identified'
    BY <2>2 DEF Return, TypeOK, Identified, guiVars, closeVars, runVars, monitorVars
  <2> QED BY <2>3, <2>4
<1>5. CASE ReceiveTorn
  <2>1. toGui' \in Seq(Frames)
    BY <1>5, FrameConstants, RestShifted DEF ReceiveTorn, TypeOK
  <2>2. TypeOK'
    BY <1>5, <2>1 DEF ReceiveTorn, RaiseOpen, Return, TypeOK, closeVars, runVars, monitorVars
  <2>3. Identified'
    BY <1>5 DEF ReceiveTorn, RaiseOpen, Return, TypeOK, Identified, closeVars, runVars,
                monitorVars
  <2> QED BY <2>2, <2>3
<1>6. CASE ReceiveFramingFailure
  <2>1. toGui' \in Seq(Frames)
    BY <1>6, TailShifted DEF ReceiveFramingFailure, TypeOK
  <2>2. TypeOK'
    BY <1>6, <2>1 DEF ReceiveFramingFailure, FramingFailure, TypeOK, Closers, runVars, monitorVars
  <2>3. Identified'
    BY <1>6 DEF ReceiveFramingFailure, FramingFailure, TypeOK, Identified, Closers, runVars,
                monitorVars
  <2> QED BY <2>2, <2>3
<1>7. CASE ReceiveEof
  <2>1. TypeOK'
    BY <1>7 DEF ReceiveEof, Return, TypeOK, closeVars, runVars, monitorVars
  <2>2. Identified'
    BY <1>7 DEF ReceiveEof, Return, TypeOK, Identified, closeVars, runVars, monitorVars
  <2> QED BY <2>1, <2>2
<1>8. CASE CollectFrame
  <2>1. Tail(toGui) \in Seq(Frames)
    BY <1>8, TailShifted DEF CollectFrame, TypeOK
  <2>2. /\ gpc = "collecting" /\ toGui' = Tail(toGui)
        /\ UNCHANGED <<toHelper, runVars, monitorVars, stragglers>>
        /\ \/ FramingFailure
           \/ /\ Return("failed") \/ Return("result")
              /\ UNCHANGED <<closed, closeVars>> /\ stream' \in {stream, "failed"}
           \/ /\ gnext' = gnext + 1
              /\ UNCHANGED <<outcome, gpc, cur, gcount, reuse, closed, stream, closeVars>>
    BY <1>8 DEF CollectFrame, RaiseOpen
  <2>3. /\ outcome' \in [Requests -> {"none", "pending", "result", "error", "failed"}]
        /\ gpc' \in {"idle", "sending", "receiving", "collecting", "closing"}
        /\ closepc' \in [Closers -> {"none", "want", "cancel", "eof", "drain", "done"}]
        /\ gnext' \in Nat /\ stream' \in {"clean", "abandoned", "failed"}
        /\ UNCHANGED <<cur, gcount, reuse, lock, stdinOpen, closed>>
    BY <2>2 DEF Return, FramingFailure, TypeOK, Closers, closeVars
  <2>4. TypeOK'
    BY <2>1, <2>2, <2>3 DEF TypeOK, runVars, monitorVars
  <2>5. Identified'
    BY <2>2 DEF Return, FramingFailure, TypeOK, Identified, Closers, closeVars, runVars, monitorVars
  <2> QED BY <2>4, <2>5
<1>9. CASE CollectFails
  <2>1. TypeOK'
    BY <1>9 DEF CollectFails, Return, FramingFailure, TypeOK, Closers, closeVars, runVars, monitorVars
  <2>2. Identified'
    BY <1>9 DEF CollectFails, Return, FramingFailure, TypeOK, Identified, Closers, closeVars, runVars,
                monitorVars
  <2> QED BY <2>1, <2>2
<1> QED
  BY <1>1, <1>2, <1>3, <1>4, <1>5, <1>6, <1>7, <1>8, <1>9 DEF Requester
\* The closing threads' steps.
LEMMA CloseTyped == Typed /\ Close => Typed'
<1> SUFFICES ASSUME Typed, Close PROVE Typed'
  OBVIOUS
<1> USE DEF Typed
<1>1. CASE MainClose
  BY <1>1 DEF MainClose, TypeOK, Identified, Closers, guiVars, runVars, monitorVars
<1> SUFFICES ASSUME NEW t \in Closers,
                    \/ CloseEnter(t) \/ CloseCancel(t) \/ CloseEof(t) \/ CloseDrain(t)
                    \/ CloseFinalize(t) \/ CloseGivesUp(t)
             PROVE Typed'
  BY <1>1 DEF Close
<1>2. CASE CloseEnter(t)
  <2>1. TypeOK'
    BY <1>2 DEF CloseEnter, Leave, Return, TypeOK, runVars, monitorVars
  <2>2. Identified'
    BY <1>2 DEF CloseEnter, Leave, Return, TypeOK, Identified, Closers, runVars, monitorVars
  <2> QED BY <2>1, <2>2
<1>3. CASE CloseCancel(t)
  <2>1. toHelper' \in {toHelper, Append(toHelper, Cancel)}
    BY <1>3 DEF CloseCancel
  <2>2. Cancel.kind # "request"
    BY DEF Cancel, Frame
  <2>3. /\ toHelper' \in Seq(Frames)
        /\ \A i \in 1..Len(toHelper') : toHelper'[i].kind = "request" =>
             i \in 1..Len(toHelper) /\ toHelper'[i] = toHelper[i]
    BY <2>1, <2>2, FrameConstants, AppendOther DEF Typed
  <2>4. closepc["worker"] # "none" => cur \in Requests /\ gpc = "closing"
    BY DEF Identified
  <2>5. /\ closepc' \in [Closers -> {"none", "want", "cancel", "eof", "drain", "done"}]
        /\ lock' \in Closers \cup {"free"}
        /\ UNCHANGED <<closed, stream, stdinOpen, toGui, runVars, monitorVars, stragglers>>
        /\ \/ /\ closepc["worker"] # "none" /\ closepc'["worker"] = "none"
              /\ Return("failed")
           \/ /\ closepc'["worker"] # "none" => closepc["worker"] # "none"
              /\ UNCHANGED <<outcome, gpc, cur, gnext, gcount, reuse>>
    BY <1>3 DEF CloseCancel, Leave, TypeOK, Closers
  <2>6. /\ outcome' \in [Requests -> {"none", "pending", "result", "error", "failed"}]
        /\ gpc' \in {"idle", "sending", "receiving", "collecting", "closing"}
        /\ UNCHANGED <<cur, gnext, gcount, reuse>>
    BY <2>4, <2>5 DEF Return, TypeOK
  <2>7. TypeOK'
    BY <2>3, <2>5, <2>6 DEF TypeOK, runVars, monitorVars
  <2>8. Identified'
    BY <2>3, <2>4, <2>5 DEF Return, TypeOK, Identified, runVars, monitorVars
  <2> QED BY <2>7, <2>8
<1>4. CASE CloseEof(t)
  <2>1. /\ closepc' \in [Closers -> {"none", "want", "cancel", "eof", "drain", "done"}]
        /\ closepc'["worker"] # "none" => closepc["worker"] # "none"
        /\ stdinOpen' \in BOOLEAN
        /\ UNCHANGED <<guiVars, lock, toHelper, toGui, runVars, monitorVars, stragglers>>
    BY <1>4 DEF CloseEof, TypeOK, Closers
  <2> QED BY <2>1 DEF TypeOK, Identified, guiVars, runVars, monitorVars
<1>5. CASE CloseDrain(t)
  <2>1. <<>> \in Seq(Frames) /\ <<Torn>> \in Seq(Frames)
    BY FrameConstants, EmptySeq
  <2>2. /\ toGui' \in {<<>>, <<Torn>>}
        /\ UNCHANGED <<guiVars, closeVars, toHelper, runVars, monitorVars, stragglers>>
    BY <1>5 DEF CloseDrain
  <2>3. toGui' \in Seq(Frames)
    BY <2>1, <2>2
  <2>4. UNCHANGED <<guiVars, closeVars, toHelper, runVars, monitorVars, stragglers>>
    BY <2>2
  <2>5. TypeOK'
    BY <2>3, <2>4 DEF TypeOK, guiVars, closeVars, runVars, monitorVars
  <2>6. Identified'
    BY <2>4 DEF Identified, guiVars, closeVars, runVars
  <2> QED BY <2>5, <2>6
<1>6. CASE CloseFinalize(t)
  <2>1. toGui' \in Seq(Frames)
    BY <1>6, EmptySeq DEF CloseFinalize
  <2>2. TypeOK'
    BY <1>6, <2>1 DEF CloseFinalize, Leave, Return, TypeOK, runVars, monitorVars
  <2>3. Identified'
    BY <1>6 DEF CloseFinalize, Leave, Return, TypeOK, Identified, Closers, runVars, monitorVars
  <2> QED BY <2>2, <2>3
<1>7. CASE CloseGivesUp(t)
  <2>1. TypeOK'
    BY <1>7 DEF CloseGivesUp, Leave, Return, TypeOK, runVars, monitorVars
  <2>2. Identified'
    BY <1>7 DEF CloseGivesUp, Leave, Return, TypeOK, Identified, Closers, runVars, monitorVars
  <2> QED BY <2>1, <2>2
<1> QED BY <1>2, <1>3, <1>4, <1>5, <1>6, <1>7

\* The monitor's steps.
LEMMA MonitorTyped == Typed /\ Monitor => Typed'
<1> SUFFICES ASSUME Typed, Monitor PROVE Typed'
  OBVIOUS
<1> USE DEF Typed
<1>1. CASE MonitorRead
  <2>1. toHelper # <<>> /\ (\/ toHelper' = Tail(toHelper)
                            \/ \E k \in 1..Len(toHelper) : toHelper' \in Rest(toHelper, k))
    BY <1>1 DEF MonitorRead
  <2>2. toHelper' \in Seq(Frames) /\ \E d \in Nat : Shifted(toHelper', toHelper, d)
    <3>1. CASE toHelper' = Tail(toHelper)
      BY <2>1, <3>1, TailShifted DEF TypeOK
    <3>2. ASSUME NEW k \in 1..Len(toHelper), toHelper' \in Rest(toHelper, k)
          PROVE toHelper' \in Seq(Frames) /\ \E d \in Nat : Shifted(toHelper', toHelper, d)
      BY <3>2, FrameConstants, RestShifted DEF TypeOK
    <3> QED BY <2>1, <3>1, <3>2
  <2>3. /\ cancelled' \in BOOLEAN /\ seen' \in BOOLEAN /\ monitor' \in {"off", "on", "ended"}
        /\ UNCHANGED <<guiVars, closeVars, toGui, runVars, stragglers>>
    BY <1>1 DEF MonitorRead, TypeOK
  <2>4. TypeOK'
    BY <2>2, <2>3 DEF TypeOK, guiVars, closeVars, runVars
  <2>5. Identified'
    BY <2>2, <2>3 DEF Shifted, Garbage, Frame, Identified, guiVars, closeVars, runVars
  <2> QED BY <2>4, <2>5
<1>2. CASE MonitorEof \/ MonitorDeadline
  <2>1. /\ cancelled' \in BOOLEAN /\ monitor' \in {"off", "on", "ended"}
        /\ UNCHANGED <<guiVars, closeVars, toHelper, toGui, runVars, seen, stragglers>>
    BY <1>2 DEF MonitorEof, MonitorDeadline, MonitorCancels
  <2> QED BY <2>1 DEF TypeOK, Identified, guiVars, closeVars, runVars
<1> QED BY <1>1, <1>2 DEF Monitor
\* The helper's steps.
LEMMA HelperTyped == Typed /\ Helper => Typed'
<1> SUFFICES ASSUME Typed, Helper PROVE Typed'
  OBVIOUS
<1> USE DEF Typed
\* The response of an operation that ends.
<1>1. ASSUME hpc = "running", NEW status \in {"ok", "error"}, NEW frames \in Seq(Frames) \ {<<>>},
             OperationEnds(status, frames), toGui' \in Seq(Frames)
      PROVE Typed'
  <2>0. stragglers' \in Late
    BY <1>1 DEF OperationEnds, TypeOK, Identified, Late, Ids
  <2>1. /\ hreq \in Requests
        /\ op' \in [Requests -> {"none", "running", "ok", "error"}]
        /\ monitor' = "off" /\ out' \in Seq(Frames) /\ out' # <<>> /\ hpc' = "responding"
        /\ UNCHANGED <<guiVars, closeVars, toHelper, hreq, hnext, hcount, cancelled, seen>>
    BY <1>1 DEF OperationEnds, TypeOK, Identified
  <2>2. TypeOK'
    BY <1>1, <2>0, <2>1 DEF TypeOK, guiVars, closeVars
  <2>3. Identified'
    BY <2>1 DEF Identified, guiVars, closeVars
  <2> QED BY <2>2, <2>3
\* Steps that end the helper.
<1>2. ASSUME Exit, toHelper' \in Seq(Frames), toGui' \in Seq(Frames), cancelled' \in BOOLEAN,
             \E d \in Nat : Shifted(toHelper', toHelper, d),
             UNCHANGED <<guiVars, closeVars, monitor, seen, stragglers>>
      PROVE Typed'
  <2>1. TypeOK'
    BY <1>2 DEF Exit, TypeOK, guiVars, closeVars
  <2>2. Identified'
    BY <1>2 DEF Exit, Identified, Shifted, Garbage, Frame, guiVars, closeVars
  <2> QED BY <2>1, <2>2
<1> DEFINE f == Head(toHelper)
<1>3. ASSUME toHelper # <<>>
      PROVE  /\ Tail(toHelper) \in Seq(Frames) /\ Shifted(Tail(toHelper), toHelper, 1)
             /\ f.id \in Ids /\ f.count \in Nat /\ (f.kind = "request" => f.id \in Requests)
  <2>1. /\ Tail(toHelper) \in Seq(Frames) /\ Shifted(Tail(toHelper), toHelper, 1)
        /\ f \in Frames /\ f = toHelper[1] /\ 1 \in 1..Len(toHelper)
    BY <1>3, TailShifted DEF TypeOK
  <2>2. f.id \in Ids /\ f.count \in Nat
    BY <2>1 DEF Frames
  <2> QED BY <2>1, <2>2 DEF Identified
<1> HIDE DEF f
\* Steps that start an operation.
<1>4. ASSUME NEW r \in Requests, StartOperation(r), toHelper' \in Seq(Frames),
             Shifted(toHelper', toHelper, 1), cancelled' \in BOOLEAN,
             UNCHANGED <<guiVars, closeVars, toGui, hnext, hcount, out, stragglers>>
      PROVE Typed'
  <2>1. /\ hpc' = "running" /\ hreq' \in Requests /\ monitor' = "on" /\ seen' \in BOOLEAN
        /\ op' \in [Requests -> {"none", "running", "ok", "error"}]
    BY <1>4 DEF StartOperation, TypeOK
  <2>2. TypeOK'
    BY <1>4, <2>1 DEF TypeOK, Ids, guiVars, closeVars
  <2>3. Identified'
    BY <1>4, <2>1 DEF Identified, Shifted, Garbage, Frame, guiVars, closeVars
  <2> QED BY <2>2, <2>3
<1>5. CASE HelperRead
  <2>1. /\ toHelper # <<>> /\ toHelper' = Tail(toHelper) /\ cancelled' \in BOOLEAN
        /\ UNCHANGED <<guiVars, closeVars, toGui, stragglers>>
        /\ \/ /\ f.kind = "request" /\ StartOperation(f.id)
              /\ UNCHANGED <<hnext, hcount, out>>
           \/ /\ f.kind = "request"
              /\ hpc' = "assembling" /\ hreq' = f.id /\ hnext' = 1 /\ hcount' = f.count
              /\ UNCHANGED <<op, out, monitor, seen>>
           \/ Exit /\ UNCHANGED <<monitor, seen>>
    BY <1>5 DEF HelperRead, f
  <2>2. /\ toHelper' \in Seq(Frames) /\ Shifted(toHelper', toHelper, 1)
        /\ f.id \in Ids /\ f.count \in Nat /\ (f.kind = "request" => f.id \in Requests)
    BY <1>3, <2>1
  <2>3. CASE /\ f.kind = "request" /\ StartOperation(f.id)
             /\ UNCHANGED <<hnext, hcount, out>>
    BY <1>4, <2>1, <2>2, <2>3
  <2>4. CASE /\ f.kind = "request"
             /\ hpc' = "assembling" /\ hreq' = f.id /\ hnext' = 1 /\ hcount' = f.count
             /\ UNCHANGED <<op, out, monitor, seen>>
    <3>1. /\ cancelled' \in BOOLEAN
          /\ UNCHANGED <<guiVars, closeVars, toGui, stragglers>>
      BY <2>1
    <3>2. TypeOK'
      BY <2>2, <2>4, <3>1 DEF TypeOK, guiVars, closeVars
    <3>3. Identified'
      BY <2>2, <2>4, <3>1 DEF Identified, Shifted, Garbage, Frame, guiVars, closeVars
    <3> QED BY <3>2, <3>3
  <2>5. CASE Exit /\ UNCHANGED <<monitor, seen>>
    <3>1. toGui' \in Seq(Frames)
      BY <2>1 DEF TypeOK
    <3> QED BY <1>2, <2>1, <2>2, <2>5, <3>1
  <2> QED BY <2>1, <2>3, <2>4, <2>5
<1>6. CASE HelperAssemble
  <2>1. /\ hpc = "assembling" /\ toHelper # <<>> /\ toHelper' = Tail(toHelper)
        /\ UNCHANGED <<guiVars, closeVars, toGui, cancelled, stragglers>>
        /\ \/ StartOperation(hreq) /\ UNCHANGED <<hnext, hcount, out>>
           \/ hnext' = hnext + 1 /\ UNCHANGED <<op, hpc, hreq, hcount, out, monitor, seen>>
           \/ Exit /\ UNCHANGED <<monitor, seen>>
    BY <1>6 DEF HelperAssemble
  <2>2. /\ toHelper' \in Seq(Frames) /\ Shifted(toHelper', toHelper, 1)
        /\ hreq \in Requests /\ cancelled' \in BOOLEAN /\ toGui' \in Seq(Frames)
    BY <1>3, <2>1 DEF Identified, TypeOK
  <2>3. CASE StartOperation(hreq) /\ UNCHANGED <<hnext, hcount, out>>
    BY <1>4, <2>1, <2>2, <2>3
  <2>4. CASE hnext' = hnext + 1 /\ UNCHANGED <<op, hpc, hreq, hcount, out, monitor, seen>>
    <3>1. UNCHANGED <<guiVars, closeVars, toGui, cancelled, stragglers>>
      BY <2>1
    <3>2. TypeOK'
      BY <2>2, <2>4, <3>1 DEF TypeOK, guiVars, closeVars
    <3>3. Identified'
      BY <2>2, <2>4, <3>1 DEF Identified, Shifted, Garbage, Frame, guiVars, closeVars
    <3> QED BY <3>2, <3>3
  <2>5. CASE Exit /\ UNCHANGED <<monitor, seen>>
    BY <1>2, <2>1, <2>2, <2>5
  <2> QED BY <2>1, <2>3, <2>4, <2>5
<1>7. CASE HelperInputEnds \/ HelperKilled
  <2>1. Exit /\ UNCHANGED <<guiVars, closeVars, toHelper, toGui, monitorVars, stragglers>>
    BY <1>7 DEF HelperInputEnds, HelperKilled
  <2>2. UNCHANGED <<guiVars, closeVars, monitor, seen, stragglers>>
    BY <2>1 DEF monitorVars
  <2>3. /\ toHelper' \in Seq(Frames) /\ toGui' \in Seq(Frames) /\ cancelled' \in BOOLEAN
        /\ \E d \in Nat : Shifted(toHelper', toHelper, d)
    <3>1. Shifted(toHelper, toHelper, 0)
      BY LenProperties DEF Shifted, TypeOK
    <3> QED BY <2>1, <3>1 DEF TypeOK, monitorVars
  <2> QED BY <1>2, <2>1, <2>2, <2>3
<1>8. CASE HelperProgress
  <2>1. toGui' \in Seq(Frames)
    BY <1>8, FrameTypes, AppendProperties DEF HelperProgress, TypeOK
  <2>2. UNCHANGED <<guiVars, closeVars, toHelper, runVars, monitorVars, stragglers>>
    BY <1>8 DEF HelperProgress
  <2>3. TypeOK'
    BY <2>1, <2>2 DEF TypeOK, guiVars, closeVars, runVars, monitorVars
  <2>4. Identified'
    BY <2>2 DEF Identified, guiVars, closeVars, runVars
  <2> QED BY <2>3, <2>4
<1>9. CASE HelperProgressTorn \/ OperationFails
  <2>1. /\ hpc = "running" /\ toGui' \in {toGui, Append(toGui, Torn)}
        /\ OperationEnds("error", <<ErrorFrame(hreq)>>)
    BY <1>9 DEF HelperProgressTorn, OperationFails
  <2>2. toGui \in Seq(Frames) /\ Append(toGui, Torn) \in Seq(Frames)
    BY FrameConstants, AppendProperties DEF TypeOK
  <2>3. <<ErrorFrame(hreq)>> \in Seq(Frames) \ {<<>>}
    BY ResponseTypes DEF TypeOK
  <2> QED BY <1>1, <2>1, <2>2, <2>3
<1>10. ASSUME NEW n \in 1..MaxChunks, OperationSucceeds(n) PROVE Typed'
  <2>1. hpc = "running" /\ toGui' = toGui /\ OperationEnds("ok", ResultFrames(hreq, n))
    BY <1>10 DEF OperationSucceeds
  <2>2. toGui' \in Seq(Frames) /\ ResultFrames(hreq, n) \in Seq(Frames) \ {<<>>}
    BY <2>1, ResponseTypes DEF TypeOK
  <2> QED BY <1>1, <2>1, <2>2
<1>11. CASE HelperRespond
  <2>1. /\ hpc = "responding" /\ toGui' = Append(toGui, Head(out)) /\ out' = Tail(out)
        /\ hpc' \in {"reading", "responding"}
        /\ UNCHANGED <<guiVars, closeVars, toHelper, op, hreq, hnext, hcount, monitorVars, stragglers>>
    BY <1>11 DEF HelperRespond
  <2>2. toGui' \in Seq(Frames) /\ out' \in Seq(Frames) /\ (hpc' = "responding" => out' # <<>>)
    <3>1. out # <<>>
      BY <2>1 DEF Identified
    <3>2. Head(out) \in Frames /\ Tail(out) \in Seq(Frames)
      BY <3>1, HeadTailProperties DEF TypeOK
    <3>3. Len(out) # 1 => Tail(out) # <<>>
      <4>1. Len(out) \in Nat \ {0} /\ Len(Tail(out)) = Len(out) - 1
        BY <3>1, EmptySeq, HeadTailProperties DEF TypeOK
      <4> QED BY <4>1
    <3>4. hpc' = "responding" => out' # <<>>
      BY <1>11, <3>3 DEF HelperRespond
    <3> QED BY <2>1, <3>2, <3>4, AppendProperties DEF TypeOK
  <2>3. /\ hpc = "responding" /\ hpc' \in {"reading", "responding"}
        /\ UNCHANGED <<guiVars, closeVars, toHelper, op, hreq, hnext, hcount, monitorVars, stragglers>>
    BY <2>1
  <2>4. TypeOK'
    BY <2>2, <2>3 DEF TypeOK, guiVars, closeVars, monitorVars
  <2>5. Identified'
    BY <2>2, <2>3 DEF Identified, guiVars, closeVars
  <2> QED BY <2>4, <2>5
<1>12. CASE HelperRespondFails
  <2>1. toGui' \in Seq(Frames)
    <3>1. PICK rest \in {<<>>, <<Torn>>, <<Torn, ErrorFrame(NoReq)>>} : toGui' = toGui \o rest
      BY <1>12 DEF HelperRespondFails
    <3>2. <<>> \in Seq(Frames) /\ <<Torn>> \in Seq(Frames) /\ <<Torn, ErrorFrame(NoReq)>> \in Seq(Frames)
      BY FrameConstants
    <3> QED BY <3>1, <3>2, ConcatProperties DEF TypeOK
  <2>2. Exit /\ UNCHANGED <<guiVars, closeVars, toHelper, monitorVars, stragglers>>
    BY <1>12 DEF HelperRespondFails
  <2>3. UNCHANGED <<guiVars, closeVars, monitor, seen, stragglers>>
    BY <2>2 DEF monitorVars
  <2>4. /\ toHelper' \in Seq(Frames) /\ cancelled' \in BOOLEAN
        /\ \E d \in Nat : Shifted(toHelper', toHelper, d)
    <3>1. Shifted(toHelper, toHelper, 0)
      BY LenProperties DEF Shifted, TypeOK
    <3> QED BY <2>2, <3>1 DEF TypeOK, monitorVars
  <2> QED BY <1>2, <2>1, <2>2, <2>3, <2>4
<1>13. ASSUME NEW r \in Requests, StragglerWrites(r) PROVE Typed'
  <2>1. toGui' \in Seq(Frames)
    <3>1. toGui' \in {Append(toGui, Progress(stragglers[r])), Append(toGui, Torn)}
      BY <1>13 DEF StragglerWrites
    <3>2. Progress(stragglers[r]) \in Frames
      BY FrameTypes DEF TypeOK, Late
    <3>3. Append(toGui, Progress(stragglers[r])) \in Seq(Frames) /\ Append(toGui, Torn) \in Seq(Frames)
      BY <3>2, FrameConstants, AppendProperties DEF TypeOK
    <3> QED BY <3>1, <3>3
  <2>2. /\ stragglers' \in Late
        /\ UNCHANGED <<guiVars, closeVars, toHelper, runVars, monitorVars>>
    BY <1>13 DEF StragglerWrites, TypeOK, Ids, Late
  <2>3. TypeOK'
    BY <2>1, <2>2 DEF TypeOK, guiVars, closeVars, runVars, monitorVars
  <2>4. Identified'
    BY <2>2 DEF Identified, guiVars, closeVars, runVars
  <2> QED BY <2>3, <2>4
<1>14. ASSUME NEW r \in Requests, StragglerBuilds(r) \/ StragglerEnds(r) PROVE Typed'
  <2>1. /\ stragglers' \in Late
        /\ UNCHANGED <<guiVars, closeVars, toHelper, toGui, runVars, monitorVars>>
    BY <1>14 DEF StragglerBuilds, StragglerEnds, TypeOK, Ids, Late
  <2>2. TypeOK'
    BY <2>1 DEF TypeOK, guiVars, closeVars, runVars, monitorVars
  <2>3. Identified'
    BY <2>1 DEF Identified, guiVars, closeVars, runVars
  <2> QED BY <2>2, <2>3
<1> QED
  BY <1>5, <1>6, <1>7, <1>8, <1>9, <1>10, <1>11, <1>12, <1>13, <1>14 DEF Helper

\* Every step preserves types and identities.
LEMMA TypedStep == Typed /\ [Next]_vars => Typed'
<1> SUFFICES ASSUME Typed, [Next]_vars PROVE Typed'
  OBVIOUS
<1>1. CASE Next
  BY <1>1, RequesterTyped, CloseTyped, HelperTyped, MonitorTyped DEF Next
<1>2. CASE UNCHANGED vars
  <2>1. TypeOK'
    BY <1>2 DEF Typed, TypeOK, vars, guiVars, closeVars, runVars, monitorVars
  <2>2. Identified'
    BY <1>2 DEF Typed, Identified, vars, guiVars, closeVars, runVars
  <2> QED BY <2>1, <2>2 DEF Typed
<1> QED BY <1>1, <1>2

\* Every value a variable takes has its type, whatever the GUI, the helper,
\* its monitor and the closing threads do, and in whatever order.
THEOREM TypeCorrect == Spec => []TypeOK
  BY InitTyped, TypedStep, PTL DEF Spec, Typed

-----------------------------------------------------------------------------
(* The inductive invariant *)

\* The first frame of r has not been written.
Unsent(r) == outcome[r] = "none" \/ (gpc = "sending" /\ gnext = 0 /\ cur = r)

Assembling(r) == hpc = "assembling" /\ hreq = r

Starts(f) == f.kind = "request" /\ f.index = 0

\* The first frame of a request exists once: unsent, in the pipe, in the
\* helper's assembly, or spent on the operation.
AtMostOnce ==
  /\ \A i \in 1..Len(toHelper) : Starts(toHelper[i]) =>
       /\ op[toHelper[i].id] = "none"
       /\ ~Unsent(toHelper[i].id) /\ ~Assembling(toHelper[i].id)
  /\ \A i, j \in 1..Len(toHelper) :
       Starts(toHelper[i]) /\ Starts(toHelper[j]) /\ toHelper[i].id = toHelper[j].id => i = j
  /\ \A r \in Requests : Assembling(r) => op[r] = "none" /\ ~Unsent(r)
  /\ \A r \in Requests : op[r] # "none" => ~Unsent(r)

\* One operation runs, the helper's.
Alone ==
  /\ hpc = "running" => op[hreq] = "running"
  /\ \A r \in Requests : op[r] = "running" => hreq = r /\ hpc \in {"running", "exited"}

Answers(f) == f.kind \in {"result", "error"} /\ f.id \in Requests

\* A terminal frame says of its request what the helper computed.
Sound(f, status) == Answers(f) => status[f.id] = IF f.kind = "result" THEN "ok" ELSE "error"

Authentic ==
  /\ \A i \in 1..Len(toGui) : Sound(toGui[i], op)
  /\ \A i \in 1..Len(out) : Sound(out[i], op)
  /\ gpc = "collecting" => op[cur] = "ok"
  /\ ResultAuthentic

IInv == Typed /\ AtMostOnce /\ Alone /\ Authentic

-----------------------------------------------------------------------------
(* The effects of a step *)

In(f, pipe) == \E j \in 1..Len(pipe) : f = pipe[j]

\* No first frame of a request enters the pipe to the helper.
NoNewStarts ==
  \E d \in Nat : \A i \in 1..Len(toHelper') : Starts(toHelper'[i]) =>
    i + d \in 1..Len(toHelper) /\ toHelper'[i] = toHelper[i + d]

\* Answers enter the pipe to the GUI only from the response.
NoNewAnswers ==
  \A i \in 1..Len(toGui') : Answers(toGui'[i]) => In(toGui'[i], toGui) \/ In(toGui'[i], out)

\* The requester ends its call.
Returns ==
  /\ gpc # "idle" /\ gpc' = "idle" /\ UNCHANGED <<cur, gnext, op, hpc, hreq, out>>
  /\ \/ outcome' = [outcome EXCEPT ![cur] = "failed"]
     \/ op[cur] = "ok" /\ outcome' = [outcome EXCEPT ![cur] = "result"]
     \/ op[cur] = "error" /\ outcome' = [outcome EXCEPT ![cur] = "error"]
  /\ NoNewStarts /\ NoNewAnswers

\* It waits on.
Waits ==
  /\ gpc # "idle" /\ gpc' \in {"receiving", "collecting", "closing"}
  /\ gpc' = "collecting" => op[cur] = "ok"
  /\ UNCHANGED <<outcome, cur, op, hpc, hreq, out>>
  /\ NoNewStarts /\ NoNewAnswers

\* The helper takes the first of several frames of request r.
Assembles(r) ==
  /\ hpc = "reading" /\ hpc' = "assembling" /\ hreq' = r
  /\ toHelper # <<>> /\ Starts(toHelper[1]) /\ toHelper[1].id = r
  /\ toHelper' = Tail(toHelper)
  /\ UNCHANGED <<outcome, gpc, cur, gnext, op, toGui, out>>

\* The helper has request r complete, by its only or by its last frame.
Begins(r) ==
  /\ \/ hpc = "reading" /\ toHelper # <<>> /\ Starts(toHelper[1]) /\ toHelper[1].id = r
     \/ Assembling(r) /\ toHelper # <<>>
  /\ hpc' = "running" /\ hreq' = r
  /\ op' = [op EXCEPT ![r] = "running"]
  /\ toHelper' = Tail(toHelper)
  /\ UNCHANGED <<outcome, gpc, cur, gnext, toGui, out>>

\* The operation of r ends, and the response is the one for its status.
Finishes(r) ==
  /\ hpc = "running" /\ hreq = r /\ hpc' = "responding"
  /\ \E s \in {"ok", "error"} :
       /\ op' = [op EXCEPT ![r] = s]
       /\ \A i \in 1..Len(out') : Answers(out'[i]) =>
            out'[i].id = r /\ s = IF out'[i].kind = "result" THEN "ok" ELSE "error"
  /\ UNCHANGED <<outcome, gpc, cur, gnext, hreq, toHelper>>
  /\ NoNewAnswers

\* Anything else.
Quiet ==
  /\ UNCHANGED <<outcome, gpc, cur, gnext, op, hreq>>
  /\ hpc' \in {hpc, "exited"} \/ (hpc = "responding" /\ hpc' = "reading")
  /\ \A i \in 1..Len(out') : In(out'[i], out)
  /\ NoNewStarts /\ NoNewAnswers

Effect ==
  \/ \E r \in Requests, n \in 1..MaxChunks : RequestBegin(r, n)
  \/ SendFrame \/ Returns \/ Waits \/ Quiet
  \/ \E r \in Requests : Assembles(r) \/ Begins(r) \/ Finishes(r)

-----------------------------------------------------------------------------
(* Pipes *)

\* A pipe that is left alone, shortened or extended by other frames has no
\* new first frame of a request.
LEMMA NoStarts ==
  ASSUME toHelper \in Seq(Frames), toHelper' \in Seq(Frames),
         \/ toHelper' = toHelper
         \/ \E d \in Nat : Shifted(toHelper', toHelper, d)
         \/ \A i \in 1..Len(toHelper') : toHelper'[i].kind = "request" =>
              i \in 1..Len(toHelper) /\ toHelper'[i] = toHelper[i]
  PROVE  NoNewStarts
<1>1. Len(toHelper) \in Nat /\ Len(toHelper') \in Nat
  BY LenProperties
<1>2. CASE toHelper' = toHelper
  BY <1>1, <1>2 DEF NoNewStarts
<1>3. CASE \E d \in Nat : Shifted(toHelper', toHelper, d)
  <2>1. ~Starts(Garbage)
    BY DEF Starts, Garbage, Frame
  <2>2. PICK d \in Nat : Shifted(toHelper', toHelper, d)
    BY <1>3
  <2>3. \A i \in 1..Len(toHelper') : Starts(toHelper'[i]) =>
          i + d \in 1..Len(toHelper) /\ toHelper'[i] = toHelper[i + d]
    BY <2>1, <2>2 DEF Shifted
  <2> QED BY <2>3 DEF NoNewStarts
<1>4. CASE \A i \in 1..Len(toHelper') : toHelper'[i].kind = "request" =>
              i \in 1..Len(toHelper) /\ toHelper'[i] = toHelper[i]
  <2>1. \A i \in 1..Len(toHelper') : Starts(toHelper'[i]) =>
          i + 0 \in 1..Len(toHelper) /\ toHelper'[i] = toHelper[i + 0]
    BY <1>1, <1>4 DEF Starts
  <2> QED BY <2>1 DEF NoNewStarts
<1> QED BY <1>2, <1>3, <1>4

\* Neither left alone nor shortened does the pipe to the GUI get answers.
LEMMA NoAnswers ==
  ASSUME \/ toGui' = toGui
         \/ \E d \in Nat : Shifted(toGui', toGui, d)
  PROVE  NoNewAnswers
  BY DEF NoNewAnswers, In, Shifted, Answers, Garbage, Frame

\* Nor does it from a frame that is no answer, nor from the response.
LEMMA AppendAnswer ==
  ASSUME toGui \in Seq(Frames), NEW f \in Frames, Answers(f) => In(f, out),
         toGui' = Append(toGui, f)
  PROVE  NoNewAnswers
<1>1. /\ Len(toGui) \in Nat /\ Len(toGui') = Len(toGui) + 1
      /\ \A i \in 1..Len(toGui) : toGui'[i] = toGui[i]
      /\ toGui'[Len(toGui) + 1] = f
  BY AppendProperties, LenProperties
<1> QED BY <1>1 DEF NoNewAnswers, In

-----------------------------------------------------------------------------
(* Sorting the steps *)

\* What request() does to the requests: it calls, sends, waits or returns.
LEMMA RequesterEffect == IInv /\ Requester => Effect
<1> SUFFICES ASSUME IInv, Requester, Typed' PROVE Effect
  BY TypedStep DEF IInv, Next
<1>1. /\ toHelper \in Seq(Frames) /\ toHelper' \in Seq(Frames) /\ toGui \in Seq(Frames)
      /\ gpc # "idle" => cur \in Requests
  BY DEF IInv, Typed, TypeOK, Identified
<1>2. toHelper' = toHelper => NoNewStarts
  BY <1>1, NoStarts
<1>3. ASSUME toGui # <<>>
      PROVE  /\ Shifted(Tail(toGui), toGui, 1)
             /\ Sound(Head(toGui), op)
  BY <1>1, <1>3, TailShifted DEF IInv, Authentic
<1>4. toGui' = toGui \/ (toGui # <<>> /\ toGui' = Tail(toGui)) => NoNewAnswers
  BY <1>3, NoAnswers
<1>5. CASE SendFails
  <2>1. NoNewStarts
    <3>1. toHelper' \in {toHelper, Append(toHelper, Garbage)} /\ Garbage.kind # "request"
      BY <1>5 DEF SendFails, Garbage, Frame
    <3> QED BY <1>1, <3>1, FrameConstants, AppendOther, NoStarts DEF IInv
  <2>2. Returns
    BY <1>4, <1>5, <2>1 DEF SendFails, RaiseOpen, Return, Returns, runVars
  <2> QED BY <2>2 DEF Effect
<1>6. CASE ReceiveFrame
  <2> DEFINE f == Head(toGui)
  <2>1. NoNewStarts /\ NoNewAnswers
    BY <1>2, <1>4, <1>6 DEF ReceiveFrame
  <2>2. ASSUME f.id = cur, f.kind \in {"result", "error"}
        PROVE  op[cur] = IF f.kind = "result" THEN "ok" ELSE "error"
    BY <1>1, <1>3, <1>6, <2>2 DEF ReceiveFrame, Sound, Answers
  <2>3. /\ gpc = "receiving" /\ UNCHANGED runVars
        /\ \/ UNCHANGED guiVars
           \/ Return("failed")
           \/ Return("error") /\ op[cur] = "error"
           \/ Return("result") /\ op[cur] = "ok"
           \/ gpc' = "collecting" /\ op[cur] = "ok" /\ UNCHANGED <<outcome, cur>>
    BY <1>6, <2>2 DEF ReceiveFrame, RaiseOpen, Decodes
  <2> HIDE DEF f
  <2>4. Returns \/ Waits
    BY <2>1, <2>3 DEF Return, Returns, Waits, guiVars, runVars
  <2> QED BY <2>4 DEF Effect
<1>7. CASE ReceiveTorn
  <2>1. NoNewAnswers
    <3>1. PICK k \in 2..Len(toGui) : toGui' \in Rest(toGui, k)
      BY <1>7 DEF ReceiveTorn
    <3>2. k \in 1..Len(toGui)
      BY <1>1, LenProperties
    <3> QED BY <1>1, <3>1, <3>2, FrameConstants, RestShifted, NoAnswers
  <2>2. Returns
    BY <1>2, <1>7, <2>1 DEF ReceiveTorn, RaiseOpen, Return, Returns, runVars
  <2> QED BY <2>2 DEF Effect
<1>8. CASE ReceiveFramingFailure
  <2>1. Waits
    BY <1>2, <1>4, <1>8 DEF ReceiveFramingFailure, FramingFailure, Waits, runVars
  <2> QED BY <2>1 DEF Effect
<1>9. CASE ReceiveEof
  <2>1. Returns
    BY <1>2, <1>4, <1>9 DEF ReceiveEof, Return, Returns, runVars
  <2> QED BY <2>1 DEF Effect
<1>10. CASE CollectFrame
  <2>1. NoNewStarts /\ NoNewAnswers
    BY <1>2, <1>4, <1>10 DEF CollectFrame
  <2>2. op[cur] = "ok"
    BY <1>10 DEF CollectFrame, IInv, Authentic
  <2>3. /\ gpc = "collecting" /\ UNCHANGED runVars
        /\ \/ FramingFailure
           \/ Return("failed")
           \/ Return("result")
           \/ UNCHANGED <<outcome, gpc, cur>>
    BY <1>10 DEF CollectFrame, RaiseOpen
  <2>4. Returns \/ Waits
    BY <2>1, <2>2, <2>3 DEF FramingFailure, Return, Returns, Waits, runVars
  <2> QED BY <2>4 DEF Effect
<1>11. CASE CollectFails
  <2>1. Returns \/ Waits
    BY <1>2, <1>4, <1>11 DEF CollectFails, FramingFailure, Return, Returns, Waits, runVars
  <2> QED BY <2>1 DEF Effect
<1> QED
  BY <1>5, <1>6, <1>7, <1>8, <1>9, <1>10, <1>11 DEF Requester, Effect

\* close(): it ends the requester's own call or touches no request.
LEMMA CloseEffect == IInv /\ Close => Effect
<1> SUFFICES ASSUME IInv, Close, Typed' PROVE Effect
  BY TypedStep DEF IInv, Next
<1>1. /\ toHelper \in Seq(Frames) /\ toHelper' \in Seq(Frames) /\ out \in Seq(Frames)
      /\ closepc["worker"] # "none" => gpc # "idle"
  BY DEF IInv, Typed, TypeOK, Identified
<1>2. toHelper' = toHelper => NoNewStarts
  BY <1>1, NoStarts
<1>3. toGui' = toGui => NoNewAnswers
  BY NoAnswers
<1>4. out' = out => \A i \in 1..Len(out') : In(out'[i], out)
  BY DEF In
<1>5. CASE MainClose
  <2>1. Quiet
    BY <1>2, <1>3, <1>4, <1>5 DEF MainClose, Quiet, guiVars, runVars
  <2> QED BY <2>1 DEF Effect
<1> SUFFICES ASSUME NEW t \in Closers,
                    \/ CloseEnter(t) \/ CloseCancel(t) \/ CloseEof(t) \/ CloseDrain(t)
                    \/ CloseFinalize(t) \/ CloseGivesUp(t)
             PROVE Effect
  BY <1>5 DEF Close
\* Every part of close() ends a request or nothing.
<1>6. /\ UNCHANGED runVars
      /\ \/ closepc["worker"] # "none" /\ Return("failed")
         \/ UNCHANGED <<outcome, gpc, cur, gnext>>
  BY DEF CloseEnter, CloseCancel, CloseEof, CloseDrain, CloseFinalize, CloseGivesUp, Leave, guiVars
<1>7. NoNewStarts
  <2>1. toHelper' \in {toHelper, Append(toHelper, Cancel)} /\ Cancel.kind # "request"
    BY DEF CloseEnter, CloseCancel, CloseEof, CloseDrain, CloseFinalize, CloseGivesUp, Cancel, Frame
  <2> QED BY <1>1, <2>1, FrameConstants, AppendOther, NoStarts DEF IInv
<1>8. NoNewAnswers
  <2>1. toGui' \in {toGui, <<>>, <<Torn>>}
    BY DEF CloseEnter, CloseCancel, CloseEof, CloseDrain, CloseFinalize, CloseGivesUp
  <2>2. Len(<<>>) = 0 /\ Len(<<Torn>>) = 1 /\ <<Torn>>[1] = Torn /\ ~Answers(Torn)
    BY DEF Answers, Torn, Frame
  <2> QED BY <1>3, <2>1, <2>2 DEF NoNewAnswers
<1>9. Returns \/ Quiet
  BY <1>1, <1>4, <1>6, <1>7, <1>8 DEF Return, Returns, Quiet, runVars
<1> QED BY <1>9 DEF Effect

\* The control monitor: it may drop frames, and touches no request.
LEMMA MonitorEffect == IInv /\ Monitor => Effect
<1> SUFFICES ASSUME IInv, Monitor, Typed' PROVE Effect
  BY TypedStep DEF IInv, Next
<1>1. toHelper \in Seq(Frames) /\ toHelper' \in Seq(Frames)
  BY DEF IInv, Typed, TypeOK
<1>2. NoNewStarts
  <2>1. CASE MonitorRead
    <3>1. toHelper # <<>> /\ (\/ toHelper' = Tail(toHelper)
                              \/ \E k \in 1..Len(toHelper) : toHelper' \in Rest(toHelper, k))
      BY <2>1 DEF MonitorRead
    <3>2. \E d \in Nat : Shifted(toHelper', toHelper, d)
      BY <1>1, <3>1, FrameConstants, TailShifted, RestShifted
    <3> QED BY <1>1, <3>2, NoStarts
  <2>2. CASE MonitorEof \/ MonitorDeadline
    BY <1>1, <2>2, NoStarts DEF MonitorEof, MonitorDeadline, MonitorCancels
  <2> QED BY <2>1, <2>2 DEF Monitor
<1>3. UNCHANGED <<guiVars, toGui, runVars>>
  BY DEF Monitor, MonitorRead, MonitorEof, MonitorDeadline, MonitorCancels
<1>4. NoNewAnswers /\ \A i \in 1..Len(out') : In(out'[i], out)
  BY <1>3, NoAnswers DEF In, runVars
<1>5. Quiet
  BY <1>2, <1>3, <1>4 DEF Quiet, guiVars, runVars
<1> QED BY <1>5 DEF Effect

\* run_session: it assembles, begins and finishes requests, or only writes.
LEMMA HelperEffect == IInv /\ Helper => Effect
<1> SUFFICES ASSUME IInv, Helper, Typed' PROVE Effect
  BY TypedStep DEF IInv, Next
<1>1. /\ toHelper \in Seq(Frames) /\ toHelper' \in Seq(Frames)
      /\ toGui \in Seq(Frames) /\ out \in Seq(Frames) /\ Len(out) \in Nat
      /\ hpc \in {"assembling", "running", "responding"} => hreq \in Requests
  BY LenProperties DEF IInv, Typed, TypeOK, Identified
<1>2. toHelper' = toHelper => NoNewStarts
  BY <1>1, NoStarts
<1>3. toGui' = toGui => NoNewAnswers
  BY NoAnswers
<1>4. out' = out => \A i \in 1..Len(out') : In(out'[i], out)
  BY DEF In
<1>5. Torn \in Frames /\ ~Answers(Torn) /\ \A r \in Ids : Progress(r) \in Frames /\ ~Answers(Progress(r))
  BY FrameConstants, FrameTypes DEF Answers, Torn, Progress, Frame
<1>6. ASSUME toHelper # <<>>
      PROVE  /\ toHelper' = Tail(toHelper) => NoNewStarts
             /\ Head(toHelper) = toHelper[1]
             /\ Head(toHelper).kind = "request" => Head(toHelper).id \in Requests
  BY <1>1, <1>6, TailShifted, NoStarts DEF IInv, Typed, Identified
<1>7. CASE HelperRead
  <2> DEFINE f == Head(toHelper)
  <2>1. /\ hpc = "reading" /\ toHelper # <<>> /\ toHelper' = Tail(toHelper)
        /\ UNCHANGED <<guiVars, toGui>>
        /\ \/ f.kind = "request" /\ f.index = 0 /\ StartOperation(f.id) /\ UNCHANGED out
           \/ /\ f.kind = "request" /\ f.index = 0
              /\ hpc' = "assembling" /\ hreq' = f.id /\ UNCHANGED <<op, out>>
           \/ Exit
    BY <1>7 DEF HelperRead
  <2>2. f = toHelper[1] /\ NoNewStarts /\ (f.kind = "request" => f.id \in Requests)
    BY <1>6, <2>1
  <2> HIDE DEF f
  <2>3. CASE f.kind = "request" /\ f.index = 0 /\ StartOperation(f.id) /\ UNCHANGED out
    <3>1. Begins(f.id)
      BY <2>1, <2>2, <2>3 DEF Begins, StartOperation, Starts, guiVars
    <3> QED BY <2>2, <2>3, <3>1 DEF Effect
  <2>4. CASE /\ f.kind = "request" /\ f.index = 0
             /\ hpc' = "assembling" /\ hreq' = f.id /\ UNCHANGED <<op, out>>
    <3>1. Assembles(f.id)
      BY <2>1, <2>2, <2>4 DEF Assembles, Starts, guiVars
    <3> QED BY <2>2, <2>4, <3>1 DEF Effect
  <2>5. CASE Exit
    <3>1. Quiet
      BY <1>3, <1>4, <2>1, <2>2, <2>5 DEF Exit, Quiet, guiVars
    <3> QED BY <3>1 DEF Effect
  <2> QED BY <2>1, <2>3, <2>4, <2>5
<1>8. CASE HelperAssemble
  <2>1. /\ hpc = "assembling" /\ toHelper # <<>> /\ toHelper' = Tail(toHelper)
        /\ UNCHANGED <<guiVars, toGui>>
        /\ \/ StartOperation(hreq) /\ UNCHANGED out
           \/ UNCHANGED <<op, hpc, hreq, out>>
           \/ Exit
    BY <1>8 DEF HelperAssemble
  <2>2. NoNewStarts
    BY <1>6, <2>1
  <2>3. CASE StartOperation(hreq) /\ UNCHANGED out
    <3>1. Begins(hreq)
      BY <2>1, <2>3 DEF Begins, Assembling, StartOperation, guiVars
    <3> QED BY <1>1, <2>1, <3>1 DEF Effect
  <2>4. CASE UNCHANGED <<op, hpc, hreq, out>> \/ Exit
    <3>1. Quiet
      BY <1>3, <1>4, <2>1, <2>2, <2>4 DEF Exit, Quiet, guiVars
    <3> QED BY <3>1 DEF Effect
  <2> QED BY <2>1, <2>3, <2>4
<1>9. CASE HelperInputEnds \/ HelperKilled
  <2>1. Quiet
    BY <1>2, <1>3, <1>4, <1>9 DEF HelperInputEnds, HelperKilled, Exit, Quiet, guiVars
  <2> QED BY <2>1 DEF Effect
<1>10. CASE HelperProgress
  <2>1. hreq \in Requests /\ toGui' = Append(toGui, Progress(hreq))
    BY <1>1, <1>10 DEF HelperProgress
  <2>2. NoNewAnswers
    BY <1>1, <1>5, <2>1, AppendAnswer DEF Ids
  <2>3. Quiet
    BY <1>2, <1>4, <1>10, <2>2 DEF HelperProgress, Quiet, guiVars, runVars
  <2> QED BY <2>3 DEF Effect
\* The two statuses of an operation and their responses.
<1>11. ASSUME hpc = "running", NEW status \in {"ok", "error"}, NEW frames,
              OperationEnds(status, frames), NoNewAnswers,
              \A i \in 1..Len(frames) : Answers(frames[i]) =>
                 /\ frames[i].id = hreq
                 /\ status = IF frames[i].kind = "result" THEN "ok" ELSE "error"
       PROVE Effect
  <2>1. Finishes(hreq)
    BY <1>11 DEF OperationEnds, Finishes, guiVars
  <2> QED BY <1>1, <1>11, <2>1 DEF Effect
<1>12. CASE HelperProgressTorn \/ OperationFails
  <2>1. hpc = "running" /\ OperationEnds("error", <<ErrorFrame(hreq)>>)
    BY <1>12 DEF HelperProgressTorn, OperationFails
  <2>2. NoNewAnswers
    <3>1. toGui' = toGui \/ toGui' = Append(toGui, Torn)
      BY <1>12 DEF HelperProgressTorn, OperationFails
    <3> QED BY <1>1, <1>3, <1>5, <3>1, AppendAnswer
  <2>3. \A i \in 1..Len(<<ErrorFrame(hreq)>>) :
          <<ErrorFrame(hreq)>>[i].id = hreq /\ <<ErrorFrame(hreq)>>[i].kind = "error"
    BY DEF ErrorFrame, Frame
  <2> QED BY <1>11, <2>1, <2>2, <2>3
<1>13. ASSUME NEW n \in 1..MaxChunks, OperationSucceeds(n) PROVE Effect
  <2>1. hpc = "running" /\ toGui' = toGui /\ OperationEnds("ok", ResultFrames(hreq, n))
    BY <1>13 DEF OperationSucceeds
  <2>2. n \in Nat /\ \A i \in 1..n : i - 1 \in Nat
    BY SessionAssumption
  <2>3. Len(ResultFrames(hreq, n)) = n
    BY <2>2 DEF ResultFrames
  <2>4. \A i \in 1..Len(ResultFrames(hreq, n)) :
          ResultFrames(hreq, n)[i].id = hreq /\ ResultFrames(hreq, n)[i].kind = "result"
    BY <2>2, <2>3 DEF ResultFrames, ResultFrame, Frame
  <2> QED BY <1>3, <1>11, <2>1, <2>4
<1>14. CASE HelperRespond
  <2>1. /\ hpc = "responding" /\ hpc' \in {"reading", "responding"}
        /\ toGui' = Append(toGui, Head(out)) /\ out' = Tail(out)
        /\ UNCHANGED <<guiVars, toHelper, op, hreq>>
    BY <1>14 DEF HelperRespond
  <2>2. /\ Head(out) \in Frames /\ Head(out) = out[1] /\ 1 \in 1..Len(out)
        /\ Shifted(Tail(out), out, 1)
    BY <1>1, <2>1, TailShifted DEF IInv, Typed, Identified
  <2>3. NoNewAnswers
    BY <1>1, <2>1, <2>2, AppendAnswer DEF In
  <2>4. \A i \in 1..Len(out') : In(out'[i], out)
    <3>1. /\ out # <<>> /\ Len(Tail(out)) = Len(out) - 1
          /\ \A i \in 1..Len(Tail(out)) : Tail(out)[i] = out[i + 1]
      BY <1>1, <2>1, HeadTailProperties DEF IInv, Typed, Identified
    <3> QED BY <1>1, <2>1, <3>1 DEF In
  <2>5. Quiet
    BY <1>2, <2>1, <2>3, <2>4 DEF Quiet, guiVars
  <2> QED BY <2>5 DEF Effect
<1>15. CASE HelperRespondFails
  <2>1. NoNewAnswers
    <3>1. PICK rest \in {<<>>, <<Torn>>, <<Torn, ErrorFrame(NoReq)>>} : toGui' = toGui \o rest
      BY <1>15 DEF HelperRespondFails
    <3>2. /\ rest \in Seq(Frames) /\ Len(rest) \in Nat
          /\ \A i \in 1..Len(rest) : rest[i] \in {Torn, ErrorFrame(NoReq)}
      <4>1. CASE rest = <<>>
        BY <4>1
      <4>2. CASE rest = <<Torn>>
        BY <4>2, FrameConstants
      <4>3. CASE rest = <<Torn, ErrorFrame(NoReq)>>
        BY <4>3, FrameConstants
      <4> QED BY <3>1, <4>1, <4>2, <4>3
    <3>3. ~Answers(ErrorFrame(NoReq))
      BY SessionAssumption DEF Answers, ErrorFrame, Frame
    <3>4. /\ Len(toGui) \in Nat /\ Len(toGui') = Len(toGui) + Len(rest)
          /\ \A i \in 1..Len(toGui') :
               toGui'[i] = IF i <= Len(toGui) THEN toGui[i] ELSE rest[i - Len(toGui)]
      BY <1>1, <3>1, <3>2, ConcatProperties, LenProperties
    <3>5. ASSUME NEW i \in 1..Len(toGui'), Answers(toGui'[i]) PROVE In(toGui'[i], toGui)
      <4>1. i <= Len(toGui)
        BY <1>5, <3>2, <3>3, <3>4, <3>5
      <4> QED BY <3>4, <4>1 DEF In
    <3> QED BY <3>5 DEF NoNewAnswers
  <2>2. Quiet
    BY <1>2, <1>4, <1>15, <2>1 DEF HelperRespondFails, Exit, Quiet, guiVars
  <2> QED BY <2>2 DEF Effect
<1>16. ASSUME NEW r \in Requests, StragglerBuilds(r) \/ StragglerWrites(r) \/ StragglerEnds(r) PROVE Effect
  <2>1. NoNewAnswers
    <3>1. toGui' \in {toGui, Append(toGui, Progress(stragglers[r])), Append(toGui, Torn)}
      BY <1>16 DEF StragglerBuilds, StragglerWrites, StragglerEnds
    <3>2. stragglers[r] \in Ids
      BY <1>16 DEF IInv, Typed, TypeOK, Late
    <3> QED BY <1>1, <1>3, <1>5, <3>1, <3>2, AppendAnswer
  <2>2. Quiet
    BY <1>2, <1>4, <1>16, <2>1 DEF StragglerBuilds, StragglerWrites, StragglerEnds, Quiet, guiVars, runVars
  <2> QED BY <2>2 DEF Effect
<1> QED
  BY <1>7, <1>8, <1>9, <1>10, <1>12, <1>13, <1>14, <1>15, <1>16 DEF Helper

\* Every step has one of the effects.
LEMMA StepEffect == IInv /\ Next => Effect
  BY RequesterEffect, CloseEffect, HelperEffect, MonitorEffect DEF Next

-----------------------------------------------------------------------------
(* Each effect preserves the invariant *)

\* Only a request that begins enters the helper's assembly or its operation.
LEMMA AtMostOnceKept ==
  ASSUME Typed, Typed', AtMostOnce, NoNewStarts,
         \A r \in Requests : /\ Unsent(r)' => Unsent(r)
                             /\ Assembling(r)' => Assembling(r)
                             /\ op'[r] = "none" <=> op[r] = "none"
  PROVE  AtMostOnce'
<1>1. PICK d \in Nat : \A i \in 1..Len(toHelper') : Starts(toHelper'[i]) =>
         i + d \in 1..Len(toHelper) /\ toHelper'[i] = toHelper[i + d]
  BY DEF NoNewStarts
<1>2. /\ Len(toHelper') \in Nat
      /\ \A i \in 1..Len(toHelper') : Starts(toHelper'[i]) => toHelper'[i].id \in Requests
  BY LenProperties DEF Typed, TypeOK, Identified, Starts
<1>3. ASSUME NEW i \in 1..Len(toHelper'), Starts(toHelper'[i]),
             NEW r \in Requests, toHelper'[i].id = r
      PROVE  op'[r] = "none" /\ ~Unsent(r)' /\ ~Assembling(r)'
  <2>1. op[r] = "none" /\ ~Unsent(r) /\ ~Assembling(r)
    BY <1>1, <1>3 DEF AtMostOnce
  <2> QED BY <2>1
<1>4. ASSUME NEW i \in 1..Len(toHelper'), NEW j \in 1..Len(toHelper'),
             Starts(toHelper'[i]), Starts(toHelper'[j]), toHelper'[i].id = toHelper'[j].id
      PROVE  i = j
  BY <1>1, <1>2, <1>4 DEF AtMostOnce
<1>5. \A r \in Requests : Assembling(r)' => op'[r] = "none" /\ ~Unsent(r)'
  BY DEF AtMostOnce
<1>6. \A r \in Requests : op'[r] # "none" => ~Unsent(r)'
  BY DEF AtMostOnce
<1> QED BY <1>2, <1>3, <1>4, <1>5, <1>6 DEF AtMostOnce, Unsent, Assembling, Starts

\* Statuses that an answer told are final.
LEMMA AuthenticKept ==
  ASSUME Typed, Typed', Authentic, NoNewAnswers,
         \A r \in Requests : op[r] \in {"ok", "error"} => op'[r] = op[r],
         \A i \in 1..Len(out') : In(out'[i], out) \/ Sound(out'[i], op'),
         (gpc = "collecting" => op[cur] = "ok")',
         ResultAuthentic'
  PROVE  Authentic'
<1>1. ASSUME NEW f, Sound(f, op) PROVE Sound(f, op')
  BY <1>1 DEF Sound, Answers
<1>2. ASSUME NEW i \in 1..Len(out') PROVE Sound(out'[i], op')
  BY <1>1 DEF In, Authentic
<1>3. ASSUME NEW i \in 1..Len(toGui') PROVE Sound(toGui'[i], op')
  <2>1. CASE ~Answers(toGui'[i])
    BY <2>1 DEF Sound
  <2>2. CASE In(toGui'[i], toGui) \/ In(toGui'[i], out)
    BY <1>1, <2>2 DEF In, Authentic
  <2> QED BY <2>1, <2>2 DEF NoNewAnswers
<1> QED BY <1>2, <1>3 DEF Authentic

\* What the helper takes up it has not taken up before.
LEMMA BegunOnce ==
  ASSUME IInv, NEW q \in Requests, Assembles(q) \/ Begins(q)
  PROVE  op[q] = "none" /\ ~Unsent(q)
<1>1. \/ toHelper # <<>> /\ Starts(toHelper[1]) /\ toHelper[1].id = q
      \/ Assembling(q)
  BY DEF Assembles, Begins
<1>2. toHelper # <<>> => 1 \in 1..Len(toHelper)
  BY TailShifted DEF IInv, Typed, TypeOK
<1> QED BY <1>1, <1>2 DEF IInv, AtMostOnce

\* No effect breaks the invariant.
LEMMA EffectPreserves ==
  ASSUME IInv, Typed', Effect
  PROVE  AtMostOnce' /\ Alone' /\ Authentic'
<1> USE DEF IInv
<1>1. /\ outcome \in [Requests -> {"none", "pending", "result", "error", "failed"}]
      /\ op \in [Requests -> {"none", "running", "ok", "error"}]
      /\ toHelper \in Seq(Frames) /\ toHelper' \in Seq(Frames) /\ toGui \in Seq(Frames)
      /\ Len(toHelper) \in Nat /\ Len(toHelper') \in Nat
      /\ gpc # "idle" => cur \in Requests /\ outcome[cur] = "pending"
      /\ hpc \in {"assembling", "running", "responding"} => hreq \in Requests
      /\ \A i \in 1..Len(toHelper) : Starts(toHelper[i]) => toHelper[i].id \in Requests
      /\ \A i \in 1..Len(toHelper') : Starts(toHelper'[i]) => toHelper'[i].id \in Requests
  BY LenProperties DEF Typed, TypeOK, Identified, Starts
<1>2. toHelper' = toHelper => NoNewStarts
  BY <1>1, NoStarts
<1>3. toGui' = toGui => NoNewAnswers
  BY NoAnswers
<1>4. out' = out => \A i \in 1..Len(out') : In(out'[i], out) \/ Sound(out'[i], op')
  BY DEF In
<1>5. ASSUME NEW q \in Requests, NEW n \in 1..MaxChunks, RequestBegin(q, n)
      PROVE  AtMostOnce' /\ Alone' /\ Authentic'
  <2>1. /\ gpc = "idle" /\ outcome[q] = "none" /\ outcome' = [outcome EXCEPT ![q] = "pending"]
        /\ gpc' = "sending" /\ gnext' = 0 /\ cur' = q
        /\ UNCHANGED <<toHelper, toGui, op, hpc, hreq, out>>
    BY <1>5 DEF RequestBegin, runVars
  <2>2. AtMostOnce'
    <3>1. \A r \in Requests : Unsent(r)' => Unsent(r)
      BY <1>1, <2>1 DEF Unsent
    <3> QED BY <1>2, <2>1, <3>1, AtMostOnceKept DEF Assembling
  <2>3. Alone'
    BY <2>1 DEF Alone
  <2>4. Authentic'
    <3>1. ResultAuthentic'
      BY <1>1, <2>1 DEF ResultAuthentic, Authentic
    <3> QED BY <1>3, <1>4, <2>1, <3>1, AuthenticKept
  <2> QED BY <2>2, <2>3, <2>4
<1>6. CASE SendFrame
  <2> DEFINE f == RequestFrame(cur, gnext, gcount)
  <2>1. /\ gpc = "sending" /\ cur \in Requests /\ f \in Frames
        /\ f.kind = "request" /\ f.id = cur /\ f.index = gnext
    BY <1>1, <1>6, FrameTypes DEF SendFrame, RequestFrame, Frame, Typed, TypeOK
  <2>2. /\ Len(toHelper') = Len(toHelper) + 1
        /\ \A i \in 1..Len(toHelper) : toHelper'[i] = toHelper[i]
        /\ toHelper'[Len(toHelper) + 1] = f
    BY <1>1, <1>6, <2>1, AppendProperties DEF SendFrame
  <2>3. /\ gpc' \in {"sending", "receiving"} /\ (gpc' = "sending" => gnext' = gnext + 1)
        /\ UNCHANGED <<outcome, cur, toGui, op, hpc, hreq, out>>
    BY <1>6 DEF SendFrame, runVars
  <2> HIDE DEF f
  <2>4. gnext \in Nat
    BY DEF Typed, TypeOK
  <2>5. \A r \in Requests : Unsent(r)' => Unsent(r) /\ (gnext = 0 => r # cur)
    BY <1>1, <2>1, <2>3, <2>4 DEF Unsent
  <2>6. AtMostOnce'
    <3>1. \A r \in Requests : /\ Assembling(r)' <=> Assembling(r)
                              /\ op'[r] = op[r]
      BY <2>3 DEF Assembling
    <3>2. CASE gnext # 0
      <4>1. ~Starts(f)
        BY <2>1, <3>2 DEF Starts
      <4>2. \A i \in 1..Len(toHelper') : Starts(toHelper'[i]) =>
              i + 0 \in 1..Len(toHelper) /\ toHelper'[i] = toHelper[i + 0]
        BY <1>1, <2>2, <4>1
      <4>3. NoNewStarts
        BY <4>2 DEF NoNewStarts
      <4> QED BY <2>5, <3>1, <4>3, AtMostOnceKept
    <3>3. CASE gnext = 0
      <4>1. Unsent(cur) /\ op[cur] = "none" /\ ~Assembling(cur)
        BY <2>1, <3>3 DEF Unsent, AtMostOnce
      <4>2. \A i \in 1..Len(toHelper) : Starts(toHelper[i]) => toHelper[i].id # cur
        BY <4>1 DEF AtMostOnce
      <4>3. \A i \in 1..Len(toHelper') : Starts(toHelper'[i]) =>
              \/ i \in 1..Len(toHelper) /\ toHelper'[i] = toHelper[i]
              \/ i = Len(toHelper) + 1 /\ toHelper'[i].id = cur
        BY <1>1, <2>1, <2>2
      <4>4. ASSUME NEW i \in 1..Len(toHelper'), Starts(toHelper'[i]),
                   NEW r \in Requests, toHelper'[i].id = r
            PROVE  op'[r] = "none" /\ ~Unsent(r)' /\ ~Assembling(r)'
        <5>1. CASE i \in 1..Len(toHelper) /\ toHelper'[i] = toHelper[i]
          <6>1. op[r] = "none" /\ ~Unsent(r) /\ ~Assembling(r)
            BY <4>4, <5>1 DEF AtMostOnce
          <6> QED BY <2>5, <3>1, <6>1
        <5>2. CASE r = cur
          BY <2>5, <3>1, <3>3, <4>1, <5>2
        <5> QED BY <4>3, <4>4, <5>1, <5>2
      <4>5. ASSUME NEW i \in 1..Len(toHelper'), NEW j \in 1..Len(toHelper'),
                   Starts(toHelper'[i]), Starts(toHelper'[j]), toHelper'[i].id = toHelper'[j].id
            PROVE  i = j
        BY <4>2, <4>3, <4>5 DEF AtMostOnce
      <4>6. \A r \in Requests : Assembling(r)' => op'[r] = "none" /\ ~Unsent(r)'
        BY <2>5, <3>1 DEF AtMostOnce
      <4>7. \A r \in Requests : op'[r] # "none" => ~Unsent(r)'
        BY <2>5, <3>1 DEF AtMostOnce
      <4> QED BY <1>1, <4>4, <4>5, <4>6, <4>7 DEF AtMostOnce, Unsent, Assembling, Starts
    <3> QED BY <3>2, <3>3
  <2>7. Alone'
    BY <2>3 DEF Alone
  <2>8. Authentic'
    <3>1. ResultAuthentic'
      BY <2>3 DEF ResultAuthentic, Authentic
    <3> QED BY <1>3, <1>4, <2>3, <3>1, AuthenticKept
  <2> QED BY <2>6, <2>7, <2>8
<1>7. CASE Returns \/ Waits
  <2>1. /\ gpc # "idle" /\ UNCHANGED <<cur, op, hpc, hreq, out>> /\ NoNewStarts /\ NoNewAnswers
        /\ gpc' \in {"idle", "receiving", "collecting", "closing"}
        /\ gpc' = "collecting" => op[cur] = "ok"
        /\ \/ outcome' = outcome
           \/ outcome' = [outcome EXCEPT ![cur] = "failed"]
           \/ op[cur] = "ok" /\ outcome' = [outcome EXCEPT ![cur] = "result"]
           \/ op[cur] = "error" /\ outcome' = [outcome EXCEPT ![cur] = "error"]
    BY <1>7 DEF Returns, Waits
  <2>2. AtMostOnce'
    <3>1. \A r \in Requests : Unsent(r)' => Unsent(r)
      BY <1>1, <2>1 DEF Unsent
    <3> QED BY <2>1, <3>1, AtMostOnceKept DEF Assembling
  <2>3. Alone'
    BY <2>1 DEF Alone
  <2>4. Authentic'
    <3>1. ResultAuthentic'
      BY <1>1, <2>1 DEF ResultAuthentic, Authentic
    <3> QED BY <1>4, <2>1, <3>1, AuthenticKept
  <2> QED BY <2>2, <2>3, <2>4
<1>8. CASE Quiet
  <2>1. AtMostOnce'
    <3>1. \A r \in Requests : /\ Unsent(r)' => Unsent(r)
                              /\ Assembling(r)' => Assembling(r)
      BY <1>8 DEF Quiet, Unsent, Assembling
    <3> QED BY <1>8, <3>1, AtMostOnceKept DEF Quiet
  <2>2. Alone'
    BY <1>8 DEF Quiet, Alone
  <2>3. Authentic'
    <3>1. ResultAuthentic'
      BY <1>8 DEF Quiet, ResultAuthentic, Authentic
    <3> QED BY <1>8, <3>1, AuthenticKept DEF Quiet, Authentic
  <2> QED BY <2>1, <2>2, <2>3
<1>9. ASSUME NEW q \in Requests, Assembles(q) \/ Begins(q)
      PROVE  AtMostOnce' /\ Alone' /\ Authentic'
  <2>1. /\ toHelper # <<>> /\ toHelper' = Tail(toHelper)
        /\ (Starts(toHelper[1]) /\ toHelper[1].id = q) \/ Assembling(q)
        /\ hpc \in {"reading", "assembling"} /\ hreq' = q
        /\ \/ hpc' = "assembling" /\ op' = op
           \/ hpc' = "running" /\ op' = [op EXCEPT ![q] = "running"]
        /\ UNCHANGED <<outcome, gpc, cur, gnext, toGui, out>>
    BY <1>9 DEF Assembles, Begins, Assembling
  <2>2. /\ 1 \in 1..Len(toHelper) /\ Len(toHelper') = Len(toHelper) - 1
        /\ \A i \in 1..Len(toHelper') : i + 1 \in 1..Len(toHelper) /\ toHelper'[i] = toHelper[i + 1]
    BY <1>1, <2>1, HeadTailProperties, TailShifted
  <2>3. op[q] = "none" /\ ~Unsent(q)
    BY <1>9, BegunOnce
  <2>4. ASSUME NEW i \in 1..Len(toHelper'), Starts(toHelper'[i]) PROVE toHelper'[i].id # q
    BY <2>1, <2>2, <2>4 DEF AtMostOnce
  <2>5. \A r \in Requests : /\ Unsent(r)' <=> Unsent(r)
                            /\ r # q => op'[r] = op[r] /\ ~Assembling(r)'
                            /\ Assembling(q)' => op'[q] = "none"
    BY <1>1, <2>1, <2>3 DEF Unsent, Assembling
  <2>6. AtMostOnce'
    <3>1. ASSUME NEW i \in 1..Len(toHelper'), Starts(toHelper'[i]),
                 NEW r \in Requests, toHelper'[i].id = r
          PROVE  op'[r] = "none" /\ ~Unsent(r)' /\ ~Assembling(r)'
      <4>1. r # q /\ op[r] = "none" /\ ~Unsent(r)
        BY <2>2, <2>4, <3>1 DEF AtMostOnce
      <4> QED BY <2>5, <4>1
    <3>2. ASSUME NEW i \in 1..Len(toHelper'), NEW j \in 1..Len(toHelper'),
                 Starts(toHelper'[i]), Starts(toHelper'[j]), toHelper'[i].id = toHelper'[j].id
          PROVE  i = j
      <4>1. i + 1 = j + 1
        BY <2>2, <3>2 DEF AtMostOnce
      <4> QED BY <1>1, <4>1
    <3>3. \A r \in Requests : Assembling(r)' => op'[r] = "none" /\ ~Unsent(r)'
      BY <2>3, <2>5
    <3>4. \A r \in Requests : op'[r] # "none" => ~Unsent(r)'
      BY <2>3, <2>5 DEF AtMostOnce
    <3> QED BY <1>1, <3>1, <3>2, <3>3, <3>4 DEF AtMostOnce, Unsent, Assembling, Starts
  <2>7. Alone'
    BY <1>1, <2>1, <2>3 DEF Alone
  <2>8. Authentic'
    <3>1. \A r \in Requests : op[r] \in {"ok", "error"} => op'[r] = op[r]
      BY <2>3, <2>5
    <3>2. ResultAuthentic'
      BY <2>1, <3>1 DEF ResultAuthentic, Authentic
    <3>3. (gpc = "collecting" => op[cur] = "ok")'
      BY <1>1, <2>1, <3>1 DEF Authentic
    <3> QED BY <1>3, <1>4, <2>1, <3>1, <3>2, <3>3, AuthenticKept
  <2> QED BY <2>6, <2>7, <2>8
<1>10. ASSUME NEW q \in Requests, Finishes(q)
       PROVE  AtMostOnce' /\ Alone' /\ Authentic'
  <2>1. PICK s \in {"ok", "error"} :
          /\ op' = [op EXCEPT ![q] = s]
          /\ \A i \in 1..Len(out') : Answers(out'[i]) =>
               out'[i].id = q /\ s = IF out'[i].kind = "result" THEN "ok" ELSE "error"
    BY <1>10 DEF Finishes
  <2>2. /\ hpc = "running" /\ hpc' = "responding" /\ hreq = q
        /\ UNCHANGED <<outcome, gpc, cur, gnext, hreq, toHelper>> /\ NoNewAnswers
    BY <1>10 DEF Finishes
  <2>3. op[q] = "running" /\ op'[q] = s /\ \A r \in Requests : r # q => op'[r] = op[r]
    BY <1>1, <2>1, <2>2 DEF Alone
  <2>4. AtMostOnce'
    <3>1. \A r \in Requests : /\ Unsent(r)' => Unsent(r)
                              /\ Assembling(r)' => Assembling(r)
                              /\ op'[r] = "none" <=> op[r] = "none"
      BY <2>2, <2>3 DEF Unsent, Assembling
    <3> QED BY <1>2, <2>2, <3>1, AtMostOnceKept
  <2>5. Alone'
    BY <1>1, <2>2, <2>3 DEF Alone
  <2>6. Authentic'
    <3>1. \A r \in Requests : op[r] \in {"ok", "error"} => op'[r] = op[r]
      BY <2>3
    <3>2. \A i \in 1..Len(out') : Sound(out'[i], op')
      BY <2>1, <2>3 DEF Sound
    <3>3. ResultAuthentic'
      BY <2>2, <3>1 DEF ResultAuthentic, Authentic
    <3>4. (gpc = "collecting" => op[cur] = "ok")'
      BY <1>1, <2>2, <3>1 DEF Authentic
    <3> QED BY <2>2, <3>1, <3>2, <3>3, <3>4, AuthenticKept
  <2> QED BY <2>4, <2>5, <2>6
<1> QED BY <1>5, <1>6, <1>7, <1>8, <1>9, <1>10 DEF Effect

\* The invariant holds initially ...
LEMMA InitInvariant == Init => IInv
<1> SUFFICES ASSUME Init PROVE IInv
  OBVIOUS
<1>1. Len(<<>>) = 0
  BY EmptySeq
<1>2. AtMostOnce
  BY <1>1 DEF Init, AtMostOnce, Assembling
<1>3. Alone /\ Authentic
  BY <1>1 DEF Init, Alone, Authentic, ResultAuthentic
<1> QED BY <1>2, <1>3, InitTyped DEF IInv

\* ... every step preserves it ...
LEMMA InvariantStep == IInv /\ [Next]_vars => IInv'
<1> SUFFICES ASSUME IInv, [Next]_vars PROVE IInv'
  OBVIOUS
<1>1. Typed'
  BY TypedStep DEF IInv
<1>2. CASE Next
  BY <1>1, <1>2, StepEffect, EffectPreserves DEF IInv
<1>3. CASE UNCHANGED vars
  <2>1. AtMostOnce' /\ Alone' /\ Authentic'
    BY <1>3 DEF IInv, AtMostOnce, Unsent, Assembling, Alone, Authentic, ResultAuthentic,
                vars, guiVars, closeVars, runVars
  <2> QED BY <1>1, <2>1 DEF IInv
<1> QED BY <1>2, <1>3

-----------------------------------------------------------------------------
(* The theorems *)

\* ... and so it always holds.
LEMMA Invariant == Spec => []IInv
  BY InitInvariant, InvariantStep, PTL DEF Spec

\* Whatever request() returns for a request was computed by the helper for
\* that very request: no answer of an earlier one is mistaken for it, after
\* any sequence of framing failures, torn writes, late frames and closes.
THEOREM AnswersAreAuthentic == Spec => []ResultAuthentic
<1>1. IInv => ResultAuthentic
  BY DEF IInv, Authentic
<1> QED BY <1>1, Invariant, PTL

\* Every step of the session is a step of Rpc or leaves its variables alone.
LEMMA EffectRefines ==
  ASSUME IInv, Typed', Effect
  PROVE  [R!Next]_(R!rpcVars)
<1> USE DEF IInv
<1>1. /\ outcome \in [Requests -> {"none", "pending", "result", "error", "failed"}]
      /\ gpc # "idle" => cur \in Requests /\ outcome[cur] = "pending"
      /\ \A r \in Requests : outcome[r] = "pending" => gpc # "idle"
      /\ hpc = "running" => hreq \in Requests
  BY DEF Typed, TypeOK, Identified
<1>2. ASSUME NEW q \in Requests, NEW n \in 1..MaxChunks, RequestBegin(q, n)
      PROVE  R!Call(q)
  BY <1>1, <1>2 DEF RequestBegin, R!Call, runVars
<1>3. CASE Returns
  <2>1. R!Fail(cur) \/ R!Return(cur)
    BY <1>1, <1>3 DEF Returns, R!Fail, R!Return
  <2> QED BY <1>1, <1>3, <2>1 DEF Returns, R!Next
<1>4. ASSUME NEW q \in Requests, Begins(q)
      PROVE  R!Start(q)
  <2>1. op[q] = "none" /\ outcome[q] # "none"
    BY <1>4, BegunOnce DEF Unsent
  <2>2. \A r \in Requests : op[r] # "running"
    BY <1>4 DEF Begins, Assembling, Alone
  <2> QED BY <1>4, <2>1, <2>2 DEF Begins, R!Start
<1>5. ASSUME NEW q \in Requests, Finishes(q)
      PROVE  R!Finish(q)
  BY <1>5 DEF Finishes, Alone, R!Finish
<1>6. SendFrame \/ Waits \/ Quiet \/ (\E q \in Requests : Assembles(q)) => UNCHANGED R!rpcVars
  BY DEF SendFrame, Waits, Quiet, Assembles, runVars, R!rpcVars
<1> QED BY <1>2, <1>3, <1>4, <1>5, <1>6 DEF Effect, R!Next

\* The session is an RPC in the sense of Rpc: one call at a time, at most one
\* execution of each and one execution at a time, and no answer but the
\* execution's.
THEOREM SessionImplementsRpc == Spec => ImplementsRpc
<1>1. Init => R!Init
  BY DEF Init, R!Init
<1>2. IInv /\ [Next]_vars => [R!Next]_(R!rpcVars)
  <2> SUFFICES ASSUME IInv, [Next]_vars PROVE [R!Next]_(R!rpcVars)
    OBVIOUS
  <2>1. CASE Next
    <3>1. Typed' /\ Effect
      BY <2>1, StepEffect, TypedStep DEF IInv
    <3> QED BY <3>1, EffectRefines
  <2>2. CASE UNCHANGED vars
    BY <2>2 DEF vars, guiVars, runVars, R!rpcVars
  <2> QED BY <2>1, <2>2
<1> QED BY <1>1, <1>2, Invariant, PTL DEF Spec, ImplementsRpc, R!Spec
-----------------------------------------------------------------------------
(* No request is lost: the inductive invariant                             *)

\* Nobody closed the session, its helper lives and no request gave up on the
\* stream: what was ever false stays false.
Intact == stdinOpen /\ hpc # "exited" /\ stream = "clean" /\ reuse = "none"

IsAnswer(f) == f.kind \in {"result", "error"}
Requestless(pipe) == \A i \in 1..Len(pipe) : pipe[i].kind # "request"
Answerless(pipe) == \A i \in 1..Len(pipe) : ~IsAnswer(pipe[i])

\* The request frames in a pipe are some of those of request r of n frames that
\* have a number from a to b - 1, each at most once.
Carries(pipe, r, n, a, b) ==
  /\ a <= b
  /\ \A i \in 1..Len(pipe) : pipe[i].kind = "request" =>
       /\ pipe[i].id = r /\ pipe[i].count = n
       /\ a <= pipe[i].index /\ pipe[i].index < b
  /\ \A i, j \in 1..Len(pipe) :
       pipe[i].kind = "request" /\ pipe[j].kind = "request" /\ pipe[i].index = pipe[j].index
       => i = j

\* Of the n frames of an answer to r, those from number w on are still to be
\* written, and the reader has read the first k; the others are in the pipe, once.
Underway(pipe, rest, r, kind, n, k, w) ==
  /\ k < n /\ k <= w /\ (kind = "error" => n = 1)
  /\ w + Len(rest) = n /\ \A i \in 1..Len(rest) : rest[i] = Frame(kind, r, w + i - 1, n)
  /\ \A i \in 1..Len(pipe) : IsAnswer(pipe[i]) =>
       /\ pipe[i].kind = kind /\ pipe[i].id = r /\ pipe[i].count = n
       /\ k <= pipe[i].index /\ pipe[i].index < w
  /\ \A j \in k..(w - 1) : \E i \in 1..Len(pipe) :
       IsAnswer(pipe[i]) /\ pipe[i].id = r /\ pipe[i].index = j
  /\ \A i, j \in 1..Len(pipe) :
       IsAnswer(pipe[i]) /\ IsAnswer(pipe[j]) /\ pipe[i].index = pipe[j].index => i = j

\* The frames of the request the GUI has written.
WrittenTo == IF gpc = "sending" THEN gnext ELSE gcount
Writing == gpc \in {"sending", "receiving"} /\ (gpc = "sending" => gnext < gcount)

\* An exchange passes through these stages.
AtRest == gpc = "idle" /\ hpc = "reading" /\ Requestless(toHelper) /\ Answerless(toGui)

Asking ==
  /\ Writing /\ hpc = "reading" /\ Carries(toHelper, cur, gcount, 0, WrittenTo) /\ Answerless(toGui)
  /\ gpc = "receiving" => Holds(toHelper, cur, {"request"})

Taking ==
  /\ Writing /\ hpc = "assembling" /\ hreq = cur /\ hcount = gcount /\ hnext < hcount
  /\ Carries(toHelper, cur, gcount, hnext, WrittenTo) /\ Answerless(toGui)

Serving ==
  /\ gpc = "receiving" /\ hpc = "running" /\ hreq = cur
  /\ Requestless(toHelper) /\ Answerless(toGui)

Answering ==
  /\ gpc \in {"receiving", "collecting"} /\ Requestless(toHelper)
  /\ IF out = <<>> THEN hpc = "reading" ELSE hpc = "responding" /\ hreq = cur
  /\ \E kind \in {"result", "error"}, n \in 1..MaxChunks, k, w \in 0..MaxChunks :
       /\ Underway(toGui, out, cur, kind, n, k, w)
       /\ gpc = "receiving" => k = 0
       /\ gpc = "collecting" => k = gnext /\ gcount = n

Exchange == AtRest \/ Asking \/ Taking \/ Serving \/ Answering

\* The session of a helper is only marked closed when it is gone, drained only
\* after its stdin was closed, and monitored only while it runs an operation.
Orderly ==
  /\ closed => hpc = "exited"
  /\ \A t \in Closers : closepc[t] = "drain" => ~stdinOpen
  /\ monitor = "on" /\ hpc # "exited" => hpc = "running"

Traced == Orderly /\ (Intact => gpc = "closing" \/ Broken(toGui) \/ Exchange)

-----------------------------------------------------------------------------
(* Pipes of an exchange                                                    *)

LEMMA IndexType ==
  ASSUME NEW pipe \in Seq(Frames)
  PROVE  \A i \in 1..Len(pipe) : pipe[i] \in Frames /\ pipe[i].index \in Nat
<1>1. \A i \in 1..Len(pipe) : pipe[i] \in Frames
  BY ElementOfSeq
<1>2. \A f \in Frames : f.index \in Nat
  BY DEF Frames
<1> QED BY <1>1, <1>2

LEMMA TailFacts ==
  ASSUME NEW S, NEW pipe \in Seq(S), pipe # <<>>
  PROVE  /\ Tail(pipe) \in Seq(S) /\ Head(pipe) = pipe[1] /\ pipe[1] \in S
         /\ Len(pipe) \in Nat \ {0} /\ Len(Tail(pipe)) = Len(pipe) - 1
         /\ \A i \in 1..Len(Tail(pipe)) : Tail(pipe)[i] = pipe[i + 1]
<1>1. Len(pipe) \in Nat \ {0}
  BY EmptySeq, LenProperties
<1> QED BY <1>1, HeadTailProperties, ElementOfSeq

LEMMA AppendFacts ==
  ASSUME NEW S, NEW pipe \in Seq(S), NEW f \in S
  PROVE  /\ Append(pipe, f) \in Seq(S) /\ Len(pipe) \in Nat
         /\ Len(Append(pipe, f)) = Len(pipe) + 1 /\ Append(pipe, f)[Len(pipe) + 1] = f
         /\ \A i \in 1..Len(pipe) : Append(pipe, f)[i] = pipe[i]
BY AppendProperties, LenProperties

\* Frames that are no requests change nothing for those that are ...
LEMMA AppendNoRequest ==
  ASSUME NEW pipe \in Seq(Frames), NEW f \in Frames, f.kind # "request"
  PROVE  /\ Requestless(pipe) => Requestless(Append(pipe, f))
         /\ \A r : Holds(pipe, r, {"request"}) => Holds(Append(pipe, f), r, {"request"})
<1> USE AppendFacts
<1>1. Requestless(pipe) => Requestless(Append(pipe, f))
  BY DEF Requestless
<1>2. ASSUME NEW r, Holds(pipe, r, {"request"}) PROVE Holds(Append(pipe, f), r, {"request"})
  <2>1. PICK i \in 1..Len(pipe) : pipe[i].kind \in {"request"} /\ pipe[i].id = r
    BY <1>2 DEF Holds
  <2> QED BY <2>1 DEF Holds
<1> QED BY <1>1, <1>2

LEMMA AppendCarries ==
  ASSUME NEW pipe \in Seq(Frames), NEW f \in Frames, f.kind # "request",
         NEW r, NEW n, NEW a \in Nat, NEW b \in Nat, Carries(pipe, r, n, a, b)
  PROVE  Carries(Append(pipe, f), r, n, a, b)
<1>1. \A i \in 1..Len(Append(pipe, f)) : Append(pipe, f)[i].kind = "request" =>
        i \in 1..Len(pipe) /\ Append(pipe, f)[i] = pipe[i]
  BY AppendFacts
<1> QED BY <1>1 DEF Carries

\* ... nor do frames that are no answers.
LEMMA AppendNoAnswer ==
  ASSUME NEW pipe \in Seq(Frames), NEW f \in Frames, ~IsAnswer(f)
  PROVE  /\ Answerless(pipe) => Answerless(Append(pipe, f))
         /\ \A rest, r, kind, n, k, w : Underway(pipe, rest, r, kind, n, k, w) =>
              Underway(Append(pipe, f), rest, r, kind, n, k, w)
<1>1. \A i \in 1..Len(Append(pipe, f)) : IsAnswer(Append(pipe, f)[i]) =>
        i \in 1..Len(pipe) /\ Append(pipe, f)[i] = pipe[i]
  BY AppendFacts
<1>2. \A i \in 1..Len(pipe) : i \in 1..Len(Append(pipe, f)) /\ Append(pipe, f)[i] = pipe[i]
  BY AppendFacts
<1>3. Answerless(pipe) => Answerless(Append(pipe, f))
  BY <1>1 DEF Answerless
<1>4. ASSUME NEW rest, NEW r, NEW kind, NEW n, NEW k, NEW w, Underway(pipe, rest, r, kind, n, k, w)
      PROVE  Underway(Append(pipe, f), rest, r, kind, n, k, w)
  BY <1>1, <1>2, <1>4 DEF Underway
<1> QED BY <1>3, <1>4

\* The next frame of the request is written.
LEMMA AppendRequest ==
  ASSUME NEW pipe \in Seq(Frames), NEW r \in Ids, NEW n \in Nat, NEW a \in Nat, NEW b \in Nat,
         Carries(pipe, r, n, a, b)
  PROVE  /\ Carries(Append(pipe, RequestFrame(r, b, n)), r, n, a, b + 1)
         /\ Holds(Append(pipe, RequestFrame(r, b, n)), r, {"request"})
<1> DEFINE f == RequestFrame(r, b, n)
           longer == Append(pipe, f)
<1>1. f \in Frames /\ f.kind = "request" /\ f.id = r /\ f.index = b /\ f.count = n
  BY FrameTypes DEF RequestFrame, Frame
<1> HIDE DEF f
<1>2. /\ Len(pipe) \in Nat /\ Len(longer) = Len(pipe) + 1 /\ longer[Len(pipe) + 1] = f
      /\ \A i \in 1..Len(pipe) : longer[i] = pipe[i]
  BY <1>1, AppendFacts
<1> HIDE DEF longer
<1>3. \A i \in 1..Len(longer) : i = Len(pipe) + 1 \/ i \in 1..Len(pipe)
  BY <1>2
<1>4. \A i \in 1..Len(pipe) : pipe[i] \in Frames
  BY ElementOfSeq
<1>5. \A i \in 1..Len(pipe) : pipe[i].kind = "request" => pipe[i].index < b
  BY DEF Carries
<1>6. ASSUME NEW i \in 1..Len(longer), longer[i].kind = "request"
      PROVE  /\ longer[i].id = r /\ longer[i].count = n
             /\ a <= longer[i].index /\ longer[i].index < b + 1
  <2>1. CASE i = Len(pipe) + 1
    BY <1>1, <1>2, <2>1 DEF Carries
  <2>2. CASE i \in 1..Len(pipe)
    <3>1. pipe[i].index \in Nat
      BY <1>4, <2>2 DEF Frames
    <3> QED BY <1>2, <1>6, <2>2, <3>1 DEF Carries
  <2> QED BY <1>3, <2>1, <2>2
<1>7. ASSUME NEW i \in 1..Len(longer), NEW j \in 1..Len(longer),
             longer[i].kind = "request", longer[j].kind = "request",
             longer[i].index = longer[j].index
      PROVE  i = j
  <2>1. ASSUME NEW m \in 1..Len(pipe), pipe[m].kind = "request" PROVE pipe[m].index # b
    <3>1. pipe[m].index \in Nat /\ pipe[m].index < b
      BY <1>4, <1>5, <2>1 DEF Frames
    <3> QED BY <3>1
  <2> QED BY <1>1, <1>2, <1>3, <1>7, <2>1 DEF Carries
<1>8. a <= b + 1
  BY DEF Carries
<1>9. Len(pipe) + 1 \in 1..Len(longer)
  BY <1>2
<1> QED BY <1>1, <1>2, <1>6, <1>7, <1>8, <1>9 DEF Carries, Holds, f, longer

\* A frame is read that is none of what is looked at.
LEMMA TailOther ==
  ASSUME NEW pipe \in Seq(Frames), pipe # <<>>
  PROVE  /\ Requestless(pipe) => Requestless(Tail(pipe))
         /\ Answerless(pipe) => Answerless(Tail(pipe))
         /\ \A r, kinds : Holds(pipe, r, kinds) /\ pipe[1].kind \notin kinds => Holds(Tail(pipe), r, kinds)
<1> USE TailFacts
<1>1. \A i \in 1..Len(Tail(pipe)) : i + 1 \in 1..Len(pipe)
  OBVIOUS
<1>2. /\ Requestless(pipe) => Requestless(Tail(pipe))
      /\ Answerless(pipe) => Answerless(Tail(pipe))
  BY <1>1 DEF Requestless, Answerless
<1>3. ASSUME NEW r, NEW kinds, Holds(pipe, r, kinds), pipe[1].kind \notin kinds
      PROVE  Holds(Tail(pipe), r, kinds)
  <2>1. PICK i \in 1..Len(pipe) : pipe[i].kind \in kinds /\ pipe[i].id = r
    BY <1>3 DEF Holds
  <2>2. i - 1 \in 1..Len(Tail(pipe)) /\ Tail(pipe)[i - 1] = pipe[i]
    BY <1>3, <2>1
  <2> QED BY <2>1, <2>2 DEF Holds
<1> QED BY <1>2, <1>3

\* The first frame of the request that is left is read.
LEMMA TailCarries ==
  ASSUME NEW pipe \in Seq(Frames), pipe # <<>>,
         NEW r, NEW n, NEW a \in Nat, NEW b \in Nat, Carries(pipe, r, n, a, b),
         pipe[1].kind = "request", pipe[1].index = a
  PROVE  Carries(Tail(pipe), r, n, a + 1, b) /\ a < b
<1>1. /\ Len(pipe) \in Nat \ {0} /\ Len(Tail(pipe)) = Len(pipe) - 1
      /\ \A i \in 1..Len(Tail(pipe)) : Tail(pipe)[i] = pipe[i + 1]
      /\ 1 \in 1..Len(pipe) /\ \A i \in 1..Len(Tail(pipe)) : i + 1 \in 1..Len(pipe) /\ i + 1 # 1
  BY TailFacts
<1>2. a < b
  BY <1>1 DEF Carries
<1>3. ASSUME NEW i \in 1..Len(Tail(pipe)), Tail(pipe)[i].kind = "request"
      PROVE  a + 1 <= Tail(pipe)[i].index
  <2>1. pipe[i + 1].index # a /\ a <= pipe[i + 1].index
    BY <1>1, <1>3 DEF Carries
  <2>2. pipe[i + 1].index \in Nat
    BY <1>1, IndexType
  <2> QED BY <1>1, <2>1, <2>2
<1>4. \A i, j \in 1..Len(Tail(pipe)) :
        /\ Tail(pipe)[i].kind = "request" /\ Tail(pipe)[j].kind = "request"
        /\ Tail(pipe)[i].index = Tail(pipe)[j].index
        => i = j
  <2> SUFFICES ASSUME NEW i \in 1..Len(Tail(pipe)), NEW j \in 1..Len(Tail(pipe)),
                      Tail(pipe)[i].kind = "request", Tail(pipe)[j].kind = "request",
                      Tail(pipe)[i].index = Tail(pipe)[j].index
               PROVE  i = j
    OBVIOUS
  <2>1. i + 1 = j + 1
    BY <1>1 DEF Carries
  <2> QED BY <1>1, <2>1
<1>5. a + 1 <= b
  BY <1>2
<1> QED BY <1>1, <1>2, <1>3, <1>4, <1>5 DEF Carries

\* Nothing of the request is left.
LEMMA CarriesNothing ==
  ASSUME NEW pipe \in Seq(Frames), NEW r, NEW n, NEW a \in Nat, Carries(pipe, r, n, a, a)
  PROVE  Requestless(pipe)
<1> SUFFICES ASSUME NEW i \in 1..Len(pipe), pipe[i].kind = "request" PROVE FALSE
  BY DEF Requestless
<1>1. pipe[i].index \in Nat
  BY IndexType
<1> QED BY <1>1 DEF Carries

\* No frame of the answer was written yet.
LEMMA UnderwayStarts ==
  ASSUME NEW pipe \in Seq(Frames), Answerless(pipe), NEW r \in Ids
  PROVE  /\ \A n \in 1..MaxChunks : Underway(pipe, ResultFrames(r, n), r, "result", n, 0, 0)
         /\ Underway(pipe, <<ErrorFrame(r)>>, r, "error", 1, 0, 0)
<1>1. ASSUME NEW n \in 1..MaxChunks
      PROVE  Underway(pipe, ResultFrames(r, n), r, "result", n, 0, 0)
  <2>1. n \in Nat \ {0} /\ \A i \in 0..(n - 1) : i \in Nat
    BY SessionAssumption
  <2>2. Len(ResultFrames(r, n)) = n
    BY <2>1, FrameTypes, ResultFramesType
  <2>3. \A i \in 1..n : ResultFrames(r, n)[i] = Frame("result", r, 0 + i - 1, n)
    BY <2>1 DEF ResultFrames, ResultFrame
  <2>4. 0..(0 - 1) = {}
    OBVIOUS
  <2> QED BY <2>1, <2>2, <2>3, <2>4 DEF Underway, Answerless
<1>2. Underway(pipe, <<ErrorFrame(r)>>, r, "error", 1, 0, 0)
  <2> DEFINE rest == <<ErrorFrame(r)>>
  <2>1. Len(rest) = 1 /\ rest[1] = Frame("error", r, 0, 1)
    BY DEF ErrorFrame
  <2> HIDE DEF rest
  <2>2. \A i \in 1..Len(rest) : i = 1 /\ 0 + i - 1 = 0
    BY <2>1
  <2>3. 0 + Len(rest) = 1 /\ \A i \in 1..Len(rest) : rest[i] = Frame("error", r, 0 + i - 1, 1)
    BY <2>1, <2>2
  <2>4. 0..(0 - 1) = {}
    OBVIOUS
  <2>5. Underway(pipe, rest, r, "error", 1, 0, 0)
    BY <2>3, <2>4 DEF Underway, Answerless
  <2> QED BY <2>5 DEF rest
<1> QED BY <1>1, <1>2

\* The next frame of the answer is written.
LEMMA UnderwayWrites ==
  ASSUME NEW pipe \in Seq(Frames), NEW rest \in Seq(Frames), rest # <<>>,
         NEW r \in Ids, NEW kind \in {"result", "error"}, NEW n \in Nat, NEW k \in Nat, NEW w \in Nat,
         Underway(pipe, rest, r, kind, n, k, w)
  PROVE  /\ Underway(Append(pipe, rest[1]), Tail(rest), r, kind, n, k, w + 1)
         /\ w + 1 <= n /\ Len(Tail(rest)) = Len(rest) - 1 /\ Head(rest) = rest[1]
<1> DEFINE f == rest[1]
           longer == Append(pipe, f)
<1>1. /\ Len(rest) \in Nat \ {0} /\ Len(Tail(rest)) = Len(rest) - 1 /\ f \in Frames
      /\ \A i \in 1..Len(Tail(rest)) : Tail(rest)[i] = rest[i + 1] /\ i + 1 \in 1..Len(rest)
      /\ Head(rest) = rest[1]
  BY TailFacts
<1>2. f = Frame(kind, r, w, n) /\ w + 1 <= n
  BY <1>1 DEF Underway
<1>3. IsAnswer(f) /\ f.kind = kind /\ f.id = r /\ f.index = w /\ f.count = n
  BY <1>2 DEF Frame, IsAnswer
<1> HIDE DEF f
<1>4. /\ Len(pipe) \in Nat /\ Len(longer) = Len(pipe) + 1 /\ longer[Len(pipe) + 1] = f
      /\ \A i \in 1..Len(pipe) : longer[i] = pipe[i]
  BY <1>1, AppendFacts
<1> HIDE DEF longer
<1>5. \A i \in 1..Len(longer) : i = Len(pipe) + 1 \/ i \in 1..Len(pipe)
  BY <1>4
<1>6. \A i \in 1..Len(Tail(rest)) : Tail(rest)[i] = Frame(kind, r, (w + 1) + i - 1, n)
  <2> SUFFICES ASSUME NEW i \in 1..Len(Tail(rest))
               PROVE  Tail(rest)[i] = Frame(kind, r, (w + 1) + i - 1, n)
    OBVIOUS
  <2>1. Tail(rest)[i] = Frame(kind, r, w + (i + 1) - 1, n)
    BY <1>1 DEF Underway
  <2>2. w + (i + 1) - 1 = (w + 1) + i - 1
    BY <1>1
  <2> QED BY <2>1, <2>2
<1>7. \A i \in 1..Len(pipe) : IsAnswer(pipe[i]) =>
        /\ pipe[i].kind = kind /\ pipe[i].id = r /\ pipe[i].count = n
        /\ k <= pipe[i].index /\ pipe[i].index < w /\ pipe[i].index \in Nat
  BY IndexType DEF Underway
<1>8. \A i \in 1..Len(longer) : IsAnswer(longer[i]) =>
        /\ longer[i].kind = kind /\ longer[i].id = r /\ longer[i].count = n
        /\ k <= longer[i].index /\ longer[i].index < w + 1
  <2> SUFFICES ASSUME NEW i \in 1..Len(longer), IsAnswer(longer[i])
               PROVE  /\ longer[i].kind = kind /\ longer[i].id = r /\ longer[i].count = n
                      /\ k <= longer[i].index /\ longer[i].index < w + 1
    OBVIOUS
  <2>1. CASE i = Len(pipe) + 1
    BY <1>3, <1>4, <2>1 DEF Underway
  <2>2. CASE i \in 1..Len(pipe)
    BY <1>4, <1>7, <2>2
  <2> QED BY <1>5, <2>1, <2>2
<1>9. ASSUME NEW j \in k..((w + 1) - 1)
      PROVE  \E i \in 1..Len(longer) : IsAnswer(longer[i]) /\ longer[i].id = r /\ longer[i].index = j
  <2>1. CASE j = w
    <3>1. Len(pipe) + 1 \in 1..Len(longer)
      BY <1>4
    <3> QED BY <1>3, <1>4, <2>1, <3>1
  <2>2. CASE j # w
    <3>1. j \in k..(w - 1)
      BY <2>2
    <3>2. PICK i \in 1..Len(pipe) : IsAnswer(pipe[i]) /\ pipe[i].id = r /\ pipe[i].index = j
      BY <3>1 DEF Underway
    <3> QED BY <1>4, <3>2
  <2> QED BY <2>1, <2>2
<1>10. ASSUME NEW i \in 1..Len(longer), NEW j \in 1..Len(longer),
              IsAnswer(longer[i]), IsAnswer(longer[j]), longer[i].index = longer[j].index
       PROVE  i = j
  <2>1. \A m \in 1..Len(pipe) : IsAnswer(pipe[m]) => pipe[m].index # w
    BY <1>7
  <2> QED BY <1>3, <1>4, <1>5, <1>10, <2>1 DEF Underway
<1>11. k < n /\ k <= w + 1 /\ (kind = "error" => n = 1) /\ (w + 1) + Len(Tail(rest)) = n
  BY <1>1 DEF Underway
<1> QED BY <1>1, <1>2, <1>6, <1>8, <1>9, <1>10, <1>11 DEF Underway, longer, f

\* A frame is read that is no answer.
LEMMA UnderwayOther ==
  ASSUME NEW pipe \in Seq(Frames), pipe # <<>>, ~IsAnswer(pipe[1]),
         NEW rest, NEW r, NEW kind, NEW n, NEW k, NEW w, Underway(pipe, rest, r, kind, n, k, w)
  PROVE  Underway(Tail(pipe), rest, r, kind, n, k, w)
<1>1. /\ Len(pipe) \in Nat \ {0} /\ Len(Tail(pipe)) = Len(pipe) - 1
      /\ \A i \in 1..Len(Tail(pipe)) : Tail(pipe)[i] = pipe[i + 1] /\ i + 1 \in 1..Len(pipe)
  BY TailFacts
<1>2. ASSUME NEW j \in k..(w - 1)
      PROVE  \E i \in 1..Len(Tail(pipe)) :
               IsAnswer(Tail(pipe)[i]) /\ Tail(pipe)[i].id = r /\ Tail(pipe)[i].index = j
  <2>1. PICK i \in 1..Len(pipe) : IsAnswer(pipe[i]) /\ pipe[i].id = r /\ pipe[i].index = j
    BY DEF Underway
  <2>2. i - 1 \in 1..Len(Tail(pipe)) /\ Tail(pipe)[i - 1] = pipe[i]
    BY <1>1, <2>1
  <2> QED BY <2>1, <2>2
<1>3. ASSUME NEW i \in 1..Len(Tail(pipe)), NEW j \in 1..Len(Tail(pipe)),
             IsAnswer(Tail(pipe)[i]), IsAnswer(Tail(pipe)[j]),
             Tail(pipe)[i].index = Tail(pipe)[j].index
      PROVE  i = j
  <2>1. i + 1 = j + 1
    BY <1>1, <1>3 DEF Underway
  <2> QED BY <1>1, <2>1
<1>4. \A i \in 1..Len(Tail(pipe)) : IsAnswer(Tail(pipe)[i]) =>
        /\ Tail(pipe)[i].kind = kind /\ Tail(pipe)[i].id = r /\ Tail(pipe)[i].count = n
        /\ k <= Tail(pipe)[i].index /\ Tail(pipe)[i].index < w
  BY <1>1 DEF Underway
<1> QED BY <1>2, <1>3, <1>4 DEF Underway

\* The next frame of the answer is read; the last one leaves nothing.
LEMMA UnderwayReads ==
  ASSUME NEW pipe \in Seq(Frames), pipe # <<>>, IsAnswer(pipe[1]), NEW rest \in Seq(Frames),
         NEW r, NEW kind, NEW n \in Nat, NEW k \in Nat, NEW w \in Nat,
         Underway(pipe, rest, r, kind, n, k, w), pipe[1].index = k
  PROVE  /\ k + 1 < n => Underway(Tail(pipe), rest, r, kind, n, k + 1, w)
         /\ k + 1 = n => rest = <<>> /\ Answerless(Tail(pipe))
<1>1. /\ Len(pipe) \in Nat \ {0} /\ Len(Tail(pipe)) = Len(pipe) - 1 /\ 1 \in 1..Len(pipe)
      /\ \A i \in 1..Len(Tail(pipe)) :
           Tail(pipe)[i] = pipe[i + 1] /\ i + 1 \in 1..Len(pipe) /\ i + 1 # 1
      /\ Len(rest) \in Nat
  BY TailFacts, LenProperties
<1>2. k < w /\ k + 1 <= w
  BY <1>1 DEF Underway
<1>3. \A i \in 1..Len(Tail(pipe)) : IsAnswer(Tail(pipe)[i]) =>
        /\ Tail(pipe)[i].kind = kind /\ Tail(pipe)[i].id = r /\ Tail(pipe)[i].count = n
        /\ k + 1 <= Tail(pipe)[i].index /\ Tail(pipe)[i].index < w
  <2> SUFFICES ASSUME NEW i \in 1..Len(Tail(pipe)), IsAnswer(Tail(pipe)[i])
               PROVE  /\ Tail(pipe)[i].kind = kind /\ Tail(pipe)[i].id = r /\ Tail(pipe)[i].count = n
                      /\ k + 1 <= Tail(pipe)[i].index /\ Tail(pipe)[i].index < w
    OBVIOUS
  <2>1. /\ pipe[i + 1].kind = kind /\ pipe[i + 1].id = r /\ pipe[i + 1].count = n
        /\ k <= pipe[i + 1].index /\ pipe[i + 1].index < w /\ pipe[i + 1].index # k
    BY <1>1 DEF Underway
  <2>2. pipe[i + 1].index \in Nat
    BY <1>1, IndexType
  <2> QED BY <1>1, <2>1, <2>2
<1>4. ASSUME NEW j \in (k + 1)..(w - 1)
      PROVE  \E i \in 1..Len(Tail(pipe)) :
               IsAnswer(Tail(pipe)[i]) /\ Tail(pipe)[i].id = r /\ Tail(pipe)[i].index = j
  <2>1. j \in k..(w - 1) /\ j # k
    OBVIOUS
  <2>2. PICK i \in 1..Len(pipe) : IsAnswer(pipe[i]) /\ pipe[i].id = r /\ pipe[i].index = j
    BY <2>1 DEF Underway
  <2>3. i - 1 \in 1..Len(Tail(pipe)) /\ Tail(pipe)[i - 1] = pipe[i]
    BY <1>1, <2>1, <2>2
  <2> QED BY <2>2, <2>3
<1>5. ASSUME NEW i \in 1..Len(Tail(pipe)), NEW j \in 1..Len(Tail(pipe)),
             IsAnswer(Tail(pipe)[i]), IsAnswer(Tail(pipe)[j]),
             Tail(pipe)[i].index = Tail(pipe)[j].index
      PROVE  i = j
  <2>1. i + 1 = j + 1
    BY <1>1, <1>5 DEF Underway
  <2> QED BY <1>1, <2>1
<1>6. ASSUME k + 1 < n PROVE Underway(Tail(pipe), rest, r, kind, n, k + 1, w)
  BY <1>2, <1>3, <1>4, <1>5, <1>6 DEF Underway
<1>7. ASSUME k + 1 = n PROVE rest = <<>> /\ Answerless(Tail(pipe))
  <2>1. w + Len(rest) = n
    BY DEF Underway
  <2>2. w = n /\ Len(rest) = 0
    BY <1>1, <1>2, <1>7, <2>1
  <2>3. rest = <<>>
    BY <2>2, EmptySeq
  <2>4. \A i \in 1..Len(Tail(pipe)) : Tail(pipe)[i].index \in Nat
    BY <1>1, IndexType
  <2> QED BY <1>3, <1>7, <2>2, <2>3, <2>4 DEF Answerless
<1> QED BY <1>6, <1>7
-----------------------------------------------------------------------------
(* What every step keeps *)

\* Each action keeps the order in which a session ends.
LEMMA OrderlyStep == Typed /\ Orderly /\ Next => Orderly'
<1> SUFFICES ASSUME Typed, Orderly, Next PROVE Orderly'
  OBVIOUS
<1> DEFINE Same == UNCHANGED <<closed, closepc, stdinOpen, hpc, monitor>>
<1>0. closepc \in [Closers -> {"none", "want", "cancel", "eof", "drain", "done"}]
  BY DEF Typed, TypeOK
<1>1. CASE Requester
  <2>1. /\ UNCHANGED <<stdinOpen, hpc, monitor>>
        /\ closed' => closed \/ hpc = "exited"
        /\ closepc' = closepc \/ closepc' = [closepc EXCEPT !["worker"] = "want"]
    <3>1. ASSUME NEW r \in Requests, NEW n \in 1..MaxChunks, RequestBegin(r, n) PROVE Same
      BY <3>1 DEF RequestBegin, closeVars, runVars, monitorVars
    <3>2. CASE SendFrame \/ SendFails
      BY <3>2 DEF SendFrame, SendFails, RaiseOpen, closeVars, runVars, monitorVars
    <3>3. CASE ReceiveFrame \/ ReceiveTorn
      BY <3>3 DEF ReceiveFrame, ReceiveTorn, RaiseOpen, guiVars, closeVars, runVars, monitorVars
    <3>4. CASE ReceiveFramingFailure \/ ReceiveEof
      BY <3>4 DEF ReceiveFramingFailure, ReceiveEof, FramingFailure, closeVars, runVars, monitorVars
    <3>5. CASE CollectFrame \/ CollectFails
      BY <3>5 DEF CollectFrame, CollectFails, RaiseOpen, FramingFailure, closeVars, runVars, monitorVars
    <3> QED BY <1>1, <3>1, <3>2, <3>3, <3>4, <3>5 DEF Requester
  <2> QED BY <1>0, <2>1 DEF Orderly
<1>2. CASE Close
  <2>1. CASE MainClose
    BY <1>0, <2>1 DEF MainClose, Orderly, guiVars, runVars, monitorVars
  <2>2. ASSUME NEW t \in Closers,
               CloseEnter(t) \/ CloseCancel(t) \/ CloseEof(t) \/ CloseDrain(t)
                 \/ CloseFinalize(t) \/ CloseGivesUp(t)
        PROVE  Orderly'
    <3>1. CASE CloseEof(t)
      BY <1>0, <3>1 DEF CloseEof, Orderly, guiVars, runVars, monitorVars
    <3>2. CASE ~CloseEof(t)
      <4>1. /\ UNCHANGED <<stdinOpen, hpc, monitor>>
            /\ closed' => closed \/ hpc = "exited"
            /\ \/ closepc' = closepc
               \/ \E p \in {"none", "done", "cancel", "eof"} : closepc' = [closepc EXCEPT ![t] = p]
        <5>1. CASE CloseEnter(t)
          BY <5>1 DEF CloseEnter, Leave, runVars, monitorVars
        <5>2. CASE CloseCancel(t)
          BY <5>2 DEF CloseCancel, Leave, runVars, monitorVars
        <5>3. CASE CloseDrain(t)
          BY <5>3 DEF CloseDrain, guiVars, closeVars, runVars, monitorVars
        <5>4. CASE CloseFinalize(t)
          BY <5>4 DEF CloseFinalize, Leave, runVars, monitorVars
        <5>5. CASE CloseGivesUp(t)
          BY <5>5 DEF CloseGivesUp, Leave, runVars, monitorVars
        <5> QED BY <2>2, <3>2, <5>1, <5>2, <5>3, <5>4, <5>5
      <4> QED BY <1>0, <4>1 DEF Orderly
    <3> QED BY <3>1, <3>2
  <2> QED BY <1>2, <2>1, <2>2 DEF Close
<1>3. CASE Monitor
  BY <1>3 DEF Monitor, MonitorRead, MonitorEof, MonitorDeadline, MonitorCancels, Orderly, guiVars,
              closeVars, runVars
<1>4. CASE Helper
  <2>1. UNCHANGED <<closed, closepc, stdinOpen>>
    <3>1. CASE HelperRead \/ HelperAssemble \/ HelperInputEnds \/ HelperKilled
      BY <3>1 DEF HelperRead, HelperAssemble, HelperInputEnds, HelperKilled, guiVars, closeVars
    <3>2. CASE HelperProgress \/ HelperProgressTorn \/ OperationFails \/ HelperRespond
                 \/ HelperRespondFails
      BY <3>2 DEF HelperProgress, HelperProgressTorn, OperationFails, OperationEnds, HelperRespond,
                  HelperRespondFails, guiVars, closeVars
    <3>3. ASSUME NEW n \in 1..MaxChunks, OperationSucceeds(n) PROVE UNCHANGED <<closed, closepc, stdinOpen>>
      BY <3>3 DEF OperationSucceeds, OperationEnds, guiVars, closeVars
    <3>4. ASSUME NEW r \in Requests, StragglerBuilds(r) \/ StragglerWrites(r) \/ StragglerEnds(r)
          PROVE  UNCHANGED <<closed, closepc, stdinOpen>>
      BY <3>4 DEF StragglerBuilds, StragglerWrites, StragglerEnds, guiVars, closeVars
    <3> QED BY <1>4, <3>1, <3>2, <3>3, <3>4 DEF Helper
  <2>2. \/ hpc' = "exited"
        \/ hpc # "exited" /\ hpc' = "running" /\ monitor' = "on"
        \/ hpc # "exited" /\ monitor' = "off"
        \/ UNCHANGED <<hpc, monitor>>
        \/ hpc \in {"reading", "assembling", "responding"} /\ UNCHANGED monitor
    <3>1. CASE HelperRead \/ HelperAssemble
      BY <3>1 DEF HelperRead, HelperAssemble, StartOperation, Exit
    <3>2. CASE HelperInputEnds \/ HelperKilled \/ HelperRespondFails
      BY <3>2 DEF HelperInputEnds, HelperKilled, HelperRespondFails, Exit
    <3>3. CASE HelperProgress \/ HelperProgressTorn \/ OperationFails \/ HelperRespond
      BY <3>3 DEF HelperProgress, HelperProgressTorn, OperationFails, OperationEnds, HelperRespond,
                  runVars, monitorVars
    <3>4. ASSUME NEW n \in 1..MaxChunks, OperationSucceeds(n) PROVE hpc # "exited" /\ monitor' = "off"
      BY <3>4 DEF OperationSucceeds, OperationEnds
    <3>5. ASSUME NEW r \in Requests, StragglerBuilds(r) \/ StragglerWrites(r) \/ StragglerEnds(r)
          PROVE  UNCHANGED <<hpc, monitor>>
      BY <3>5 DEF StragglerBuilds, StragglerWrites, StragglerEnds, runVars, monitorVars
    <3> QED BY <1>4, <3>1, <3>2, <3>3, <3>4, <3>5 DEF Helper
  <2> QED BY <2>1, <2>2 DEF Orderly
<1> QED BY <1>1, <1>2, <1>3, <1>4 DEF Next

\* An intact session was intact before.
LEMMA IntactBefore == Typed /\ Next /\ Intact' => Intact
<1> SUFFICES ASSUME Typed, Next PROVE ~Intact => ~Intact'
  OBVIOUS
<1> DEFINE Keeps == /\ stdinOpen' => stdinOpen
                    /\ hpc = "exited" => hpc' = "exited"
                    /\ stream # "clean" => stream' # "clean"
                    /\ stream = "clean" /\ reuse # "none" => reuse' # "none"
<1>1. Typed /\ stream \in {"clean", "abandoned", "failed"}
  BY DEF Typed, TypeOK
<1>2. Keeps
  <2>1. CASE Requester
    <3>1. ASSUME NEW r \in Requests, NEW n \in 1..MaxChunks, RequestBegin(r, n) PROVE Keeps
      BY <3>1 DEF RequestBegin, closeVars, runVars
    <3>2. CASE SendFrame \/ SendFails
      BY <3>2 DEF SendFrame, SendFails, RaiseOpen, Return, closeVars, runVars
    <3>3. CASE ReceiveFrame \/ ReceiveTorn
      BY <3>3 DEF ReceiveFrame, ReceiveTorn, RaiseOpen, Return, guiVars, closeVars, runVars
    <3>4. CASE ReceiveFramingFailure \/ ReceiveEof
      BY <3>4 DEF ReceiveFramingFailure, ReceiveEof, FramingFailure, Return, closeVars, runVars
    <3>5. CASE CollectFrame \/ CollectFails
      BY <3>5 DEF CollectFrame, CollectFails, RaiseOpen, FramingFailure, Return, closeVars, runVars
    <3> QED BY <2>1, <3>1, <3>2, <3>3, <3>4, <3>5 DEF Requester
  <2>2. CASE Close
    <3>1. CASE MainClose
      BY <3>1 DEF MainClose, guiVars, runVars
    <3>2. ASSUME NEW t \in Closers,
                 CloseEnter(t) \/ CloseCancel(t) \/ CloseEof(t) \/ CloseDrain(t)
                   \/ CloseFinalize(t) \/ CloseGivesUp(t)
          PROVE  Keeps
      BY <3>2 DEF CloseEnter, CloseCancel, CloseEof, CloseDrain, CloseFinalize, CloseGivesUp, Leave,
                  Return, guiVars, closeVars, runVars
    <3> QED BY <2>2, <3>1, <3>2 DEF Close
  <2>3. CASE Monitor
    BY <2>3 DEF Monitor, MonitorRead, MonitorEof, MonitorDeadline, MonitorCancels, guiVars,
                closeVars, runVars
  <2>4. CASE Helper
    <3>1. CASE HelperRead \/ HelperAssemble \/ HelperInputEnds \/ HelperKilled
      BY <3>1 DEF HelperRead, HelperAssemble, HelperInputEnds, HelperKilled, Exit, guiVars, closeVars
    <3>2. CASE HelperProgress \/ HelperProgressTorn \/ OperationFails \/ HelperRespond
                 \/ HelperRespondFails
      BY <3>2 DEF HelperProgress, HelperProgressTorn, OperationFails, OperationEnds, HelperRespond,
                  HelperRespondFails, Exit, guiVars, closeVars, runVars
    <3>3. ASSUME NEW n \in 1..MaxChunks, OperationSucceeds(n) PROVE Keeps
      BY <3>3 DEF OperationSucceeds, OperationEnds, guiVars, closeVars
    <3>4. ASSUME NEW r \in Requests, StragglerBuilds(r) \/ StragglerWrites(r) \/ StragglerEnds(r) PROVE Keeps
      BY <3>4 DEF StragglerBuilds, StragglerWrites, StragglerEnds, guiVars, closeVars, runVars
    <3> QED BY <2>4, <3>1, <3>2, <3>3, <3>4 DEF Helper
  <2> QED BY <2>1, <2>2, <2>3, <2>4 DEF Next
<1> QED BY <1>2 DEF Intact

\* A broken pipe stays broken until its reader comes to the place.
LEMMA BrokenPipe ==
  ASSUME NEW pipe \in Seq(Frames), Broken(pipe)
  PROVE  /\ \A f \in Frames : Broken(Append(pipe, f))
         /\ pipe # <<>> /\ (pipe[1].kind \notin {"torn", "garbage"} => Broken(Tail(pipe)))
<1>1. PICK i \in 1..Len(pipe) : pipe[i].kind \in {"torn", "garbage"}
  BY DEF Broken
<1>2. pipe # <<>>
  BY <1>1
<1>3. ASSUME NEW f \in Frames PROVE Broken(Append(pipe, f))
  BY <1>1, AppendFacts DEF Broken
<1>4. ASSUME pipe[1].kind \notin {"torn", "garbage"} PROVE Broken(Tail(pipe))
  <2>1. i - 1 \in 1..Len(Tail(pipe)) /\ Tail(pipe)[i - 1] = pipe[i]
    BY <1>1, <1>2, <1>4, TailFacts
  <2> QED BY <1>1, <2>1 DEF Broken
<1> QED BY <1>2, <1>3, <1>4

\* What the helper does to its stdout while it lives: one frame at most.
LEMMA HelperWrites ==
  Typed /\ Helper =>
    /\ UNCHANGED <<guiVars, closeVars>>
    /\ hpc' = "exited" \/ toGui' = toGui \/ \E f \in Frames : toGui' = Append(toGui, f)
<1> SUFFICES ASSUME Typed, Helper
             PROVE  /\ UNCHANGED <<guiVars, closeVars>>
                    /\ hpc' = "exited" \/ toGui' = toGui \/ \E f \in Frames : toGui' = Append(toGui, f)
  OBVIOUS
<1>1. CASE HelperRead \/ HelperAssemble \/ HelperInputEnds \/ HelperKilled
  BY <1>1 DEF HelperRead, HelperAssemble, HelperInputEnds, HelperKilled
<1>2. CASE HelperProgress
  <2>1. Progress(hreq) \in Frames
    BY FrameTypes DEF Typed, TypeOK
  <2> QED BY <1>2, <2>1 DEF HelperProgress
<1>3. CASE HelperProgressTorn
  BY <1>3, FrameConstants DEF HelperProgressTorn, OperationEnds
<1>4. CASE OperationFails
  BY <1>4 DEF OperationFails, OperationEnds
<1>5. ASSUME NEW n \in 1..MaxChunks, OperationSucceeds(n)
      PROVE  UNCHANGED <<guiVars, closeVars>> /\ toGui' = toGui
  BY <1>5 DEF OperationSucceeds, OperationEnds
<1>6. CASE HelperRespond
  <2>1. out # <<>> /\ out \in Seq(Frames)
    BY <1>6 DEF HelperRespond, Typed, TypeOK, Identified
  <2>2. Head(out) \in Frames
    BY <2>1, TailFacts
  <2> QED BY <1>6, <2>2 DEF HelperRespond
<1>7. CASE HelperRespondFails
  BY <1>7 DEF HelperRespondFails, Exit
<1>8. ASSUME NEW r \in Requests, StragglerBuilds(r) \/ StragglerWrites(r) \/ StragglerEnds(r)
      PROVE  /\ UNCHANGED <<guiVars, closeVars>>
             /\ toGui' = toGui \/ \E f \in Frames : toGui' = Append(toGui, f)
  <2>1. Progress(stragglers[r]) \in Frames /\ Torn \in Frames
    BY FrameTypes, FrameConstants DEF Typed, TypeOK, Late
  <2> QED BY <1>8, <2>1 DEF StragglerBuilds, StragglerWrites, StragglerEnds
<1> QED BY <1>1, <1>2, <1>3, <1>4, <1>5, <1>6, <1>7, <1>8 DEF Helper

\* A requester that closes the session, or will come to a torn frame, does not get back
\* to an intact one.
LEMMA TroubleStays ==
  Typed /\ Orderly /\ Next /\ Intact' /\ (gpc = "closing" \/ Broken(toGui))
    => gpc' = "closing" \/ Broken(toGui')
<1> SUFFICES ASSUME Typed, Orderly, Next, Intact', gpc = "closing" \/ Broken(toGui)
             PROVE  gpc' = "closing" \/ Broken(toGui')
  OBVIOUS
<1>0. /\ toGui \in Seq(Frames)
      /\ Intact
      /\ hpc # "exited" /\ hpc' # "exited" /\ ~closed /\ stdinOpen /\ stdinOpen'
      /\ stream' = "clean" /\ \A t \in Closers : closepc[t] # "drain"
  BY IntactBefore DEF Typed, TypeOK, Intact, Orderly
<1>1. CASE Requester
  <2>1. ASSUME NEW r \in Requests, NEW n \in 1..MaxChunks, RequestBegin(r, n)
        PROVE  gpc = "idle" /\ toGui' = toGui
    BY <2>1 DEF RequestBegin
  <2>2. CASE SendFrame \/ SendFails
    BY <2>2 DEF SendFrame, SendFails
  <2>3. CASE ReceiveFrame
    <3>1. Broken(toGui) /\ toGui' = Tail(toGui) /\ toGui[1].kind \notin {"torn", "garbage"}
      BY <1>0, <2>3, TailFacts DEF ReceiveFrame
    <3>2. Broken(Tail(toGui))
      BY <1>0, <3>1, BrokenPipe
    <3> QED BY <3>1, <3>2
  <2>4. CASE ReceiveTorn
    BY <1>0, <2>4 DEF ReceiveTorn, RaiseOpen
  <2>5. CASE ReceiveFramingFailure
    BY <2>5 DEF ReceiveFramingFailure, FramingFailure
  <2>6. CASE ReceiveEof
    BY <1>0, <2>6 DEF ReceiveEof
  <2>7. CASE CollectFrame
    <3>1. Broken(toGui) /\ toGui # <<>> /\ toGui' = Tail(toGui) /\ Head(toGui) = toGui[1]
      BY <1>0, <2>7, TailFacts DEF CollectFrame
    <3>2. CASE toGui[1].kind \in {"torn", "garbage"}
      BY <2>7, <3>1, <3>2 DEF CollectFrame, FramingFailure
    <3>3. CASE toGui[1].kind \notin {"torn", "garbage"}
      <4>1. Broken(Tail(toGui))
        BY <1>0, <3>1, <3>3, BrokenPipe
      <4> QED BY <3>1, <4>1
    <3> QED BY <3>2, <3>3
  <2>8. CASE CollectFails
    BY <1>0, <2>8 DEF CollectFails, FramingFailure
  <2> QED BY <1>1, <2>1, <2>2, <2>3, <2>4, <2>5, <2>6, <2>7, <2>8 DEF Requester
<1>2. CASE Close
  <2>1. CASE MainClose
    BY <2>1 DEF MainClose, guiVars
  <2>2. ASSUME NEW t \in Closers,
               CloseEnter(t) \/ CloseCancel(t) \/ CloseEof(t) \/ CloseDrain(t)
                 \/ CloseFinalize(t) \/ CloseGivesUp(t)
        PROVE  UNCHANGED <<gpc, toGui>>
    BY <1>0, <2>2 DEF CloseEnter, CloseCancel, CloseEof, CloseDrain, CloseFinalize, CloseGivesUp, guiVars
  <2> QED BY <1>2, <2>1, <2>2 DEF Close
<1>3. CASE Monitor
  BY <1>3 DEF Monitor, MonitorRead, MonitorEof, MonitorDeadline, MonitorCancels, guiVars
<1>4. CASE Helper
  <2>1. UNCHANGED gpc /\ (toGui' = toGui \/ \E f \in Frames : toGui' = Append(toGui, f))
    BY <1>0, <1>4, HelperWrites DEF guiVars
  <2> QED BY <1>0, <2>1, BrokenPipe
<1> QED BY <1>1, <1>2, <1>3, <1>4 DEF Next
-----------------------------------------------------------------------------
(* The stages of an exchange, step by step *)

\* What the exchange is in, and what a step must leave.
InExchange == Typed /\ Typed' /\ Orderly /\ Intact /\ gpc # "closing" /\ ~Broken(toGui) /\ Exchange
Fine == Intact' => gpc' = "closing" \/ Broken(toGui') \/ Exchange'

\* Cancel frames and progress belong to no stage.
LEMMA StageKept ==
  ASSUME InExchange, UNCHANGED <<gpc, cur, gnext, gcount, hpc, hreq, hnext, hcount, out>>,
         NEW f \in Frames, f.kind # "request", toHelper' \in {toHelper, Append(toHelper, f)},
         NEW g \in Frames, ~IsAnswer(g), toGui' \in {toGui, Append(toGui, g)}
  PROVE  Exchange'
<1>0. /\ toHelper \in Seq(Frames) /\ toGui \in Seq(Frames) /\ cur \in Ids
      /\ gnext \in Nat /\ gcount \in Nat /\ hnext \in Nat /\ WrittenTo \in Nat
  BY DEF InExchange, Typed, TypeOK, WrittenTo
<1>1. /\ Requestless(toHelper) => Requestless(toHelper')
      /\ Holds(toHelper, cur, {"request"}) => Holds(toHelper', cur, {"request"})
  BY <1>0, AppendNoRequest
<1>2. \A a \in Nat : Carries(toHelper, cur, gcount, a, WrittenTo)
                       => Carries(toHelper', cur, gcount, a, WrittenTo)
  BY <1>0, AppendCarries
<1>3. /\ Answerless(toGui) => Answerless(toGui')
      /\ \A kind, n, k, w : Underway(toGui, out, cur, kind, n, k, w)
                              => Underway(toGui', out, cur, kind, n, k, w)
  BY <1>0, AppendNoAnswer
<1>4. CASE AtRest
  BY <1>1, <1>3, <1>4 DEF AtRest, Exchange
<1>5. CASE Asking
  BY <1>0, <1>1, <1>2, <1>3, <1>5 DEF Asking, Exchange, WrittenTo, Writing
<1>6. CASE Taking
  BY <1>0, <1>2, <1>3, <1>6 DEF Taking, Exchange, WrittenTo, Writing
<1>7. CASE Serving
  BY <1>1, <1>3, <1>7 DEF Serving, Exchange
<1>8. CASE Answering
  BY <1>1, <1>3, <1>8 DEF Answering, Exchange
<1> QED BY <1>4, <1>5, <1>6, <1>7, <1>8 DEF InExchange, Exchange

\* The requester writes its request.
LEMMA SendExchange ==
  InExchange /\ (SendFrame \/ \E r \in Requests, n \in 1..MaxChunks : RequestBegin(r, n)) => Exchange'
<1> SUFFICES ASSUME InExchange PROVE
      SendFrame \/ (\E r \in Requests, n \in 1..MaxChunks : RequestBegin(r, n)) => Exchange'
  OBVIOUS
<1>0. /\ toHelper \in Seq(Frames) /\ toGui \in Seq(Frames) /\ cur \in Ids
      /\ gnext \in Nat /\ gcount \in Nat /\ hnext \in Nat
  BY DEF InExchange, Typed, TypeOK
<1>1. ASSUME NEW r \in Requests, NEW n \in 1..MaxChunks, RequestBegin(r, n) PROVE Exchange'
  <2>1. AtRest
    BY <1>1 DEF InExchange, RequestBegin, Exchange, Asking, Taking, Serving, Answering, Writing
  <2>2. Carries(toHelper, r, n, 0, 0)
    BY <2>1 DEF AtRest, Carries, Requestless
  <2>3. n \in Nat /\ 0 < n
    BY SessionAssumption
  <2>4. /\ gpc' = "sending" /\ cur' = r /\ gnext' = 0 /\ gcount' = n
        /\ toHelper' = toHelper /\ toGui' = toGui /\ hpc' = hpc
    BY <1>1 DEF RequestBegin, runVars
  <2>5. Asking'
    BY <2>1, <2>2, <2>3, <2>4 DEF AtRest, Asking, Writing, WrittenTo
  <2> QED BY <2>5 DEF Exchange
<1>2. CASE SendFrame
  <2> DEFINE longer == Append(toHelper, RequestFrame(cur, gnext, gcount))
  <2>1. /\ gpc = "sending" /\ toHelper' = longer /\ toGui' = toGui
        /\ UNCHANGED <<cur, gcount, hpc, hreq, hnext, hcount>>
        /\ IF gnext + 1 = gcount THEN gpc' = "receiving" ELSE gpc' = gpc /\ gnext' = gnext + 1
    BY <1>2 DEF SendFrame, runVars
  <2>2. \A a \in Nat : Carries(toHelper, cur, gcount, a, gnext) =>
          Carries(longer, cur, gcount, a, gnext + 1) /\ Holds(longer, cur, {"request"})
    BY <1>0, AppendRequest
  <2>3. Asking \/ Taking
    BY <2>1 DEF InExchange, Exchange, AtRest, Serving, Answering
  <2>4. gnext < gcount
    BY <2>1, <2>3 DEF Asking, Taking, Writing
  <2>5. WrittenTo = gnext /\ WrittenTo' = gnext + 1 /\ Writing'
    BY <1>0, <2>1, <2>4 DEF WrittenTo, Writing
  <2> HIDE DEF longer
  <2>6. CASE Asking
    BY <2>1, <2>2, <2>5, <2>6 DEF Asking, Exchange
  <2>7. CASE Taking
    BY <1>0, <2>1, <2>2, <2>5, <2>7 DEF Taking, Exchange
  <2> QED BY <2>3, <2>6, <2>7
<1> QED BY <1>1, <1>2

\* It reads progress and the first frame of its answer.
LEMMA ReceiveExchange == InExchange /\ ReceiveFrame => Fine
<1> SUFFICES ASSUME InExchange, ReceiveFrame, Intact' PROVE Exchange'
  BY DEF Fine
<1> DEFINE f == toGui[1]
<1>0. /\ toGui \in Seq(Frames) /\ out \in Seq(Frames) /\ cur \in Ids
      /\ gpc = "receiving" /\ toGui # <<>> /\ toGui' = Tail(toGui) /\ Head(toGui) = f
      /\ f \in Frames /\ f.index \in Nat /\ 1 \in 1..Len(toGui) /\ stream' = "clean"
      /\ UNCHANGED <<toHelper, hpc, hreq, hnext, hcount, out>>
  <2>1. toGui \in Seq(Frames) /\ out \in Seq(Frames) /\ cur \in Ids
    BY DEF InExchange, Typed, TypeOK
  <2>2. toGui # <<>> /\ toGui' = Tail(toGui) /\ gpc = "receiving"
    BY DEF ReceiveFrame
  <2>3. Head(toGui) = f /\ f \in Frames /\ 1 \in 1..Len(toGui)
    BY <2>1, <2>2, TailFacts
  <2>4. f.index \in Nat
    BY <2>1, <2>3, IndexType
  <2> QED BY <2>1, <2>2, <2>3, <2>4 DEF ReceiveFrame, runVars, Intact
<1>1. \/ f.kind = "progress" /\ UNCHANGED <<gpc, cur, gnext, gcount>>
      \/ f.kind = "error" /\ gpc' = "idle"
      \/ f.kind = "result" /\ f.count = 1 /\ gpc' = "idle"
      \/ /\ f.kind = "result" /\ f.count > 1 /\ f.index = 0
         /\ gpc' = "collecting" /\ gnext' = 1 /\ gcount' = f.count /\ cur' = cur
  BY <1>0 DEF ReceiveFrame, RaiseOpen, Return, guiVars
<1> HIDE DEF f
<1>2. CASE f.kind = "progress"
  <2>1. UNCHANGED <<gpc, cur, gnext, gcount>> /\ ~IsAnswer(f)
    BY <1>1, <1>2 DEF IsAnswer
  <2>2. Answerless(toGui) => Answerless(Tail(toGui))
    BY <1>0, TailOther
  <2>3. \A kind, n, k, w : Underway(toGui, out, cur, kind, n, k, w)
                             => Underway(Tail(toGui), out, cur, kind, n, k, w)
    BY <1>0, <2>1, UnderwayOther DEF f
  <2>4. CASE AtRest
    BY <1>0, <2>4 DEF AtRest
  <2>5. CASE Asking
    BY <1>0, <2>1, <2>2, <2>5 DEF Asking, Exchange, WrittenTo, Writing
  <2>6. CASE Taking
    BY <1>0, <2>1, <2>2, <2>6 DEF Taking, Exchange, WrittenTo, Writing
  <2>7. CASE Serving
    BY <1>0, <2>1, <2>2, <2>7 DEF Serving, Exchange
  <2>8. CASE Answering
    BY <1>0, <2>1, <2>3, <2>8 DEF Answering, Exchange
  <2> QED BY <2>4, <2>5, <2>6, <2>7, <2>8 DEF InExchange, Exchange
<1>3. CASE f.kind # "progress"
  <2>1. IsAnswer(f)
    BY <1>1, <1>3 DEF IsAnswer
  <2>2. ~Answerless(toGui)
    BY <1>0, <2>1 DEF Answerless, f
  <2>3. Answering
    BY <2>2 DEF InExchange, Exchange, AtRest, Asking, Taking, Serving
  <2>4. PICK kind \in {"result", "error"}, n \in 1..MaxChunks, k \in 0..MaxChunks,
             w \in 0..MaxChunks : Underway(toGui, out, cur, kind, n, k, w) /\ k = 0
    BY <1>0, <2>3 DEF Answering
  <2>5. n \in Nat /\ w \in Nat /\ 0 < n /\ n <= MaxChunks /\ MaxChunks \in Nat
    BY SessionAssumption
  <2>6. Underway(toGui, out, cur, kind, n, 0, w)
    BY <2>4
  <2>7. /\ f.kind = kind /\ f.count = n /\ f.index < w /\ (kind = "error" => n = 1) /\ w <= n
    <3>1. w + Len(out) = n /\ Len(out) \in Nat
      BY <1>0, <2>6, LenProperties DEF Underway
    <3> QED BY <1>0, <2>1, <2>5, <2>6, <3>1 DEF Underway, f
  <2>8. f.index = 0
    BY <1>0, <1>1, <1>3, <2>5, <2>7
  <2>9. /\ 0 + 1 < n => Underway(Tail(toGui), out, cur, kind, n, 0 + 1, w)
        /\ 0 + 1 = n => out = <<>> /\ Answerless(Tail(toGui))
    BY <1>0, <2>1, <2>5, <2>6, <2>8, UnderwayReads DEF f
  <2>10. CASE n = 1
    <3>1. gpc' = "idle"
      BY <1>1, <1>3, <2>7, <2>10
    <3>2. out = <<>> /\ Answerless(Tail(toGui))
      BY <2>9, <2>10
    <3>3. Requestless(toHelper) /\ hpc = "reading"
      BY <2>3, <3>2 DEF Answering
    <3> QED BY <1>0, <3>1, <3>2, <3>3 DEF AtRest, Exchange
  <2>11. CASE n # 1
    <3>1. gpc' = "collecting" /\ gnext' = 1 /\ gcount' = n /\ cur' = cur
      BY <1>1, <1>3, <2>7, <2>11
    <3>2. Underway(Tail(toGui), out, cur, kind, n, 1, w)
      BY <2>5, <2>9, <2>11
    <3>3. 1 \in 0..MaxChunks
      BY <2>5
    <3> QED BY <1>0, <2>3, <3>1, <3>2, <3>3 DEF Answering, Exchange
  <2> QED BY <2>10, <2>11
<1> QED BY <1>2, <1>3

\* It reads the later frames.
LEMMA CollectExchange == InExchange /\ CollectFrame => Fine
<1> SUFFICES ASSUME InExchange, CollectFrame, Intact', gpc' # "closing" PROVE Exchange'
  BY DEF Fine
<1> DEFINE f == toGui[1]
<1>0. /\ toGui \in Seq(Frames) /\ out \in Seq(Frames) /\ cur \in Ids
      /\ gpc = "collecting" /\ toGui # <<>> /\ toGui' = Tail(toGui) /\ Head(toGui) = f
      /\ UNCHANGED <<toHelper, hpc, hreq, hnext, hcount, out>>
  <2>1. toGui \in Seq(Frames) /\ out \in Seq(Frames) /\ cur \in Ids
    BY DEF InExchange, Typed, TypeOK
  <2>2. toGui # <<>> /\ toGui' = Tail(toGui) /\ gpc = "collecting"
    BY DEF CollectFrame
  <2> QED BY <2>1, <2>2, TailFacts DEF CollectFrame, runVars
<1>1. /\ f.kind = "result" /\ f.index = gnext
      /\ IF gnext + 1 = gcount THEN gpc' = "idle"
         ELSE gnext' = gnext + 1 /\ UNCHANGED <<gpc, cur, gcount>>
  BY <1>0 DEF CollectFrame, FramingFailure, RaiseOpen, Return, Intact
<1> HIDE DEF f
<1>2. Answering
  BY <1>0 DEF InExchange, Exchange, AtRest, Asking, Taking, Serving, Writing
<1>3. PICK kind \in {"result", "error"}, n \in 1..MaxChunks, k \in 0..MaxChunks, w \in 0..MaxChunks :
        Underway(toGui, out, cur, kind, n, k, w) /\ k = gnext /\ gcount = n
  BY <1>0, <1>2 DEF Answering
<1>4. n \in Nat /\ w \in Nat /\ k \in Nat /\ n <= MaxChunks /\ MaxChunks \in Nat
  BY SessionAssumption
<1>5. k < n
  BY <1>3 DEF Underway
<1>6. /\ k + 1 < n => Underway(Tail(toGui), out, cur, kind, n, k + 1, w)
      /\ k + 1 = n => out = <<>> /\ Answerless(Tail(toGui))
  BY <1>0, <1>1, <1>3, <1>4, UnderwayReads DEF f, IsAnswer
<1>7. CASE k + 1 = n
  <2>1. gpc' = "idle" /\ out = <<>> /\ Answerless(Tail(toGui))
    BY <1>1, <1>3, <1>6, <1>7
  <2>2. Requestless(toHelper) /\ hpc = "reading"
    BY <1>2, <2>1 DEF Answering
  <2> QED BY <1>0, <2>1, <2>2 DEF AtRest, Exchange
<1>8. CASE k + 1 # n
  <2>1. gnext' = k + 1 /\ gpc' = "collecting" /\ cur' = cur /\ gcount' = n
    BY <1>0, <1>1, <1>3, <1>8
  <2>2. Underway(Tail(toGui), out, cur, kind, n, k + 1, w) /\ k + 1 \in 0..MaxChunks
    BY <1>4, <1>5, <1>6, <1>8
  <2> QED BY <1>0, <1>2, <2>1, <2>2 DEF Answering, Exchange
<1> QED BY <1>7, <1>8

\* The helper takes the request out of its stdin.
LEMMA ReadExchange == InExchange /\ (HelperRead \/ HelperAssemble) => Fine
<1> SUFFICES ASSUME InExchange, HelperRead \/ HelperAssemble, Intact' PROVE Exchange'
  BY DEF Fine
<1> DEFINE f == toHelper[1]
<1>0. /\ toHelper \in Seq(Frames) /\ cur \in Ids /\ gcount \in Nat /\ hnext \in Nat /\ gnext \in Nat
      /\ WrittenTo \in Nat /\ toHelper # <<>> /\ toHelper' = Tail(toHelper) /\ Head(toHelper) = f
      /\ 1 \in 1..Len(toHelper) /\ hpc' # "exited"
      /\ UNCHANGED <<gpc, cur, gnext, gcount, toGui>>
  <2>1. /\ toHelper \in Seq(Frames) /\ cur \in Ids /\ gcount \in Nat /\ hnext \in Nat /\ gnext \in Nat
        /\ WrittenTo \in Nat
    BY DEF InExchange, Typed, TypeOK, WrittenTo
  <2>2. toHelper # <<>> /\ toHelper' = Tail(toHelper) /\ UNCHANGED <<gpc, cur, gnext, gcount, toGui>>
    BY DEF HelperRead, HelperAssemble, guiVars
  <2> QED BY <2>1, <2>2, TailFacts DEF Intact
<1>1. WrittenTo' = WrittenTo /\ (Writing => Writing')
  BY <1>0 DEF WrittenTo, Writing
<1> HIDE DEF f
<1>2. ASSUME NEW a \in Nat, Writing, f.kind = "request", f.index = a,
             Carries(toHelper, cur, gcount, a, WrittenTo)
      PROVE  /\ Carries(Tail(toHelper), cur, gcount, a + 1, WrittenTo)
             /\ a + 1 = gcount => gpc = "receiving" /\ Requestless(Tail(toHelper))
             /\ a < gcount
  <2>1. Carries(Tail(toHelper), cur, gcount, a + 1, WrittenTo) /\ a < WrittenTo
    BY <1>0, <1>2, TailCarries DEF f
  <2>2. WrittenTo <= gcount
    BY <1>0, <1>2 DEF WrittenTo, Writing
  <2>3. ASSUME a + 1 = gcount PROVE gpc = "receiving" /\ Requestless(Tail(toHelper))
    <3>1. gpc = "receiving" /\ WrittenTo = a + 1
      BY <1>0, <1>2, <2>1, <2>3 DEF WrittenTo, Writing
    <3>2. Tail(toHelper) \in Seq(Frames) /\ Carries(Tail(toHelper), cur, gcount, a + 1, a + 1)
      BY <1>0, <2>1, <3>1, TailFacts
    <3>3. a + 1 \in Nat
      OBVIOUS
    <3> QED BY <3>1, <3>2, <3>3, CarriesNothing
  <2> QED BY <1>0, <2>1, <2>2, <2>3
<1>3. CASE HelperRead
  <2>1. /\ hpc = "reading" /\ f.kind = "request" /\ f.index = 0
        /\ \/ f.count = 1 /\ hpc' = "running" /\ hreq' = f.id
           \/ /\ f.count > 1 /\ hpc' = "assembling" /\ hreq' = f.id /\ hnext' = 1
              /\ hcount' = f.count
    BY <1>0, <1>3 DEF HelperRead, StartOperation, Exit
  <2>2. ~Requestless(toHelper)
    BY <1>0, <2>1 DEF Requestless, f
  <2>3. Asking
    BY <2>1, <2>2 DEF InExchange, Exchange, AtRest, Taking, Serving, Answering
  <2>4. f.id = cur /\ f.count = gcount
    BY <1>0, <2>1, <2>3 DEF Asking, Carries, f
  <2>5. /\ Carries(Tail(toHelper), cur, gcount, 0 + 1, WrittenTo)
        /\ 0 + 1 = gcount => gpc = "receiving" /\ Requestless(Tail(toHelper))
    BY <1>2, <2>1, <2>3 DEF Asking
  <2>6. CASE f.count = 1
    <3>1. hpc' = "running" /\ hreq' = cur /\ gpc = "receiving" /\ Requestless(Tail(toHelper))
      BY <2>1, <2>4, <2>5, <2>6
    <3> QED BY <1>0, <2>3, <3>1 DEF Asking, Serving, Exchange
  <2>7. CASE f.count # 1
    <3>1. hpc' = "assembling" /\ hreq' = cur /\ hnext' = 1 /\ hcount' = gcount /\ 1 < gcount
      BY <1>0, <2>1, <2>4, <2>7
    <3>2. Carries(Tail(toHelper), cur, gcount, 1, WrittenTo)
      BY <2>5
    <3> QED BY <1>0, <1>1, <2>3, <3>1, <3>2 DEF Asking, Taking, Exchange
  <2> QED BY <2>6, <2>7
<1>4. CASE HelperAssemble
  <2>1. /\ hpc = "assembling" /\ f.kind = "request" /\ f.index = hnext
        /\ \/ hnext + 1 = hcount /\ hpc' = "running" /\ hreq' = hreq
           \/ hnext + 1 # hcount /\ hnext' = hnext + 1 /\ UNCHANGED <<hpc, hreq, hcount>>
    BY <1>0, <1>4 DEF HelperAssemble, StartOperation, Exit
  <2>2. Taking
    BY <2>1 DEF InExchange, Exchange, AtRest, Asking, Serving, Answering
  <2>3. hreq = cur /\ hcount = gcount
    BY <2>2 DEF Taking
  <2>4. /\ Carries(Tail(toHelper), cur, gcount, hnext + 1, WrittenTo)
        /\ hnext + 1 = gcount => gpc = "receiving" /\ Requestless(Tail(toHelper))
        /\ hnext < gcount
    BY <1>0, <1>2, <2>1, <2>2 DEF Taking
  <2>5. CASE hnext + 1 = hcount
    BY <1>0, <2>1, <2>2, <2>3, <2>4, <2>5 DEF Taking, Serving, Exchange
  <2>6. CASE hnext + 1 # hcount
    <3>1. hnext' = hnext + 1 /\ hpc' = "assembling" /\ hreq' = cur /\ hcount' = gcount
      BY <2>1, <2>3, <2>6
    <3>2. hnext + 1 < gcount
      BY <1>0, <2>3, <2>4, <2>6
    <3> QED BY <1>0, <1>1, <2>2, <2>4, <3>1, <3>2 DEF Taking, Exchange
  <2> QED BY <2>5, <2>6
<1> QED BY <1>3, <1>4

\* It ends the operation with its answer.
LEMMA EndExchange ==
  ASSUME InExchange, UNCHANGED toGui, NEW status, hpc = "running",
         \/ \E n \in 1..MaxChunks : OperationEnds(status, ResultFrames(hreq, n))
         \/ OperationEnds(status, <<ErrorFrame(hreq)>>)
  PROVE  Exchange'
<1>1. Serving /\ cur \in Ids /\ hreq = cur /\ toGui \in Seq(Frames)
  BY DEF InExchange, Exchange, AtRest, Asking, Taking, Serving, Answering, Typed, TypeOK
<1>2. hpc' = "responding" /\ UNCHANGED <<gpc, cur, gnext, gcount, toHelper, hreq>>
  BY DEF OperationEnds, guiVars
<1>3. PICK kind \in {"result", "error"}, n \in 1..MaxChunks :
        Underway(toGui, out', cur, kind, n, 0, 0) /\ out' # <<>>
  <2>1. CASE \E n \in 1..MaxChunks : OperationEnds(status, ResultFrames(hreq, n))
    <3>1. PICK n \in 1..MaxChunks : out' = ResultFrames(cur, n)
      BY <1>1, <2>1 DEF OperationEnds
    <3>2. Underway(toGui, out', cur, "result", n, 0, 0)
      BY <1>1, <3>1, UnderwayStarts DEF Serving
    <3>3. out' # <<>>
      BY <1>1, <3>1, ResponseTypes
    <3> QED BY <3>2, <3>3
  <2>2. CASE OperationEnds(status, <<ErrorFrame(hreq)>>)
    <3>1. out' = <<ErrorFrame(cur)>>
      BY <1>1, <2>2 DEF OperationEnds
    <3>2. Underway(toGui, out', cur, "error", 1, 0, 0)
      BY <1>1, <3>1, UnderwayStarts DEF Serving
    <3>3. out' # <<>> /\ 1 \in 1..MaxChunks
      BY <3>1, SessionAssumption
    <3> QED BY <3>2, <3>3
  <2> QED BY <2>1, <2>2
<1>4. 0 \in 0..MaxChunks
  BY SessionAssumption
<1>5. /\ gpc' = "receiving" /\ Requestless(toHelper') /\ cur' = cur /\ hreq' = cur' /\ toGui' = toGui
  BY <1>1, <1>2 DEF Serving
<1>6. Answering'
  BY <1>2, <1>3, <1>4, <1>5 DEF Answering
<1> QED BY <1>6 DEF Exchange

\* It writes a frame of the answer.
LEMMA RespondExchange == InExchange /\ HelperRespond => Exchange'
<1> SUFFICES ASSUME InExchange, HelperRespond PROVE Exchange'
  OBVIOUS
<1>0. toGui \in Seq(Frames) /\ out \in Seq(Frames) /\ out # <<>> /\ cur \in Ids
  BY DEF HelperRespond, InExchange, Typed, TypeOK, Identified
<1>1. Answering
  BY DEF HelperRespond, InExchange, Exchange, AtRest, Asking, Taking, Serving
<1>2. /\ toGui' = Append(toGui, Head(out)) /\ out' = Tail(out)
      /\ hpc' = (IF Len(out) = 1 THEN "reading" ELSE hpc)
      /\ UNCHANGED <<gpc, cur, gnext, gcount, toHelper, hreq>>
  BY DEF HelperRespond, guiVars
<1>3. PICK kind \in {"result", "error"}, n \in 1..MaxChunks, k \in 0..MaxChunks, w \in 0..MaxChunks :
        /\ Underway(toGui, out, cur, kind, n, k, w)
        /\ gpc = "receiving" => k = 0
        /\ gpc = "collecting" => k = gnext /\ gcount = n
  BY <1>1 DEF Answering
<1>4. n \in Nat /\ w \in Nat /\ k \in Nat /\ n <= MaxChunks /\ MaxChunks \in Nat
  BY SessionAssumption
<1>5. /\ Underway(Append(toGui, out[1]), Tail(out), cur, kind, n, k, w + 1)
      /\ w + 1 <= n /\ Head(out) = out[1]
  BY <1>0, <1>3, <1>4, UnderwayWrites
<1>6. w + 1 \in 0..MaxChunks
  BY <1>4, <1>5
<1>7. Len(out) \in Nat \ {0} /\ Len(Tail(out)) = Len(out) - 1 /\ Tail(out) \in Seq(Frames)
  BY <1>0, TailFacts
<1>8. Tail(out) = <<>> <=> Len(out) = 1
  <2>1. \A rest \in Seq(Frames) : rest = <<>> <=> Len(rest) = 0
    BY EmptySeq
  <2>2. Tail(out) = <<>> <=> Len(Tail(out)) = 0
    BY <1>7, <2>1
  <2> QED BY <1>7, <2>2
<1>9. IF out' = <<>> THEN hpc' = "reading" ELSE hpc' = "responding" /\ hreq' = cur'
  BY <1>0, <1>1, <1>2, <1>8 DEF Answering
<1>10. Underway(toGui', out', cur', kind, n, k, w + 1)
  BY <1>2, <1>5
<1>11. /\ gpc' \in {"receiving", "collecting"} /\ Requestless(toHelper')
       /\ gpc' = "receiving" => k = 0
       /\ gpc' = "collecting" => k = gnext' /\ gcount' = n
  BY <1>1, <1>2, <1>3 DEF Answering
<1>12. Answering'
  BY <1>6, <1>9, <1>10, <1>11 DEF Answering
<1> QED BY <1>12 DEF Exchange

\* The control monitor only drops what is no request.
LEMMA MonitorExchange == InExchange /\ MonitorRead => Exchange'
<1> SUFFICES ASSUME InExchange, MonitorRead PROVE Exchange'
  OBVIOUS
<1>1. Serving /\ toHelper \in Seq(Frames)
  BY DEF MonitorRead, InExchange, Orderly, Exchange, AtRest, Asking, Taking, Answering, Typed, TypeOK
<1>2. toHelper # <<>> /\ (\/ toHelper' = Tail(toHelper)
                          \/ \E k \in 1..Len(toHelper) : toHelper' \in Rest(toHelper, k))
  BY DEF MonitorRead
<1>3. \E d \in Nat : Shifted(toHelper', toHelper, d)
  <2>1. CASE toHelper' = Tail(toHelper)
    BY <1>1, <1>2, <2>1, TailShifted
  <2>2. CASE \E k \in 1..Len(toHelper) : toHelper' \in Rest(toHelper, k)
    BY <1>1, <2>2, FrameConstants, RestShifted
  <2> QED BY <1>2, <2>1, <2>2
<1>4. Garbage.kind # "request"
  BY DEF Garbage, Frame
<1>5. Requestless(toHelper')
  BY <1>1, <1>3, <1>4 DEF Shifted, Requestless, Serving
<1>6. UNCHANGED <<gpc, cur, hpc, hreq, toGui>>
  BY DEF MonitorRead, guiVars, runVars
<1> QED BY <1>1, <1>5, <1>6 DEF Serving, Exchange

-----------------------------------------------------------------------------
(* The invariant *)

LEMMA ExchangeStep == InExchange /\ Next => Fine
<1> SUFFICES ASSUME InExchange, Next, Intact' PROVE gpc' = "closing" \/ Broken(toGui') \/ Exchange'
  BY DEF Fine
<1>0. /\ toHelper \in Seq(Frames) /\ toGui \in Seq(Frames) /\ hreq \in Ids
      /\ hpc # "exited" /\ hpc' # "exited" /\ ~closed /\ stdinOpen /\ stdinOpen'
      /\ stream' = "clean" /\ \A t \in Closers : closepc[t] # "drain"
  BY DEF InExchange, Typed, TypeOK, Intact, Orderly
<1>1. /\ Cancel \in Frames /\ Cancel.kind # "request" /\ Torn \in Frames
      /\ Torn.kind \in {"torn", "garbage"} /\ ~IsAnswer(Torn)
      /\ \A r \in Ids : Progress(r) \in Frames /\ ~IsAnswer(Progress(r))
  <2>1. \A r \in Ids : Progress(r) \in Frames
    BY FrameTypes
  <2> QED BY <2>1, FrameConstants DEF Cancel, Torn, Progress, Frame, IsAnswer
<1>2. ASSUME UNCHANGED <<gpc, cur, gnext, gcount, hpc, hreq, hnext, hcount, out>>,
             toHelper' \in {toHelper, Append(toHelper, Cancel)},
             toGui' = toGui \/ \E r \in Ids : toGui' = Append(toGui, Progress(r))
      PROVE  Exchange'
  <2>1. CASE toGui' = toGui
    BY <1>1, <1>2, <2>1, StageKept
  <2>2. ASSUME NEW r \in Ids, toGui' = Append(toGui, Progress(r)) PROVE Exchange'
    BY <1>1, <1>2, <2>2, StageKept
  <2> QED BY <1>2, <2>1, <2>2
<1>3. ASSUME toGui' = Append(toGui, Torn) PROVE Broken(toGui')
  <2>1. Len(toGui) \in Nat /\ Len(toGui') = Len(toGui) + 1 /\ toGui'[Len(toGui) + 1] = Torn
    BY <1>0, <1>1, <1>3, AppendFacts
  <2>2. Len(toGui) + 1 \in 1..Len(toGui')
    BY <2>1
  <2> QED BY <1>1, <2>1, <2>2 DEF Broken
<1>4. CASE Requester
  <2>1. CASE SendFrame \/ \E r \in Requests, n \in 1..MaxChunks : RequestBegin(r, n)
    BY <2>1, SendExchange
  <2>2. CASE SendFails \/ ReceiveTorn
    BY <1>0, <2>2 DEF SendFails, ReceiveTorn, RaiseOpen
  <2>3. CASE ReceiveFrame \/ CollectFrame
    BY <2>3, ReceiveExchange, CollectExchange DEF Fine
  <2>4. CASE ReceiveFramingFailure \/ ReceiveEof \/ CollectFails
    BY <1>0, <2>4 DEF ReceiveFramingFailure, ReceiveEof, CollectFails, FramingFailure
  <2> QED BY <1>4, <2>1, <2>2, <2>3, <2>4 DEF Requester
<1>5. CASE Close
  <2>1. CASE MainClose
    BY <1>2, <2>1 DEF MainClose, guiVars, runVars
  <2>2. ASSUME NEW t \in Closers,
               CloseEnter(t) \/ CloseCancel(t) \/ CloseEof(t) \/ CloseDrain(t)
                 \/ CloseFinalize(t) \/ CloseGivesUp(t)
        PROVE  Exchange'
    <3>1. CASE CloseEnter(t) \/ CloseEof(t)
      BY <1>0, <1>2, <3>1 DEF CloseEnter, CloseEof, guiVars, runVars
    <3>2. CASE CloseCancel(t)
      BY <1>0, <1>2, <3>2 DEF CloseCancel, runVars
    <3>3. CASE CloseDrain(t) \/ CloseFinalize(t) \/ CloseGivesUp(t)
      BY <1>0, <3>3 DEF CloseDrain, CloseFinalize, CloseGivesUp
    <3> QED BY <2>2, <3>1, <3>2, <3>3
  <2> QED BY <1>5, <2>1, <2>2 DEF Close
<1>6. CASE Monitor
  <2>1. CASE MonitorRead
    BY <2>1, MonitorExchange
  <2>2. CASE MonitorCancels
    BY <1>2, <2>2 DEF MonitorCancels, guiVars, runVars
  <2> QED BY <1>6, <2>1, <2>2 DEF Monitor, MonitorEof, MonitorDeadline
<1>7. CASE Helper
  <2>1. CASE HelperRead \/ HelperAssemble
    BY <2>1, ReadExchange DEF Fine
  <2>2. CASE HelperInputEnds \/ HelperKilled \/ HelperRespondFails
    BY <1>0, <2>2 DEF HelperInputEnds, HelperKilled, HelperRespondFails, Exit
  <2>3. CASE HelperProgress
    BY <1>0, <1>2, <2>3 DEF HelperProgress, guiVars, runVars
  <2>4. CASE HelperProgressTorn
    BY <1>3, <2>4 DEF HelperProgressTorn
  <2>5. CASE OperationFails
    <3>1. hpc = "running" /\ UNCHANGED toGui /\ OperationEnds("error", <<ErrorFrame(hreq)>>)
      BY <2>5 DEF OperationFails
    <3> QED BY <3>1, EndExchange
  <2>6. ASSUME NEW n \in 1..MaxChunks, OperationSucceeds(n) PROVE Exchange'
    <3>1. hpc = "running" /\ UNCHANGED toGui /\ OperationEnds("ok", ResultFrames(hreq, n))
      BY <2>6 DEF OperationSucceeds
    <3> QED BY <3>1, EndExchange
  <2>7. CASE HelperRespond
    BY <2>7, RespondExchange
  <2>8. ASSUME NEW r \in Requests, StragglerBuilds(r) \/ StragglerWrites(r) \/ StragglerEnds(r)
        PROVE  Broken(toGui') \/ Exchange'
    <3>1. UNCHANGED <<guiVars, toHelper, runVars>> /\ stragglers[r] \in Ids
      BY <2>8 DEF StragglerBuilds, StragglerWrites, StragglerEnds, InExchange, Typed, TypeOK, Late
    <3>2. toGui' \in {toGui, Append(toGui, Progress(stragglers[r])), Append(toGui, Torn)}
      BY <2>8 DEF StragglerBuilds, StragglerWrites, StragglerEnds
    <3> QED BY <1>2, <1>3, <3>1, <3>2 DEF guiVars, runVars
  <2> QED BY <1>7, <2>1, <2>2, <2>3, <2>4, <2>5, <2>6, <2>7, <2>8 DEF Helper
<1> QED BY <1>4, <1>5, <1>6, <1>7 DEF Next

LEMMA TracedStep == Typed /\ Traced /\ [Next]_vars => Traced'
<1> SUFFICES ASSUME Typed, Traced, [Next]_vars PROVE Traced'
  OBVIOUS
<1>1. Typed'
  BY TypedStep
<1>2. CASE Next
  <2>1. Orderly'
    BY <1>2, OrderlyStep DEF Traced
  <2>2. ASSUME Intact' PROVE gpc' = "closing" \/ Broken(toGui') \/ Exchange'
    <3>1. Intact
      BY <1>2, <2>2, IntactBefore
    <3>2. CASE gpc = "closing" \/ Broken(toGui)
      BY <1>2, <2>2, <3>2, TroubleStays DEF Traced
    <3>3. CASE ~(gpc = "closing" \/ Broken(toGui))
      <4>1. InExchange
        BY <1>1, <3>1, <3>3 DEF InExchange, Traced
      <4> QED BY <1>2, <2>2, <4>1, ExchangeStep DEF Fine
    <3> QED BY <3>2, <3>3
  <2> QED BY <2>1, <2>2 DEF Traced
<1>3. CASE UNCHANGED vars
  BY <1>3 DEF vars, guiVars, closeVars, runVars, monitorVars, Traced, Orderly, Intact, Exchange, AtRest,
              Asking, Taking, Serving, Answering, Writing, WrittenTo
<1> QED BY <1>2, <1>3

LEMMA InitTraced == Init => Traced
<1> SUFFICES ASSUME Init PROVE Traced
  OBVIOUS
<1>1. Len(<<>>) = 0
  OBVIOUS
<1>2. Orderly
  BY DEF Init, Orderly
<1>3. AtRest
  BY <1>1 DEF Init, AtRest, Requestless, Answerless
<1> QED BY <1>2, <1>3 DEF Traced, Exchange

\* What the stages say of a request the GUI waits for.
LEMMA TracedFound == Typed /\ Traced => RequestNeverLost
<1> SUFFICES ASSUME Typed, Traced, gpc \in {"receiving", "collecting"}, stdinOpen, hpc # "exited",
                    stream = "clean", reuse = "none"
             PROVE  \/ Holds(toHelper, cur, {"request"})
                    \/ hreq = cur /\ hpc \in {"assembling", "running", "responding"}
                    \/ Holds(toGui, cur, {"result", "error"})
                    \/ Broken(toGui)
  BY DEF RequestNeverLost
<1>1. Broken(toGui) \/ Exchange
  BY DEF Traced, Intact
<1>2. ASSUME Answering, out = <<>> PROVE Holds(toGui, cur, {"result", "error"})
  <2>1. PICK kind \in {"result", "error"}, n \in 1..MaxChunks, k \in 0..MaxChunks,
             w \in 0..MaxChunks : Underway(toGui, out, cur, kind, n, k, w)
    BY <1>2 DEF Answering
  <2>2. k \in Nat /\ w \in Nat /\ n \in Nat /\ Len(<<>>) = 0
    BY SessionAssumption
  <2>3. k < n /\ w + Len(out) = n
    BY <2>1 DEF Underway
  <2>4. k \in k..(w - 1)
    BY <1>2, <2>2, <2>3
  <2>5. PICK i \in 1..Len(toGui) : IsAnswer(toGui[i]) /\ toGui[i].id = cur
    BY <2>1, <2>4 DEF Underway
  <2> QED BY <2>5 DEF Holds, IsAnswer
<1>3. CASE Asking
  BY <1>3 DEF Asking, Writing
<1>4. CASE Taking \/ Serving
  BY <1>4 DEF Taking, Serving
<1>5. CASE Answering
  BY <1>2, <1>5 DEF Answering
<1> QED BY <1>1, <1>3, <1>4, <1>5 DEF Exchange, AtRest

\* A request the GUI waits for is on its way, in the helper or answered, as long as nobody
\* closes the session, the helper lives and no earlier request gave up on the stream.
THEOREM RequestNeverLostAlways == Spec => []RequestNeverLost
<1> DEFINE Inv == Typed /\ Traced
<1>1. Init => Inv
  BY InitTyped, InitTraced
<1>2. Inv /\ [Next]_vars => Inv'
  BY TypedStep, TracedStep
<1>3. Inv => RequestNeverLost
  BY TracedFound
<1> QED BY <1>1, <1>2, <1>3, PTL DEF Spec
=============================================================================
