-------------------------- MODULE SttSessionProofs --------------------------
(***************************************************************************)
(* Why a transcription over a helper process keeps the promise of its      *)
(* port, and why its end says the truth, for any number of frames and      *)
(* lines and any capacity of the pipes and of the Events channel.  The     *)
(* argument is about who may have ended the session: that it is stopped    *)
(* has a cause its caller knows, a failed write is recorded before the     *)
(* input is closed for it, and whether the end was expected is decided     *)
(* before the read pump closes the input itself.                           *)
(***************************************************************************)
EXTENDS SttSession, TLAPS

\* The calls come in their order, and one that waits is on an open session.
CallsInOrder ==
  /\ caller.open = "no" =>
       /\ helper.state = "none" /\ reader.pc = "off" /\ watcher = "off"
       /\ stdout.lines = <<>>
  /\ caller.push \notin {"idle", "failed"} =>
       caller.open = "yes" /\ caller.close = "no" /\ ~caller.sent
  /\ caller.close # "no" => caller.open = "yes"
  /\ caller.push = "stop" => stt.writeErr
  /\ helper.heard + stdin.data <= stt.written
  /\ caller.push = "write" => helper.heard + stdin.data < stt.written

\* What stops a session: its caller, its context, a failed write, or its own end.
StopsHaveCauses ==
  /\ stt.stopped =>
       gctx \/ caller.open \in {"refusing", "closing", "refused"} \/ caller.close # "no"
  /\ stt.sendClosed => caller.sent \/ stt.stop
  /\ stt.stop /\ reader.pc \in {"off", "scan", "emit", "reap"} => stt.stopped \/ stt.writeErr

\* Where the read pump is tells what it has seen of the helper.
PumpTellsTheEnd ==
  /\ reader.pc = "off" => caller.open \in {"no", "refused"}
  /\ reader.pc \notin {"off", "done"} => caller.open \in {"opening", "refusing", "closing", "yes"}
  /\ reader.pc = "emit" => reader.update.end <= stt.written
  /\ stt.eventsClosed => reader.pc \in {"close", "done"}
  /\ stt.done <=> reader.pc = "done"
  /\ reader.pc \in {"reap", "wait"} /\ ~reader.err => stdout.lines = <<>> /\ helper.state # "up"
  /\ reader.pc = "wait" /\ ~reader.err /\ ~reader.eof => stt.stopped \/ stt.writeErr \/ caller.sent
  /\ reader.pc \in {"close", "done"} =>
       /\ ~Alive
       /\ stt.terminal \/ stt.stopped
            \/ (helper.state = "ok" /\ stdout.lines = <<>> /\ caller.sent)

Ends == CallsInOrder /\ StopsHaveCauses /\ PumpTellsTheEnd

SttInv == TypeOK /\ Ends

-----------------------------------------------------------------------------
(* Types.                                                                  *)

\* One record at a time: the updates that the steps make keep the shapes.
LEMMA CallerShape ==
  ASSUME NEW c \in Caller
  PROVE  /\ \A open \in {"opening", "refusing", "closing", "refused", "yes"} :
              [c EXCEPT !.open = open] \in Caller
         /\ \A push \in {"idle", "write", "failing", "stop", "await", "failed"} :
              [c EXCEPT !.push = push] \in Caller
         /\ \A close \in {"closing", "closed"} : [c EXCEPT !.close = close] \in Caller
         /\ [c EXCEPT !.sent = TRUE] \in Caller
BY DEF Caller

LEMMA HelperShape ==
  ASSUME NEW h \in Helper
  PROVE  /\ \A state \in {"none", "up", "mute", "ok", "failed", "killed"} :
              [h EXCEPT !.state = state] \in Helper
         /\ \A n \in 0 .. MaxFrames : [h EXCEPT !.heard = n] \in Helper
         /\ \A n \in 0 .. MaxLines : [h EXCEPT !.printed = n] \in Helper
BY DEF Helper

LEMMA SttShape ==
  ASSUME NEW s \in Stt
  PROVE  /\ [s EXCEPT !.ready = TRUE] \in Stt
         /\ [s EXCEPT !.done = TRUE] \in Stt
         /\ [s EXCEPT !.stopped = TRUE] \in Stt
         /\ [s EXCEPT !.stop = TRUE, !.sendClosed = TRUE] \in Stt
         /\ [s EXCEPT !.sendClosed = TRUE] \in Stt
         /\ [s EXCEPT !.writeErr = TRUE] \in Stt
         /\ [s EXCEPT !.eventsClosed = TRUE] \in Stt
         /\ \A b \in BOOLEAN : [s EXCEPT !.terminal = b] \in Stt
         /\ \A n \in 0 .. MaxFrames : [s EXCEPT !.written = n] \in Stt
         /\ \A n \in 0 .. MaxFrames : [s EXCEPT !.resolved = n] \in Stt
<1>1. [s EXCEPT !.ready = TRUE] \in Stt /\ [s EXCEPT !.done = TRUE] \in Stt
  BY DEF Stt
<1>2. [s EXCEPT !.stopped = TRUE] \in Stt /\ [s EXCEPT !.stop = TRUE, !.sendClosed = TRUE] \in Stt
  BY DEF Stt
<1>3. [s EXCEPT !.sendClosed = TRUE] \in Stt /\ [s EXCEPT !.writeErr = TRUE] \in Stt
  BY DEF Stt
<1>4. [s EXCEPT !.eventsClosed = TRUE] \in Stt
  BY DEF Stt
<1>5. ASSUME NEW b \in BOOLEAN PROVE [s EXCEPT !.terminal = b] \in Stt
  BY DEF Stt
<1>6. ASSUME NEW n \in 0 .. MaxFrames
      PROVE  [s EXCEPT !.written = n] \in Stt /\ [s EXCEPT !.resolved = n] \in Stt
  BY DEF Stt
<1>7. QED
  BY <1>1, <1>2, <1>3, <1>4, <1>5, <1>6

LEMMA ReadPumpShape ==
  ASSUME NEW r \in ReadPump
  PROVE  /\ \A pc \in {"scan", "emit", "reap", "wait", "close", "done"} :
              [r EXCEPT !.pc = pc] \in ReadPump
         /\ \A u \in Update : [r EXCEPT !.pc = "emit", !.update = u] \in ReadPump
         /\ \A b \in BOOLEAN : /\ [r EXCEPT !.pc = "reap", !.err = b] \in ReadPump
                               /\ [r EXCEPT !.pc = "wait", !.eof = b] \in ReadPump
BY DEF ReadPump

LEMMA TypeInit == Init => TypeOK
<1> SUFFICES ASSUME Init PROVE TypeOK
  OBVIOUS
<1>1. NoUpdate \in Update
  BY SttAssumption DEF NoUpdate, Update, SttAssumption
<1>2. caller \in Caller /\ helper \in Helper /\ stdin \in Stdin
  BY SttAssumption DEF Init, Caller, Helper, Stdin, SttAssumption
<1>3. stdout \in Stdout /\ Len(stdout.lines) <= PipeSize
  BY SttAssumption DEF Init, Stdout, SttAssumption
<1>4. stt \in Stt
  BY SttAssumption DEF Init, Stt, SttAssumption
<1>5. reader \in ReadPump
  BY <1>1 DEF Init, ReadPump
<1>6. events \in Seq(Update) /\ Len(events) <= EventQueue
  BY SttAssumption DEF Init, SttAssumption
<1>7. QED
  BY <1>2, <1>3, <1>4, <1>5, <1>6 DEF Init, TypeOK

\* Stopping the helper keeps the types, whatever it was stopped for.
LEMMA TypeStop ==
  ASSUME TypeOK, NEW session \in Stt, stopHelper(session)
  PROVE  stt' \in Stt /\ stdin' \in Stdin /\ forcer' \in {"off", "armed", "done"}
<1>1. stt' \in Stt
  BY SttShape DEF stopHelper
<1>2. stdin' \in Stdin
  BY DEF stopHelper, TypeOK, Stdin
<1>3. QED
  BY <1>1, <1>2 DEF stopHelper, TypeOK

Pipes == HelperReads \/ HelperEnds \/ \E line \in Line : HelperPrints(line)

Calls == Open \/ waitReady \/ CloseCalled \/ CloseReturns \/ Push \/ Write \/ writeFailure
         \/ CloseSend \/ Receive \/ Cancel

\* The types under what the helper does,
LEMMA TypePipes ==
  ASSUME SttInv, Pipes
  PROVE  TypeOK'
<1>1. TypeOK /\ helper.heard + stdin.data <= stt.written
  BY DEF SttInv, Ends, CallsInOrder
<1>2. helper \in Helper /\ stdin \in Stdin /\ stdout \in Stdout
      /\ helper.heard \in 0 .. MaxFrames /\ helper.printed \in 0 .. MaxLines
      /\ stdin.data \in 0 .. PipeSize /\ stt.written \in 0 .. MaxFrames
  BY <1>1 DEF TypeOK, Helper, Stdin, Stt
<1>3. CASE HelperReads
  <2>1. helper.heard + 1 \in 0 .. MaxFrames /\ stdin.data - 1 \in 0 .. PipeSize
    BY <1>1, <1>2, <1>3, SttAssumption DEF HelperReads, SttAssumption
  <2>2. helper' \in Helper
    BY <1>2, <1>3, <2>1, HelperShape DEF HelperReads
  <2>3. stdin' \in Stdin
    BY <1>2, <1>3, <2>1 DEF HelperReads, Stdin
  <2>4. QED
    BY <1>1, <1>3, <2>2, <2>3 DEF TypeOK, HelperReads, HelperUnchanged
<1>4. CASE HelperEnds
  BY <1>1, <1>2, <1>4, HelperShape DEF TypeOK, HelperEnds, HelperUnchanged
<1>5. ASSUME NEW line \in Line, HelperPrints(line)
      PROVE  TypeOK'
  <2>1. helper.printed + 1 \in 0 .. MaxLines
    BY <1>2, <1>5, SttAssumption DEF HelperPrints, SttAssumption
  <2>2. helper' \in Helper
    BY <1>2, <1>5, <2>1, HelperShape DEF HelperPrints
  <2>3. /\ stdout.lines \in Seq(Line) /\ Len(stdout.lines) < PipeSize
        /\ stdout' = [stdout EXCEPT !.lines = Append(stdout.lines, line)]
    BY <1>2, <1>5 DEF HelperPrints, Stdout
  <2>4. Append(stdout.lines, line) \in Seq(Line) /\ Len(Append(stdout.lines, line)) <= PipeSize
    BY <2>3, SttAssumption DEF SttAssumption
  <2>5. stdout' \in Stdout /\ Len(stdout'.lines) <= PipeSize
    BY <1>2, <2>3, <2>4 DEF Stdout
  <2>6. QED
    BY <1>1, <1>5, <2>2, <2>5 DEF TypeOK, HelperPrints, HelperUnchanged
<1>6. QED
  BY <1>3, <1>4, <1>5 DEF Pipes

\* under the calls,
LEMMA TypeCalls ==
  ASSUME TypeOK, Calls
  PROVE  TypeOK'
<1>1. /\ caller \in Caller /\ helper \in Helper /\ stdin \in Stdin /\ stt \in Stt
      /\ reader \in ReadPump /\ events \in Seq(Update) /\ Len(events) <= EventQueue
      /\ stdin.data \in 0 .. PipeSize /\ stt.written \in 0 .. MaxFrames
  BY DEF TypeOK, Stdin, Stt
<1>2. CASE Open
  <2>1. [stdin EXCEPT !.open = TRUE] \in Stdin
    BY <1>1 DEF Stdin
  <2>2. QED
    BY <1>1, <1>2, <2>1, CallerShape, HelperShape, ReadPumpShape DEF TypeOK, Open
<1>3. CASE waitReady \/ CloseReturns
  BY <1>1, <1>3, CallerShape, SttShape DEF TypeOK, waitReady, CloseReturns
<1>4. CASE CloseCalled
  <2>1. caller' \in Caller
    BY <1>1, <1>4, CallerShape DEF CloseCalled
  <2>2. stt' \in Stt /\ stdin' \in Stdin /\ forcer' \in {"off", "armed", "done"}
    BY <1>1, <1>4, TypeStop, SttShape DEF CloseCalled
  <2>3. QED
    BY <1>4, <2>1, <2>2 DEF TypeOK, CloseCalled
<1>5. CASE Push
  <2>1. stt.written + 1 \in 0 .. MaxFrames
    BY <1>1, <1>5, SttAssumption DEF Push, SttAssumption
  <2>2. stt' \in Stt /\ caller' \in Caller
    BY <1>1, <1>5, <2>1, SttShape, CallerShape DEF Push
  <2>3. QED
    BY <1>5, <2>2 DEF TypeOK, Push
<1>6. CASE Write
  <2>1. caller' \in Caller
    BY <1>1, <1>6, CallerShape DEF Write
  <2>2. CASE stdin.data < PipeSize /\ stdin' = [stdin EXCEPT !.data = @ + 1]
    <3>1. stdin.data + 1 \in 0 .. PipeSize
      BY <1>1, <2>2, SttAssumption DEF SttAssumption
    <3>2. stdin' \in Stdin
      BY <1>1, <2>2, <3>1 DEF Stdin
    <3>3. QED
      BY <1>6, <2>1, <3>2 DEF TypeOK, Write
  <2>3. CASE UNCHANGED stdin
    BY <1>6, <2>1, <2>3 DEF TypeOK, Write
  <2>4. QED
    BY <1>6, <2>2, <2>3 DEF Write
<1>7. CASE writeFailure
  <2>1. caller' \in Caller
    BY <1>1, <1>7, CallerShape DEF writeFailure
  <2>2. stt' \in Stt /\ stdin' \in Stdin /\ forcer' \in {"off", "armed", "done"}
    <3>1. CASE stopHelper(stt)
      BY <1>1, <3>1, TypeStop
    <3>2. CASE ~stopHelper(stt)
      BY <1>1, <1>7, <3>2, SttShape DEF writeFailure, TypeOK
    <3>3. QED
      BY <3>1, <3>2
  <2>3. QED
    BY <1>7, <2>1, <2>2 DEF TypeOK, writeFailure
<1>8. CASE CloseSend
  <2>1. [stdin EXCEPT !.open = FALSE] \in Stdin
    BY <1>1 DEF Stdin
  <2>2. QED
    BY <1>1, <1>8, <2>1, CallerShape, SttShape DEF TypeOK, CloseSend
<1>9. CASE Receive
  <2>1. Tail(events) \in Seq(Update) /\ Len(Tail(events)) <= EventQueue
    BY <1>1, <1>9, SttAssumption DEF Receive, SttAssumption
  <2>2. QED
    BY <1>9, <2>1 DEF TypeOK, Receive
<1>10. CASE Cancel
  BY <1>10 DEF TypeOK, Cancel
<1>11. QED
  BY <1>2, <1>3, <1>4, <1>5, <1>6, <1>7, <1>8, <1>9, <1>10 DEF Calls

\* under what stops the helper,
LEMMA TypeStops ==
  ASSUME TypeOK, watch \/ forceStop
  PROVE  TypeOK'
<1>1. helper \in Helper /\ stdout \in Stdout /\ stt \in Stt
  BY DEF TypeOK
<1>2. CASE watch
  <2>1. stt' \in Stt /\ stdin' \in Stdin /\ forcer' \in {"off", "armed", "done"}
    <3>1. CASE stopHelper([stt EXCEPT !.stopped = TRUE])
      BY <1>1, <3>1, TypeStop, SttShape
    <3>2. CASE UNCHANGED <<stt, stdin, forcer>>
      BY <3>2 DEF TypeOK
    <3>3. QED
      BY <1>2, <3>1, <3>2 DEF watch
  <2>2. QED
    BY <1>2, <2>1 DEF TypeOK, watch
<1>3. CASE forceStop
  <2>1. stdout' \in Stdout /\ stdout'.lines = stdout.lines
    BY <1>1, <1>3 DEF forceStop, Stdout
  <2>2. helper' \in Helper
    BY <1>1, <1>3, HelperShape DEF forceStop
  <2>3. QED
    BY <1>3, <2>1, <2>2 DEF TypeOK, forceStop
<1>4. QED
  BY <1>2, <1>3

\* What a line that is dispatched does to the records.
LEMMA Dispatched ==
  ASSUME TypeOK, dispatch
  PROVE  /\ reader.pc = "scan" /\ stdout.lines # <<>>
         /\ stdout' \in Stdout /\ Len(stdout'.lines) <= PipeSize
         /\ \/ reader' = [reader EXCEPT !.pc = "reap", !.err = TRUE] /\ stt' = stt
            \/ stt' = [stt EXCEPT !.ready = TRUE] /\ reader' = reader
            \/ \E u \in Update :
                 /\ u.end \in 0 .. MaxFrames /\ u.end <= stt.written
                 /\ stt' = [stt EXCEPT !.resolved = u.end]
                 /\ \/ reader' = [reader EXCEPT !.pc = "emit", !.update = u]
                    \/ reader' = reader
         /\ UNCHANGED <<gctx, caller, helper, stdin, events, watcher, forcer>>
<1>1. /\ reader.pc = "scan" /\ stdout.lines # <<>>
      /\ stdout' = [stdout EXCEPT !.lines = Tail(stdout.lines)]
      /\ UNCHANGED <<gctx, caller, helper, stdin, events, watcher, forcer>>
  BY DEF dispatch
<1>2. stdout \in Stdout /\ stdout.lines \in Seq(Line) /\ Len(stdout.lines) <= PipeSize
  BY DEF TypeOK, Stdout
<1>3. /\ Tail(stdout.lines) \in Seq(Line) /\ Len(Tail(stdout.lines)) <= PipeSize
      /\ Head(stdout.lines) \in Line
  BY <1>1, <1>2, SttAssumption DEF SttAssumption
<1>4. stdout' \in Stdout /\ Len(stdout'.lines) <= PipeSize
  BY <1>1, <1>2, <1>3 DEF Stdout
<1>5. PICK line \in Line : line = Head(stdout.lines)
  BY <1>3
<1>6. line.kind = "transcript" => line.update \in Update
  BY DEF Line
<1>7. \A u \in Update : u.end \in 0 .. MaxFrames
  BY DEF Update
<1>8. \/ reader' = [reader EXCEPT !.pc = "reap", !.err = TRUE] /\ stt' = stt
      \/ stt' = [stt EXCEPT !.ready = TRUE] /\ reader' = reader
      \/ /\ line.kind = "transcript" /\ ~Violates(line)
         /\ stt' = [stt EXCEPT !.resolved = line.update.end]
         /\ \/ reader' = [reader EXCEPT !.pc = "emit", !.update = line.update]
            \/ reader' = reader
  BY <1>5 DEF dispatch
<1>9. line.kind = "transcript" /\ ~Violates(line) => line.update.end <= stt.written
  BY DEF Violates, resolvable
<1>10. QED
  BY <1>1, <1>4, <1>6, <1>7, <1>8, <1>9

\* and under the read pump.
LEMMA TypeReader ==
  ASSUME TypeOK, Reader
  PROVE  TypeOK'
<1>1. helper \in Helper /\ stt \in Stt /\ reader \in ReadPump
  BY DEF TypeOK
<1>2. CASE dispatch
  <2>1. stt' \in Stt /\ reader' \in ReadPump
    BY <1>1, <1>2, Dispatched, SttShape, ReadPumpShape
  <2>2. QED
    BY <1>2, <2>1, Dispatched DEF TypeOK
<1>3. CASE scanEnds
  <2>1. reader' \in ReadPump
    BY <1>1, <1>3, ReadPumpShape DEF scanEnds
  <2>2. QED
    BY <1>3, <2>1 DEF TypeOK, scanEnds
<1>4. CASE emit
  <2>1. reader.update \in Update /\ events \in Seq(Update) /\ Len(events) <= EventQueue
    BY <1>1 DEF TypeOK, ReadPump
  <2>2. reader' \in ReadPump
    BY <1>1, <1>4, ReadPumpShape DEF emit
  <2>3. events' \in Seq(Update) /\ Len(events') <= EventQueue
    BY <1>4, <2>1, SttAssumption DEF emit, SttAssumption
  <2>4. QED
    BY <1>4, <2>2, <2>3 DEF TypeOK, emit
<1>5. CASE reap
  <2>1. stt' \in Stt /\ stdin' \in Stdin /\ forcer' \in {"off", "armed", "done"}
    BY <1>1, <1>5, TypeStop DEF reap
  <2>2. reader' \in ReadPump
    BY <1>1, <1>5, ReadPumpShape DEF reap
  <2>3. QED
    BY <1>5, <2>1, <2>2 DEF TypeOK, reap
<1>6. CASE killTreeAndReap
  <2>1. helper' \in Helper
    BY <1>1, <1>6, HelperShape DEF killTreeAndReap, Helper
  <2>2. stt' \in Stt
    BY <1>1, <1>6, SttShape DEF killTreeAndReap
  <2>3. reader' \in ReadPump
    BY <1>1, <1>6, ReadPumpShape DEF killTreeAndReap
  <2>4. QED
    BY <1>6, <2>1, <2>2, <2>3 DEF TypeOK, killTreeAndReap
<1>7. CASE closeEvents
  BY <1>1, <1>7, SttShape, ReadPumpShape DEF TypeOK, closeEvents
<1>8. QED
  BY <1>2, <1>3, <1>4, <1>5, <1>6, <1>7 DEF Reader

\* The type invariant is kept by every step, under the bounds on what was written.
LEMMA TypeStep ==
  ASSUME SttInv, [Next]_sttVars
  PROVE  TypeOK'
<1>1. CASE Next
  BY <1>1, TypePipes, TypeCalls, TypeStops, TypeReader DEF SttInv, Next, Pipes, Calls
<1>2. CASE UNCHANGED sttVars
  BY <1>2 DEF SttInv, TypeOK, sttVars
<1>3. QED
  BY <1>1, <1>2

-----------------------------------------------------------------------------
(* The invariant, part by part.                                            *)

\* The shapes of the records, without the rest of the type invariant.
LEMMA Shapes ==
  ASSUME TypeOK
  PROVE  /\ gctx \in BOOLEAN /\ caller \in Caller /\ helper \in Helper
         /\ stdin \in Stdin /\ stdout \in Stdout /\ stt \in Stt /\ reader \in ReadPump
BY DEF TypeOK

\* The calls come in their order, whatever the other goroutines and the helper do.
LEMMA CallsInOrderStep ==
  ASSUME SttInv, [Next]_sttVars
  PROVE  CallsInOrder'
<1>1. TypeOK /\ CallsInOrder
  BY DEF SttInv, Ends
<1>2. /\ caller \in Caller /\ helper \in Helper /\ stdin \in Stdin /\ stdout \in Stdout
      /\ stt \in Stt /\ reader \in ReadPump
      /\ helper.heard \in Nat /\ stdin.data \in Nat /\ stt.written \in Nat
  BY <1>1, Shapes, SttAssumption DEF Helper, Stdin, Stt, SttAssumption
<1>3. CASE HelperReads
  <2>1. /\ helper'.state = helper.state /\ helper'.heard = helper.heard + 1
        /\ stdin'.data = stdin.data - 1 /\ UNCHANGED <<caller, stt, reader, watcher, stdout>>
    BY <1>2, <1>3 DEF HelperReads, HelperUnchanged, Helper, Stdin
  <2>2. helper.state # "none"
    BY <1>3 DEF HelperReads, Alive
  <2>3. QED
    BY <1>1, <1>2, <2>1, <2>2 DEF CallsInOrder
<1>4. CASE HelperEnds \/ \E line \in Line : HelperPrints(line)
  <2>1. /\ helper.state # "none" /\ helper'.heard = helper.heard
        /\ UNCHANGED <<caller, stdin, stt, reader, watcher>>
    BY <1>2, <1>4 DEF HelperEnds, HelperPrints, HelperUnchanged, Alive, Helper
  <2>2. QED
    BY <1>1, <2>1 DEF CallsInOrder
<1>5. CASE Open
  <2>1. /\ caller.open = "no" /\ caller'.open # "no" /\ helper'.heard = helper.heard
        /\ caller'.push = caller.push /\ caller'.close = caller.close /\ stdin'.data = stdin.data
        /\ UNCHANGED stt
    BY <1>2, <1>5 DEF Open, Caller, Helper, Stdin
  <2>2. QED
    BY <1>1, <1>2, <2>1 DEF CallsInOrder, Caller
<1>6. CASE waitReady
  <2>1. /\ caller.open = "opening" /\ caller'.open # "no" /\ caller'.push = caller.push
        /\ caller'.close = caller.close /\ caller'.sent = caller.sent
        /\ stt'.writeErr = stt.writeErr /\ stt'.written = stt.written /\ UNCHANGED <<helper, stdin>>
    BY <1>2, <1>6 DEF waitReady, Caller, Stt
  <2>2. QED
    BY <1>1, <1>2, <2>1 DEF CallsInOrder, Caller
<1>7. CASE CloseCalled
  <2>1. \/ /\ caller.open = "refusing" /\ caller' = [caller EXCEPT !.open = "closing"]
        \/ /\ caller.open = "yes" /\ caller.close = "no" /\ caller.push \in {"idle", "failed"}
           /\ caller' = [caller EXCEPT !.close = "closing"]
    BY <1>7 DEF CloseCalled
  <2>2. stt'.writeErr = stt.writeErr /\ stt'.written = stt.written
    BY <1>2, <1>7 DEF CloseCalled, stopHelper, Stt
  <2>3. stdin'.data = stdin.data /\ UNCHANGED helper
    BY <1>2, <1>7 DEF CloseCalled, stopHelper, Stdin
  <2>4. /\ caller'.push = caller.push /\ caller'.sent = caller.sent
        /\ \/ caller.open = "refusing" /\ caller'.open = "closing" /\ caller'.close = caller.close
           \/ caller.open = "yes" /\ caller'.open = "yes" /\ caller.push \in {"idle", "failed"}
    BY <1>2, <2>1 DEF Caller
  <2>5. QED
    BY <1>1, <1>2, <2>2, <2>3, <2>4 DEF CallsInOrder
<1>8. CASE CloseReturns
  <2>1. /\ \/ caller.open = "closing" /\ caller'.open = "refused" /\ caller'.close = caller.close
           \/ caller.close = "closing" /\ caller'.open = caller.open /\ caller'.close = "closed"
        /\ caller'.push = caller.push /\ caller'.sent = caller.sent
        /\ UNCHANGED <<helper, stdin, stdout, stt, reader, watcher>>
    BY <1>2, <1>8 DEF CloseReturns, Caller
  <2>2. QED
    BY <1>1, <1>2, <2>1 DEF CallsInOrder, Caller
<1>9. CASE Push
  <2>1. /\ caller.open = "yes" /\ caller.close = "no" /\ ~caller.sent
        /\ caller'.open = caller.open /\ caller'.close = caller.close /\ caller'.sent = caller.sent
        /\ caller'.push = "write" /\ stt'.written = stt.written + 1
        /\ UNCHANGED <<helper, stdin>>
    BY <1>2, <1>9 DEF Push, Caller, Stt
  <2>2. QED
    BY <1>1, <1>2, <2>1 DEF CallsInOrder
<1>10. CASE Write
  <2>1. /\ caller.push = "write" /\ caller'.open = caller.open /\ caller'.close = caller.close
        /\ caller'.sent = caller.sent /\ UNCHANGED <<helper, stt, reader, watcher, stdout>>
        /\ \/ caller'.push = "idle" /\ stdin'.data = stdin.data + 1
           \/ caller'.push \in {"failed", "failing"} /\ stdin'.data = stdin.data
    BY <1>2, <1>10 DEF Write, Caller, Stdin
  <2>2. QED
    BY <1>1, <1>2, <2>1 DEF CallsInOrder
<1>11. CASE writeFailure
  <2>1. /\ caller.push \in {"failing", "stop", "await"} /\ caller'.open = caller.open
        /\ caller'.close = caller.close /\ caller'.sent = caller.sent
        /\ caller'.push = "stop" => stt'.writeErr
        /\ caller'.push # "write"
        /\ stt'.written = stt.written /\ stdin'.data = stdin.data
        /\ UNCHANGED <<helper, reader, watcher, stdout>>
    BY <1>2, <1>11 DEF writeFailure, stopHelper, Caller, Stt, Stdin
  <2>2. QED
    BY <1>1, <1>2, <2>1 DEF CallsInOrder
<1>12. CASE CloseSend
  <2>1. /\ caller.open = "yes" /\ caller.push = "idle" /\ caller'.open = "yes"
        /\ caller'.push = "idle" /\ stt'.written = stt.written /\ stdin'.data = stdin.data
        /\ UNCHANGED helper
    BY <1>2, <1>12 DEF CloseSend, Caller, Stt, Stdin
  <2>2. QED
    BY <1>1, <1>2, <2>1 DEF CallsInOrder
<1>13. CASE Receive \/ Cancel \/ UNCHANGED sttVars
  BY <1>1, <1>13 DEF Receive, Cancel, sttVars, CallsInOrder
<1>14. CASE watch \/ forceStop
  <2>1. /\ stt'.writeErr = stt.writeErr /\ stt'.written = stt.written /\ stdin'.data = stdin.data
        /\ helper'.heard = helper.heard /\ stdout'.lines = stdout.lines
        /\ UNCHANGED <<caller, reader>>
        /\ watcher' = watcher \/ watcher = "on"
        /\ helper'.state = helper.state \/ helper.state # "none"
    BY <1>2, <1>14 DEF watch, forceStop, stopHelper, Alive, Stt, Stdin, Stdout, Helper
  <2>2. QED
    BY <1>1, <1>2, <2>1 DEF CallsInOrder
<1>15. CASE Reader
  <2>1. /\ reader.pc # "off" /\ helper'.heard = helper.heard
        /\ stt'.written = stt.written /\ stt'.writeErr = stt.writeErr
        /\ stdin'.data = stdin.data /\ UNCHANGED caller
    <3>1. CASE dispatch
      BY <1>1, <1>2, <3>1, Dispatched DEF Stt
    <3>2. CASE scanEnds \/ emit
      BY <3>2 DEF scanEnds, emit
    <3>3. CASE reap
      BY <1>2, <3>3 DEF reap, stopHelper, Stt, Stdin
    <3>4. CASE killTreeAndReap
      BY <1>2, <3>4 DEF killTreeAndReap, Stt, Helper
    <3>5. CASE closeEvents
      BY <1>2, <3>5 DEF closeEvents, Stt
    <3>6. QED
      BY <1>15, <3>1, <3>2, <3>3, <3>4, <3>5 DEF Reader
  <2>2. QED
    BY <1>1, <1>2, <2>1 DEF CallsInOrder
<1>16. QED
  BY <1>3, <1>4, <1>5, <1>6, <1>7, <1>8, <1>9, <1>10, <1>11, <1>12, <1>13, <1>14, <1>15 DEF Next

\* What stops the session has its cause, and a failed write is recorded first.
LEMMA StopsHaveCausesStep ==
  ASSUME SttInv, [Next]_sttVars
  PROVE  StopsHaveCauses'
<1>1. TypeOK /\ CallsInOrder /\ StopsHaveCauses /\ PumpTellsTheEnd
  BY DEF SttInv, Ends
<1>2. /\ caller \in Caller /\ stt \in Stt /\ reader \in ReadPump
  BY <1>1, Shapes
<1>3. CASE HelperReads \/ HelperEnds \/ (\E line \in Line : HelperPrints(line)) \/ forceStop
           \/ scanEnds \/ emit \/ Receive \/ UNCHANGED sttVars
  <2>1. UNCHANGED <<gctx, caller, stt>>
    BY <1>3 DEF HelperReads, HelperEnds, HelperPrints, HelperUnchanged, forceStop, scanEnds, emit,
       Receive, sttVars
  <2>2. reader'.pc = reader.pc \/ reader.pc \in {"scan", "emit"}
    BY <1>3 DEF HelperReads, HelperEnds, HelperPrints, HelperUnchanged, forceStop, scanEnds, emit,
       Receive, sttVars
  <2>3. QED
    BY <1>1, <2>1, <2>2 DEF StopsHaveCauses
<1>4. CASE Cancel
  BY <1>1, <1>4 DEF Cancel, StopsHaveCauses
<1>5. CASE Open
  <2>1. /\ caller.open = "no" /\ caller'.close = caller.close /\ caller'.sent = caller.sent
        /\ UNCHANGED <<gctx, stt>>
    BY <1>2, <1>5 DEF Open, Caller
  <2>2. reader.pc = "off"
    BY <1>1, <2>1 DEF CallsInOrder
  <2>3. QED
    BY <1>1, <2>1, <2>2 DEF StopsHaveCauses
<1>6. CASE waitReady
  <2>1. /\ caller.open = "opening" /\ caller'.close = caller.close /\ caller'.sent = caller.sent
        /\ UNCHANGED <<gctx, reader>>
        /\ stt'.stopped => stt.stopped \/ caller'.open = "refusing"
        /\ stt.stopped => stt'.stopped
        /\ stt'.stop = stt.stop /\ stt'.sendClosed = stt.sendClosed /\ stt'.writeErr = stt.writeErr
    BY <1>2, <1>6 DEF waitReady, Caller, Stt
  <2>2. QED
    BY <1>1, <2>1 DEF StopsHaveCauses
<1>7. CASE CloseCalled
  <2>1. caller'.open = "closing" \/ caller'.close # "no"
    BY <1>2, <1>7 DEF CloseCalled, Caller
  <2>2. stt'.stopped /\ stt'.stop
    BY <1>2, <1>7 DEF CloseCalled, stopHelper, Stt
  <2>3. QED
    BY <2>1, <2>2 DEF StopsHaveCauses
<1>8. CASE CloseReturns
  <2>1. /\ \/ caller.open = "closing" /\ caller'.open = "refused" /\ caller'.close = caller.close
           \/ caller.close = "closing" /\ caller'.open = caller.open /\ caller'.close = "closed"
        /\ caller'.sent = caller.sent
        /\ UNCHANGED <<gctx, stt, reader>>
    BY <1>2, <1>8 DEF CloseReturns, Caller
  <2>2. QED
    BY <1>1, <2>1 DEF StopsHaveCauses
<1>9. CASE Push \/ Write
  <2>1. /\ caller'.open = caller.open /\ caller'.close = caller.close /\ caller'.sent = caller.sent
        /\ UNCHANGED <<gctx, reader>>
    BY <1>2, <1>9 DEF Push, Write, Caller
  <2>2. /\ stt'.stopped = stt.stopped /\ stt'.stop = stt.stop /\ stt'.sendClosed = stt.sendClosed
        /\ stt'.writeErr = stt.writeErr
    BY <1>2, <1>9 DEF Push, Write, Stt
  <2>3. QED
    BY <1>1, <2>1, <2>2 DEF StopsHaveCauses
<1>10. CASE writeFailure
  <2>1. /\ caller'.open = caller.open /\ caller'.close = caller.close /\ caller'.sent = caller.sent
        /\ UNCHANGED <<gctx, reader>>
    BY <1>2, <1>10 DEF writeFailure, Caller
  <2>2. /\ stt'.stopped = stt.stopped
        /\ stt.writeErr => stt'.writeErr
        /\ \/ stt'.stop = stt.stop /\ stt'.sendClosed = stt.sendClosed
           \/ stt'.stop /\ stt'.sendClosed /\ caller.push = "stop"
    BY <1>2, <1>10 DEF writeFailure, stopHelper, Stt
  <2>3. QED
    BY <1>1, <2>1, <2>2 DEF StopsHaveCauses, CallsInOrder
<1>11. CASE CloseSend
  <2>1. caller'.open = caller.open /\ caller'.close = caller.close /\ caller'.sent
    BY <1>2, <1>11 DEF CloseSend, Caller
  <2>2. /\ stt'.stopped = stt.stopped /\ stt'.stop = stt.stop /\ stt'.writeErr = stt.writeErr
        /\ UNCHANGED <<gctx, reader>>
    BY <1>2, <1>11 DEF CloseSend, Stt
  <2>3. QED
    BY <1>1, <2>1, <2>2 DEF StopsHaveCauses
<1>12. CASE watch
  <2>1. /\ UNCHANGED <<gctx, caller, reader>>
        /\ stt' = stt \/ (gctx /\ stt'.stopped /\ stt'.stop /\ stt'.sendClosed)
    BY <1>2, <1>12 DEF watch, stopHelper, Stt
  <2>2. QED
    BY <1>1, <2>1 DEF StopsHaveCauses
<1>13. CASE dispatch \/ closeEvents
  <2>1. /\ stt'.stopped = stt.stopped /\ stt'.stop = stt.stop /\ stt'.sendClosed = stt.sendClosed
        /\ stt'.writeErr = stt.writeErr /\ UNCHANGED <<gctx, caller>>
    BY <1>1, <1>2, <1>13, Dispatched DEF closeEvents, Stt
  <2>2. reader'.pc \in {"off", "scan", "emit", "reap"} => reader.pc \in {"off", "scan", "emit", "reap"}
    <3>1. CASE dispatch
      BY <1>1, <3>1, Dispatched
    <3>2. CASE closeEvents
      BY <1>2, <3>2 DEF closeEvents, ReadPump
    <3>3. QED
      BY <1>13, <3>1, <3>2
  <2>3. QED
    BY <1>1, <2>1, <2>2 DEF StopsHaveCauses
<1>14. CASE reap
  <2>1. /\ UNCHANGED <<gctx, caller>> /\ reader'.pc = "wait"
        /\ stt'.stopped = stt.stopped /\ stt'.stop
    BY <1>2, <1>14 DEF reap, stopHelper, Stt, ReadPump
  <2>2. QED
    BY <1>1, <2>1 DEF StopsHaveCauses
<1>15. CASE killTreeAndReap
  <2>1. /\ UNCHANGED <<gctx, caller>> /\ reader'.pc = "close"
        /\ stt'.stopped = stt.stopped /\ stt'.stop = stt.stop /\ stt'.sendClosed = stt.sendClosed
    BY <1>2, <1>15 DEF killTreeAndReap, Stt, ReadPump
  <2>2. QED
    BY <1>1, <2>1 DEF StopsHaveCauses
<1>16. QED
  BY <1>3, <1>4, <1>5, <1>6, <1>7, <1>8, <1>9, <1>10, <1>11, <1>12, <1>13, <1>14, <1>15
     DEF Next, Reader

\* Before it closes, the read pump has seen how the helper ended, and keeps it.
LEMMA PumpTellsTheEndStep ==
  ASSUME SttInv, [Next]_sttVars
  PROVE  PumpTellsTheEnd'
<1>1. TypeOK /\ CallsInOrder /\ StopsHaveCauses /\ PumpTellsTheEnd
  BY DEF SttInv, Ends
<1>2. /\ caller \in Caller /\ helper \in Helper /\ stdout \in Stdout
      /\ stt \in Stt /\ reader \in ReadPump
  BY <1>1, Shapes
<1>3. CASE HelperReads \/ HelperEnds \/ (\E line \in Line : HelperPrints(line)) \/ forceStop
  <2>1. UNCHANGED <<caller, stt, reader>>
    BY <1>3 DEF HelperReads, HelperEnds, HelperPrints, HelperUnchanged, forceStop
  <2>2. /\ ~Alive => UNCHANGED helper /\ stdout'.lines = stdout.lines
        /\ helper.state # "up" => helper'.state # "up" /\ stdout'.lines = stdout.lines
    BY <1>2, <1>3 DEF HelperReads, HelperEnds, HelperPrints, forceStop, Alive, Helper, Stdout
  <2>3. QED
    BY <1>1, <2>1, <2>2 DEF PumpTellsTheEnd, Alive
<1>4. CASE Cancel \/ Receive \/ UNCHANGED sttVars
  BY <1>1, <1>4 DEF Cancel, Receive, sttVars, PumpTellsTheEnd, Alive
<1>5. CASE Open
  <2>1. /\ caller.open = "no" /\ UNCHANGED <<stt, stdout>>
        /\ \/ caller'.open = "opening" /\ reader'.pc = "scan"
           \/ caller'.open = "refused" /\ reader' = reader
    BY <1>2, <1>5 DEF Open, Caller, ReadPump
  <2>2. reader.pc = "off"
    BY <1>1, <2>1 DEF CallsInOrder
  <2>3. QED
    BY <1>1, <2>1, <2>2 DEF PumpTellsTheEnd
<1>6. CASE waitReady \/ CloseCalled \/ CloseReturns
  <2>1. /\ caller.open \in {"opening", "refusing", "closing", "yes"}
        /\ caller'.open \in {"opening", "refusing", "closing", "yes"} \/ stt.done
        /\ caller'.sent = caller.sent
    BY <1>1, <1>2, <1>6 DEF waitReady, CloseCalled, CloseReturns, CallsInOrder, Caller
  <2>2. /\ stt.stopped => stt'.stopped
        /\ stt'.eventsClosed = stt.eventsClosed /\ stt'.done = stt.done
        /\ stt'.writeErr = stt.writeErr /\ stt'.terminal = stt.terminal /\ stt'.written = stt.written
        /\ UNCHANGED <<helper, stdout, reader>>
    BY <1>2, <1>6 DEF waitReady, CloseCalled, CloseReturns, stopHelper, Stt
  <2>3. QED
    BY <1>1, <2>1, <2>2 DEF PumpTellsTheEnd, Alive
<1>7. CASE Push \/ Write \/ writeFailure \/ CloseSend
  <2>1. /\ caller'.open = caller.open
        /\ caller.sent => caller'.sent
        /\ UNCHANGED <<helper, stdout, reader>>
    BY <1>2, <1>7 DEF Push, Write, writeFailure, CloseSend, Caller
  <2>2. /\ stt.stopped => stt'.stopped
        /\ stt.writeErr => stt'.writeErr
        /\ stt'.eventsClosed = stt.eventsClosed /\ stt'.done = stt.done
        /\ stt'.terminal = stt.terminal /\ stt'.written >= stt.written
        /\ stt.written \in Nat /\ stt'.written \in Nat
    <3>1. CASE Push
      BY <1>2, <3>1, SttAssumption DEF Push, Stt, SttAssumption
    <3>2. CASE Write \/ CloseSend
      BY <1>2, <3>2, SttAssumption DEF Write, CloseSend, Stt, SttAssumption
    <3>3. CASE writeFailure
      <4>1. \/ stt' = [stt EXCEPT !.writeErr = TRUE]
            \/ stt' = [stt EXCEPT !.stop = TRUE, !.sendClosed = TRUE]
            \/ stt' = stt
        BY <3>3 DEF writeFailure, stopHelper
      <4>2. stt.written \in Nat
        BY <1>2, SttAssumption DEF Stt, SttAssumption
      <4>3. CASE stt' = [stt EXCEPT !.writeErr = TRUE]
        BY <1>2, <4>2, <4>3 DEF Stt
      <4>4. CASE stt' = [stt EXCEPT !.stop = TRUE, !.sendClosed = TRUE]
        BY <1>2, <4>2, <4>4 DEF Stt
      <4>5. QED
        BY <4>1, <4>2, <4>3, <4>4
    <3>4. QED
      BY <1>7, <3>1, <3>2, <3>3
  <2>3. reader.update.end \in Nat
    BY <1>2, SttAssumption DEF ReadPump, Update, SttAssumption
  <2>4. QED
    BY <1>1, <2>1, <2>2, <2>3 DEF PumpTellsTheEnd, Alive
<1>8. CASE watch
  <2>1. /\ stt.stopped => stt'.stopped
        /\ stt'.writeErr = stt.writeErr /\ stt'.eventsClosed = stt.eventsClosed
        /\ stt'.done = stt.done /\ stt'.terminal = stt.terminal /\ stt'.written = stt.written
        /\ UNCHANGED <<caller, helper, stdout, reader>>
    BY <1>2, <1>8 DEF watch, stopHelper, Stt
  <2>2. QED
    BY <1>1, <2>1 DEF PumpTellsTheEnd, Alive
<1>9. CASE dispatch
  <2>1. UNCHANGED <<caller, helper>> /\ reader.pc = "scan"
    BY <1>1, <1>9, Dispatched
  <2>2. /\ stt'.eventsClosed = stt.eventsClosed /\ stt'.done = stt.done
        /\ stt'.written = stt.written
    BY <1>1, <1>2, <1>9, Dispatched DEF Stt
  <2>3. \/ reader'.pc = "reap" /\ reader'.err
        \/ reader'.pc = "scan"
        \/ reader'.pc = "emit" /\ reader'.update.end <= stt.written
    BY <1>1, <1>2, <1>9, Dispatched DEF ReadPump
  <2>4. QED
    BY <1>1, <2>1, <2>2, <2>3 DEF PumpTellsTheEnd
<1>10. CASE scanEnds
  <2>1. /\ UNCHANGED <<caller, helper, stdout, stt>> /\ reader.pc = "scan"
        /\ reader'.err \/ (stdout.lines = <<>> /\ helper.state # "up")
    BY <1>2, <1>10 DEF scanEnds, ReadPump
  <2>2. reader'.pc = "reap"
    BY <1>2, <1>10 DEF scanEnds, ReadPump
  <2>3. QED
    BY <1>1, <2>1, <2>2 DEF PumpTellsTheEnd
<1>11. CASE emit
  <2>1. /\ UNCHANGED <<caller, helper, stdout, stt>> /\ reader.pc = "emit"
        /\ reader'.pc = "scan" \/ (reader'.pc = "reap" /\ reader'.err)
    BY <1>2, <1>11 DEF emit, ReadPump
  <2>2. QED
    BY <1>1, <2>1 DEF PumpTellsTheEnd
<1>12. CASE reap
  <2>1. /\ UNCHANGED <<caller, helper, stdout>> /\ reader.pc = "reap"
        /\ stt'.stopped = stt.stopped /\ stt'.writeErr = stt.writeErr
        /\ stt'.eventsClosed = stt.eventsClosed /\ stt'.done = stt.done
    BY <1>2, <1>12 DEF reap, stopHelper, Stt
  <2>2. /\ reader'.pc = "wait" /\ reader'.err = reader.err
        /\ reader'.eof = (~reader.err /\ ~stt.sendClosed /\ ~stt.stopped)
    BY <1>2, <1>12 DEF reap, ReadPump
  <2>3. ~reader.err /\ ~reader'.eof => stt.stopped \/ stt.writeErr \/ caller.sent
    BY <1>1, <2>1, <2>2 DEF StopsHaveCauses
  <2>4. QED
    BY <1>1, <2>1, <2>2, <2>3 DEF PumpTellsTheEnd
<1>13. CASE killTreeAndReap
  <2>1. /\ UNCHANGED <<caller, stdout>> /\ reader.pc = "wait" /\ reader'.pc = "close"
    BY <1>2, <1>13 DEF killTreeAndReap, ReadPump
  <2>2. /\ stt'.stopped = stt.stopped /\ stt'.eventsClosed = stt.eventsClosed
        /\ stt'.done = stt.done
    BY <1>2, <1>13 DEF killTreeAndReap, Stt
  <2>3. helper'.state = IF Alive THEN "killed" ELSE helper.state
    BY <1>2, <1>13 DEF killTreeAndReap, Helper
  <2>4. ~stt.stopped =>
          stt'.terminal = (stt.writeErr \/ reader.err \/ reader.eof \/ helper'.state # "ok")
    BY <1>2, <1>13, <2>3 DEF killTreeAndReap, Stt
  <2>5. ~Alive'
    BY <2>3 DEF Alive
  <2>6. ~stt'.terminal /\ ~stt'.stopped => helper'.state = "ok" /\ stdout.lines = <<>> /\ caller.sent
    BY <1>1, <2>1, <2>2, <2>4 DEF PumpTellsTheEnd
  <2>7. QED
    BY <1>1, <2>1, <2>2, <2>5, <2>6 DEF PumpTellsTheEnd
<1>14. CASE closeEvents
  <2>1. /\ UNCHANGED <<caller, helper, stdout>> /\ reader.pc = "close"
        /\ stt'.stopped = stt.stopped /\ stt'.terminal = stt.terminal
        /\ \/ stt'.done /\ reader'.pc = "done"
           \/ stt'.done = stt.done /\ reader'.pc = "close"
    BY <1>2, <1>14 DEF closeEvents, Stt, ReadPump
  <2>2. QED
    BY <1>1, <2>1 DEF PumpTellsTheEnd, Alive
<1>15. QED
  BY <1>3, <1>4, <1>5, <1>6, <1>7, <1>8, <1>9, <1>10, <1>11, <1>12, <1>13, <1>14 DEF Next, Reader

LEMMA SttInvInit == Init => SttInv
<1> SUFFICES ASSUME Init PROVE SttInv
  OBVIOUS
<1>1. TypeOK
  BY TypeInit
<1>2. CallsInOrder
  BY DEF Init, CallsInOrder
<1>3. StopsHaveCauses
  BY DEF Init, StopsHaveCauses
<1>4. PumpTellsTheEnd
  BY DEF Init, PumpTellsTheEnd, Alive
<1>5. QED
  BY <1>1, <1>2, <1>3, <1>4 DEF SttInv, Ends

\* stt.go: the calls come in their order, what stops a session has a cause, and the
\* read pump has seen the end of the helper before it tells of it.
THEOREM SessionInvariant == Spec => []SttInv
<1>1. SttInv /\ [Next]_sttVars => SttInv'
  BY TypeStep, CallsInOrderStep, StopsHaveCausesStep, PumpTellsTheEndStep DEF SttInv, Ends
<1>2. QED
  BY <1>1, SttInvInit, PTL DEF Spec

\* stt.go read/reap/writeFailure, process.go killTreeAndReap: an end without an
\* error is the end of the helper's own audio or was asked for, a failed write is
\* an error, and no process is left when done is closed.
THEOREM EndsTellTheTruth == Spec => []EndIsTrue
<1>1. SttInv => EndIsTrue
  <2> SUFFICES ASSUME SttInv PROVE EndIsTrue
    OBVIOUS
  <2>1. TypeOK /\ CallsInOrder /\ StopsHaveCauses /\ PumpTellsTheEnd
    BY DEF SttInv, Ends
  <2>2. CleanEndLosesNothing
    BY <2>1 DEF PumpTellsTheEnd, CleanEndLosesNothing
  <2>3. FailedWriteIsTerminal
    <3> SUFFICES ASSUME caller.push \in {"failing", "stop", "await"}, stt.eventsClosed, ~gctx
                 PROVE  stt.terminal
      BY DEF FailedWriteIsTerminal
    <3>1. caller.open = "yes" /\ caller.close = "no" /\ ~caller.sent
      BY <2>1 DEF CallsInOrder
    <3>2. ~stt.stopped
      BY <2>1, <3>1 DEF StopsHaveCauses
    <3>3. QED
      BY <2>1, <3>1, <3>2 DEF PumpTellsTheEnd
  <2>4. GoneWhenDone
    BY <2>1 DEF PumpTellsTheEnd, GoneWhenDone
  <2>5. QED
    BY <2>1, <2>2, <2>3, <2>4 DEF EndIsTrue
<1>2. QED
  BY <1>1, SessionInvariant, PTL

-----------------------------------------------------------------------------
(* The port.                                                               *)

\* What the port sees of the session.
PortOpen == IF caller.open = "closing" THEN "refusing" ELSE caller.open
PortPush == IF caller.push \in {"idle", "failed"} THEN caller.push ELSE "busy"
PortTerminal == stt.eventsClosed /\ stt.terminal

PortTx == [open |-> IF caller.open = "closing" THEN "refusing" ELSE caller.open,
           push |-> IF caller.push \in {"idle", "failed"} THEN caller.push ELSE "busy",
           pushed |-> stt.written, sent |-> caller.sent,
           ended |-> stt.eventsClosed, terminal |-> stt.eventsClosed /\ stt.terminal,
           done |-> stt.done, close |-> caller.close]

PortShape == [open : {"no", "opening", "yes", "refusing", "refused"},
              push : {"idle", "busy", "failed"}, pushed : 0 .. MaxFrames, sent : BOOLEAN,
              ended : BOOLEAN, terminal : BOOLEAN, done : BOOLEAN,
              close : {"no", "closing", "closed"}]

OpenStays == PortOpen' = PortOpen
PushStays == PortPush' = PortPush
SentStays == caller'.sent = caller.sent
CloseStays == caller'.close = caller.close
CallerStays == OpenStays /\ PushStays /\ SentStays /\ CloseStays

PushedStays == stt'.written = stt.written
EndStays == stt'.eventsClosed = stt.eventsClosed /\ PortTerminal' = PortTerminal
DoneStays == stt'.done = stt.done
FlagsStay == PushedStays /\ EndStays /\ DoneStays

\* The record the port is instantiated with, now and after a step.
LEMMA PortFields ==
  ASSUME TypeOK
  PROVE  /\ PortTx \in PortShape
         /\ PortTx.open = PortOpen /\ PortTx.push = PortPush /\ PortTx.pushed = stt.written
         /\ PortTx.sent = caller.sent /\ PortTx.ended = stt.eventsClosed
         /\ PortTx.terminal = PortTerminal /\ PortTx.done = stt.done /\ PortTx.close = caller.close
<1>1. caller \in Caller /\ stt \in Stt
  BY DEF TypeOK
<1>2. PortTx \in PortShape
  BY <1>1 DEF PortTx, PortShape, Caller, Stt
<1>3. QED
  BY <1>2 DEF PortTx, PortOpen, PortPush, PortTerminal

LEMMA PortFieldsNext ==
  ASSUME TypeOK'
  PROVE  /\ PortTx' \in PortShape
         /\ PortTx'.open = PortOpen' /\ PortTx'.push = PortPush' /\ PortTx'.pushed = stt'.written
         /\ PortTx'.sent = caller'.sent /\ PortTx'.ended = stt'.eventsClosed
         /\ PortTx'.terminal = PortTerminal' /\ PortTx'.done = stt'.done
         /\ PortTx'.close = caller'.close
<1>1. caller' \in Caller /\ stt' \in Stt
  BY DEF TypeOK
<1>2. PortTx' \in PortShape
  BY <1>1 DEF PortTx, PortShape, Caller, Stt
<1>3. QED
  BY <1>2 DEF PortTx, PortOpen, PortPush, PortTerminal

\* Two sessions that differ in one field are an update of each other.
LEMMA OpenUpdate ==
  ASSUME NEW r \in PortShape, NEW q \in PortShape,
         q.push = r.push /\ q.pushed = r.pushed /\ q.sent = r.sent /\ q.ended = r.ended,
         q.terminal = r.terminal /\ q.done = r.done /\ q.close = r.close
  PROVE  q = [r EXCEPT !.open = q.open]
BY DEF PortShape

LEMMA SentUpdate ==
  ASSUME NEW r \in PortShape, NEW q \in PortShape, q.sent,
         q.open = r.open /\ q.push = r.push /\ q.pushed = r.pushed /\ q.ended = r.ended,
         q.terminal = r.terminal /\ q.done = r.done /\ q.close = r.close
  PROVE  q = [r EXCEPT !.sent = TRUE]
BY DEF PortShape

LEMMA DoneUpdate ==
  ASSUME NEW r \in PortShape, NEW q \in PortShape, q.done,
         q.open = r.open /\ q.push = r.push /\ q.pushed = r.pushed /\ q.sent = r.sent,
         q.ended = r.ended /\ q.terminal = r.terminal /\ q.close = r.close
  PROVE  q = [r EXCEPT !.done = TRUE]
BY DEF PortShape

LEMMA CloseUpdate ==
  ASSUME NEW r \in PortShape, NEW q \in PortShape,
         q.open = r.open /\ q.push = r.push /\ q.pushed = r.pushed /\ q.sent = r.sent,
         q.ended = r.ended /\ q.terminal = r.terminal /\ q.done = r.done
  PROVE  q = [r EXCEPT !.close = q.close]
BY DEF PortShape

\* A call of Push, and the end, change two fields.
LEMMA PushedUpdate ==
  ASSUME NEW r \in PortShape, NEW q \in PortShape,
         q.open = r.open /\ q.sent = r.sent /\ q.ended = r.ended /\ q.terminal = r.terminal,
         q.done = r.done /\ q.close = r.close
  PROVE  q = [r EXCEPT !.push = q.push, !.pushed = q.pushed]
BY DEF PortShape

LEMMA EndUpdate ==
  ASSUME NEW r \in PortShape, NEW q \in PortShape, q.ended,
         q.open = r.open /\ q.push = r.push /\ q.pushed = r.pushed /\ q.sent = r.sent,
         q.done = r.done /\ q.close = r.close
  PROVE  q = [r EXCEPT !.ended = TRUE, !.terminal = q.terminal]
BY DEF PortShape

\* A step that changes nothing the port sees is a stutter of it.
LEMMA PortStays ==
  ASSUME CallerStays, FlagsStay, UNCHANGED <<gctx, events>>
  PROVE  UNCHANGED Port!txVars
BY DEF CallerStays, OpenStays, PushStays, SentStays, CloseStays, PortOpen, PortPush, PortTerminal,
   FlagsStay, PushedStays, EndStays, DoneStays, Port!txVars

\* How a step changes that record, when it changes one thing the port sees.
LEMMA PortMoves ==
  ASSUME TypeOK, TypeOK'
  PROVE  /\ FlagsStay /\ PushStays /\ SentStays /\ CloseStays
            => PortTx' = [PortTx EXCEPT !.open = PortOpen']
         /\ OpenStays /\ SentStays /\ CloseStays /\ EndStays /\ DoneStays
            => PortTx' = [PortTx EXCEPT !.push = PortPush', !.pushed = stt'.written]
         /\ FlagsStay /\ OpenStays /\ PushStays /\ CloseStays /\ caller'.sent
            => PortTx' = [PortTx EXCEPT !.sent = TRUE]
         /\ CallerStays /\ PushedStays /\ DoneStays /\ stt'.eventsClosed
            => PortTx' = [PortTx EXCEPT !.ended = TRUE, !.terminal = PortTerminal']
         /\ CallerStays /\ PushedStays /\ EndStays /\ stt'.done
            => PortTx' = [PortTx EXCEPT !.done = TRUE]
         /\ FlagsStay /\ OpenStays /\ PushStays /\ SentStays
            => PortTx' = [PortTx EXCEPT !.close = caller'.close]
<1>1. PortTx \in PortShape /\ PortTx' \in PortShape
  BY PortFields, PortFieldsNext
<1>2. /\ OpenStays <=> PortTx'.open = PortTx.open
      /\ PushStays <=> PortTx'.push = PortTx.push
      /\ PushedStays <=> PortTx'.pushed = PortTx.pushed
      /\ SentStays <=> PortTx'.sent = PortTx.sent
      /\ EndStays <=> PortTx'.ended = PortTx.ended /\ PortTx'.terminal = PortTx.terminal
      /\ DoneStays <=> PortTx'.done = PortTx.done
      /\ CloseStays <=> PortTx'.close = PortTx.close
  BY PortFields, PortFieldsNext
     DEF OpenStays, PushStays, SentStays, CloseStays, PushedStays, EndStays, DoneStays
<1>3. FlagsStay /\ PushStays /\ SentStays /\ CloseStays => PortTx' = [PortTx EXCEPT !.open = PortOpen']
  <2> SUFFICES ASSUME FlagsStay, PushStays, SentStays, CloseStays
               PROVE  PortTx' = [PortTx EXCEPT !.open = PortOpen']
    OBVIOUS
  <2>1. PortTx' = [PortTx EXCEPT !.open = PortTx'.open]
    BY <1>1, <1>2, OpenUpdate DEF FlagsStay
  <2>2. QED
    BY <2>1, PortFieldsNext
<1>4. OpenStays /\ SentStays /\ CloseStays /\ EndStays /\ DoneStays
        => PortTx' = [PortTx EXCEPT !.push = PortPush', !.pushed = stt'.written]
  <2> SUFFICES ASSUME OpenStays, SentStays, CloseStays, EndStays, DoneStays
               PROVE  PortTx' = [PortTx EXCEPT !.push = PortPush', !.pushed = stt'.written]
    OBVIOUS
  <2>1. PortTx' = [PortTx EXCEPT !.push = PortTx'.push, !.pushed = PortTx'.pushed]
    BY <1>1, <1>2, PushedUpdate
  <2>2. QED
    BY <2>1, PortFieldsNext
<1>5. FlagsStay /\ OpenStays /\ PushStays /\ CloseStays /\ caller'.sent
        => PortTx' = [PortTx EXCEPT !.sent = TRUE]
  BY <1>1, <1>2, SentUpdate, PortFieldsNext DEF FlagsStay
<1>6. CallerStays /\ PushedStays /\ DoneStays /\ stt'.eventsClosed
        => PortTx' = [PortTx EXCEPT !.ended = TRUE, !.terminal = PortTerminal']
  <2> SUFFICES ASSUME CallerStays, PushedStays, DoneStays, stt'.eventsClosed
               PROVE  PortTx' = [PortTx EXCEPT !.ended = TRUE, !.terminal = PortTerminal']
    OBVIOUS
  <2>1. PortTx'.ended
    BY PortFieldsNext
  <2>2. PortTx' = [PortTx EXCEPT !.ended = TRUE, !.terminal = PortTx'.terminal]
    BY <1>1, <1>2, <2>1, EndUpdate DEF CallerStays
  <2>3. QED
    BY <2>2, PortFieldsNext
<1>7. CallerStays /\ PushedStays /\ EndStays /\ stt'.done => PortTx' = [PortTx EXCEPT !.done = TRUE]
  BY <1>1, <1>2, DoneUpdate, PortFieldsNext DEF CallerStays
<1>8. FlagsStay /\ OpenStays /\ PushStays /\ SentStays
        => PortTx' = [PortTx EXCEPT !.close = caller'.close]
  <2> SUFFICES ASSUME FlagsStay, OpenStays, PushStays, SentStays
               PROVE  PortTx' = [PortTx EXCEPT !.close = caller'.close]
    OBVIOUS
  <2>1. PortTx' = [PortTx EXCEPT !.close = PortTx'.close]
    BY <1>1, <1>2, CloseUpdate DEF FlagsStay
  <2>2. QED
    BY <2>1, PortFieldsNext
<1>9. QED
  BY <1>3, <1>4, <1>5, <1>6, <1>7, <1>8

\* Opening: the helper is spawned, says that it is ready, or is given up.
LEMMA OpeningIsPorts ==
  ASSUME SttInv, TypeOK', Open \/ waitReady
  PROVE  [Port!TxNext]_(Port!txVars)
<1>1. TypeOK /\ caller \in Caller /\ UNCHANGED <<gctx, events>> /\ stt \in Stt
  BY DEF SttInv, TypeOK, Open, waitReady
<1>2. PushStays /\ SentStays /\ CloseStays /\ FlagsStay
  BY <1>1 DEF Open, waitReady, Caller, Stt, PushStays, PortPush, SentStays, CloseStays, FlagsStay,
     PushedStays, EndStays, PortTerminal, DoneStays
<1>3. PortTx' = [PortTx EXCEPT !.open = PortOpen'] /\ PortTx.open = PortOpen
  BY <1>1, <1>2, PortMoves, PortFields
<1>4. CASE caller.open = "no" /\ caller'.open = "opening" /\ ~gctx
  <2>1. PortTx' = [PortTx EXCEPT !.open = "opening"] /\ PortTx.open = "no"
    BY <1>3, <1>4 DEF PortOpen
  <2>2. Port!TxOpen
    BY <1>1, <1>4, <2>1 DEF PortTx, Port!TxOpen
  <2>3. QED
    BY <1>1, <2>2 DEF Port!TxNext
<1>5. CASE caller.open = "no" /\ caller'.open = "refused"
  <2>1. PortTx' = [PortTx EXCEPT !.open = "refused"] /\ PortTx.open = "no"
    BY <1>3, <1>5 DEF PortOpen
  <2>2. Port!TxRefused
    BY <1>1, <2>1 DEF PortTx, Port!TxRefused
  <2>3. QED
    BY <1>1, <2>2 DEF Port!TxNext
<1>6. CASE caller.open = "opening" /\ caller'.open = "refusing"
  <2>1. PortTx' = [PortTx EXCEPT !.open = "refusing"] /\ PortTx.open = "opening"
    BY <1>3, <1>6 DEF PortOpen
  <2>2. Port!TxRefused
    BY <1>1, <2>1 DEF PortTx, Port!TxRefused
  <2>3. QED
    BY <1>1, <2>2 DEF Port!TxNext
<1>7. CASE caller.open = "opening" /\ caller'.open = "yes"
  <2>1. PortTx' = [PortTx EXCEPT !.open = "yes"] /\ PortTx.open = "opening"
    BY <1>3, <1>7 DEF PortOpen
  <2>2. Port!TxOpened
    BY <1>1, <2>1 DEF PortTx, Port!TxOpened
  <2>3. QED
    BY <1>1, <2>2 DEF Port!TxNext
<1>8. QED
  BY <1>1, <1>4, <1>5, <1>6, <1>7 DEF Open, waitReady, Caller

\* Closing: the helper is stopped, and the call waits for the read pump.
LEMMA ClosingIsPorts ==
  ASSUME SttInv, TypeOK', CloseCalled \/ CloseReturns
  PROVE  [Port!TxNext]_(Port!txVars)
<1>1. TypeOK /\ caller \in Caller /\ stt \in Stt /\ UNCHANGED <<gctx, events>>
  BY DEF SttInv, TypeOK, CloseCalled, CloseReturns
<1>2. PushStays /\ SentStays
  BY <1>1 DEF CloseCalled, CloseReturns, Caller, PushStays, PortPush, SentStays
<1>3. FlagsStay
  BY <1>1 DEF CloseCalled, CloseReturns, stopHelper, Stt, FlagsStay, PushedStays, EndStays,
     PortTerminal, DoneStays
<1>4. CASE caller.open = "refusing" /\ caller' = [caller EXCEPT !.open = "closing"]
  <2>1. OpenStays /\ CloseStays
    BY <1>1, <1>4 DEF OpenStays, CloseStays, PortOpen, Caller
  <2>2. QED
    BY <1>1, <1>2, <1>3, <2>1, PortStays DEF CallerStays
<1>5. CASE /\ caller.open = "yes" /\ caller.close = "no" /\ caller.push \in {"idle", "failed"}
           /\ caller' = [caller EXCEPT !.close = "closing"]
  <2>1. OpenStays /\ caller'.close = "closing"
    BY <1>1, <1>5 DEF Caller, OpenStays, PortOpen
  <2>2. PortTx' = [PortTx EXCEPT !.close = "closing"]
    BY <1>1, <1>2, <1>3, <2>1, PortMoves
  <2>3. PortTx.open = "yes" /\ PortTx.push # "busy" /\ PortTx.close = "no"
    BY <1>1, <1>5, PortFields DEF PortOpen, PortPush
  <2>4. Port!TxClose
    BY <1>1, <2>2, <2>3 DEF PortTx, Port!TxClose
  <2>5. QED
    BY <1>1, <2>4 DEF Port!TxNext
<1>6. CASE stt.done /\ caller.open = "closing" /\ caller' = [caller EXCEPT !.open = "refused"]
  <2>1. PortOpen' = "refused" /\ CloseStays
    BY <1>1, <1>6 DEF Caller, CloseStays, PortOpen
  <2>2. PortTx' = [PortTx EXCEPT !.open = "refused"]
    BY <1>1, <1>2, <1>3, <2>1, PortMoves
  <2>3. PortTx.open = "refusing" /\ PortTx.done
    BY <1>1, <1>6, PortFields DEF PortOpen
  <2>4. Port!TxRefused
    BY <1>1, <2>2, <2>3 DEF PortTx, Port!TxRefused
  <2>5. QED
    BY <1>1, <2>4 DEF Port!TxNext
<1>7. CASE stt.done /\ caller.close = "closing" /\ caller' = [caller EXCEPT !.close = "closed"]
  <2>1. OpenStays /\ caller'.close = "closed"
    BY <1>1, <1>7 DEF Caller, OpenStays, PortOpen
  <2>2. PortTx' = [PortTx EXCEPT !.close = "closed"]
    BY <1>1, <1>2, <1>3, <2>1, PortMoves
  <2>3. PortTx.close = "closing" /\ PortTx.done
    BY <1>1, <1>7, PortFields
  <2>4. Port!TxClosed
    BY <1>1, <2>2, <2>3 DEF PortTx, Port!TxClosed
  <2>5. QED
    BY <1>1, <2>4 DEF Port!TxNext
<1>8. QED
  BY <1>4, <1>5, <1>6, <1>7 DEF CloseCalled, CloseReturns

\* Pushing: a write that succeeds, that fails under a cancelled context, or that
\* fails and returns once all of the session is gone.
LEMMA PushingIsPorts ==
  ASSUME SttInv, TypeOK', Push \/ Write \/ writeFailure \/ CloseSend
  PROVE  [Port!TxNext]_(Port!txVars)
<1>1. TypeOK /\ caller \in Caller /\ stt \in Stt /\ UNCHANGED <<gctx, events>>
  BY DEF SttInv, TypeOK, Push, Write, writeFailure, CloseSend
<1>2. OpenStays /\ CloseStays
  BY <1>1 DEF Push, Write, writeFailure, CloseSend, Caller, OpenStays, PortOpen, CloseStays
<1>3. CASE Push
  <2>1. /\ PortPush' = "busy" /\ SentStays /\ EndStays /\ DoneStays
        /\ stt'.written = stt.written + 1
    BY <1>1, <1>3 DEF Push, Caller, Stt, PortPush, SentStays, EndStays, PortTerminal, DoneStays
  <2>2. PortTx' = [PortTx EXCEPT !.push = "busy", !.pushed = @ + 1]
    BY <1>1, <1>2, <2>1, PortMoves, PortFields
  <2>3. /\ PortTx.open = "yes" /\ PortTx.push = "idle" /\ ~PortTx.sent /\ ~gctx
        /\ PortTx.pushed < MaxFrames
    BY <1>1, <1>3, PortFields DEF Push, PortOpen, PortPush
  <2>4. Port!TxPush
    BY <1>1, <2>2, <2>3 DEF PortTx, Port!TxPush
  <2>5. QED
    BY <1>1, <2>4 DEF Port!TxNext
<1>4. CASE Write \/ writeFailure
  <2>1. SentStays /\ FlagsStay
    BY <1>1, <1>4 DEF Write, writeFailure, stopHelper, Caller, Stt, SentStays, FlagsStay,
       PushedStays, EndStays, PortTerminal, DoneStays
  <2>2. /\ PortTx.push = PortPush
        /\ PortTx' = [PortTx EXCEPT !.push = PortPush']
    <3>1. PortTx' \in PortShape /\ PortTx \in PortShape
      BY <1>1, PortFields, PortFieldsNext
    <3>2. PortTx' = [PortTx EXCEPT !.push = PortPush', !.pushed = stt.written]
      BY <1>1, <1>2, <2>1, PortMoves DEF FlagsStay, PushedStays
    <3>3. PortTx.pushed = stt.written /\ PortTx.push = PortPush
      BY <1>1, PortFields
    <3>4. QED
      BY <3>1, <3>2, <3>3 DEF PortShape
  <2>3. CASE caller.push = "write" /\ caller'.push = "idle"
    <3>1. PortTx' = [PortTx EXCEPT !.push = "idle"] /\ PortTx.push = "busy"
      BY <2>2, <2>3 DEF PortPush
    <3>2. Port!TxPushed
      BY <1>1, <3>1 DEF PortTx, Port!TxPushed
    <3>3. QED
      BY <1>1, <3>2 DEF Port!TxNext
  <2>4. CASE caller.push \in {"write", "await"} /\ caller'.push = "failed" /\ (gctx \/ stt.done)
    <3>1. PortTx' = [PortTx EXCEPT !.push = "failed"] /\ PortTx.push = "busy"
      BY <2>2, <2>4 DEF PortPush
    <3>2. gctx \/ PortTx.done
      BY <1>1, <2>4, PortFields
    <3>3. Port!TxPushFailed
      BY <1>1, <3>1, <3>2 DEF PortTx, Port!TxPushFailed
    <3>4. QED
      BY <1>1, <3>3 DEF Port!TxNext
  <2>5. CASE caller.push \notin {"idle", "failed"} /\ caller'.push \notin {"idle", "failed"}
    <3>1. PushStays
      BY <2>5 DEF PushStays, PortPush
    <3>2. QED
      BY <1>1, <1>2, <2>1, <3>1, PortStays DEF CallerStays
  <2>6. QED
    BY <1>1, <1>4, <2>3, <2>4, <2>5 DEF Write, writeFailure, Caller
<1>5. CASE CloseSend
  <2>1. PushStays /\ caller'.sent /\ FlagsStay
    BY <1>1, <1>5 DEF CloseSend, Caller, Stt, PushStays, PortPush, FlagsStay, PushedStays, EndStays,
       PortTerminal, DoneStays
  <2>2. PortTx' = [PortTx EXCEPT !.sent = TRUE]
    BY <1>1, <1>2, <2>1, PortMoves
  <2>3. PortTx.open = "yes" /\ PortTx.push = "idle" /\ ~PortTx.sent
    BY <1>1, <1>5, PortFields DEF CloseSend, PortOpen, PortPush
  <2>4. Port!TxCloseSend
    BY <1>1, <2>2, <2>3 DEF PortTx, Port!TxCloseSend
  <2>5. QED
    BY <1>1, <2>4 DEF Port!TxNext
<1>6. QED
  BY <1>3, <1>4, <1>5

\* The read pump: what it emits covers audio that was pushed, the terminal error is
\* there when Events closes, and done comes last.
LEMMA ReaderIsPorts ==
  ASSUME SttInv, TypeOK', Reader
  PROVE  [Port!TxNext]_(Port!txVars)
<1>1. TypeOK /\ StopsHaveCauses /\ PumpTellsTheEnd
  BY DEF SttInv, Ends
<1>2. caller \in Caller /\ stt \in Stt /\ reader \in ReadPump
  BY <1>1, Shapes
<1>3. UNCHANGED <<gctx, caller>> /\ CallerStays
  <2>1. UNCHANGED <<gctx, caller>>
    BY <1>1, Dispatched DEF Reader, scanEnds, emit, reap, killTreeAndReap, closeEvents
  <2>2. QED
    BY <2>1 DEF CallerStays, OpenStays, PushStays, SentStays, CloseStays, PortOpen, PortPush
<1>4. reader.pc \in {"emit", "close"} => PortTx.open \in {"opening", "refusing", "yes"}
  <2>1. reader.pc \in {"emit", "close"} => caller.open \in {"opening", "refusing", "closing", "yes"}
    BY <1>1 DEF PumpTellsTheEnd
  <2>2. QED
    BY <1>1, <2>1, PortFields DEF PortOpen
<1>5. CASE dispatch \/ scanEnds \/ reap
  <2>1. FlagsStay /\ UNCHANGED events
    BY <1>1, <1>2, <1>5, Dispatched DEF scanEnds, reap, stopHelper, Stt, FlagsStay, PushedStays,
       EndStays, PortTerminal, DoneStays
  <2>2. QED
    BY <1>3, <2>1, PortStays
<1>6. CASE emit
  <2>1. reader.pc = "emit" /\ FlagsStay
    BY <1>6 DEF emit, FlagsStay, PushedStays, EndStays, PortTerminal, DoneStays
  <2>2. CASE Len(events) < EventQueue /\ events' = Append(events, reader.update)
    <3>1. ~PortTx.ended /\ PortTx.pushed = stt.written
      BY <1>1, <2>1, PortFields DEF PumpTellsTheEnd
    <3>2. reader.update \in Port!Update /\ reader.update.end <= stt.written
      BY <1>1, <1>2, <2>1 DEF PumpTellsTheEnd, ReadPump, Update, Port!Update
    <3>3. PortTx' = PortTx
      BY <1>3, <2>1, PortStays DEF PortTx, CallerStays, OpenStays, PushStays, SentStays, CloseStays,
         PortOpen, PortPush, PortTerminal, FlagsStay, PushedStays, EndStays, DoneStays
    <3>4. Port!TxUpdate(reader.update)
      BY <1>4, <2>1, <2>2, <3>1, <3>2, <3>3 DEF PortTx, Port!TxUpdate
    <3>5. QED
      BY <1>3, <3>2, <3>4 DEF Port!TxNext, Port!TxOwn
  <2>3. CASE UNCHANGED events
    BY <1>3, <2>1, <2>3, PortStays
  <2>4. QED
    BY <1>6, <2>2, <2>3 DEF emit
<1>7. CASE killTreeAndReap
  <2>1. ~stt.eventsClosed
    BY <1>1, <1>7 DEF PumpTellsTheEnd, killTreeAndReap
  <2>2. FlagsStay /\ UNCHANGED events
    BY <1>2, <1>7, <2>1 DEF killTreeAndReap, Stt, FlagsStay, PushedStays, EndStays, PortTerminal,
       DoneStays
  <2>3. QED
    BY <1>3, <2>2, PortStays
<1>8. CASE closeEvents
  <2>1. reader.pc = "close" /\ UNCHANGED events /\ PushedStays
    BY <1>2, <1>8 DEF closeEvents, Stt, PushedStays
  <2>2. CASE stt.eventsClosed
    <3>1. stt'.done /\ EndStays
      BY <1>2, <1>8, <2>2 DEF closeEvents, Stt, EndStays, PortTerminal
    <3>2. PortTx' = [PortTx EXCEPT !.done = TRUE]
      BY <1>1, <1>3, <2>1, <3>1, PortMoves
    <3>3. PortTx.ended /\ ~PortTx.done
      BY <1>1, <2>1, <2>2, PortFields DEF PumpTellsTheEnd
    <3>4. Port!TxDone
      BY <2>1, <3>2, <3>3 DEF PortTx, Port!TxDone
    <3>5. QED
      BY <1>3, <3>4 DEF Port!TxNext, Port!TxOwn
  <2>3. CASE ~stt.eventsClosed
    <3>1. stt'.eventsClosed /\ DoneStays /\ PortTerminal' = stt.terminal
      BY <1>2, <1>8, <2>3 DEF closeEvents, Stt, DoneStays, PortTerminal
    <3>2. PortTx' = [PortTx EXCEPT !.ended = TRUE, !.terminal = stt.terminal]
      BY <1>1, <1>3, <2>1, <3>1, PortMoves
    <3>3. ~stt.terminal =>
            caller.sent \/ gctx \/ caller.open \in {"refusing", "closing"} \/ caller.close # "no"
      BY <1>1, <2>1 DEF PumpTellsTheEnd, StopsHaveCauses
    <3>4. /\ ~stt.terminal => PortTx.sent \/ gctx \/ PortTx.open = "refusing" \/ PortTx.close # "no"
          /\ ~PortTx.ended
      BY <1>1, <2>3, <3>3, PortFields DEF PortOpen
    <3>5. Port!TxEnd(stt.terminal)
      BY <1>4, <2>1, <3>2, <3>4 DEF PortTx, Port!TxEnd
    <3>6. stt.terminal \in BOOLEAN
      BY <1>2 DEF Stt
    <3>7. QED
      BY <1>3, <3>5, <3>6 DEF Port!TxNext, Port!TxOwn
  <2>4. QED
    BY <2>2, <2>3
<1>9. QED
  BY <1>5, <1>6, <1>7, <1>8 DEF Reader

\* What the port cannot see: the helper, the watcher and the timer that kills.
LEMMA OthersAreSilent ==
  ASSUME SttInv, Pipes \/ watch \/ forceStop
  PROVE  UNCHANGED Port!txVars
<1>1. stt \in Stt
  BY DEF SttInv, TypeOK
<1>2. UNCHANGED <<gctx, caller, events>>
  BY DEF Pipes, HelperReads, HelperEnds, HelperPrints, HelperUnchanged, watch, forceStop
<1>3. FlagsStay
  BY <1>1 DEF Pipes, HelperReads, HelperEnds, HelperPrints, HelperUnchanged, watch, forceStop,
     stopHelper, Stt, FlagsStay, PushedStays, EndStays, PortTerminal, DoneStays
<1>4. CallerStays
  BY <1>2 DEF CallerStays, OpenStays, PushStays, SentStays, CloseStays, PortOpen, PortPush
<1>5. QED
  BY <1>2, <1>3, <1>4, PortStays

\* Every step of the session is a step of the port or a stutter.
LEMMA StepIsPorts ==
  ASSUME SttInv, [Next]_sttVars
  PROVE  [Port!TxNext]_(Port!txVars)
<1>1. CASE Receive
  <2>1. Port!TxReceive /\ UNCHANGED gctx
    BY <1>1 DEF Receive, Port!TxReceive
  <2>2. QED
    BY <2>1 DEF Port!TxNext
<1>2. CASE Cancel
  BY <1>2 DEF Cancel, Port!TxNext
<1>3. CASE UNCHANGED sttVars
  BY <1>3 DEF sttVars, Port!txVars
<1>4. TypeOK'
  BY TypeStep
<1>5. QED
  BY <1>1, <1>2, <1>3, <1>4, OpeningIsPorts, ClosingIsPorts, PushingIsPorts, ReaderIsPorts, OthersAreSilent
     DEF Next, Pipes

\* stt.go keeps the port of ports.go: what the lane is proved over is what the
\* helper process, its pipes and its goroutines provide.
THEOREM SessionKeepsPort == Spec => ImplementsPort
<1>1. Init => Port!TxInit
  <2> SUFFICES ASSUME Init PROVE Port!TxInit
    OBVIOUS
  <2>1. /\ gctx = FALSE /\ events = <<>>
        /\ caller.open = "no" /\ caller.push = "idle" /\ caller.sent = FALSE /\ caller.close = "no"
        /\ stt.written = 0 /\ stt.done = FALSE /\ stt.eventsClosed = FALSE /\ stt.terminal = FALSE
    BY DEF Init
  <2>2. QED
    BY <2>1 DEF Port!TxInit
<1>2. SttInv /\ [Next]_sttVars => [Port!TxNext]_(Port!txVars)
  BY StepIsPorts
<1>3. QED
  BY <1>1, <1>2, SessionInvariant, PTL DEF Spec, ImplementsPort, Port!TxSpec
=============================================================================
