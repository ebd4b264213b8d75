----------------------------- MODULE SttSession -----------------------------
(***************************************************************************)
(* One transcription over a helper process                                 *)
(* (internal/providers/native/stt.go, with the process handling it takes   *)
(* from native/process.go).  Its callers open it, push audio, receive      *)
(* updates and close it, as the streaming lane does; the read pump, the    *)
(* watcher of the context and, once the helper has been asked to stop, the *)
(* timer that kills it run beside them.  The helper itself is outside: it  *)
(* reads its input, prints what it likes and ends as it likes.             *)
(*                                                                         *)
(* Audio is counted in frames.  A line the helper prints is its ready      *)
(* handshake, something the protocol forbids, or a transcript that covers  *)
(* the first `end' frames of what was written to it.                       *)
(***************************************************************************)
EXTENDS Naturals, Sequences

CONSTANTS
  MaxFrames,   \* model bound: frames the source ever delivers
  MaxLines,    \* model bound: lines the helper ever prints
  PipeSize,    \* frames, and lines, the pipes hold before a write blocks
  EventQueue   \* sttEventQueue (8 in the code)

ASSUME SttAssumption ==
  /\ MaxFrames \in Nat
  /\ MaxLines \in Nat
  /\ PipeSize \in Nat \ {0}
  /\ EventQueue \in Nat \ {0}

VARIABLES
  gctx,     \* the context Open was called with is cancelled
  caller,   \* where the calls of Open, Push and Close are; CloseSend was called
  helper,   \* the process: its state, what it heard, how much it printed
  stdin,    \* its input: open for writing, frames written and not yet read
  stdout,   \* its output: lines not yet scanned, closed by force
  stt,      \* the flags and errors of sttSession
  events,   \* the Events channel, head first
  reader,   \* the read pump: where it is, the update in hand, its errors
  watcher,  \* the goroutine that waits for the context
  forcer    \* the goroutine that grants the helper its grace

sttVars == <<gctx, caller, helper, stdin, stdout, stt, events, reader, watcher, forcer>>

Update == [end : 0 .. MaxFrames, final : BOOLEAN]

NoUpdate == [end |-> 0, final |-> FALSE]

Line ==
  {[kind |-> k, update |-> NoUpdate] : k \in {"ready", "bad"}}
    \cup [kind : {"transcript"}, update : Update]

Alive == helper.state \in {"up", "mute"}

Caller == [open : {"no", "opening", "refusing", "closing", "refused", "yes"},
           push : {"idle", "write", "failing", "stop", "await", "failed"},
           sent : BOOLEAN, close : {"no", "closing", "closed"}]

Helper == [state : {"none", "up", "mute", "ok", "failed", "killed"},
           heard : 0 .. MaxFrames, printed : 0 .. MaxLines]

Stdin == [open : BOOLEAN, data : 0 .. PipeSize]

Stdout == [lines : Seq(Line), cut : BOOLEAN]

Stt == [ready : BOOLEAN, done : BOOLEAN, stop : BOOLEAN, stopped : BOOLEAN,
        sendClosed : BOOLEAN, writeErr : BOOLEAN, terminal : BOOLEAN, eventsClosed : BOOLEAN,
        written : 0 .. MaxFrames, resolved : 0 .. MaxFrames]

ReadPump == [pc : {"off", "scan", "emit", "reap", "wait", "close", "done"},
             update : Update, err : BOOLEAN, eof : BOOLEAN]

TypeOK ==
  /\ gctx \in BOOLEAN
  /\ caller \in Caller /\ helper \in Helper
  /\ stdin \in Stdin /\ stdout \in Stdout /\ Len(stdout.lines) <= PipeSize
  /\ stt \in Stt /\ reader \in ReadPump
  /\ events \in Seq(Update) /\ Len(events) <= EventQueue
  /\ watcher \in {"off", "on", "done"} /\ forcer \in {"off", "armed", "done"}

Init ==
  /\ gctx = FALSE
  /\ caller = [open |-> "no", push |-> "idle", sent |-> FALSE, close |-> "no"]
  /\ helper = [state |-> "none", heard |-> 0, printed |-> 0]
  /\ stdin = [open |-> FALSE, data |-> 0]
  /\ stdout = [lines |-> <<>>, cut |-> FALSE]
  /\ stt = [ready |-> FALSE, done |-> FALSE, stop |-> FALSE, stopped |-> FALSE,
            sendClosed |-> FALSE, writeErr |-> FALSE, terminal |-> FALSE,
            eventsClosed |-> FALSE, written |-> 0, resolved |-> 0]
  /\ events = <<>>
  /\ reader = [pc |-> "off", update |-> NoUpdate, err |-> FALSE, eof |-> FALSE]
  /\ watcher = "off"
  /\ forcer = "off"

-----------------------------------------------------------------------------
(* The helper process, which the daemon does not control.                  *)

HelperUnchanged == UNCHANGED <<gctx, caller, stt, events, reader, watcher, forcer>>

HelperReads ==
  /\ Alive /\ stdin.data > 0
  /\ stdin' = [stdin EXCEPT !.data = @ - 1]
  /\ helper' = [helper EXCEPT !.heard = @ + 1]
  /\ UNCHANGED stdout
  /\ HelperUnchanged

HelperPrints(line) ==
  /\ helper.state = "up"
  /\ helper.printed < MaxLines /\ Len(stdout.lines) < PipeSize
  /\ stdout' = [stdout EXCEPT !.lines = Append(@, line)]
  /\ helper' = [helper EXCEPT !.printed = @ + 1]
  /\ UNCHANGED stdin
  /\ HelperUnchanged

\* It may close its output and live on, or exit with either status.
HelperEnds ==
  /\ \/ helper.state = "up" /\ helper' = [helper EXCEPT !.state = "mute"]
     \/ Alive /\ \E s \in {"ok", "failed"} : helper' = [helper EXCEPT !.state = s]
  /\ UNCHANGED <<stdin, stdout>>
  /\ HelperUnchanged

-----------------------------------------------------------------------------
(* The end of the helper, whoever asks for it.                             *)

\* stopHelper, once: unblock the read pump, close the input, arm the kill.
stopHelper(session) ==
  /\ stt' = [session EXCEPT !.stop = TRUE, !.sendClosed = TRUE]
  /\ stdin' = [stdin EXCEPT !.open = FALSE]
  /\ forcer' = IF stt.stop THEN forcer ELSE "armed"

watch ==
  /\ watcher = "on" /\ watcher' = "done"
  /\ \/ gctx /\ stopHelper([stt EXCEPT !.stopped = TRUE])
     \/ stt.done /\ UNCHANGED <<stt, stdin, forcer>>
  /\ UNCHANGED <<gctx, caller, helper, stdout, events, reader>>

\* The grace is over: kill the tree, close its output under the read pump.
forceStop ==
  /\ forcer = "armed" /\ forcer' = "done"
  /\ \/ stt.done /\ UNCHANGED <<helper, stdout>>
     \/ /\ ~stt.done
        /\ helper' = IF Alive THEN [helper EXCEPT !.state = "killed"] ELSE helper
        /\ stdout' = [stdout EXCEPT !.cut = TRUE]
  /\ UNCHANGED <<gctx, caller, stdin, stt, events, reader, watcher>>

-----------------------------------------------------------------------------
(* The callers.                                                            *)

\* Open spawns the helper, unless it cannot or is not to.
Open ==
  /\ caller.open = "no"
  /\ \/ /\ ~gctx
        /\ caller' = [caller EXCEPT !.open = "opening"]
        /\ helper' = [helper EXCEPT !.state = "up"]
        /\ stdin' = [stdin EXCEPT !.open = TRUE]
        /\ reader' = [reader EXCEPT !.pc = "scan"]
        /\ watcher' = "on"
     \/ /\ caller' = [caller EXCEPT !.open = "refused"]
        /\ UNCHANGED <<helper, stdin, reader, watcher>>
  /\ UNCHANGED <<gctx, stdout, stt, events, forcer>>

\* The handshake came; or the helper ended, the context did, or the time, which
\* may all be there at once.
waitReady ==
  /\ caller.open = "opening"
  /\ \/ /\ stt.ready
        /\ caller' = [caller EXCEPT !.open = "yes"]
        /\ UNCHANGED stt
     \/ /\ caller' = [caller EXCEPT !.open = "refusing"]
        /\ stt' = [stt EXCEPT !.stopped = TRUE]
  /\ UNCHANGED <<gctx, helper, stdin, stdout, events, reader, watcher, forcer>>

\* Close: stop the helper and wait for the read pump; a failed Open ends so.
\* The lane closes once its pump has returned.
CloseCalled ==
  /\ \/ /\ caller.open = "refusing"
        /\ caller' = [caller EXCEPT !.open = "closing"]
     \/ /\ caller.open = "yes" /\ caller.close = "no"
        /\ caller.push \in {"idle", "failed"}
        /\ caller' = [caller EXCEPT !.close = "closing"]
  /\ stopHelper([stt EXCEPT !.stopped = TRUE])
  /\ UNCHANGED <<gctx, helper, stdout, events, reader, watcher>>

CloseReturns ==
  /\ stt.done
  /\ \/ /\ caller.open = "closing"
        /\ caller' = [caller EXCEPT !.open = "refused"]
     \/ /\ caller.close = "closing"
        /\ caller' = [caller EXCEPT !.close = "closed"]
  /\ UNCHANGED <<gctx, helper, stdin, stdout, stt, events, reader, watcher, forcer>>

\* Push records the frame on the timeline before it writes it.
Push ==
  /\ caller.open = "yes" /\ caller.push = "idle" /\ caller.close = "no"
  /\ ~caller.sent /\ ~gctx
  /\ stt.written < MaxFrames
  /\ stt' = [stt EXCEPT !.written = @ + 1]
  /\ caller' = [caller EXCEPT !.push = "write"]
  /\ UNCHANGED <<gctx, helper, stdin, stdout, events, reader, watcher, forcer>>

\* The write blocks while the pipe is full.
Write ==
  LET broken == ~(stdin.open /\ Alive)
  IN  /\ caller.push = "write"
      /\ \/ /\ ~broken /\ stdin.data < PipeSize
            /\ stdin' = [stdin EXCEPT !.data = @ + 1]
            /\ caller' = [caller EXCEPT !.push = "idle"]
         \/ /\ broken
            /\ caller' = [caller EXCEPT !.push = IF gctx THEN "failed" ELSE "failing"]
            /\ UNCHANGED stdin
      /\ UNCHANGED <<gctx, helper, stdout, stt, events, reader, watcher, forcer>>

\* writeFailure: record the cause, then stop the helper, then wait.
writeFailure ==
  /\ \/ /\ caller.push = "failing"
        /\ caller' = [caller EXCEPT !.push = "stop"]
        /\ stt' = [stt EXCEPT !.writeErr = TRUE]
        /\ UNCHANGED <<stdin, forcer>>
     \/ /\ caller.push = "stop"
        /\ caller' = [caller EXCEPT !.push = "await"]
        /\ stopHelper(stt)
     \/ /\ caller.push = "await" /\ stt.done
        /\ caller' = [caller EXCEPT !.push = "failed"]
        /\ UNCHANGED <<stt, stdin, forcer>>
  /\ UNCHANGED <<gctx, helper, stdout, events, reader, watcher>>

\* The end of the audio; the helper may still print.
CloseSend ==
  /\ caller.open = "yes" /\ caller.push = "idle" /\ caller.close = "no"
  /\ ~caller.sent
  /\ caller' = [caller EXCEPT !.sent = TRUE]
  /\ stt' = [stt EXCEPT !.sendClosed = TRUE]
  /\ stdin' = [stdin EXCEPT !.open = FALSE]
  /\ UNCHANGED <<gctx, helper, stdout, events, reader, watcher, forcer>>

Receive ==
  /\ caller.open = "yes" /\ events # <<>>
  /\ events' = Tail(events)
  /\ UNCHANGED <<gctx, caller, helper, stdin, stdout, stt, reader, watcher, forcer>>

Cancel ==
  /\ ~gctx /\ gctx' = TRUE
  /\ UNCHANGED <<caller, helper, stdin, stdout, stt, events, reader, watcher, forcer>>

-----------------------------------------------------------------------------
(* The read pump.                                                          *)

\* A resolvable that would accept an offset ahead of what was written.
resolvableAhead(end) == stt.resolved <= end

\* timeline.resolve: an offset may neither go back nor pass what was written.
resolvable(end) == stt.resolved <= end /\ end <= stt.written

\* What ends the session: a violation of the protocol.
Violates(line) ==
  \/ line.kind = "bad"
  \/ line.kind = "ready" /\ stt.ready
  \/ line.kind = "transcript" /\ ~(stt.ready /\ resolvable(line.update.end))

dispatch ==
  LET line == Head(stdout.lines)
  IN  /\ reader.pc = "scan" /\ stdout.lines # <<>>
      /\ stdout' = [stdout EXCEPT !.lines = Tail(@)]
      /\ \/ /\ Violates(line)
            /\ reader' = [reader EXCEPT !.pc = "reap", !.err = TRUE]
            /\ UNCHANGED stt
         \/ /\ ~Violates(line) /\ line.kind = "ready"
            /\ stt' = [stt EXCEPT !.ready = TRUE]
            /\ UNCHANGED reader
         \/ /\ ~Violates(line) /\ line.kind = "transcript"
            /\ stt' = [stt EXCEPT !.resolved = line.update.end]
            /\ \/ reader' = [reader EXCEPT !.pc = "emit", !.update = line.update]
               \/ ~line.update.final /\ UNCHANGED reader  \* it has no text
      /\ UNCHANGED <<gctx, caller, helper, stdin, events, watcher, forcer>>

\* The output ends, with an error when forceStop closed it under the scanner.
scanEnds ==
  /\ reader.pc = "scan"
  /\ \E failed \in BOOLEAN :
       /\ IF failed THEN stdout.cut ELSE stdout.lines = <<>> /\ helper.state # "up"
       /\ reader' = [reader EXCEPT !.pc = "reap", !.err = failed]
  /\ UNCHANGED <<gctx, caller, helper, stdin, stdout, stt, events, watcher, forcer>>

emitOrWait == \* without the case of a session that is stopping
  /\ reader.pc = "emit"
  /\ Len(events) < EventQueue /\ events' = Append(events, reader.update)
  /\ reader' = [reader EXCEPT !.pc = "scan"]
  /\ UNCHANGED <<gctx, caller, helper, stdin, stdout, stt, watcher, forcer>>

emit ==
  /\ reader.pc = "emit"
  /\ \/ /\ Len(events) < EventQueue /\ events' = Append(events, reader.update)
        /\ reader' = [reader EXCEPT !.pc = "scan"]
     \/ /\ stt.stop
        /\ reader' = [reader EXCEPT !.pc = "reap", !.err = TRUE]
        /\ UNCHANGED events
  /\ UNCHANGED <<gctx, caller, helper, stdin, stdout, stt, watcher, forcer>>

\* Whether the end was expected is decided before stopHelper makes it so.
reap ==
  /\ reader.pc = "reap"
  /\ reader' = [reader EXCEPT !.pc = "wait",
                              !.eof = ~reader.err /\ ~stt.sendClosed /\ ~stt.stopped]
  /\ stopHelper(stt)
  /\ UNCHANGED <<gctx, caller, helper, stdout, events, watcher>>

killTreeAndReapQuietly == \* without the exit status
  LET state == IF Alive THEN "killed" ELSE helper.state
      cause == stt.writeErr \/ reader.err \/ reader.eof
  IN  /\ reader.pc = "wait"
      /\ helper' = [helper EXCEPT !.state = state]
      /\ stt' = [stt EXCEPT !.terminal = cause /\ (stt.stopped => stt.writeErr)]
      /\ reader' = [reader EXCEPT !.pc = "close"]
      /\ UNCHANGED <<gctx, caller, stdin, stdout, events, watcher, forcer>>

\* What is not yet gone is killed and reaped.  That the session was stopped
\* explains every ending but that of a failed write.
killTreeAndReap ==
  LET state == IF Alive THEN "killed" ELSE helper.state
      cause == stt.writeErr \/ reader.err \/ reader.eof \/ state # "ok"
  IN  /\ reader.pc = "wait"
      /\ helper' = [helper EXCEPT !.state = state]
      /\ stt' = [stt EXCEPT !.terminal = cause /\ (stt.stopped => stt.writeErr)]
      /\ reader' = [reader EXCEPT !.pc = "close"]
      /\ UNCHANGED <<gctx, caller, stdin, stdout, events, watcher, forcer>>

\* read's deferred closes: first the events, then done.
closeEvents ==
  /\ reader.pc = "close"
  /\ IF stt.eventsClosed
       THEN /\ stt' = [stt EXCEPT !.done = TRUE]
            /\ reader' = [reader EXCEPT !.pc = "done"]
       ELSE /\ stt' = [stt EXCEPT !.eventsClosed = TRUE]
            /\ UNCHANGED reader
  /\ UNCHANGED <<gctx, caller, helper, stdin, stdout, events, watcher, forcer>>

-----------------------------------------------------------------------------
Reader == dispatch \/ scanEnds \/ emit \/ reap \/ killTreeAndReap \/ closeEvents

Next ==
  \/ HelperReads \/ HelperEnds
  \/ \E line \in Line : HelperPrints(line)
  \/ Open \/ waitReady \/ CloseCalled \/ CloseReturns
  \/ Push \/ Write \/ writeFailure \/ CloseSend
  \/ Receive \/ Cancel
  \/ watch \/ forceStop
  \/ Reader

Spec == Init /\ [][Next]_sttVars

\* Goroutines that can go on do.  The helper owes nothing, and neither does
\* the consumer: it may never receive.
Fairness ==
  /\ WF_sttVars(Reader)
  /\ WF_sttVars(watch)
  /\ WF_sttVars(forceStop)
  /\ WF_sttVars(CloseCalled /\ caller.open = "refusing")
  /\ WF_sttVars(CloseReturns)
  /\ WF_sttVars(Write)
  /\ WF_sttVars(writeFailure)

FairSpec == Spec /\ Fairness

-----------------------------------------------------------------------------
(* Properties.                                                             *)

\* A helper that ends by itself is clean only if it said everything: it exited
\* with success, nothing it printed was left unread, and its audio had ended.
CleanEndLosesNothing ==
  stt.eventsClosed /\ ~stt.terminal /\ ~stt.stopped =>
    helper.state = "ok" /\ stdout.lines = <<>> /\ caller.sent

\* A write that failed for no cancellation leaves a terminal error behind before
\* anyone can ask for it: the cause is recorded before the helper is stopped
\* (writeFailure), or the read pump had found one (reap).
FailedWriteIsTerminal ==
  caller.push \in {"failing", "stop", "await"} /\ stt.eventsClosed /\ ~gctx => stt.terminal

\* No process is left once done is closed, which is what Close and a failed Push
\* wait for (killTreeAndReap, read).
GoneWhenDone == stt.done => ~Alive

\* However the session ends, the end says the truth and leaves nothing.
EndIsTrue == TypeOK /\ CleanEndLosesNothing /\ FailedWriteIsTerminal /\ GoneWhenDone

\* Cancelling, giving up the opening or closing ends the session, whatever the
\* helper does and though nobody receives.
StoppedSessionEnds ==
  (helper.state # "none" /\ (gctx \/ caller.open = "refusing" \/ caller.close = "closing"))
    ~> stt.done

\* A call of Push returns once the context is cancelled, though the helper has
\* stopped reading its input (watch, forceStop, writeFailure).
CancelledPushReturns ==
  (gctx /\ caller.push \in {"write", "failing", "stop", "await"})
    ~> caller.push \in {"idle", "failed"}

\* Whoever stops the session, or waits in it when it is stopped, gets through.
SessionReturns == StoppedSessionEnds /\ CancelledPushReturns

\* The session as its callers see it implements the port of ports.go, over which
\* the lane is modelled: updates cover audio that was pushed, the terminal error
\* is known when Events closes, an end nobody caused is an error, and Push and
\* Open fail only when cancelled or when the session is gone.
Port == INSTANCE Transcription WITH
  tx <- [open |-> IF caller.open = "closing" THEN "refusing" ELSE caller.open,
         push |-> IF caller.push \in {"idle", "failed"} THEN caller.push ELSE "busy",
         pushed |-> stt.written, sent |-> caller.sent,
         ended |-> stt.eventsClosed, terminal |-> stt.eventsClosed /\ stt.terminal,
         done |-> stt.done, close |-> caller.close]

ImplementsPort == Port!TxSpec
=============================================================================
