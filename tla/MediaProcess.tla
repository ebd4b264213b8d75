---------------------------- MODULE MediaProcess ----------------------------
(***************************************************************************)
(* One ffmpeg child at each end of a lane.  A capture writes PCM into its  *)
(* stdout: frames.Next of ingest/stream reads quanta of it, while the      *)
(* lane's cancellation and its owner close it (ffmpeg/process.go reaps it  *)
(* once and says whether its end is its own).  An encoder reads its stdin: *)
(* closing the sink seals it and waits, within a bound (ffmpeg/mux.go).    *)
(***************************************************************************)
EXTENDS Naturals

CONSTANTS MaxBytes, \* the child writes at most this much
          Quantum   \* bytes of one frame: a whole number of two-byte samples

VARIABLES child,     \* what it wrote, how it ended
          pipe,      \* bytes taken out of stdout; p.drained; whether Wait has closed it
          frames,    \* frames.Next: where it is, the bytes of its quantum, pendingErr, samples so far
          reap,      \* closeOnce and reapOnce: where it is, whether the stop was ours, its result
          cancelled, \* the lane's context
          owner,     \* a Close by the owner of the frames
          encoder    \* a sink: its Close, the child, and bytes the child has not encoded
mediaVars == <<child, pipe, frames, reap, cancelled, owner, encoder>>
encoderless == <<child, pipe, frames, reap, owner>>

MediaInit ==
    /\ child = [sent |-> 0, exit |-> "none"]
    /\ pipe = [taken |-> 0, drained |-> FALSE, closed |-> FALSE]
    /\ frames = [pc |-> "idle", n |-> 0, err |-> "none", pending |-> "none", samples |-> 0, got |-> "none"]
    /\ reap = [pc |-> "open", ours |-> FALSE, result |-> "none"]
    /\ cancelled = FALSE
    /\ owner = "idle"
    /\ encoder = [close |-> "open", child |-> "run", left |-> 0]

\* What the child does: it writes, ends by itself, well or not, or leaves a
\* descendant on its pipes; a cancelled context kills it.
ChildWrites == /\ child.exit = "none" /\ child.sent < MaxBytes
               /\ child' = [child EXCEPT !.sent = @ + 1]
               /\ UNCHANGED <<pipe, frames, reap, cancelled, owner, encoder>>
ChildExits == /\ child.exit = "none"
              /\ \E e \in {"ok", "lingering", "failed"} : child' = [child EXCEPT !.exit = e]
              /\ UNCHANGED <<pipe, frames, reap, cancelled, owner, encoder>>
ContextKills == /\ child.exit = "none" /\ cancelled
                /\ child' = [child EXCEPT !.exit = "killed"]
                /\ UNCHANGED <<pipe, frames, reap, cancelled, owner, encoder>>

-----------------------------------------------------------------------------
\* release and stopFirst, whoever comes first; the others wait for its result.
\* The kill of a child that has ended and is not yet reaped succeeds as well.
Closing == reap' = [reap EXCEPT !.pc = IF @ = "open" THEN "kill" ELSE @]
\* A Kill of a child that has ended, taken for a stop of ours.
KillDrained == /\ reap.pc = "kill"
               /\ reap' = [reap EXCEPT !.pc = "wait", !.ours = TRUE]
               /\ child' = [child EXCEPT !.exit = IF @ = "none" THEN "killed" ELSE @]
               /\ UNCHANGED <<pipe, frames, cancelled, owner, encoder>>

Kill == /\ reap.pc = "kill"
        /\ reap' = [reap EXCEPT !.pc = "wait", !.ours = ~pipe.drained]
        /\ child' = [child EXCEPT !.exit = IF @ = "none" /\ ~pipe.drained THEN "killed" ELSE @]
        /\ UNCHANGED <<pipe, frames, cancelled, owner, encoder>>

\* classifyExit: a stop of ours is no failure.
Exit == IF child.exit = "ok" \/ reap.ours \/ cancelled \/ child.exit = "lingering" THEN "nil" ELSE "failed"
Wait == /\ reap.pc = "wait" /\ child.exit # "none"
        /\ reap' = [reap EXCEPT !.pc = "done", !.result = Exit]
        /\ pipe' = [pipe EXCEPT !.closed = TRUE]
        /\ UNCHANGED <<child, frames, cancelled, owner, encoder>>

\* context.AfterFunc runs closeForCancel; the owner may Close at any time.
CancelCloses == /\ cancelled /\ reap.pc = "open" /\ frames.pc = "fill"
                /\ Closing /\ UNCHANGED <<child, pipe, frames, cancelled, owner, encoder>>
OwnerCloses == /\ owner = "idle" /\ owner' = "closing" /\ Closing
               /\ UNCHANGED <<child, pipe, frames, cancelled, encoder>>
OwnerReturns == /\ owner = "closing" /\ reap.pc = "done" /\ owner' = "done"
                /\ UNCHANGED <<child, pipe, frames, reap, cancelled, encoder>>
CancelLane == ~cancelled /\ cancelled' = TRUE /\ UNCHANGED <<child, pipe, frames, reap, owner, encoder>>

-----------------------------------------------------------------------------
\* Next: the end already known, the error put off, a context done, a Close.
NextBegins ==
    /\ frames.pc = "idle"
    /\ CASE frames.pending # "none" ->
              /\ frames' = [frames EXCEPT !.pc = "finish", !.err = frames.pending, !.pending = "none"] /\ Closing
         [] frames.pending = "none" /\ cancelled ->
              frames' = [frames EXCEPT !.pc = "finish", !.err = "context"] /\ Closing
         [] frames.pending = "none" /\ ~cancelled /\ reap.pc # "open" ->
              frames' = [frames EXCEPT !.pc = "finish", !.err = "closed"] /\ UNCHANGED reap
         [] OTHER -> frames' = [frames EXCEPT !.pc = "fill", !.n = 0, !.err = "none"] /\ UNCHANGED reap
    /\ UNCHANGED <<child, pipe, cancelled, owner, encoder>>

\* io.ReadFull, byte by byte: the quantum is full, the child's end is reached,
\* which Read notes, or the pipe was closed.
Available == child.sent - pipe.taken
ReadByte ==
    /\ frames.pc = "fill" /\ frames.n < Quantum /\ Available > 0 /\ ~pipe.closed
    /\ frames' = [frames EXCEPT !.n = @ + 1] /\ pipe' = [pipe EXCEPT !.taken = @ + 1]
    /\ UNCHANGED <<child, reap, cancelled, owner, encoder>>
ReadEnds ==
    /\ frames.pc = "fill"
    /\ CASE frames.n = Quantum -> frames' = [frames EXCEPT !.pc = "settle"] /\ UNCHANGED pipe
         [] frames.n < Quantum /\ pipe.closed -> frames' = [frames EXCEPT !.pc = "settle", !.err = "read"] /\ UNCHANGED pipe
         [] OTHER -> /\ Available = 0 /\ child.exit # "none"
                     /\ frames' = [frames EXCEPT !.pc = "settle", !.err = "eof"]
                     /\ pipe' = [pipe EXCEPT !.drained = TRUE]
    /\ UNCHANGED <<child, reap, cancelled, owner, encoder>>

\* deferReadError: whole samples are delivered before the error behind them.
Settled ==
    IF frames.n % 2 # 0 THEN IF frames.err \in {"none", "eof"} THEN "truncated" ELSE "read" ELSE frames.err
Delivered ==
    IF frames.n < 2 THEN [frames EXCEPT !.pc = "finish", !.err = Settled, !.n = 0]
    ELSE [frames EXCEPT !.pc = "idle", !.pending = Settled, !.err = "none", !.n = 0, !.samples = @ + frames.n \div 2]
NextSettles ==
    /\ frames.pc = "settle"
    /\ IF cancelled THEN frames' = [frames EXCEPT !.pc = "finish", !.err = "context"] /\ Closing
       ELSE /\ frames' = Delivered
            /\ IF frames'.pc = "finish" THEN Closing ELSE UNCHANGED reap
    /\ UNCHANGED <<child, pipe, cancelled, owner, encoder>>

\* finish and end, once the child is reaped.
Ended == CASE frames.err = "closed" -> "closed"
           [] cancelled -> "context"
           [] frames.err \in {"read", "truncated", "context"} -> frames.err
           [] reap.result = "failed" -> "failed"
           [] OTHER -> "eof"
NextFinishes ==
    /\ frames.pc = "finish" /\ reap.pc = "done"
    /\ frames' = [frames EXCEPT !.pc = "done", !.got = Ended]
    /\ UNCHANGED <<child, pipe, reap, cancelled, owner, encoder>>

-----------------------------------------------------------------------------
\* A sink is written, then sealed; its child encodes what it was given and ends,
\* or fails, or hangs until sinkDrainTimeout kills it.
SinkWrites == /\ encoder.close = "open" /\ encoder.left < Quantum
              /\ encoder' = [encoder EXCEPT !.left = @ + 1] /\ UNCHANGED <<encoderless, cancelled>>
SinkSeals == /\ encoder.close = "open" /\ encoder' = [encoder EXCEPT !.close = "sealed"]
             /\ UNCHANGED <<encoderless, cancelled>>
ChildEncodes == /\ encoder.child = "run" /\ encoder.left > 0
                /\ encoder' = [encoder EXCEPT !.left = @ - 1] /\ UNCHANGED <<encoderless, cancelled>>
EncoderEnds == /\ encoder.child = "run"
               /\ \/ encoder.close # "open" /\ encoder.left = 0 /\ encoder' = [encoder EXCEPT !.child = "ok"]
                  \/ encoder' = [encoder EXCEPT !.child = "failed"]
                  \/ encoder.close = "open" /\ encoder' = [encoder EXCEPT !.child = "hung"]
                  \/ cancelled /\ encoder' = [encoder EXCEPT !.child = "killed"]
               /\ UNCHANGED <<encoderless, cancelled>>
DrainTimeout == /\ encoder.close = "sealed" /\ encoder.child \in {"run", "hung"}
                /\ encoder' = [encoder EXCEPT !.child = "killed", !.close = "late"]
                /\ UNCHANGED <<encoderless, cancelled>>
SinkReaps == /\ encoder.close \in {"sealed", "late"} /\ encoder.child \notin {"run", "hung"}
             /\ encoder' = [encoder EXCEPT !.close = IF @ = "late" THEN "gave up" ELSE "closed"]
             /\ UNCHANGED <<encoderless, cancelled>>

CaptureStep == \/ ChildWrites \/ ChildExits \/ ContextKills
               \/ Kill \/ Wait \/ CancelCloses \/ OwnerCloses \/ OwnerReturns
               \/ NextBegins \/ ReadByte \/ ReadEnds \/ NextSettles \/ NextFinishes
SinkStep == SinkWrites \/ SinkSeals \/ ChildEncodes \/ EncoderEnds \/ DrainTimeout \/ SinkReaps
\* The two kinds of child share only the lane's context.
PcmNext == CaptureStep \/ CancelLane
SinkNext == SinkStep \/ CancelLane
PcmProgress == \/ ContextKills \/ Kill \/ Wait \/ CancelCloses \/ OwnerReturns
               \/ ReadByte \/ ReadEnds \/ NextSettles \/ NextFinishes
SinkProgress == DrainTimeout \/ SinkReaps
-----------------------------------------------------------------------------
MediaTypeOK ==
    /\ child.sent \in 0 .. MaxBytes /\ pipe.taken \in 0 .. child.sent
    /\ frames.n \in 0 .. Quantum /\ frames.samples \in 0 .. MaxBytes \div 2
    /\ child.exit \in {"none", "ok", "lingering", "failed", "killed"}

\* Next ends with EOF only where the child ended by itself, not badly, and every
\* sample it wrote was delivered: a stop, a failure and a cut sample are told
\* apart from the end of the media.
EOFIsTheSources ==
    frames.got = "eof" /\ owner = "idle" =>
        child.exit \in {"ok", "lingering"} /\ 2 * frames.samples = child.sent

\* What the lane, or the owner, did to the child is never reported as its failure.
StopIsNotAFailure == reap.result = "failed" => child.exit = "failed" /\ ~reap.ours

\* A cancelled or closed capture ends, and a sealed sink, whatever its child does.
PcmEnded == (cancelled => frames.pc \in {"idle", "done"}) /\ owner # "closing"
SinkEnded == encoder.close \notin {"sealed", "late"}
=============================================================================
