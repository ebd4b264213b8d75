------------------------------ MODULE SttHelper ------------------------------
(***************************************************************************)
(* The speech-to-text helper process (speechengine/stt.go): one goroutine  *)
(* reads the microphone's samples and cuts them into segments, one worker  *)
(* decodes the segments and writes the transcripts.  A read is cut into    *)
(* endpointing chunks, each voiced or not by its own loudness: whole       *)
(* frames and, where the read ends inside one, a shorter chunk, for no     *)
(* frame spans two reads.  Every length is in the same unit of samples.    *)
(*                                                                         *)
(* Before it listens, the helper starts whisper-server and comes to trust  *)
(* it (speechengine/whisper.go): a port is reserved and given up before    *)
(* the server binds it, so that another process may take it; a start that  *)
(* is lost is retired and tried again within one budget of time.           *)
(***************************************************************************)
EXTENDS Naturals, Sequences, SequencesExt

CONSTANTS MinSpeech, SilenceHang, MaxWindow, \* STTTuning
          PreRoll,                           \* sttPreRoll
          FrameSize,                         \* the 20 ms frame of push
          MaxSound,                          \* bound: sound heard
          MaxBadDecodes                      \* bound: decodes that do not succeed
CONSTANTS Ports,
          Attempts, \* whisperStartAttempts
          Budget    \* whisperReadyTimeout, in polls

VARIABLES sound,  \* the chunks read so far: [n: length, voiced]
          ear,    \* energyEndpointer: sound kept, its runs, what it cut
          reader, \* streamSTT: where it is, the segments to submit, the read's end
          stdin,  \* "open" | "ended", by the daemon | "closed", by the worker
          worker, \* sttInferenceWorker
          out,    \* the transcripts written
          whisper \* whether whisper-server had an inference cancelled under it
VARIABLES starter, \* startReadyWhisperServer: where it is, its attempt and port
          clock,   \* polls left in the budget
          server,  \* server[a]: the process of attempt a
          bound    \* bound[p]: who holds port p: 0 nobody, a the server of attempt a
sttVars == <<sound, ear, reader, stdin, worker, out, whisper>>
startVars == <<starter, clock, server, bound>>

NoSegment == [from |-> 0, end |-> 0]
Deaf == [total |-> 0, buf |-> 0, voiced |-> 0, silence |-> 0, saw |-> FALSE, cut |-> <<>>]

SttInit ==
    /\ sound = <<>> /\ ear = Deaf /\ stdin = "open"
    /\ reader = [pc |-> "read", end |-> "none", exit |-> "none"]
    /\ worker = [pc |-> "take", finals |-> <<>>, live |-> NoSegment, hasLive |-> FALSE, closed |-> FALSE,
                 segment |-> NoSegment, lastFinal |-> 0, err |-> FALSE]
    /\ out = <<>> /\ whisper = [cancelled |-> FALSE, bad |-> 0]

-----------------------------------------------------------------------------
(* The endpointer, a fold over the chunks of one read *)

Chunk == [n : 1 .. FrameSize, voiced : BOOLEAN]
\* What one read may be cut into: every chunk but the last is a frame.
Reads == {<<c>> : c \in Chunk} \union {<<c, d>> : c \in {f \in Chunk : f.n = FrameSize}, d \in Chunk}
Length(chunks) == FoldLeft(LAMBDA n, chunk : n + chunk.n, 0, chunks)

Buffered(e) == [from |-> e.total - e.buf, end |-> e.total]
Reset(e) == [e EXCEPT !.buf = 0, !.voiced = 0, !.silence = 0, !.saw = FALSE]
Enough(e) == e.saw /\ e.voiced >= MinSpeech
TakeSegment(e) == [Reset(e) EXCEPT !.cut = Append(@, Buffered(e))]

\* Before the first voiced chunk only the pre-roll is kept.
AppendChunk(e, chunk) ==
    LET saw == e.saw \/ chunk.voiced IN
    [e EXCEPT !.total = @ + chunk.n, !.saw = saw,
              !.buf = IF saw \/ @ + chunk.n <= PreRoll THEN @ + chunk.n ELSE PreRoll,
              !.voiced = IF chunk.voiced THEN @ + chunk.n ELSE @,
              !.silence = IF chunk.voiced THEN 0 ELSE @ + chunk.n]

CutReady(e) ==
    IF ~(Enough(e) /\ e.silence >= SilenceHang) /\ e.buf < MaxWindow THEN e
    ELSE IF Enough(e) THEN TakeSegment(e) ELSE Reset(e)

Push(e, chunks) == FoldLeft(LAMBDA a, chunk : CutReady(AppendChunk(a, chunk)), e, chunks)
Flush(e) == IF Enough(e) THEN TakeSegment(e) ELSE Reset(e)

-----------------------------------------------------------------------------
(* streamSTT: read, submit what was cut, publish the live window *)

\* One read of whatever is said.
Read(chunks) ==
    /\ reader.pc = "read" /\ stdin = "open" /\ ear.total + Length(chunks) <= MaxSound
    /\ sound' = sound \o chunks
    /\ ear' = Push(ear, chunks)
    /\ reader' = [reader EXCEPT !.pc = "submit"]
    /\ UNCHANGED <<stdin, worker, out, whisper>>

\* The daemon closes the pipe, or the microphone fails.
EndInput == /\ stdin = "open" /\ stdin' = "ended"
            /\ UNCHANGED <<sound, ear, reader, worker, out, whisper>>

\* The read that fails brings no sound: what is buffered is published again,
\* then the rest flushed, unless the stream ends in the middle of a sample.
ReadEnds(end) ==
    /\ reader.pc = "read" /\ stdin # "open"
    /\ stdin = "closed" => end # "eof"
    /\ reader' = [reader EXCEPT !.pc = "submit", !.end = end]
    /\ UNCHANGED <<sound, ear, stdin, worker, out, whisper>>

\* submit, up to the append: refused when the worker has died.
Submit ==
    /\ reader.pc = "submit" /\ ear.cut # <<>>
    /\ IF worker.pc = "done"
         THEN reader' = [reader EXCEPT !.pc = "close", !.exit = "failed"] /\ UNCHANGED worker
         ELSE reader' = [reader EXCEPT !.pc = "append"] /\ UNCHANGED worker
    /\ UNCHANGED <<sound, ear, stdin, out, whisper>>
AppendFinal ==
    /\ reader.pc = "append"
    /\ worker' = [worker EXCEPT !.finals = Append(@, Head(ear.cut))]
    /\ ear' = [ear EXCEPT !.cut = Tail(@)]
    /\ reader' = [reader EXCEPT !.pc = "appended"]
    /\ UNCHANGED <<sound, stdin, out, whisper>>
Recheck ==
    /\ reader.pc = "appended"
    /\ reader' = IF worker.pc = "done" THEN [reader EXCEPT !.pc = "close", !.exit = "failed"]
                 ELSE IF reader.end = "flushed" THEN [reader EXCEPT !.pc = "close", !.exit = "ok"]
                 ELSE [reader EXCEPT !.pc = "submit"]
    /\ UNCHANGED <<sound, ear, stdin, worker, out, whisper>>

PublishLive ==
    /\ reader.pc = "submit" /\ ear.cut = <<>>
    /\ worker' = IF ear.saw THEN [worker EXCEPT !.live = Buffered(ear), !.hasLive = TRUE] ELSE worker
    /\ reader' = [reader EXCEPT !.pc = IF reader.end = "none" THEN "read" ELSE "finish"]
    /\ UNCHANGED <<sound, ear, stdin, out, whisper>>

\* A read that failed otherwise than at the end flushes too, and then fails.
FinishSTT ==
    /\ reader.pc = "finish"
    /\ IF reader.end = "truncated"
         THEN reader' = [reader EXCEPT !.pc = "close", !.exit = "failed"] /\ UNCHANGED ear
         ELSE /\ ear' = Flush(ear)
              /\ LET ended == [reader EXCEPT !.end = IF reader.end = "eof" THEN "flushed" ELSE "broken"] IN
                 reader' = IF Flush(ear).cut # <<>> THEN [ended EXCEPT !.pc = "flush"]
                           ELSE [ended EXCEPT !.pc = "close",
                                              !.exit = IF reader.end = "eof" THEN "ok" ELSE "failed"]
    /\ UNCHANGED <<sound, stdin, worker, out, whisper>>
SubmitFlushed ==
    /\ reader.pc = "flush"
    /\ IF worker.pc = "done"
         THEN reader' = [reader EXCEPT !.pc = "close", !.exit = "failed"] /\ UNCHANGED <<worker, ear>>
         ELSE /\ worker' = [worker EXCEPT !.finals = Append(@, Head(ear.cut))]
              /\ ear' = [ear EXCEPT !.cut = Tail(@)]
              /\ reader' = IF reader.end = "flushed" THEN [reader EXCEPT !.pc = "appended"]
                           ELSE [reader EXCEPT !.pc = "close", !.exit = "failed"]
    /\ UNCHANGED <<sound, stdin, out, whisper>>

CloseWorker ==
    /\ reader.pc = "close"
    /\ worker' = [worker EXCEPT !.closed = TRUE] /\ reader' = [reader EXCEPT !.pc = "closing"]
    /\ UNCHANGED <<sound, ear, stdin, out, whisper>>
\* The worker's own error is joined to the reader's.
Exit ==
    /\ reader.pc = "closing" /\ worker.pc = "done"
    /\ reader' = [reader EXCEPT !.pc = "done", !.exit = IF worker.err THEN "failed" ELSE @]
    /\ UNCHANGED <<sound, ear, stdin, worker, out, whisper>>

-----------------------------------------------------------------------------
(* The worker: finals first, then the newest window *)

\* A Take that would prefer the newest window.
TakeLiveFirst ==
    /\ worker.pc = "take"
    /\ worker' =
         IF worker.hasLive /\ ~worker.closed
           THEN [worker EXCEPT !.pc = "partial", !.segment = worker.live, !.hasLive = FALSE]
         ELSE IF worker.finals # <<>>
           THEN [worker EXCEPT !.pc = "final", !.segment = Head(worker.finals), !.finals = Tail(@)]
         ELSE [worker EXCEPT !.pc = IF worker.closed THEN "done" ELSE @]
    /\ UNCHANGED <<sound, ear, reader, stdin, out, whisper>>

\* A window no later than the last final is dropped, and any window once closed.
Take ==
    /\ worker.pc = "take"
    /\ \/ /\ worker.finals # <<>>
          /\ worker' = [worker EXCEPT !.pc = "final", !.segment = Head(worker.finals), !.finals = Tail(@)]
       \/ /\ worker.finals = <<>> /\ worker.closed
          /\ worker' = [worker EXCEPT !.pc = "done"]
       \/ /\ worker.finals = <<>> /\ ~worker.closed /\ worker.hasLive
          /\ worker' = [worker EXCEPT !.pc = IF worker.live.end > worker.lastFinal THEN "partial" ELSE @,
                                      !.segment = worker.live, !.hasLive = FALSE]
    /\ UNCHANGED <<sound, ear, reader, stdin, out, whisper>>

\* What one inference comes to: text, possibly none; an unsafe text; an error;
\* or the timeout, which drops the connection in the middle of the inference.
Decode(outcome) ==
    /\ worker.pc \in {"final", "partial"}
    /\ outcome # "text" => whisper.bad < MaxBadDecodes
    /\ whisper' = [cancelled |-> whisper.cancelled \/ outcome = "timeout",
                   bad |-> IF outcome = "text" THEN whisper.bad ELSE whisper.bad + 1]
Transcript(final) == Append(out, [final |-> final, end |-> worker.segment.end, from |-> worker.segment.from])

\* An unsafe final keeps its endpoint and loses its text.
Transcribe(outcome) ==
    /\ worker.pc = "final" /\ Decode(outcome)
    /\ IF outcome \in {"text", "unsafe"}
         THEN /\ out' = Transcript(TRUE)
              /\ worker' = [worker EXCEPT !.pc = "take", !.lastFinal = worker.segment.end]
         ELSE out' = out /\ worker' = [worker EXCEPT !.pc = "failed", !.err = TRUE]
    /\ UNCHANGED <<sound, ear, reader, stdin>>
\* An unsafe or failed partial is only a revision less.
Partial(outcome) ==
    /\ worker.pc = "partial" /\ Decode(outcome)
    /\ out' = IF outcome = "text" THEN Transcript(FALSE) ELSE out
    /\ worker' = [worker EXCEPT !.pc = "take"]
    /\ UNCHANGED <<sound, ear, reader, stdin>>
\* A Fail that would not close the input the reader waits on.
FailQuietly ==
    /\ worker.pc = "failed"
    /\ worker' = [worker EXCEPT !.pc = "done"]
    /\ UNCHANGED <<sound, ear, reader, stdin, out, whisper>>

\* fail closes the input under the reader, and then the worker is done.
Fail ==
    /\ worker.pc = "failed"
    /\ stdin' = "closed" /\ worker' = [worker EXCEPT !.pc = "done"]
    /\ UNCHANGED <<sound, ear, reader, out, whisper>>

-----------------------------------------------------------------------------
Outcomes == {"text", "unsafe", "error", "timeout"}
ReaderStep == \/ \E end \in {"eof", "truncated", "broken"} : ReadEnds(end)
              \/ Submit \/ AppendFinal \/ Recheck \/ PublishLive \/ FinishSTT \/ SubmitFlushed
              \/ CloseWorker \/ Exit
WorkerStep == Take \/ Fail \/ \E outcome \in Outcomes : Transcribe(outcome) \/ Partial(outcome)
SttNext ==
    \/ \E chunks \in Reads : Read(chunks)
    \/ EndInput \/ ReaderStep \/ WorkerStep

\* Both goroutines run; an inference ends, by its timeout if not otherwise.
SttProgress == ReaderStep \/ WorkerStep

-----------------------------------------------------------------------------
(* whisper-server: the start, its retries and the one budget they share *)

Stranger == Attempts + 1
Children == 1 .. Attempts

StartInit ==
    /\ starter = [pc |-> "start", attempt |-> 1, port |-> CHOOSE p \in Ports : TRUE]
    /\ clock = Budget
    /\ server = [a \in Children |-> "unborn"]
    /\ bound = [p \in Ports |-> 0]

Mine == server[starter.attempt]
Goto(pc) == starter' = [starter EXCEPT !.pc = pc]
\* The attempt is over; nothing is left of it.
NextAttempt == starter' = [starter EXCEPT !.pc = IF starter.attempt < Attempts THEN "start" ELSE "failed",
                                          !.attempt = IF @ < Attempts THEN @ + 1 ELSE @]

\* freeLoopbackPort: any port nobody holds, and nobody holds it afterwards either.
Reserve(p) ==
    /\ starter.pc = "start" /\ clock > 0 /\ bound[p] = 0
    /\ starter' = [starter EXCEPT !.pc = "spawn", !.port = p]
    /\ UNCHANGED <<clock, server, bound>>
ReserveFails == starter.pc = "start" /\ clock > 0 /\ NextAttempt /\ UNCHANGED <<clock, server, bound>>
OutOfTime == starter.pc = "start" /\ clock = 0 /\ Goto("failed") /\ UNCHANGED <<clock, server, bound>>

Spawn ==
    /\ starter.pc = "spawn"
    /\ \/ server' = [server EXCEPT ![starter.attempt] = "loading"] /\ Goto("poll")
       \/ NextAttempt /\ UNCHANGED server
    /\ UNCHANGED <<clock, bound>>

\* waitReady: the process is looked at, then its port is asked, and where the
\* answer is that the server is ready the process is looked at again.
Poll ==
    /\ starter.pc = "poll"
    /\ Goto(IF Mine = "reaped" THEN "retire" ELSE "probe") /\ UNCHANGED <<clock, server, bound>>

\* What the port answers, if anything: whoever holds it may hang, or drop the
\* connection.  An answer of another process lacks the server's header or the
\* request path made for this one, and is refused, as a redirect is.
Health == {"none"} \union
          CASE bound[starter.port] = 0 -> {}
            [] bound[starter.port] = starter.attempt -> {IF Mine = "serving" THEN "ok" ELSE "loading"}
            [] OTHER -> {"refused"}
\* Without an answer the server counts as not bound yet.
Probe ==
    /\ starter.pc = "probe"
    /\ \E health \in Health :
         Goto(CASE health = "ok" -> "check" [] health = "refused" -> "retire" [] OTHER -> "pause")
    /\ UNCHANGED <<clock, server, bound>>
Check ==
    /\ starter.pc = "check"
    /\ Goto(IF Mine = "reaped" THEN "retire" ELSE "ready") /\ UNCHANGED <<clock, server, bound>>

\* waitForWhisperPoll: a tick, the exit of the process, or the end of the budget.
Pause ==
    /\ starter.pc = "pause"
    /\ \/ clock > 0 /\ clock' = clock - 1 /\ Goto("poll")
       \/ Mine = "reaped" /\ Goto("retire") /\ UNCHANGED clock
       \/ clock = 0 /\ Goto("retire") /\ UNCHANGED clock
    /\ UNCHANGED <<server, bound>>

Freed(a) == [p \in Ports |-> IF bound[p] = a THEN 0 ELSE bound[p]]
\* retire kills the process and waits for its reap, however it ended.
Retire ==
    /\ starter.pc = "retire"
    /\ server' = [server EXCEPT ![starter.attempt] = "reaped"]
    /\ bound' = Freed(starter.attempt) /\ NextAttempt /\ UNCHANGED clock

-----------------------------------------------------------------------------
(* The server process, and whoever else takes a loopback port *)

Bind(a) == /\ server[a] = "loading" /\ starter.attempt = a /\ bound[starter.port] = 0
           /\ bound' = [bound EXCEPT ![starter.port] = a]
           /\ UNCHANGED <<starter, clock, server>>
ModelLoaded(a) == /\ server[a] = "loading" /\ \E p \in Ports : bound[p] = a
                  /\ server' = [server EXCEPT ![a] = "serving"]
                  /\ UNCHANGED <<starter, clock, bound>>
\* It dies, of a port it cannot bind or of anything else.
ServerDies(a) == /\ server[a] \in {"loading", "serving"}
                 /\ server' = [server EXCEPT ![a] = "reaped"] /\ bound' = Freed(a)
                 /\ UNCHANGED <<starter, clock>>
TakePort(p) == /\ bound[p] = 0 /\ bound' = [bound EXCEPT ![p] = Stranger]
               /\ UNCHANGED <<starter, clock, server>>

StarterStep == \/ \E p \in Ports : Reserve(p)
               \/ ReserveFails \/ OutOfTime \/ Spawn \/ Poll \/ Probe \/ Check \/ Pause \/ Retire
StartNext == \/ StarterStep
             \/ \E a \in Children : Bind(a) \/ ModelLoaded(a) \/ ServerDies(a)
             \/ \E p \in Ports : TakePort(p)
-----------------------------------------------------------------------------
Finals == SelectSeq(out, LAMBDA t : t.final)

SttTypeOK ==
    /\ Length(sound) = ear.total /\ ear.buf <= ear.total /\ ear.buf < MaxWindow /\ ear.voiced <= ear.buf
    /\ worker.hasLive => worker.live.end <= ear.total
    /\ reader.exit \in {"none", "ok", "failed"} /\ reader.pc = "done" => reader.exit # "none"

\* The boundaries a lane reads never go back: nothing transcribed after a final
\* ends at or before it, though windows and finals are decoded late.
BoundariesAreOrdered ==
    \A i, j \in DOMAIN out : i < j =>
        /\ out[i].end <= out[j].end
        /\ out[i].final => out[i].end < out[j].end

\* A helper that ends cleanly has transcribed the utterances exactly: one final
\* for each that the chunks of all its reads hold, though the worker was behind
\* and the rest was flushed at the end, and no stretch of voiced chunks that fills
\* two endpointing windows' minimum is in none.
CleanEndIsComplete ==
    reader.pc = "done" /\ reader.exit = "ok" =>
        LET said == Flush(Push(Deaf, sound)).cut IN
        /\ [i \in DOMAIN Finals |-> [from |-> Finals[i].from, end |-> Finals[i].end]] = said
        /\ \A i \in DOMAIN said : i > 1 => said[i - 1].end <= said[i].from
        /\ \A j, k \in DOMAIN sound :
             LET before == Length(SubSeq(sound, 1, j - 1)) after == Length(SubSeq(sound, 1, k)) IN
             after - before >= 2 * MinSpeech - 1 /\ (\A c \in j .. k : sound[c].voiced) =>
                 \E i \in DOMAIN said : said[i].from < after /\ before < said[i].end

\* The only reason for the process to stay: sound may come and be transcribed.
\* A worker that failed is none, though the microphone is held open.
Listening == stdin = "open" /\ ~worker.err

\* stt.go: "Nothing here cancels a decode already sent to whisper-server:
\* disconnecting whisper.cpp mid-inference poisons its next decode."
NoDecodeAfterACancelledOne == worker.pc \in {"final", "partial"} => ~whisper.cancelled

\* The server handed to the transcriber is the one this helper started: its port
\* is no stranger's, whoever raced for it, and of every other start nothing is
\* left running.
TrustedServerIsOurs ==
    /\ starter.pc \in {"check", "ready"} =>
         Mine = "reaped" \/ (Mine = "serving" /\ bound[starter.port] = starter.attempt)
    /\ \A a \in Children : a # starter.attempt \/ starter.pc \in {"start", "failed"} => server[a] \in {"unborn", "reaped"}
=============================================================================
