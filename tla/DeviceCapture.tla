--------------------------- MODULE DeviceCapture ---------------------------
(***************************************************************************)
(* The capture of a local device that may refuse its first opens           *)
(* (ingest/stream/startup_retry.go): one caller of Next, which replaces an *)
(* attempt that failed before any media came, and a Close, a cancelled     *)
(* call or a cancelled lane in every one of its gaps.                      *)
(***************************************************************************)
EXTENDS Naturals, FiniteSets

CONSTANTS MaxRetries, MaxCalls

VARIABLES caller,  \* Next: where it is, the attempt it holds, its failure, what it returned
          capture, \* current, retries, delivered, closed, terminalErr of startupRetryFrames
          process, \* process[a]: the capture process behind attempt a
          ended,   \* the contexts that are done: "lane" (f.ctx), "call"
          closer   \* Close: where it is, the attempt it took
captureVars == <<caller, capture, process, ended, closer>>

Tries == 1 .. MaxRetries + 1
Failures == {"transient", "lasting"}

CaptureInit ==
    /\ caller = [pc |-> "idle", attempt |-> 0, failure |-> "none", calls |-> 0, got |-> "none"]
    /\ capture = [current |-> 1, retries |-> 0, delivered |-> FALSE, closed |-> FALSE, terminal |-> "none"]
    /\ process = [a \in Tries |-> IF a = 1 THEN "live" ELSE "unborn"]
    /\ ended = {}
    /\ closer = [pc |-> "idle", attempt |-> 0]

Opened == {a \in Tries : process[a] # "unborn"}
Live == {a \in Tries : process[a] \in {"live", "failed"}}

\* setTerminalLocked: the first terminal error stays, and is what is returned.
Terminal(err) == IF capture.terminal = "none" THEN err ELSE capture.terminal
Fail(err) == /\ capture' = [capture EXCEPT !.terminal = Terminal(err)]
             /\ caller' = [caller EXCEPT !.pc = "idle", !.attempt = 0, !.failure = "none", !.got = Terminal(err)]
Goto(pc) == caller' = [caller EXCEPT !.pc = pc]
\* contextError: the call's own error first, the lane's next.
ContextError(fallback) == IF ended = {} THEN fallback ELSE "cancelled"

\* activeAttempt.
Call ==
    /\ caller.pc = "idle" /\ caller.calls < MaxCalls
    /\ LET begun == [caller EXCEPT !.calls = @ + 1]
       IN  CASE capture.terminal # "none" -> caller' = [begun EXCEPT !.got = capture.terminal] /\ UNCHANGED capture
             [] capture.terminal = "none" /\ capture.closed ->
                  caller' = [begun EXCEPT !.got = "closed"] /\ UNCHANGED capture
             [] capture.terminal = "none" /\ ~capture.closed /\ capture.current = 0 ->
                  /\ caller' = [begun EXCEPT !.got = "no process"]
                  /\ capture' = [capture EXCEPT !.terminal = "no process"]
             [] OTHER ->
                  caller' = [begun EXCEPT !.pc = "read", !.attempt = capture.current] /\ UNCHANGED capture
    /\ UNCHANGED <<process, ended, closer>>

\* frames.Next gives media, and markDelivered disarms the retry for good.
Frame ==
    /\ caller.pc = "read" /\ process[caller.attempt] # "closed" /\ "call" \notin ended
    /\ caller' = [caller EXCEPT !.pc = "idle", !.attempt = 0, !.got = "frame"]
    /\ capture' = [capture EXCEPT !.delivered = TRUE]
    /\ UNCHANGED <<process, ended, closer>>

\* It fails: the process ended, no first frame came in time, which counts as a
\* transient failure, or something was closed or cancelled.
ReadFails(failure) ==
    /\ caller.pc = "read"
    /\ \/ process[caller.attempt] = "failed"
       \/ failure = "transient" /\ ~capture.delivered /\ "call" \notin ended
       \/ failure = "lasting" /\ (process[caller.attempt] = "closed" \/ ended # {})
    /\ caller' = [caller EXCEPT !.pc = "close", !.failure = failure]
    /\ UNCHANGED <<capture, process, ended, closer>>

\* attempt.close, which Close may be in the middle of as well, and clearAttempt.
CloseAttempt ==
    /\ caller.pc = "close"
    /\ process' = [process EXCEPT ![caller.attempt] = "closed"]
    /\ IF "call" \in ended
       THEN /\ capture' = [capture EXCEPT !.current = IF @ = caller.attempt THEN 0 ELSE @,
                                          !.terminal = Terminal("cancelled")]
            /\ caller' = [caller EXCEPT !.pc = "idle", !.attempt = 0, !.failure = "none", !.got = Terminal("cancelled")]
       ELSE /\ capture' = [capture EXCEPT !.current = IF @ = caller.attempt THEN 0 ELSE @]
            /\ Goto("reserve")
    /\ UNCHANGED <<ended, closer>>

\* reserveRetry.
Reserve ==
    /\ caller.pc = "reserve"
    /\ CASE capture.closed \/ "lane" \in ended -> Fail(IF "lane" \in ended THEN "cancelled" ELSE "closed")
         [] ~capture.closed /\ "lane" \notin ended
              /\ (capture.delivered \/ capture.retries >= MaxRetries \/ caller.failure # "transient") ->
              Fail(caller.failure)
         [] OTHER -> capture' = [capture EXCEPT !.retries = @ + 1] /\ Goto("wait")
    /\ UNCHANGED <<process, ended, closer>>

\* policy.wait: the delay, or one of the two contexts.
Wait ==
    /\ caller.pc = "wait"
    /\ \/ Goto("open") /\ UNCHANGED capture
       \/ ended # {} /\ Fail("cancelled")
    /\ UNCHANGED <<process, ended, closer>>

\* openRetryAttempt: the open fails, leaving a process or none, or it succeeds.
Open ==
    /\ caller.pc = "open"
    /\ LET a == Cardinality(Opened) + 1
       IN  \/ Fail(ContextError("open failed")) /\ UNCHANGED process
           \/ /\ process' = [process EXCEPT ![a] = "live"]
              /\ caller' = [caller EXCEPT !.pc = "publish", !.attempt = a] /\ UNCHANGED capture
    /\ UNCHANGED <<ended, closer>>

\* The attempt is published, unless something ended meanwhile: then it is closed here.
Abandoned == capture.closed \/ ended # {}
Give(abandon) ==
    IF abandon
    THEN process' = [process EXCEPT ![caller.attempt] = "closed"] /\ Fail(ContextError("closed"))
    ELSE /\ capture' = [capture EXCEPT !.current = caller.attempt]
         /\ caller' = [caller EXCEPT !.pc = "read", !.failure = "none"]
         /\ UNCHANGED process
Publish == caller.pc = "publish" /\ Give(Abandoned) /\ UNCHANGED <<ended, closer>>

\* retire: cancel, take the published attempt, close it.
Cancel ==
    /\ closer.pc = "idle"
    /\ closer' = [closer EXCEPT !.pc = "take"] /\ ended' = ended \cup {"lane"}
    /\ UNCHANGED <<caller, capture, process>>
Take ==
    /\ closer.pc = "take"
    /\ capture' = [capture EXCEPT !.closed = TRUE, !.current = 0]
    /\ closer' = [pc |-> IF capture.current = 0 THEN "done" ELSE "close", attempt |-> capture.current]
    /\ UNCHANGED <<caller, process, ended>>
CloseTaken ==
    /\ closer.pc = "close"
    /\ process' = [process EXCEPT ![closer.attempt] = "closed"]
    /\ closer' = [closer EXCEPT !.pc = "done"]
    /\ UNCHANGED <<caller, capture, ended>>

\* The call's context, or the lane's, is cancelled; a process ends by itself.
Interrupt == \E c \in {"lane", "call"} \ ended : ended' = ended \cup {c} /\ UNCHANGED <<caller, capture, process, closer>>
ProcessEnds ==
    /\ \E a \in Tries : process[a] = "live" /\ process' = [process EXCEPT ![a] = "failed"]
    /\ UNCHANGED <<caller, capture, ended, closer>>

Retrying == \/ CloseAttempt \/ Reserve \/ Wait \/ Open \/ Publish
Closing == Take \/ CloseTaken
CaptureNext == \/ Call \/ Frame \/ (\E f \in Failures : ReadFails(f)) \/ Retrying
               \/ Cancel \/ Closing \/ Interrupt \/ ProcessEnds
\* Go runs what can run, and a read whose process or context ended returns.
ReadReturns == /\ caller.pc = "read" /\ ("call" \in ended \/ process[caller.attempt] # "live" \/ ~capture.delivered)
               /\ (Frame \/ \E f \in Failures : ReadFails(f))
CaptureProgress == Retrying \/ Closing \/ ReadReturns
-----------------------------------------------------------------------------
CaptureTypeOK ==
    /\ caller.pc \in {"idle", "read", "close", "reserve", "wait", "open", "publish"}
    /\ caller.attempt \in {0} \cup Tries /\ capture.current \in {0} \cup Tries
    /\ capture.retries \in 0 .. MaxRetries
    /\ ended \subseteq {"lane", "call"} /\ closer.pc \in {"idle", "take", "close", "done"}

\* A device is captured by one process at a time, and by none once Close and the
\* Next it interrupts have returned, wherever in a retry the Close came.
OneCaptureAtATime ==
    /\ Cardinality(Live) <= 1
    /\ closer.pc = "done" /\ caller.pc = "idle" => Live = {}

\* A failure after media came is the lane's, never retried.
NoRetryAfterMedia == [][capture.delivered => Opened' = Opened /\ capture'.retries = capture.retries]_captureVars

\* What a closed or cancelled capture still has to do comes to an end.
CaptureEnded == \/ closer.pc = "done" /\ caller.pc = "idle"
                \/ closer.pc = "idle" /\ caller.pc \in {"idle", "read"}
=============================================================================
