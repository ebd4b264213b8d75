----------------------------- MODULE StreamLane -----------------------------
(***************************************************************************)
(* The streaming lane (internal/core/realtime/lane.go, speak.go) over a    *)
(* Transcription: Lane.Run and the goroutines of its group.                *)
(* The pump feeds the transcription, the consumer commits segments and     *)
(* fans them out to a bounded queue per target, and each target is served  *)
(* by a translate stage and, where it is dubbed, by a voice stage that     *)
(* takes its jobs from a second bounded queue.                             *)
(*                                                                         *)
(* A segment is its index in `committed', where its span is kept; time is  *)
(* counted in frames.  How many clauses an update commits is decided       *)
(* by the committer, of which only this is kept: a final leaves nothing    *)
(* uncommitted.  Translator, Synthesizer and the source are outside: they  *)
(* answer or fail.                                                         *)
(***************************************************************************)
EXTENDS Transcription, FiniteSets

CONSTANTS
  Target,      \* the languages of Output.Sinks
  Voiced,      \* those with a track in Output.Dub
  TargetQueue, \* targetQueue (4 in the code)
  MaxClauses,  \* model bound: clauses one update commits
  MaxSegments  \* model bound: segments ever committed

ASSUME LaneAssumption ==
  /\ IsFiniteSet(Target) /\ Voiced \subseteq Target
  /\ TargetQueue \in Nat \ {0}
  /\ MaxClauses \in Nat \ {0}
  /\ MaxSegments \in Nat /\ MaxFrames \in Nat /\ EventQueue \in Nat

VARIABLES
  told,      \* the caller of Run cancelled its context
  main,      \* where Run itself is
  result,    \* how the group of Run ended: none, ok, err
  groupErr,  \* a goroutine of the group has returned an error
  source,    \* frames delivered, closed
  pump,      \* where pump is
  clock,     \* sourceClock: the PTS of the latest frame
  consumer,  \* consume: where it is, the cursor, the spans and targets left
  committed, \* the spans of the segments fanned out so far
  in,        \* target -> its channel: queue, closed
  stage,     \* target -> its translate stage, or captionOnly: pc, seg, failed
  jobs,      \* target -> the channel from translate stage to voice stage
  voice,     \* target -> its voice loop: pc, seg, failed
  cut,       \* target -> targetCtx is cancelled
  captions,  \* target -> segments appended to its sink
  takes      \* target -> segments whose take was appended to its track

laneVars == <<told, main, result, groupErr, source, pump, clock, consumer, committed,
              in, stage, jobs, voice, cut, captions, takes>>

vars == <<txVars, laneVars>>

Segment == 1 .. MaxSegments

Time == 0 .. MaxFrames

\* What a stage that holds no segment holds.
None == 0

Empty == [queue |-> <<>>, closed |-> FALSE]

Dead(t) == gctx \/ cut[t]  \* targetCtx is done

Room(c) == Len(c.queue) < TargetQueue

Send(c, seg) == [c EXCEPT !.queue = Append(@, seg)]

Consumer == [pc : {"off", "receive", "fanout", "done"}, todo : SUBSET Target,
             left : Seq(Time \X Time), segStart : Time, lastEnd : Time,
             held : BOOLEAN, flushed : BOOLEAN]

Channel == [queue : Seq(Segment), closed : BOOLEAN]

Stage == [pc : {"off", "take", "translate", "send", "done"},
          seg : Segment \cup {None}, failed : BOOLEAN]

Voice == [pc : {"off", "take", "speak", "join", "done"},
          seg : Segment \cup {None}, failed : BOOLEAN]

TypeOK ==
  /\ TxTypeOK
  /\ told \in BOOLEAN /\ groupErr \in BOOLEAN
  /\ main \in {"open", "opening", "run", "close", "closing", "returned"}
  /\ result \in {"none", "ok", "err"}
  /\ source \in [read : 0 .. MaxFrames, closed : BOOLEAN]
  /\ pump \in {"off", "next", "push", "done"}
  /\ clock \in Time
  /\ consumer \in Consumer
  /\ committed \in Seq(Time \X Time) /\ Len(committed) + Len(consumer.left) <= MaxSegments
  /\ in \in [Target -> Channel] /\ jobs \in [Target -> Channel]
  /\ \A t \in Target : Len(in[t].queue) <= TargetQueue /\ Len(jobs[t].queue) <= TargetQueue
  /\ stage \in [Target -> Stage] /\ voice \in [Target -> Voice]
  /\ cut \in [Target -> BOOLEAN]
  /\ captions \in [Target -> Seq(Segment)] /\ takes \in [Target -> Seq(Segment)]

Init ==
  /\ TxInit
  /\ told = FALSE /\ main = "open" /\ result = "none" /\ groupErr = FALSE
  /\ source = [read |-> 0, closed |-> FALSE]
  /\ pump = "off" /\ clock = 0
  /\ consumer = [pc |-> "off", todo |-> {}, left |-> <<>>, segStart |-> 0,
                 lastEnd |-> 0, held |-> FALSE, flushed |-> FALSE]
  /\ committed = <<>>
  /\ in = [t \in Target |-> Empty]
  /\ stage = [t \in Target |-> [pc |-> "off", seg |-> None, failed |-> FALSE]]
  /\ jobs = [t \in Target |-> Empty]
  /\ voice = [t \in Target |-> [pc |-> "off", seg |-> None, failed |-> FALSE]]
  /\ cut = [t \in Target |-> FALSE]
  /\ captions = [t \in Target |-> <<>>]
  /\ takes = [t \in Target |-> <<>>]

-----------------------------------------------------------------------------
(* Contexts and the group.                                                 *)

\* The runtime cancels the lane.
Cancel ==
  /\ main # "returned" /\ ~told
  /\ told' = TRUE /\ gctx' = TRUE
  /\ UNCHANGED <<tx, events, main, result, groupErr, source, pump, clock, consumer,
                 committed, in, stage, jobs, voice, cut, captions, takes>>

\* frameOwner: cancellation and the end of Run close the source, once.
CloseSource == source' = [source EXCEPT !.closed = TRUE]

\* A closeForCancel that would not be armed.
closeForCancelDropped == gctx /\ UNCHANGED vars

\* The AfterFunc of Run: whoever blocks in the source is released.
closeForCancel ==
  /\ gctx /\ ~source.closed /\ CloseSource
  /\ UNCHANGED <<txVars, told, main, result, groupErr, pump, clock, consumer,
                 committed, in, stage, jobs, voice, cut, captions, takes>>

\* errgroup: the first goroutine to return an error cancels the others.
Returns(failed) ==
  /\ groupErr' = (groupErr \/ failed)
  /\ gctx' = (gctx \/ failed)

-----------------------------------------------------------------------------
(* Run.                                                                    *)

RunUnchanged ==
  UNCHANGED <<told, groupErr, clock, committed, in, jobs, cut, captions, takes>>

\* A source language no target can be translated from is refused before the
\* transcription is opened; so is a cancelled context.
Open ==
  /\ main = "open"
  /\ \/ TxOpen /\ main' = "opening" /\ UNCHANGED <<result, source>>
     \/ TxRefused /\ main' = "returned" /\ result' = "err" /\ CloseSource
  /\ RunUnchanged
  /\ UNCHANGED <<gctx, pump, consumer, stage, voice>>

\* Open returned: the targets, the consumer and the pump start.
Opened ==
  /\ main = "opening" /\ TxOpened
  /\ main' = "run"
  /\ stage' = [t \in Target |-> [stage[t] EXCEPT !.pc = "take"]]
  /\ voice' = [t \in Target |->
                 [voice[t] EXCEPT !.pc = IF t \in Voiced THEN "take" ELSE "done"]]
  /\ consumer' = [consumer EXCEPT !.pc = "receive"]
  /\ pump' = "next"
  /\ RunUnchanged
  /\ UNCHANGED <<gctx, result, source>>

OpenFails ==
  /\ main = "opening" /\ TxRefused
  /\ IF tx'.open = "refused"
       THEN main' = "returned" /\ result' = "err" /\ gctx' = TRUE /\ CloseSource
       ELSE UNCHANGED <<main, result, gctx, source>>
  /\ RunUnchanged
  /\ UNCHANGED <<pump, consumer, stage, voice>>

\* The translate stage of a dubbed target is not in the group: its voice loop
\* joins it.
GroupDone ==
  /\ consumer.pc = "done" /\ pump = "done"
  /\ \A t \in Target : voice[t].pc = "done" /\ (t \notin Voiced => stage[t].pc = "done")

\* group.Wait returned, which cancels its context.  Only without an error is
\* the dub finished.
Wait ==
  /\ main = "run" /\ GroupDone
  /\ main' = "close" /\ gctx' = TRUE
  /\ result' = IF groupErr THEN "err" ELSE "ok"
  /\ RunUnchanged
  /\ UNCHANGED <<tx, events, source, pump, consumer, stage, voice>>

\* The transcription is closed; then the deferred close of the source.
Close ==
  /\ \/ main = "close" /\ TxClose /\ main' = "closing" /\ UNCHANGED source
     \/ main = "closing" /\ TxClosed /\ main' = "returned" /\ CloseSource
  /\ RunUnchanged
  /\ UNCHANGED <<gctx, result, pump, consumer, stage, voice>>

-----------------------------------------------------------------------------
(* The pump.                                                               *)

PumpUnchanged ==
  UNCHANGED <<told, main, result, consumer, committed,
              in, stage, jobs, voice, cut, captions, takes>>

\* A frame is laid on the bed, its PTS set on the clock, and pushed, which
\* fails at once under a cancelled context.
NextFrame ==
  /\ pump = "next" /\ source.read < MaxFrames /\ ~source.closed
  /\ source' = [source EXCEPT !.read = @ + 1]
  /\ clock' = source.read
  /\ \/ TxPush /\ pump' = "push" /\ UNCHANGED <<gctx, groupErr>>
     \/ gctx /\ pump' = "done" /\ Returns(TRUE) /\ UNCHANGED <<tx, events>>
  /\ PumpUnchanged

\* The source ends: CloseSend, and the pump is done.
NextEOF ==
  /\ pump = "next" /\ ~source.closed
  /\ TxCloseSend
  /\ pump' = "done"
  /\ UNCHANGED <<gctx, groupErr, source, clock>>
  /\ PumpUnchanged

\* The source fails, or was closed under the read.
NextFails ==
  /\ pump = "next" /\ pump' = "done"
  /\ Returns(TRUE)
  /\ UNCHANGED <<tx, events, source, clock>>
  /\ PumpUnchanged

Push ==
  /\ pump = "push"
  /\ \/ TxPushed /\ pump' = "next" /\ UNCHANGED <<gctx, groupErr>>
     \/ TxPushFailed /\ pump' = "done" /\ Returns(TRUE)
  /\ UNCHANGED <<source, clock>>
  /\ PumpUnchanged

-----------------------------------------------------------------------------
(* The consumer.                                                           *)

ConsumerUnchanged ==
  UNCHANGED <<told, main, result, source, pump, clock, stage, jobs, voice, cut,
              captions, takes>>

\* emit: n clauses split the interval from the last commit to now, which may
\* be behind it.
Upto(now) == IF now > consumer.segStart THEN now ELSE consumer.segStart

Spans(n, now) ==
  LET base == consumer.segStart
      End(k) == base + ((Upto(now) - base) * k) \div n
  IN  [k \in 1 .. n |-> <<End(k - 1), End(k)>>]

\* consume returns: the targets' channels are closed, then the group learns.
Leave(failed) ==
  /\ in' = [t \in Target |-> [in[t] EXCEPT !.closed = TRUE]]
  /\ Returns(failed)

\* The first of the spans becomes a segment on its way to every target.
Fan(spans, cursor) ==
  IF spans = <<>>
    THEN consumer' = [cursor EXCEPT !.pc = "receive"] /\ UNCHANGED committed
    ELSE /\ consumer' = [cursor EXCEPT !.pc = "fanout", !.todo = Target,
                                       !.left = Tail(spans)]
         /\ committed' = Append(committed, Head(spans))

ConsumerFails(cursor) ==
  /\ consumer' = [cursor EXCEPT !.pc = "done"]
  /\ Leave(TRUE)
  /\ UNCHANGED committed

\* emitValidated commits n clauses; one that no model can translate is fatal.
EmitValidated(n, now, cursor) ==
  \/ /\ Fan(Spans(n, now), cursor)
     /\ UNCHANGED <<in, gctx, groupErr>>
  \/ /\ n > 0
     /\ ConsumerFails(cursor)

\* An update with text or without; a final starts the next interval at now.
Advanced(update, n, now) ==
  [consumer EXCEPT
     !.lastEnd = now,
     !.held = ~update.final,
     !.segStart = IF update.final THEN now ELSE IF n > 0 THEN Upto(now) ELSE @]

Receive ==
  LET update == Head(events)
      now == update.end
  IN  /\ consumer.pc = "receive" /\ TxReceive
      /\ \/ /\ now < consumer.lastEnd
            /\ ConsumerFails(consumer)
         \/ /\ now >= consumer.lastEnd
            /\ \E n \in 0 .. MaxClauses :
                 /\ Len(committed) + n <= MaxSegments
                 /\ EmitValidated(n, now, Advanced(update, n, now))
      /\ ConsumerUnchanged

\* receiveTranscript under a cancelled context.
ReceiveCancelled ==
  /\ consumer.pc = "receive" /\ gctx
  /\ ConsumerFails(consumer)
  /\ UNCHANGED <<tx, events>>
  /\ ConsumerUnchanged

FlushDeaf == \* without asking for the terminal error
  /\ consumer.pc = "receive" /\ ~consumer.flushed
  /\ events = <<>> /\ tx.ended
  /\ \E n \in 0 .. MaxClauses :
       /\ Len(committed) + n <= MaxSegments
       /\ n > 0 => consumer.held
       /\ EmitValidated(n, clock, [consumer EXCEPT !.flushed = TRUE])
  /\ UNCHANGED <<tx, events>>
  /\ ConsumerUnchanged

\* Events is closed and drained: a terminal error ends the lane, otherwise what
\* the committer still holds is flushed up to the clock.
Flush ==
  /\ consumer.pc = "receive" /\ ~consumer.flushed
  /\ events = <<>> /\ tx.ended
  /\ \/ tx.terminal /\ ConsumerFails(consumer)
     \/ /\ ~tx.terminal
        /\ \E n \in 0 .. MaxClauses :
             /\ Len(committed) + n <= MaxSegments
             /\ n > 0 => consumer.held
             /\ EmitValidated(n, clock, [consumer EXCEPT !.flushed = TRUE])
  /\ UNCHANGED <<tx, events>>
  /\ ConsumerUnchanged

ConsumeEnds ==
  /\ consumer.pc = "receive" /\ consumer.flushed
  /\ consumer' = [consumer EXCEPT !.pc = "done"]
  /\ Leave(FALSE)
  /\ UNCHANGED <<tx, events, committed>>
  /\ ConsumerUnchanged

\* fanout: one send per target, in any order; then the next clause.
fanout ==
  /\ consumer.pc = "fanout"
  /\ \/ \E t \in consumer.todo :
          /\ Room(in[t])
          /\ in' = [in EXCEPT ![t] = Send(@, Len(committed))]
          /\ IF consumer.todo = {t}
               THEN Fan(consumer.left, [consumer EXCEPT !.todo = {}, !.left = <<>>])
               ELSE /\ consumer' = [consumer EXCEPT !.todo = @ \ {t}]
                    /\ UNCHANGED committed
          /\ UNCHANGED <<gctx, groupErr>>
     \/ gctx /\ ConsumerFails([consumer EXCEPT !.todo = {}, !.left = <<>>])
  /\ UNCHANGED <<tx, events>>
  /\ ConsumerUnchanged

-----------------------------------------------------------------------------
(* The translate stage, and captionOnly where there is no voice.           *)

TargetUnchanged ==
  UNCHANGED <<tx, events, told, main, result, source, pump, clock, consumer, committed>>

Take(t) ==
  /\ stage[t].pc = "take" /\ in[t].queue # <<>>
  /\ in' = [in EXCEPT ![t].queue = Tail(@)]
  /\ stage' = [stage EXCEPT ![t].pc = "translate", ![t].seg = Head(in[t].queue)]
  /\ UNCHANGED <<gctx, groupErr, jobs, voice, cut, captions, takes>>
  /\ TargetUnchanged

\* The stage of a dubbed target closes its jobs and leaves its error for the
\* voice loop; captionOnly returns to the group.
StageReturns(t, failed) ==
  /\ stage' = [stage EXCEPT ![t].pc = "done", ![t].seg = None, ![t].failed = failed]
  /\ IF t \in Voiced
       THEN /\ jobs' = [jobs EXCEPT ![t].closed = TRUE]
            /\ UNCHANGED <<gctx, groupErr>>
       ELSE /\ UNCHANGED jobs
            /\ Returns(failed)

\* The channel is closed and drained.  Only the stage of a dubbed target
\* selects on its context.
TakeEnds(t) ==
  /\ stage[t].pc = "take"
  /\ \/ in[t].queue = <<>> /\ in[t].closed /\ StageReturns(t, FALSE)
     \/ t \in Voiced /\ Dead(t) /\ StageReturns(t, TRUE)
  /\ UNCHANGED <<in, voice, cut, captions, takes>>
  /\ TargetUnchanged

\* caption: the translation is appended to the sink before it is spoken.
Caption(t) ==
  /\ stage[t].pc = "translate"
  /\ captions' = [captions EXCEPT ![t] = Append(@, stage[t].seg)]
  /\ stage' = IF t \in Voiced
                THEN [stage EXCEPT ![t].pc = "send"]
                ELSE [stage EXCEPT ![t].pc = "take", ![t].seg = None]
  /\ UNCHANGED <<gctx, groupErr, in, jobs, voice, cut, takes>>
  /\ TargetUnchanged

TranslateFails(t) ==
  /\ stage[t].pc = "translate"
  /\ StageReturns(t, TRUE)
  /\ UNCHANGED <<in, voice, cut, captions, takes>>
  /\ TargetUnchanged

SendJob(t) ==
  /\ stage[t].pc = "send"
  /\ \/ /\ Room(jobs[t])
        /\ jobs' = [jobs EXCEPT ![t] = Send(@, stage[t].seg)]
        /\ stage' = [stage EXCEPT ![t].pc = "take", ![t].seg = None]
        /\ UNCHANGED <<gctx, groupErr>>
     \/ Dead(t) /\ StageReturns(t, TRUE)
  /\ UNCHANGED <<in, voice, cut, captions, takes>>
  /\ TargetUnchanged

-----------------------------------------------------------------------------
(* The voice loop of serveTarget.                                          *)

TakeJob(t) ==
  /\ voice[t].pc = "take" /\ jobs[t].queue # <<>>
  /\ jobs' = [jobs EXCEPT ![t].queue = Tail(@)]
  /\ voice' = [voice EXCEPT ![t].pc = "speak", ![t].seg = Head(jobs[t].queue)]
  /\ UNCHANGED <<gctx, groupErr, in, stage, cut, captions, takes>>
  /\ TargetUnchanged

\* speak: the take reaches the track only when it is complete.
Speak(t) ==
  /\ voice[t].pc = "speak"
  /\ takes' = [takes EXCEPT ![t] = Append(@, voice[t].seg)]
  /\ voice' = [voice EXCEPT ![t].pc = "take", ![t].seg = None]
  /\ UNCHANGED <<gctx, groupErr, in, stage, jobs, cut, captions>>
  /\ TargetUnchanged

\* A failed take, or jobs closed and drained: cancel the stage and join it.
VoiceEnds(t) ==
  /\ \/ /\ voice[t].pc = "speak"
        /\ voice' = [voice EXCEPT ![t].pc = "join", ![t].seg = None, ![t].failed = TRUE]
     \/ /\ voice[t].pc = "take" /\ jobs[t].queue = <<>> /\ jobs[t].closed
        /\ voice' = [voice EXCEPT ![t].pc = "join"]
  /\ cut' = [cut EXCEPT ![t] = TRUE]
  /\ UNCHANGED <<gctx, groupErr, in, stage, jobs, captions, takes>>
  /\ TargetUnchanged

JoinAlone(t) == \* without waiting for the stage
  /\ voice[t].pc = "join"
  /\ voice' = [voice EXCEPT ![t].pc = "done"]
  /\ Returns(voice[t].failed \/ stage[t].failed)
  /\ UNCHANGED <<in, stage, jobs, cut, captions, takes>>
  /\ TargetUnchanged

JoinForgets(t) == \* without the error of the stage
  /\ voice[t].pc = "join" /\ stage[t].pc = "done"
  /\ voice' = [voice EXCEPT ![t].pc = "done"]
  /\ Returns(voice[t].failed)
  /\ UNCHANGED <<in, stage, jobs, cut, captions, takes>>
  /\ TargetUnchanged

Join(t) ==
  /\ voice[t].pc = "join" /\ stage[t].pc = "done"
  /\ voice' = [voice EXCEPT ![t].pc = "done"]
  /\ Returns(voice[t].failed \/ stage[t].failed)
  /\ UNCHANGED <<in, stage, jobs, cut, captions, takes>>
  /\ TargetUnchanged

-----------------------------------------------------------------------------
Run == Open \/ Opened \/ OpenFails \/ Wait \/ Close

Pump == NextFrame \/ NextEOF \/ NextFails \/ Push

Consume == Receive \/ ReceiveCancelled \/ Flush \/ ConsumeEnds \/ fanout

Serve(t) ==
  \/ Take(t) \/ TakeEnds(t) \/ Caption(t) \/ TranslateFails(t) \/ SendJob(t)
  \/ TakeJob(t) \/ Speak(t) \/ VoiceEnds(t) \/ Join(t)

Session == TxOwn /\ UNCHANGED <<gctx, laneVars>>

\* Nothing is left to do.
Idle == main = "returned" /\ UNCHANGED vars

Next ==
  \/ Cancel \/ closeForCancel
  \/ Run \/ Pump \/ Consume
  \/ \E t \in Target : Serve(t)
  \/ Session
  \/ Idle

Spec == Init /\ [][Next]_vars

\* Who guarantees nothing before the context is cancelled: the source, the
\* providers, and a session that was neither cancelled nor closed.
TxStopped == gctx \/ tx.open = "refusing" \/ tx.close = "closing"

Fairness ==
  /\ WF_vars(closeForCancel)
  /\ WF_vars(Run)
  /\ WF_vars(Push /\ pump' = "done")
  /\ WF_vars(NextFails /\ source.closed)
  /\ WF_vars(Consume)
  /\ \A t \in Target :
       /\ WF_vars(Take(t) \/ TakeEnds(t) \/ SendJob(t))
       /\ WF_vars((Caption(t) \/ TranslateFails(t)) /\ Dead(t))
       /\ WF_vars(TakeJob(t) \/ Join(t) \/ (VoiceEnds(t) /\ voice[t].pc = "take"))
       /\ WF_vars((Speak(t) \/ VoiceEnds(t)) /\ voice[t].pc = "speak" /\ Dead(t))
  /\ WF_vars(Session /\ TxStopped /\ tx'.ended)

FairSpec == Spec /\ Fairness

-----------------------------------------------------------------------------
(* Properties.                                                             *)

\* When Run returns, its pump, its consumer and both stages of every target
\* have returned, the source is closed and the session is gone (group.Wait,
\* serveTarget's join, the deferred close).
NothingOutlivesRun ==
  main = "returned" =>
    /\ source.closed
    /\ tx.open \in {"refused", "yes"} /\ (tx.open = "yes" => tx.done)
    /\ pump \in {"off", "done"} /\ consumer.pc \in {"off", "done"}
    /\ \A t \in Target : {stage[t].pc, voice[t].pc} \subseteq {"off", "done"}

RunIsJoined == TypeOK /\ NothingOutlivesRun

\* An end without an error is the source's, even under a caller that cancels: its
\* audio ended, the transcription ended cleanly, and every update was consumed.
CleanEndIsTheSources ==
  result = "ok" =>
    tx.sent /\ tx.ended /\ ~tx.terminal /\ events = <<>> /\ consumer.flushed

\* What the sinks and tracks see, and that it agrees with how Run ends.
Contract == INSTANCE StreamContract WITH outcome <- result

ImplementsContract == Contract!Spec

\* Once the context is cancelled, by the caller or by a goroutine that failed,
\* Run returns: nobody waits for ever on a full queue, a closed loop, the
\* source or the transcription.
StoppedRunReturns == gctx ~> main = "returned"

\* If the providers answer and the transcription ends after CloseSend, the end
\* of the source ends the run, with no cancellation to help.
EndedSourceEndsRun ==
  /\ WF_vars(Session /\ tx.sent /\ tx'.ended)
  /\ \A t \in Target : WF_vars(Caption(t)) /\ WF_vars(Speak(t))
  => (tx.sent ~> main = "returned")

\* Run returns, stopped or at the end of its source.
RunReturns == StoppedRunReturns /\ EndedSourceEndsRun
=============================================================================
