------------------------------ MODULE VoiceTurn ------------------------------
(***************************************************************************)
(* A spoken clause from the lane to the voice's helper process and back:   *)
(* Lane.speak collects a take, bounded.Synthesizer holds a worker while    *)
(* the audio streams, TTS.Speak runs the turn on the warm helper of the    *)
(* voice (native/tts.go), which answers with chunks and then "done".  The  *)
(* takes of one target follow each other, but what is left of a cancelled  *)
(* turn may still run when the next one starts.                            *)
(***************************************************************************)
EXTENDS Naturals, Sequences

CONSTANTS MaxTurns,  \* bound: clauses spoken
          Chunks,    \* bound: chunks of audio a clause is answered with
          PCMQueue,  \* ttsPCMQueue
          MaxHelpers,\* bound: helpers spawned for the voice
          MaxFaults, \* bound: spawns that fail, helpers that exit, lines that do not decode
          Cancelled  \* the turns whose lane may end

Turns == 1 .. MaxTurns

VARIABLES turn,   \* turn[t]: voiceProc.run and synth, on helper .proc, context .ctx
          stream, \* stream[t]: the turn's audio and result, and bounded.forward of it
          take,   \* take[t]: what Lane.speak collected, and whether it published it
          voice,  \* voice[n]: the process, its gate, its stdout and the pump's slot
          warm    \* [cached: the helper in the cache, 0 for none; spawned; faults]
voiceVars == <<turn, stream, take, voice, warm>>

NoTurn == 0
Nothing == [of |-> NoTurn, n |-> 0]
Unborn == [at |-> "unborn", gate |-> NoTurn, asked |-> NoTurn, said |-> 0, slot |-> Nothing]
VoiceInit ==
    /\ turn = [t \in Turns |-> [pc |-> "idle", proc |-> 0, stale |-> 0, ctx |-> TRUE, chunk |-> Nothing, err |-> FALSE]]
    /\ stream = [t \in Turns |-> [out |-> <<>>, closed |-> FALSE, result |-> "none", forward |-> "idle", held |-> Nothing, err |-> FALSE]]
    /\ take = [t \in Turns |-> [pc |-> "wait", pcm |-> <<>>]]
    /\ voice = [n \in 1 .. MaxHelpers |-> Unborn]
    /\ warm = [cached |-> 0, spawned |-> 0, faults |-> 0]

At(t, pc) == turn[t].pc = pc
Goto(t, pc) == turn' = [turn EXCEPT ![t].pc = pc]
Broken(t) == turn' = [turn EXCEPT ![t].pc = "leave", ![t].err = TRUE]
Mine(t) == voice[turn[t].proc]
Set(n, v) == voice' = [voice EXCEPT ![n] = v]
Unusable(v) == v.at \in {"stopping", "done"}
Aborted(v) == IF v.at = "live" THEN [v EXCEPT !.at = "stopping"] ELSE v
Lane == <<stream, take>>
\* The target's voice stage speaks its takes one after the other.
InTurn(t) == \A s \in 1 .. t - 1 : take[s].pc \in {"published", "failed"}

-----------------------------------------------------------------------------
(* TTS.Speak: the warm helper, its gate, the clause, the reply *)

\* procCache.get: the helper of the voice, or a new one in place of one that stopped.
Warm(t) ==
    /\ At(t, "idle") /\ InTurn(t)
    /\ LET n == warm.cached IN
       \/ /\ ~turn[t].ctx /\ turn' = [turn EXCEPT ![t].pc = "refused"]
          /\ UNCHANGED <<voice, warm>>
       \/ /\ turn[t].ctx /\ n # 0 /\ ~Unusable(voice[n])
          /\ turn' = [turn EXCEPT ![t].pc = "gate", ![t].proc = n]
          /\ UNCHANGED <<voice, warm>>
       \/ /\ turn[t].ctx /\ warm.spawned < MaxHelpers
          /\ n # 0 => Unusable(voice[n])
          /\ LET new == warm.spawned + 1 IN
             /\ warm' = [warm EXCEPT !.cached = new, !.spawned = new]
             /\ Set(new, [Unborn EXCEPT !.at = "live"])
             /\ turn' = [turn EXCEPT ![t].pc = "reap", ![t].proc = new, ![t].stale = n]
    /\ UNCHANGED Lane
SpawnFails(t) ==
    /\ At(t, "idle") /\ InTurn(t) /\ turn[t].ctx
    /\ warm.cached # 0 => Unusable(voice[warm.cached])
    /\ warm.faults < MaxFaults /\ warm' = [warm EXCEPT !.cached = 0, !.faults = @ + 1]
    /\ turn' = [turn EXCEPT ![t].pc = "reap", ![t].stale = warm.cached]
    /\ UNCHANGED <<voice, Lane>>
Reaped(t) ==
    /\ At(t, "reap") /\ turn[t].stale \in {0} \union {n \in 1 .. MaxHelpers : voice[n].at = "done"}
    /\ turn' = [turn EXCEPT ![t].pc = IF turn[t].proc = 0 THEN "refused" ELSE "gate", ![t].stale = 0]
    /\ UNCHANGED <<voice, warm, Lane>>

\* acquire takes any of the gate, the helper's end and the context that is ready.
Acquire(t) ==
    /\ At(t, "gate")
    /\ \/ Mine(t).gate = NoTurn /\ Set(turn[t].proc, [Mine(t) EXCEPT !.gate = t]) /\ Goto(t, "clause")
       \/ (Mine(t).at = "done" \/ ~turn[t].ctx) /\ UNCHANGED voice
          /\ turn' = [turn EXCEPT ![t].pc = "left", ![t].err = TRUE]
    /\ UNCHANGED <<warm, Lane>>

\* run's select before the clause: the end of the context aborts the helper.
Clause(t) ==
    /\ At(t, "clause")
    /\ \/ Goto(t, "write") /\ UNCHANGED voice
       \/ ~turn[t].ctx /\ Set(turn[t].proc, Aborted(Mine(t))) /\ Broken(t)
       \/ Mine(t).at = "done" /\ UNCHANGED voice /\ Broken(t)
    /\ UNCHANGED <<warm, Lane>>

\* A turn cancelled before it writes leaves the helper as it is; a cancelled
\* write may be in the pipe already, and ends the helper.
WriteLine(t) ==
    /\ At(t, "write")
    /\ LET v == Mine(t) IN
       \/ /\ turn[t].ctx /\ v.at = "live" /\ Goto(t, "stream")
          /\ Set(turn[t].proc, [v EXCEPT !.asked = t, !.said = 0])
       \/ /\ ~turn[t].ctx /\ v.at = "live" /\ Broken(t)
          /\ \E asked \in {v.asked, t} : Set(turn[t].proc, [Aborted(v) EXCEPT !.asked = asked, !.said = 0])
       \/ v.at # "live" /\ turn[t].ctx /\ Goto(t, "broken") /\ UNCHANGED voice
       \/ ~turn[t].ctx /\ Broken(t) /\ UNCHANGED voice
    /\ UNCHANGED <<warm, Lane>>
\* writeFailure and terminalError wait for the reap.
AwaitReap(t) == /\ At(t, "broken") /\ Mine(t).at = "done" /\ Broken(t)
                /\ UNCHANGED <<voice, warm, Lane>>

\* synth takes a line, or sees its context end; the end of the context, and a
\* line that does not decode, abort the helper, whose other lines nobody reads.
Stream(t) ==
    /\ At(t, "stream")
    /\ LET v == Mine(t) emptied == [v EXCEPT !.slot = Nothing] IN
       \/ ~turn[t].ctx /\ Set(turn[t].proc, Aborted(v)) /\ Broken(t)
       \/ v.slot = Nothing /\ v.at = "done" /\ Broken(t) /\ UNCHANGED voice
       \/ v.slot # Nothing /\ v.slot.n > Chunks /\ Goto(t, "next") /\ Set(turn[t].proc, emptied)
       \/ /\ v.slot # Nothing /\ v.slot.n <= Chunks /\ Set(turn[t].proc, emptied)
          /\ turn' = [turn EXCEPT ![t].pc = "forward", ![t].chunk = v.slot]
    /\ UNCHANGED <<warm, Lane>>
Garbled(t) ==
    /\ At(t, "stream") /\ Mine(t).slot # Nothing
    /\ warm.faults < MaxFaults /\ warm' = [warm EXCEPT !.faults = @ + 1]
    /\ Set(turn[t].proc, Aborted([Mine(t) EXCEPT !.slot = Nothing])) /\ Broken(t) /\ UNCHANGED Lane

\* forward: the queue has room, or the context or the helper ends.
Forward(t) ==
    /\ At(t, "forward")
    /\ \/ /\ Len(stream[t].out) < PCMQueue /\ Goto(t, "stream") /\ UNCHANGED voice
          /\ stream' = [stream EXCEPT ![t].out = Append(@, turn[t].chunk)]
       \/ /\ ~turn[t].ctx \/ Unusable(Mine(t))
          /\ Set(turn[t].proc, Aborted(Mine(t))) /\ Broken(t) /\ UNCHANGED stream
    /\ UNCHANGED <<warm, take>>

\* The text is closed behind its one clause; the context and the helper's end
\* may be seen first.
NextClause(t) ==
    /\ At(t, "next")
    /\ \/ Goto(t, "leave") /\ UNCHANGED voice
       \/ ~turn[t].ctx /\ Set(turn[t].proc, Aborted(Mine(t))) /\ Broken(t)
       \/ Mine(t).at = "done" /\ UNCHANGED voice /\ Broken(t)
    /\ UNCHANGED <<warm, Lane>>

Leave(t) == /\ At(t, "leave") /\ Set(turn[t].proc, [Mine(t) EXCEPT !.gate = NoTurn]) /\ Goto(t, "left")
            /\ UNCHANGED <<warm, Lane>>
\* A helper that stopped leaves the cache before the turn's result is known.
Discard(t) ==
    /\ At(t, "left")
    /\ IF Unusable(Mine(t))
         THEN /\ warm' = [warm EXCEPT !.cached = IF @ = turn[t].proc THEN 0 ELSE @]
              /\ Goto(t, "discard")
         ELSE Goto(t, "result") /\ UNCHANGED warm
    /\ UNCHANGED <<voice, Lane>>
\* The cleanup may have failed, and is the turn's failure then.
Discarded(t) == /\ At(t, "discard") /\ Mine(t).at = "done"
                /\ \E err \in {turn[t].err, TRUE} : turn' = [turn EXCEPT ![t].pc = "result", ![t].err = err]
                /\ UNCHANGED <<voice, warm, Lane>>
\* The result is there before the audio is closed.
Result(t) ==
    /\ At(t, "result") /\ Goto(t, "done")
    /\ stream' = [stream EXCEPT ![t].closed = TRUE, ![t].result = IF turn[t].err THEN "err" ELSE "ok"]
    /\ UNCHANGED <<voice, warm, take>>

-----------------------------------------------------------------------------
(* bounded.Synthesizer: the worker that forwards; Lane.speak: the take *)

\* Speak failed: the caller gets the error, or its own context's, and no audio.
Refuse(t) ==
    /\ At(t, "refused") /\ Goto(t, "done")
    /\ take' = [take EXCEPT ![t].pc = "failed"]
    /\ stream' = [stream EXCEPT ![t].forward = "done"]
    /\ UNCHANGED <<voice, warm>>
\* Speak returned an audio, and of this and the context the caller takes either.
Started(t) ==
    /\ stream[t].forward = "idle" /\ turn[t].pc \notin {"idle", "reap", "refused"}
    /\ stream' = [stream EXCEPT ![t].forward = "receive"]
    /\ \E pc \in {"collect", IF turn[t].ctx THEN "collect" ELSE "failed"} : take' = [take EXCEPT ![t].pc = pc]
    /\ UNCHANGED <<turn, voice, warm>>
Receive(t) ==
    /\ stream[t].forward = "receive"
    /\ \/ /\ stream[t].out # <<>>
          /\ stream' = [stream EXCEPT ![t].out = Tail(@), ![t].held = Head(stream[t].out), ![t].forward = "send"]
       \/ /\ stream[t].out = <<>> /\ stream[t].closed /\ stream' = [stream EXCEPT ![t].forward = "end"]
       \/ ~turn[t].ctx /\ stream' = [stream EXCEPT ![t].forward = "end", ![t].err = TRUE]
    /\ UNCHANGED <<turn, take, voice, warm>>
\* The output has no buffer: the lane takes the chunk as it is sent.
Send(t) ==
    /\ stream[t].forward = "send"
    /\ \/ /\ take[t].pc = "collect" /\ take' = [take EXCEPT ![t].pcm = Append(@, stream[t].held)]
          /\ stream' = [stream EXCEPT ![t].forward = "receive", ![t].held = Nothing]
       \/ /\ ~turn[t].ctx /\ UNCHANGED take
          /\ stream' = [stream EXCEPT ![t].forward = "end", ![t].err = TRUE, ![t].held = Nothing]
    /\ UNCHANGED <<turn, voice, warm>>
\* The output is closed, and then Err waits for the turn's result: the worker is
\* held until the helper of a turn that failed is reaped.
ForwardEnds(t) ==
    /\ stream[t].forward = "end" /\ stream[t].result # "none"
    /\ stream' = [stream EXCEPT ![t].forward = "done", ![t].err = @ \/ stream[t].result = "err"]
    /\ UNCHANGED <<turn, take, voice, warm>>

\* collectVoiceTake publishes only after the provider's success.
Publish(t) ==
    /\ take[t].pc = "collect" /\ stream[t].forward = "done"
    /\ take' = [take EXCEPT ![t].pc = IF ~stream[t].err /\ take[t].pcm # <<>> THEN "published" ELSE "failed"]
    /\ UNCHANGED <<turn, stream, voice, warm>>

\* A take longer than the lane accepts is refused half way: speak returns, and
\* its context ends.
GiveUp(t) ==
    /\ t \in Cancelled /\ take[t].pc = "collect" /\ take[t].pcm # <<>>
    /\ take' = [take EXCEPT ![t].pc = "failed"] /\ turn' = [turn EXCEPT ![t].ctx = FALSE]
    /\ UNCHANGED <<stream, voice, warm>>
Cancel(t) == /\ t \in Cancelled /\ turn[t].ctx /\ take[t].pc \in {"wait", "collect"}
             /\ turn' = [turn EXCEPT ![t].ctx = FALSE]
             /\ UNCHANGED <<stream, take, voice, warm>>

-----------------------------------------------------------------------------
(* The helper: lines in order while it lives, then the pump reaps it *)

Say(n) ==
    /\ voice[n].at \in {"live", "stopping"} /\ voice[n].asked # NoTurn /\ voice[n].slot = Nothing
    /\ LET k == voice[n].said + 1 IN
       Set(n, [voice[n] EXCEPT !.slot = [of |-> voice[n].asked, n |-> k], !.said = k,
                               !.asked = IF k > Chunks THEN NoTurn ELSE @])
    /\ UNCHANGED <<turn, stream, take, warm>>
Exit(n) == /\ voice[n].at = "live" /\ Set(n, Aborted(voice[n])) /\ UNCHANGED <<turn, stream, take>>
           /\ warm.faults < MaxFaults /\ warm' = [warm EXCEPT !.faults = @ + 1]
Reap(n) == /\ voice[n].at = "stopping" /\ Set(n, [voice[n] EXCEPT !.at = "done", !.asked = NoTurn])
           /\ UNCHANGED <<turn, stream, take, warm>>

TurnStep(t) ==
    \/ Warm(t) \/ SpawnFails(t) \/ Reaped(t) \/ Acquire(t) \/ Clause(t) \/ WriteLine(t) \/ AwaitReap(t)
    \/ Stream(t) \/ Garbled(t) \/ Forward(t) \/ NextClause(t) \/ Leave(t) \/ Discard(t) \/ Discarded(t) \/ Result(t) \/ Refuse(t)
ForwardStep(t) == Started(t) \/ Receive(t) \/ Send(t) \/ ForwardEnds(t)
VoiceNext ==
    \/ \E t \in Turns : TurnStep(t) \/ ForwardStep(t) \/ Publish(t) \/ GiveUp(t) \/ Cancel(t)
    \/ \E n \in 1 .. MaxHelpers : Say(n) \/ Exit(n) \/ Reap(n)
\* What must go on: every goroutine that can step does, a helper asked for a
\* clause answers or exits, and one that is aborted is reaped.  No step is ever
\* undone, so that one condition for them all is enough.
VoiceProgress ==
    \/ \E t \in Turns : TurnStep(t) \/ ForwardStep(t) \/ Publish(t)
    \/ \E n \in 1 .. MaxHelpers : Say(n) \/ Reap(n)
-----------------------------------------------------------------------------
\* A take that is published is whole: every chunk of its own clause in order,
\* and none of a turn that was cancelled before it on the same helper.
TakesAreWhole ==
    \A t \in Turns : take[t].pc = "published" =>
        take[t].pcm = [n \in 1 .. Chunks |-> [of |-> t, n |-> n]]

\* A turn that asks a helper finds nothing another left in its pipe, and no two
\* turns ask one helper at once.
HelperIsClean ==
    /\ \A t \in Turns : At(t, "write") /\ Mine(t).at = "live" => Mine(t).asked = NoTurn /\ Mine(t).slot = Nothing
    /\ \A n \in 1 .. MaxHelpers, t \in Turns :
         turn[t].proc = n /\ turn[t].pc \in {"write", "stream", "forward", "next"} => voice[n].gate = t

\* The end of every turn, cancelled, failed or played out: its worker is free.
TurnsEnded == \A t \in Turns : take[t].pc \in {"published", "failed"} /\ stream[t].forward = "done"
=============================================================================
