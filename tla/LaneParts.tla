------------------------------ MODULE LaneParts ------------------------------
(***************************************************************************)
(* What one lane is made of, side by side: the processes of its speech     *)
(* (the speech-to-text helper, the start of its whisper-server, the spoken *)
(* turns of a voice, the loops of the translation and voice helpers, the   *)
(* calls lanes make of them), the processes and files of its media (a      *)
(* device's capture, the ffmpeg child at either end, a WAV file), and its  *)
(* own start and end.  Each is a process, or a process and the daemon's    *)
(* end of its pipes; they meet in the lane, through errors and contexts    *)
(* each of them has.  A behaviour exercises one.                           *)
(***************************************************************************)
EXTENDS Naturals, Sequences, FiniteSets

CONSTANTS Subjects  \* subset of {"stt", "whisper", "voice", "loop", "calls", "device", "pcm", "sink", "wav", "lane"}
CONSTANTS MinSpeech, SilenceHang, MaxWindow, PreRoll, FrameSize, MaxSound, MaxBadDecodes
CONSTANTS Ports, Attempts, Budget
CONSTANTS MaxTurns, Chunks, PCMQueue, MaxHelpers, MaxFaults, Cancelled
CONSTANTS Requests, Kinds
CONSTANTS Lanes, Calls, MaxSpawn, Plans
CONSTANTS MaxRetries, MaxCalls
CONSTANTS MaxBytes, Quantum
CONSTANTS Wavs, MaxChunks, Samples, MaxTime
CONSTANTS MTTasks, TTSTasks, Workers, QueueSize, MaxOthers

\* STTTuning.Validate, constants of the code, and what the readers of a frame need.
ASSUME LanePartsAssumption ==
    /\ {MinSpeech, SilenceHang, MaxWindow, FrameSize, Attempts, MaxTurns, Chunks, PCMQueue, MaxHelpers} \subseteq Nat \ {0}
    /\ {PreRoll, MaxSound, MaxBadDecodes, Budget, MaxFaults, Requests} \subseteq Nat
    /\ MinSpeech <= MaxWindow /\ Kinds # {} /\ Ports # {}
    /\ {MaxRetries, MaxCalls, MaxBytes, MaxChunks, MaxTime, MaxOthers} \subseteq Nat
    /\ {Samples, Workers, QueueSize} \subseteq Nat \ {0}
    /\ Quantum \in Nat \ {0} /\ Quantum % 2 = 0
    /\ MTTasks \cap TTSTasks = {} /\ Wavs # {}
\* Who calls, on which lane, and how many helpers a lane spawns.
ASSUME PlansAssumption ==
    /\ IsFiniteSet(Calls) /\ "none" \notin Calls /\ MaxSpawn \in Nat
    /\ \A p \in Plans : p.laneOf \in [Calls -> Lanes] /\ p.spawns \in 0 .. MaxSpawn

VARIABLES subject
VARIABLES sound, ear, reader, stdin, worker, out, whisper
VARIABLES starter, clock, server, bound
VARIABLES turn, stream, take, voice, warm
VARIABLES helper, child, acks, answers
VARIABLES call, queue, running, inflight, tasks, closing, helpers, cached, spawned, poolEnd, plan
VARIABLES caller, capture, process, ended, closer
VARIABLES ffmpeg, pipe, frames, reap, cancelled, owner, encoder
VARIABLES wav, walk, source, now
VARIABLES start, slot, provider, task, warmup, lane, lazy, outputs, told

Stt == INSTANCE SttHelper
Voice == INSTANCE VoiceTurn
Loop == INSTANCE EngineHelper
MT == INSTANCE ProviderCalls WITH helper <- helpers
Device == INSTANCE DeviceCapture
Media == INSTANCE MediaProcess WITH child <- ffmpeg
Wav == INSTANCE WavSource
Lane == INSTANCE LaneStart WITH warm <- warmup

speechVars == <<sound, ear, reader, stdin, worker, out, whisper, starter, clock, server, bound,
                turn, stream, take, voice, warm, helper, child, acks, answers>>
callVars == <<call, queue, running, inflight, tasks, closing, helpers, cached, spawned, poolEnd, plan>>
mediaVars == <<caller, capture, process, ended, closer, ffmpeg, pipe, frames, reap, cancelled, owner, encoder,
               wav, walk, source, now>>
laneVars == <<start, slot, provider, task, warmup, lane, lazy, outputs, told>>
vars == <<subject, speechVars, callVars, mediaVars, laneVars>>

sttOthers == <<starter, clock, server, bound, turn, stream, take, voice, warm, helper, child, acks, answers>>
whisperOthers == <<sound, ear, reader, stdin, worker, out, whisper, turn, stream, take, voice, warm, helper, child, acks, answers>>
voiceOthers == <<sound, ear, reader, stdin, worker, out, whisper, starter, clock, server, bound, helper, child, acks, answers>>
loopOthers == <<sound, ear, reader, stdin, worker, out, whisper, starter, clock, server, bound, turn, stream, take, voice, warm>>
deviceOthers == <<ffmpeg, pipe, frames, reap, cancelled, owner, encoder, wav, walk, source, now>>
processOthers == <<caller, capture, process, ended, closer, wav, walk, source, now>>
wavOthers == <<caller, capture, process, ended, closer, ffmpeg, pipe, frames, reap, cancelled, owner, encoder>>

\* A part that is not exercised stays in one of its initial states.
Init == /\ subject \in Subjects
        /\ Stt!SttInit /\ Stt!StartInit /\ Voice!VoiceInit /\ Loop!LoopInit /\ MT!Init
        /\ Device!CaptureInit /\ Media!MediaInit /\ Wav!WavInit /\ Lane!StartInit
        /\ subject # "loop" => helper.kind = CHOOSE k \in Kinds : TRUE
        /\ subject # "calls" => plan = CHOOSE p \in Plans : TRUE
        /\ subject # "wav" => wav = (CHOOSE w \in Wavs : TRUE) /\ ~source.loop

Speech == UNCHANGED <<subject, callVars, mediaVars, laneVars>>
SttStep == subject = "stt" /\ Stt!SttNext /\ Speech /\ UNCHANGED sttOthers
WhisperStep == subject = "whisper" /\ Stt!StartNext /\ Speech /\ UNCHANGED whisperOthers
VoiceStep == subject = "voice" /\ Voice!VoiceNext /\ Speech /\ UNCHANGED voiceOthers
LoopStep == subject = "loop" /\ Loop!LoopNext /\ Speech /\ UNCHANGED loopOthers
CallsStep == subject = "calls" /\ MT!Next /\ UNCHANGED <<subject, speechVars, mediaVars, laneVars>>
Intake == UNCHANGED <<subject, speechVars, callVars, laneVars>>
DeviceStep == subject = "device" /\ Device!CaptureNext /\ Intake /\ UNCHANGED deviceOthers
PcmStep == subject = "pcm" /\ Media!PcmNext /\ Intake /\ UNCHANGED processOthers
SinkStep == subject = "sink" /\ Media!SinkNext /\ Intake /\ UNCHANGED processOthers
WavStep == subject = "wav" /\ Wav!WavNext /\ Intake /\ UNCHANGED wavOthers
LaneStep == subject = "lane" /\ Lane!StartNext /\ UNCHANGED <<subject, speechVars, callVars, mediaVars>>
Next == SttStep \/ WhisperStep \/ VoiceStep \/ LoopStep \/ CallsStep
        \/ DeviceStep \/ PcmStep \/ SinkStep \/ WavStep \/ LaneStep

\* Go runs what can run; timers fire; killed processes end and are reaped.
Progress ==
    \/ SttStep /\ Stt!SttProgress
    \/ WhisperStep /\ Stt!StarterStep
    \/ VoiceStep /\ Voice!VoiceProgress
    \/ LoopStep /\ Loop!LoopProgress
    \/ CallsStep /\ MT!CallsProgress
    \/ DeviceStep /\ Device!CaptureProgress
    \/ PcmStep /\ Media!PcmProgress
    \/ SinkStep /\ Media!SinkProgress
    \/ WavStep /\ Wav!WavProgress
    \/ LaneStep /\ Lane!StartProgress
Fairness == WF_vars(Progress)

Spec == Init /\ [][Next]_vars
FairSpec == Spec /\ Fairness
-----------------------------------------------------------------------------
\* A part keeps its promise where it is exercised; elsewhere it does not move.
Of(part, promise) == subject = part => promise

TypeOK == /\ Of("stt", Stt!SttTypeOK) /\ Of("calls", MT!TypeOK) /\ Of("device", Device!CaptureTypeOK)
          /\ (subject \in {"pcm", "sink"} => Media!MediaTypeOK)
          /\ Of("wav", Wav!WavTypeOK) /\ Of("lane", Lane!StartTypeOK)

\* The transcripts of a sound have boundaries that never go back and, at a clean
\* end, hold every utterance once; a take is all of its own clause or is not
\* published; a helper answers the request it was asked last, and the server
\* trusted is the one started.
SpeechIsFaithful ==
    /\ Of("stt", Stt!BoundariesAreOrdered /\ Stt!CleanEndIsComplete)
    /\ Of("voice", Voice!TakesAreWhole /\ Voice!HelperIsClean)
    /\ Of("loop", Loop!AnswersInLockstep)
    /\ Of("whisper", Stt!TrustedServerIsOurs)

\* Calls stay apart: an answer is the request's own, a lane that closed has no call
\* and no process left, and the pool's counts are those of the calls in it.
CallsStayApart == Of("calls", MT!ReplyIsForRequest /\ MT!ClosedIsEmpty)

\* One process captures a device, and none once its owner closed it; a start
\* that has returned gave back whatever it had taken.
NothingLeftBehind == TypeOK /\ Of("device", Device!OneCaptureAtATime) /\ Of("lane", Lane!StartLeavesNothing)

\* An end is told for what it is: EOF where the media ended, a failure where the
\* child failed; and the outputs that stay are those of a clean end.
EndIsTold ==
    /\ subject \in {"pcm", "sink"} => Media!EOFIsTheSources /\ Media!StopIsNotAFailure
    /\ Of("wav", Wav!PlaysTheData) /\ Of("lane", Lane!OutputsFollowTheEnd)

\* A lane's time goes on: through the loops of a file, and through a failure
\* after media came, which no retry may hide.
TimeGoesOn == Wav!ClockGoesOn /\ Device!NoRetryAfterMedia

\* Every process, turn, capture and start ends, whatever dies, hangs or is
\* cancelled: the transcription once its sound ends or its worker fails, a
\* capture once it is cancelled or closed, a start once its lane is cancelled, the
\* close of a lane's calls though its own helper hangs.
PartsEnd ==
    []<>CASE subject = "stt" -> Stt!Listening \/ reader.pc = "done"
          [] subject = "whisper" -> starter.pc \in {"ready", "failed"}
          [] subject = "voice" -> Voice!TurnsEnded
          [] subject = "loop" -> Loop!HelperEnded
          [] subject = "calls" -> MT!CloseReturns
          [] subject = "device" -> Device!CaptureEnded
          [] subject = "pcm" -> Media!PcmEnded
          [] subject = "sink" -> Media!SinkEnded
          [] subject = "wav" -> Wav!WavEnded
          [] OTHER -> Lane!StartEnded

\* stt.go:314 "Nothing here cancels a decode already sent to whisper-server".
NoDecodeAfterACancelledOne == Stt!NoDecodeAfterACancelledOne
=============================================================================
