------------------------------- MODULE Playout -------------------------------
(***************************************************************************)
(* What a lane makes of what it heard, side by side: the clauses it        *)
(* commits to, and what those who listen and read get of it: the timeline  *)
(* of a broadcast, the queue of a call, the captions of a tree.  The lane  *)
(* hands clauses and takes on (see StreamLane); the parts share no state.  *)
(* A behaviour exercises one.                                              *)
(***************************************************************************)
EXTENDS Integers, Sequences, FiniteSets

CONSTANTS Subjects  \* subset of {"commit", "timeline", "call", "captions", "registry"}
CONSTANTS Policies, Sentences, Splittable, Closing, MaxPartials
CONSTANTS Cursors, Delay, Cushion, Keep, Slack, MaxFrames, MaxTake, MaxTakes, MaxNow
CONSTANTS Sinks, MaxLead, MaxSamples, Window
CONSTANTS Texts, Width, Lines, PartLength, WindowParts, MaxDoc,
          Durations, MaxCues, MaxTrees, MaxFails, MaxWall
CONSTANTS Slug, Lang, Target, Device, Camera, MaxTargets,
          Caller, Listener, Rendered, MaxCreate, MaxDrop, MayRebuild

\* Session.validate bounds the delay; the others are constants of the code.
ASSUME PlayoutAssumption ==
    /\ {Delay, Cushion, Slack, MaxLead, MaxTake, MaxSamples} \subseteq Nat
    /\ {Keep, Window, Width, Lines, PartLength, WindowParts, MaxDoc} \subseteq Nat \ {0}
    /\ \A p \in Policies : 0 < p.minClause /\ p.minClause <= p.maxClause
    /\ \A text \in Texts : text # <<>> /\ \A i \in DOMAIN text : text[i] > 0
    /\ \A d \in Durations : d > 0

VARIABLES subject
VARIABLES policy, sentence, liberal, heard, last, agreed, emitted, said, clauses, partials, phase
VARIABLES bed, voice, placed, cursor, group, now
VARIABLES queue, head, crew
VARIABLES tree, cues, doc, seg, disk, live, timers, wall
VARIABLES gates, dead, finishing, nextGate, pairs, jobs, routes, teardowns, streams,
          job, nextJob, lane, call, replay, creates, stream, dying

Commit == INSTANCE Committer
Timeline == INSTANCE DubTimeline
Call == INSTANCE CallQueue
Text == INSTANCE Captions
Registry == INSTANCE AudioRegistry

\* Targets, sessions and bounds are what the registry takes them for.
ASSUME RegistryAssumption == Registry!AudioAssumption

commitVars == <<policy, sentence, liberal, heard, last, agreed, emitted, said, clauses, partials, phase>>
timelineVars == <<bed, voice, placed, cursor, group, now>>
queueVars == <<queue, head, crew>>
captionVars == <<tree, cues, doc, seg, disk, live, timers, wall>>
registryVars == <<gates, dead, finishing, nextGate, pairs, jobs, routes, teardowns, streams,
                  job, nextJob, lane, call, replay, creates, stream, dying>>
vars == <<subject, commitVars, timelineVars, queueVars, captionVars, registryVars>>

\* A part that is not exercised stays in one of its initial states.
Init ==
    /\ subject \in Subjects /\ Commit!CommitInit
    /\ Timeline!TimelineInit /\ Call!QueueInit /\ Text!CaptionsInit /\ Registry!Init
    /\ subject # "commit" => /\ policy = (CHOOSE p \in Policies : TRUE) /\ ~liberal
                             /\ sentence = (CHOOSE s \in Sentences : TRUE)

CommitStep == /\ subject = "commit" /\ Commit!CommitNext
              /\ UNCHANGED <<subject, timelineVars, queueVars, captionVars, registryVars>>
TimelineStep == /\ subject = "timeline" /\ Timeline!TimelineNext
                /\ UNCHANGED <<subject, commitVars, queueVars, captionVars, registryVars>>
CallStep == /\ subject = "call" /\ Call!QueueNext
            /\ UNCHANGED <<subject, commitVars, timelineVars, captionVars, registryVars>>
CaptionsStep == /\ subject = "captions" /\ Text!CaptionsNext
                /\ UNCHANGED <<subject, commitVars, timelineVars, queueVars, registryVars>>
RegistryStep == /\ subject = "registry" /\ Registry!Next
                /\ UNCHANGED <<subject, commitVars, timelineVars, queueVars, captionVars>>

Next == CommitStep \/ TimelineStep \/ CallStep \/ CaptionsStep \/ RegistryStep
Spec == Init /\ [][Next]_vars
-----------------------------------------------------------------------------
\* A part keeps its promise where it is exercised; elsewhere it does not move.
Of(part, promise) == subject = part => promise

TypeOK == /\ Of("commit", Commit!CommitTypeOK) /\ Of("timeline", Timeline!TimelineTypeOK)
          /\ Of("call", Call!QueueTypeOK) /\ Of("captions", Text!CaptionsTypeOK)
          /\ Of("registry", Registry!TypeOK)

\* What is said is committed to once and whole; and whoever plays a broadcast hears
\* every take whole and in its place, none before its time, and the wait for the
\* tail of a lane waits for it.
TakesAreHeard ==
    /\ TypeOK
    /\ Of("commit", Commit!UnambiguousSaidOnce /\ Commit!SaidWhole /\ Commit!ClausesFit)
    /\ Of("timeline", Timeline!TakesAreHeard /\ Timeline!PlayoutInTime)

\* commit.go:103 "When alignment is ambiguous it skips rather than duplicates".
SaidOnce == Commit!SaidOnce

\* In a call nothing is spoken twice, and only what exceeds the lead is passed over.
OnlyTheStalestIsShed == Of("call", Call!OnlyTheStalestIsShed)

\* A player that reads the tree at any time finds every listed part of the window,
\* whatever write has failed, misses an older one only while the playlist could not
\* be replaced, and sees no text of a tree that was there before.
ListedPartsAreThere == Of("captions", Text!ListedPartsAreThere /\ Text!OnlyItsOwnText)

\* overlay.go:47 "an earlier clear never erases newer text".
ClearsOnlyItself == Text!ClearsOnlyItself

\* A push target has one process at work, whose job the registry owns until it is
\* gone and which no Reset leaves behind, however requests, replays and lanes
\* overlap; only a cancelled native video may outlive its owner.
JobsAreOwned ==
    Of("registry", /\ Registry!OneProcessAtWork /\ Registry!NoJobEscapes
                   /\ Registry!OnlyVideoIsLeftToDie /\ Registry!QuietAfterReset)

\* A route is not remembered by a push that a Drop of its session ran through.
DroppedPushForgotten == Registry!DroppedPushForgotten

\* overlay.go:47 "Schedule shows the cue during its window".
ShownInItsWindow == Text!ShownInItsWindow

\* track.go:80 "while any consumer is registered, audio its render clock has not
\* passed is never trimmed".
ConsumersAreFenced == Timeline!ConsumersAreFenced
=============================================================================
