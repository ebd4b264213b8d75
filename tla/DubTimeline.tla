---------------------------- MODULE DubTimeline ----------------------------
(***************************************************************************)
(* The broadcast dub (core/pipeline track, mix, playout): the delayed bed  *)
(* and a language's voice on one source clock, written by the lane and     *)
(* rendered by the cursor of every sink; retention trims what is old.      *)
(* Time is counted in quanta; a bed frame and a window are one quantum.    *)
(***************************************************************************)
EXTENDS Integers, Sequences, FiniteSets

CONSTANTS Cursors,
          Delay, Cushion, Keep, Slack, \* of the session, playoutCushion, trackKeep, trackSlack
          MaxFrames, MaxTake, MaxTakes, MaxNow \* model bounds

VARIABLES bed,    \* base, end, first, anchoredAt, finished; nothing before the first frame
          voice,  \* base, the take of each quantum kept, floor, consumers, finished
          placed, \* the instant and length of every take
          cursor, \* each sink's head: clock, registered, accepted, released, what it heard
          group,  \* playoutGroup: active, sealed
          now
timelineVars == <<bed, voice, placed, cursor, group, now>>

TimelineInit ==
    /\ bed = [base |-> 0, end |-> 0, first |-> 0, anchored |-> -1, finished |-> FALSE]
    /\ voice = [base |-> 0, buf |-> <<>>, floor |-> 0, consumers |-> 0, anchored |-> FALSE, finished |-> FALSE]
    /\ placed = <<>>
    /\ cursor = [c \in Cursors |-> [clock |-> 0, from |-> -1, since |-> 0, registered |-> FALSE, accepted |-> FALSE,
                                    released |-> FALSE, skipped |-> FALSE, heard |-> {}]]
    /\ group = [active |-> 0, sealed |-> FALSE]
    /\ now = 0

Most(a, b) == IF a < b THEN b ELSE a
Anchored == bed.anchored >= 0
Retained == Keep + Delay

\* pump: the source's next frame goes on the bed at PTS + Delay; trim, which no
\* consumer fences, slides the base.
Frames == bed.end - bed.first
BedAppend ==
    /\ ~bed.finished /\ Frames < MaxFrames
    /\ LET opened == IF Anchored THEN bed ELSE [bed EXCEPT !.base = Delay, !.first = Delay, !.end = Delay, !.anchored = now]
           grown == [opened EXCEPT !.end = @ + 1]
       IN  bed' = IF grown.end - grown.base <= Retained + Slack THEN grown
                  ELSE [grown EXCEPT !.base = grown.end - Retained]
    /\ UNCHANGED <<voice, placed, cursor, group, now>>

\* trim of the voice: while a consumer is registered, nothing after the floor goes.
VoiceEnd(v) == v.base + Len(v.buf)
Fenced(v) == v.consumers > 0 /\ v.floor > 0 /\ v.floor >= v.base
\* A Kept that would ask no consumer.
KeptUnfenced(v) == Retained

Kept(v) == IF Fenced(v) THEN Most(Retained, Len(v.buf) - (v.floor - v.base)) ELSE Retained
Trim(v) == IF Len(v.buf) <= Kept(v) + Slack THEN v
           ELSE [v EXCEPT !.base = VoiceEnd(v) - Kept(v),
                          !.buf = SubSeq(@, Len(@) - Kept(v) + 1, Len(@))]

\* Append: never before the floor, never over what is placed; gaps are silence.
Offset(v, at) == Most(IF at > v.base THEN at - v.base ELSE 0, Len(v.buf))
VoiceAppend(at, len) ==
    /\ Anchored /\ ~voice.finished /\ Len(placed) < MaxTakes
    /\ LET due == Most(at, voice.floor)
           v == IF voice.anchored THEN voice ELSE [voice EXCEPT !.base = due, !.anchored = TRUE]
           gap == [i \in 1 .. Offset(v, due) - Len(v.buf) |-> 0]
           take == [i \in 1 .. len |-> Len(placed) + 1]
           v2 == Trim([v EXCEPT !.buf = @ \o gap \o take])
       IN  /\ voice' = v2
           /\ placed' = Append(placed, <<v.base + Offset(v, due), len>>)
           /\ cursor' = [c \in Cursors |-> IF v2.base > v.base /\ (cursor[c].clock < v2.floor \/ v2.floor < v.base)
                                           THEN [cursor[c] EXCEPT !.skipped = TRUE] ELSE cursor[c]]
    /\ UNCHANGED <<bed, group, now>>

\* finishDub: the bed, then the tracks; closing the group of Run is one moment here.
Finish ==
    /\ ~bed.finished /\ bed' = [bed EXCEPT !.finished = TRUE] /\ voice' = [voice EXCEPT !.finished = TRUE]
    /\ UNCHANGED <<placed, cursor, group, now>>

-----------------------------------------------------------------------------
\* BeginPlayout, explicit or of the first pull: refused once the set is sealed.
Begun(c) == IF cursor[c].registered THEN cursor[c]
            ELSE [cursor[c] EXCEPT !.registered = TRUE, !.accepted = ~group.sealed]
BegunGroup(c) == IF cursor[c].registered \/ group.sealed THEN group ELSE [group EXCEPT !.active = @ + 1]
BegunVoice(c) == IF cursor[c].registered \/ group.sealed THEN voice ELSE [voice EXCEPT !.consumers = @ + 1]
Begin(c) ==
    /\ ~cursor[c].registered
    /\ cursor' = [cursor EXCEPT ![c] = Begun(c)]
    /\ group' = BegunGroup(c) /\ voice' = BegunVoice(c)
    /\ UNCHANGED <<bed, placed, now>>

\* alignPlayoutClock: at first a quantum behind what is due; then only retention moves it.
Edge == bed.first + (now - bed.anchored) - Delay
Aligned(c) == IF cursor[c].from >= 0 THEN Most(cursor[c].clock, bed.base) ELSE Most(bed.base, Edge - 1)

FiniteEnd == Most(bed.end, VoiceEnd(voice))
Finished == bed.finished /\ voice.finished
\* Track.ready of the bed.
Ready(at) ==
    /\ now >= bed.anchored + Delay + at - bed.first
    /\ IF bed.finished THEN at < Most(bed.end, VoiceEnd(voice))
       ELSE at < bed.end /\ at + 1 + Most(Delay, Cushion) <= bed.end
EOF(c) == IF Anchored THEN Finished /\ Aligned(c) >= FiniteEnd ELSE Finished

\* NextInto: the window at the clock, with the voice's floor moved behind it.
TakeAt(at) == IF at >= voice.base /\ at < VoiceEnd(voice) THEN voice.buf[at - voice.base + 1] ELSE 0
Render(c) ==
    /\ cursor[c].registered /\ cursor[c].accepted /\ ~cursor[c].released
    /\ Anchored /\ ~EOF(c) /\ Ready(Aligned(c))
    /\ LET at == Aligned(c) IN
       /\ cursor' = [cursor EXCEPT ![c].clock = at + 1, ![c].from = IF @ < 0 THEN at ELSE @,
                                   ![c].since = IF cursor[c].from < 0 THEN Len(placed) ELSE @,
                                   ![c].skipped = @ \/ (cursor[c].from >= 0 /\ at > cursor[c].clock),
                                   ![c].heard = @ \cup ({<<TakeAt(at), at>>} \ {<<0, at>>})]
       /\ voice' = [voice EXCEPT !.floor = Most(@, at + 1)]
    /\ UNCHANGED <<bed, placed, group, now>>

\* ReleasePlayout, after the sink's last write.
Release(c) ==
    /\ cursor[c].accepted /\ ~cursor[c].released
    /\ cursor' = [cursor EXCEPT ![c].released = TRUE]
    /\ voice' = [voice EXCEPT !.consumers = @ - 1]
    /\ group' = [group EXCEPT !.active = @ - 1]
    /\ UNCHANGED <<bed, placed, now>>

\* WaitPlayout seals the set; it returns when the last consumer has released.
Seal == Finished /\ ~group.sealed /\ group' = [group EXCEPT !.sealed = TRUE]
        /\ UNCHANGED <<bed, voice, placed, cursor, now>>
WaitReturns == group.sealed /\ group.active = 0

Tick == now < MaxNow /\ now' = now + 1 /\ UNCHANGED <<bed, voice, placed, cursor, group>>

\* A segment starts in what the source has delivered, delayed as the bed is.
\* A sink stops when it is told the timeline is at its end, or at any time.
TimelineNext ==
    \/ BedAppend \/ Finish \/ Seal \/ Tick
    \/ \E at \in Delay .. bed.end, len \in {1, MaxTake} : VoiceAppend(at, len)
    \/ \E c \in Cursors : Begin(c) \/ Render(c) \/ Release(c)
-----------------------------------------------------------------------------
TimelineTypeOK ==
    /\ bed.base <= bed.end /\ voice.consumers = group.active
    /\ \A c \in Cursors : cursor[c].from <= cursor[c].clock
    /\ voice.buf \in Seq(0 .. MaxTakes)

\* A sink that plays hears every take the voice adds, whole, in its place, however
\* late it is added and whatever retention trims, unless the sink fell behind what
\* the bed keeps, or behind another sink when the voice was trimmed, or the trim
\* came before any sink had reached the voice's first take.
Instants(k) == placed[k][1] .. placed[k][1] + placed[k][2] - 1
TakesAreHeard ==
    \A c \in Cursors : cursor[c].from >= 0 /\ ~cursor[c].skipped =>
        \A k \in cursor[c].since + 1 .. Len(placed) : \A i \in Instants(k) :
            i < cursor[c].clock => <<k, i>> \in cursor[c].heard

\* track.go:80 "while any consumer is registered, audio its render clock has not
\* passed is never trimmed".
ConsumersAreFenced ==
    [][\A c \in Cursors : cursor[c].accepted /\ ~cursor[c].released /\ cursor[c].from >= 0 /\ voice.anchored =>
         \A k \in DOMAIN placed : \A i \in Instants(k) :
             i >= cursor[c].clock /\ i >= voice.base => i >= voice'.base]_timelineVars

\* A window is rendered only when due, and the wait of a finite end is not over
\* while a sink that joined before it still plays.
PlayoutInTime ==
    /\ \A c \in Cursors : cursor[c].from >= 0 => cursor[c].clock - 1 - bed.first + Delay <= now - bed.anchored
    /\ WaitReturns => \A c \in Cursors : cursor[c].accepted => cursor[c].released
=============================================================================
