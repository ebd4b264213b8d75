----------------------------- MODULE CallQueue -----------------------------
(***************************************************************************)
(* The dub of a call (core/pipeline voicequeue): takes queue behind each   *)
(* other, every sink drains them with a head of its own, and what exceeds  *)
(* the lead is shed, oldest first.  The samples ever queued are numbered   *)
(* from 0: the queue holds clock .. clock + len - 1, a head is relative.   *)
(***************************************************************************)
EXTENDS Naturals, FiniteSets

CONSTANTS Sinks,
          MaxLead, \* callVoiceLead, in samples: 0 leaves the queue unbounded
          MaxTake, MaxSamples, Window \* model bounds, and the samples of one pull

VARIABLES queue, \* clock, len, finished
          head,  \* of each cursor: head, registered, accepted, released, and what it has played
          crew   \* playoutGroup: active, sealed
queueVars == <<queue, head, crew>>

QueueInit ==
    /\ queue = [clock |-> 0, len |-> 0, finished |-> FALSE]
    /\ head = [s \in Sinks |-> [at |-> 0, registered |-> FALSE, accepted |-> FALSE, released |-> FALSE,
                                last |-> 0, pulled |-> "none"]]
    /\ crew = [active |-> 0, sealed |-> FALSE]

Lesser(a, b) == IF a < b THEN a ELSE b
Live == {s \in Sinks : head[s].accepted /\ ~head[s].released}
Consumed == IF Live = {} THEN 0
            ELSE CHOOSE n \in {Lesser(head[s].at, queue.len) : s \in Live} :
                    \A s \in Live : n <= Lesser(head[s].at, queue.len)

\* Append drops what every live cursor has played, then queues the take, then
\* sheds its stalest samples past the lead; discardLocked clamps every head.
Shed(len) == IF MaxLead > 0 /\ len > MaxLead THEN len - MaxLead ELSE 0
\* A Clamped that would move no head.
Unclamped(n) == head

Clamped(n) == [s \in Sinks |-> IF s \in Live THEN [head[s] EXCEPT !.at = IF @ > n THEN @ - n ELSE 0] ELSE head[s]]
Append(take) ==
    /\ ~queue.finished /\ queue.clock + queue.len + take <= MaxSamples
    /\ LET kept == queue.len - Consumed + take
           n == Consumed + Shed(kept)
       IN  /\ queue' = [queue EXCEPT !.clock = @ + n, !.len = kept - Shed(kept)]
           /\ head' = Clamped(n)
    /\ UNCHANGED crew

Finish == ~queue.finished /\ queue' = [queue EXCEPT !.finished = TRUE] /\ UNCHANGED <<head, crew>>

\* beginLocked: refused once the set is sealed.
Registered(s) == IF head[s].registered THEN head[s]
                 ELSE [head[s] EXCEPT !.registered = TRUE, !.accepted = ~crew.sealed]
Joined(s) == IF head[s].registered \/ crew.sealed THEN crew ELSE [crew EXCEPT !.active = @ + 1]

\* NextInto: what is pending, at most a window of it; pending or the end where there is none.
Pull(s) ==
    /\ head[s].pulled # "eof" /\ ~head[s].released
    /\ LET h == Registered(s)
           n == Lesser(Window, queue.len - h.at)
       IN  /\ head' = [head EXCEPT ![s] =
                 CASE ~h.accepted -> [h EXCEPT !.pulled = "eof"]
                   [] h.accepted /\ queue.len <= h.at -> [h EXCEPT !.pulled = IF queue.finished THEN "eof" ELSE "pending"]
                   [] OTHER -> [h EXCEPT !.at = @ + n, !.last = queue.clock + h.at + n, !.pulled = "ready"]]
           /\ crew' = Joined(s)
    /\ UNCHANGED queue

Release(s) ==
    /\ s \in Live
    /\ head' = [head EXCEPT ![s].released = TRUE]
    /\ crew' = [crew EXCEPT !.active = @ - 1]
    /\ UNCHANGED queue

Seal == queue.finished /\ ~crew.sealed /\ crew' = [crew EXCEPT !.sealed = TRUE] /\ UNCHANGED <<queue, head>>

QueueNext == \/ Finish \/ Seal \/ \E take \in 1 .. MaxTake : Append(take)
             \/ \E s \in Sinks : Pull(s) \/ Release(s)
-----------------------------------------------------------------------------
QueueTypeOK == /\ queue.len \in 0 .. MaxSamples /\ queue.clock \in 0 .. MaxSamples
               /\ crew.active = Cardinality(Live)

Position(s) == queue.clock + head[s].at
\* A sink's place in the dub never goes back, so that nothing is spoken twice; it
\* passes samples it has not played only where the lead was exceeded, and then
\* exactly the lead is left; at its end it has played all that was not shed.
OnlyTheStalestIsShed ==
    \A s \in Live : head[s].pulled # "none" /\ head[s].last > 0 =>
        /\ Position(s) >= head[s].last
        /\ Position(s) > head[s].last => head[s].at = 0 /\ queue.len = MaxLead
        /\ MaxLead > 0 => queue.len <= MaxLead
        /\ head[s].pulled = "eof" => queue.finished /\ head[s].at = queue.len
=============================================================================
