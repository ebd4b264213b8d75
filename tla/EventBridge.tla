----------------------------- MODULE EventBridge -----------------------------
(***************************************************************************)
(* What the daemon tells others of its sessions: the dashboard's event     *)
(* stream (control/sse.go, and daemon.svelte.ts, which applies it) and the *)
(* metrics gauges (cmd/prukka trackSessions).  Both read bounded channels  *)
(* that drop what does not fit; the stream repairs that with snapshots,    *)
(* the gauges by counting the store again at every notification.           *)
(***************************************************************************)
EXTENDS Naturals, Sequences, FiniteSets

CONSTANTS Slugs, States,  \* the sessions and the states one can be seen in
          SubscriberBuffer, MaxChanges

VARIABLES sessions, \* the store: the state of a session, or "none"
          stream,   \* the SSE connection: "off", "subscribed" or "open"
          feed,     \* its channel
          missed,   \* an event was dropped and no snapshot of an idle channel followed
          view,     \* what the dashboard shows
          ticks,    \* the channel of trackSessions, only its length
          counting, \* trackSessions took a notification and has yet to count
          gauge,    \* the published counts
          changes
vars == <<sessions, stream, feed, missed, view, ticks, counting, gauge, changes>>

Sse == <<stream, feed, missed, view>>
Meter == <<ticks, counting, gauge>>
Count(store) == [s \in States |-> Cardinality({x \in Slugs : store[x] = s})]
None == [x \in Slugs |-> "none"]

Init ==
    /\ sessions = None /\ stream = "off" /\ feed = <<>> /\ missed = FALSE /\ view = None
    /\ ticks = 0 /\ counting = TRUE /\ gauge = Count(None) /\ changes = 0

\* A write under the store's lock, and notify: a full channel misses it.
Notify(x) ==
    /\ changes < MaxChanges /\ changes' = changes + 1
    /\ \E s \in (States \union {"none"}) \ {sessions[x]} :
         /\ sessions' = [sessions EXCEPT ![x] = s]
         /\ feed' = IF stream # "off" /\ Len(feed) < SubscriberBuffer
                    THEN Append(feed, <<x, s>>) ELSE feed
    /\ missed' = (missed \/ (stream # "off" /\ Len(feed) = SubscriberBuffer))
    /\ ticks' = IF ticks < SubscriberBuffer THEN ticks + 1 ELSE ticks
    /\ UNCHANGED <<stream, view, counting, gauge>>

\* Subscribing before the snapshot.
Subscribe ==
    /\ stream = "off" /\ stream' = "subscribed" /\ feed' = <<>> /\ missed' = FALSE
    /\ UNCHANGED <<sessions, view, Meter, changes>>

\* A WriteSnapshot that would not repair a stream after a drop.
FirstSnapshotOnly ==
    /\ stream = "subscribed" /\ stream' = "open" /\ view' = sessions
    /\ missed' = (missed /\ feed # <<>>)
    /\ UNCHANGED <<sessions, feed, Meter, changes>>

\* The first snapshot, and one at every heartbeat; it leaves the channel alone:
\* events older than the snapshot follow it, and after a drop only the next
\* snapshot makes up for them.
WriteSnapshot ==
    /\ stream # "off" /\ stream' = "open" /\ view' = sessions
    /\ missed' = (missed /\ feed # <<>>)
    /\ UNCHANGED <<sessions, feed, Meter, changes>>

\* applySessionEvent replaces the one session: an event older than the
\* snapshot takes the view back until the channel is empty.
Forward ==
    /\ stream = "open" /\ feed # <<>> /\ feed' = Tail(feed)
    /\ view' = [view EXCEPT ![Head(feed)[1]] = Head(feed)[2]]
    /\ UNCHANGED <<sessions, stream, missed, Meter, changes>>

\* The client or the connection goes; EventSource comes back by itself.
Leave ==
    /\ stream # "off" /\ stream' = "off" /\ feed' = <<>>
    /\ UNCHANGED <<sessions, missed, view, Meter, changes>>

-----------------------------------------------------------------------------
Wake == /\ ~counting /\ ticks > 0 /\ counting' = TRUE /\ ticks' = ticks - 1
        /\ UNCHANGED <<sessions, Sse, gauge, changes>>
PublishCounts == /\ counting /\ counting' = FALSE /\ gauge' = Count(sessions)
                 /\ UNCHANGED <<sessions, Sse, ticks, changes>>

Next == \/ \E x \in Slugs : Notify(x)
        \/ Subscribe \/ WriteSnapshot \/ Forward \/ Leave \/ Wake \/ PublishCounts

\* One select serves the channel and the heartbeat: while both are ready Go
\* picks at random, so neither is passed over for ever.
Fairness == /\ WF_vars(Subscribe) /\ SF_vars(WriteSnapshot) /\ SF_vars(Forward)
            /\ WF_vars(Wake) /\ WF_vars(PublishCounts)
Spec == Init /\ [][Next]_vars
FairSpec == Spec /\ Fairness
-----------------------------------------------------------------------------
TypeOK == /\ Len(feed) <= SubscriberBuffer /\ ticks <= SubscriberBuffer
          /\ stream = "off" => feed = <<>>

\* With nothing on its way, the dashboard shows the store, unless an event did
\* not fit, and the gauges are the store's even then.
SettledViewIsTheStore ==
    /\ stream = "open" /\ feed = <<>> /\ ~missed => view = sessions
    /\ ticks = 0 /\ ~counting => gauge = Count(sessions)

\* Whatever was dropped, and however often the connection breaks, once the
\* sessions rest the dashboard comes to show them and goes on showing them.
ViewIsTheStore == view = sessions
=============================================================================
