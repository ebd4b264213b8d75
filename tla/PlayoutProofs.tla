---------------------------- MODULE PlayoutProofs ----------------------------
(***************************************************************************)
(* Why in a call only the stalest is shed, for any number of sinks, any    *)
(* lead, any window and any sequence of takes.  A live cursor that has     *)
(* played is where it left off, or at the first sample of a queue that is  *)
(* exactly as long as the lead: what it has not played and the queue no    *)
(* longer holds exceeded the lead.                                         *)
(*                                                                         *)
(* And what is proved of the registry in AudioRegistryProofs, carried over *)
(* to the behaviours in which the registry is one part of several.         *)
(***************************************************************************)
EXTENDS Playout, TLAPS, WellFoundedInduction

-----------------------------------------------------------------------------
(* The inductive invariant.                                                *)

Queue == [clock : Nat, len : Nat, finished : BOOLEAN]

Cursor == [at : Nat, registered : BOOLEAN, accepted : BOOLEAN, released : BOOLEAN,
           last : Nat, pulled : {"none", "pending", "ready", "eof"}]

CallTyped ==
  /\ queue \in Queue
  /\ head \in [Sinks -> Cursor]
  /\ crew.sealed \in BOOLEAN

\* What holds of a cursor h over a queue q.
HeadHolds(h, q) ==
  /\ ~h.registered => ~h.accepted /\ ~h.released /\ h.at = 0 /\ h.last = 0 /\ h.pulled = "none"
  /\ h.accepted /\ ~h.released =>
       /\ h.at <= q.len
       /\ h.pulled = "eof" => q.finished /\ h.at = q.len
       /\ h.last > 0 =>
            /\ q.clock + h.at >= h.last
            /\ q.clock + h.at > h.last => MaxLead > 0 /\ h.at = 0 /\ q.len = MaxLead

CallHolds ==
  /\ MaxLead > 0 => queue.len <= MaxLead
  /\ \A s \in Sinks : HeadHolds(head[s], queue)

CallInv == CallTyped /\ CallHolds

\* What the proofs need of the bounds.
LEMMA CallBounds ==
  /\ MaxLead \in Nat /\ MaxTake \in Nat /\ MaxSamples \in Nat
  /\ Window \in Nat /\ Window > 0
BY PlayoutAssumption DEF PlayoutAssumption

\* A set of naturals that is not empty has a least member.
LEMMA LeastNatural ==
  ASSUME NEW T \in SUBSET Nat, T # {}
  PROVE  \E k \in T : \A j \in T : k <= j
<1> DEFINE R == OpToRel(<, Nat)
<1>1. IsWellFoundedOn(R, Nat)
  BY NatLessThanWellFounded
<1>2. ASSUME NEW j \in Nat, NEW k \in Nat, <<j, k>> \notin R PROVE ~(j < k)
  BY <1>2 DEF OpToRel
<1> HIDE DEF R
<1>3. T \subseteq Nat
  OBVIOUS
<1>4. PICK k \in T : \A j \in T : <<j, k>> \notin R
  BY <1>1, <1>3, WFMin, Zenon
<1>5. ASSUME NEW j \in T PROVE k <= j
  <2>1. ~(j < k)
    BY <1>2, <1>3, <1>4, Zenon
  <2>2. QED
    BY <1>3, <2>1
<1>6. QED
  BY <1>5

\* What Append drops as played has been played by every live cursor.
LEMMA ConsumedIsPlayed ==
  ASSUME CallTyped
  PROVE  /\ Call!Consumed \in Nat /\ Call!Consumed <= queue.len
         /\ \A s \in Call!Live : Call!Consumed <= head[s].at
<1> DEFINE T == {Call!Lesser(head[s].at, queue.len) : s \in Call!Live}
<1>1. queue.len \in Nat /\ \A s \in Call!Live : s \in Sinks /\ head[s].at \in Nat
  BY DEF CallTyped, Queue, Cursor, Call!Live
<1>2. \A s \in Call!Live : /\ Call!Lesser(head[s].at, queue.len) \in Nat
                           /\ Call!Lesser(head[s].at, queue.len) <= head[s].at
                           /\ Call!Lesser(head[s].at, queue.len) <= queue.len
  BY <1>1 DEF Call!Lesser
<1>3. CASE Call!Live = {}
  BY <1>1, <1>3 DEF Call!Consumed
<1>4. CASE Call!Live # {}
  <2>1. T \in SUBSET Nat /\ T # {}
    BY <1>2, <1>4
  <2>2. \E n \in T : \A k \in T : n <= k
    BY <2>1, LeastNatural
  <2>3. \E n \in T : \A s \in Call!Live : n <= Call!Lesser(head[s].at, queue.len)
    BY <2>2
  <2>4. Call!Consumed = CHOOSE n \in T : \A s \in Call!Live : n <= Call!Lesser(head[s].at, queue.len)
    BY <1>4 DEF Call!Consumed
  <2>5. Call!Consumed \in T /\ \A s \in Call!Live : Call!Consumed <= Call!Lesser(head[s].at, queue.len)
    BY <2>3, <2>4
  <2>6. Call!Consumed \in Nat /\ Call!Consumed <= queue.len
    BY <1>1, <1>2, <2>5
  <2>7. QED
    BY <1>1, <1>2, <2>5, <2>6
<1>5. QED
  BY <1>3, <1>4

LEMMA CallInit == Call!QueueInit => CallInv
<1> SUFFICES ASSUME Call!QueueInit PROVE CallInv
  OBVIOUS
<1>1. CallTyped
  BY DEF Call!QueueInit, CallTyped, Queue, Cursor
<1>2. CallHolds
  BY CallBounds DEF Call!QueueInit, CallHolds, HeadHolds
<1>3. QED
  BY <1>1, <1>2 DEF CallInv

\* The take is queued: what is left of the queue, and where the heads are in it.
LEMMA CallAppend ==
  ASSUME CallInv, NEW take \in 1 .. MaxTake, Call!Append(take)
  PROVE  CallInv'
<1> DEFINE kept == queue.len - Call!Consumed + take
           shed == Call!Shed(kept)
           n == Call!Consumed + shed
<1>1. /\ CallTyped /\ CallHolds
      /\ queue \in Queue /\ queue.len \in Nat /\ queue.clock \in Nat /\ take \in Nat /\ take > 0
  BY CallBounds DEF CallInv, CallTyped, Queue
<1>2. /\ Call!Consumed \in Nat /\ Call!Consumed <= queue.len
      /\ \A s \in Call!Live : Call!Consumed <= head[s].at
  BY <1>1, ConsumedIsPlayed
<1>3. /\ kept \in Nat /\ shed \in Nat /\ shed <= kept
      /\ shed > 0 => MaxLead > 0 /\ kept - shed = MaxLead
      /\ MaxLead > 0 => kept - shed <= MaxLead
  BY <1>1, <1>2, CallBounds DEF Call!Shed
<1>4. /\ queue' = [queue EXCEPT !.clock = @ + n, !.len = kept - shed]
      /\ head' = Call!Clamped(n) /\ ~queue.finished
  BY DEF Call!Append
<1> HIDE DEF kept, shed
<1>5. n \in Nat /\ kept - shed \in Nat
  BY <1>2, <1>3
<1>6. /\ queue' \in Queue /\ queue'.clock = queue.clock + n /\ queue'.len = kept - shed
      /\ queue'.finished = queue.finished
  <2>1. PICK c \in Nat, l \in Nat : c = queue.clock + n /\ l = kept - shed
    BY <1>1, <1>5
  <2>2. queue' = [queue EXCEPT !.clock = c, !.len = l]
    BY <1>4, <2>1
  <2>3. queue' \in Queue /\ queue'.clock = c /\ queue'.len = l /\ queue'.finished = queue.finished
    BY <1>1, <2>2 DEF Queue
  <2>4. QED
    BY <2>1, <2>3
<1>7. ASSUME NEW s \in Sinks
      PROVE  head'[s] \in Cursor /\ HeadHolds(head'[s], queue')
  <2>1. head[s] \in Cursor /\ HeadHolds(head[s], queue)
    BY <1>1 DEF CallTyped, CallHolds
  <2>2. head'[s] = IF s \in Call!Live
                     THEN [head[s] EXCEPT !.at = IF @ > n THEN @ - n ELSE 0] ELSE head[s]
    BY <1>4 DEF Call!Clamped
  <2>3. CASE s \notin Call!Live
    BY <2>1, <2>2, <2>3 DEF Call!Live, HeadHolds
  <2>4. CASE s \in Call!Live
    <3>1. head[s].accepted /\ ~head[s].released /\ head[s].at \in Nat /\ head[s].last \in Nat
      BY <2>1, <2>4 DEF Call!Live, Cursor
    <3>2. PICK at \in Nat : at = IF head[s].at > n THEN head[s].at - n ELSE 0
      BY <1>5, <3>1
    <3>3. head'[s] = [head[s] EXCEPT !.at = at]
      BY <2>2, <2>4, <3>2
    <3>4. /\ head'[s] \in Cursor /\ head'[s].at = at /\ head'[s].last = head[s].last
          /\ head'[s].registered = head[s].registered /\ head'[s].accepted = head[s].accepted
          /\ head'[s].released = head[s].released /\ head'[s].pulled = head[s].pulled
      BY <2>1, <3>3 DEF Cursor
    <3>5. /\ head[s].at <= queue.len /\ head[s].registered /\ head[s].pulled # "eof"
          /\ head[s].last > 0 =>
               /\ queue.clock + head[s].at >= head[s].last
               /\ queue.clock + head[s].at > head[s].last =>
                    MaxLead > 0 /\ head[s].at = 0 /\ queue.len = MaxLead
      BY <1>4, <2>1, <3>1 DEF HeadHolds
    <3>6. Call!Consumed <= head[s].at
      BY <1>2, <2>4
    <3>7. at <= queue'.len
      BY <1>1, <1>2, <1>3, <1>6, <3>1, <3>2, <3>5 DEF kept
    <3>8. ASSUME head[s].last > 0
          PROVE  /\ queue'.clock + at >= head[s].last
                 /\ queue'.clock + at > head[s].last => MaxLead > 0 /\ at = 0 /\ queue'.len = MaxLead
      <4>1. CASE head[s].at >= n /\ queue.clock + head[s].at = head[s].last
        BY <1>1, <1>5, <1>6, <3>1, <3>2, <4>1
      <4>2. CASE head[s].at >= n /\ queue.clock + head[s].at # head[s].last
        <5>1. head[s].at = 0 /\ queue.len = MaxLead /\ MaxLead > 0
          BY <1>1, <3>1, <3>5, <3>8, <4>2
        <5>2. Call!Consumed = 0 /\ shed = 0
          BY <1>2, <1>3, <3>6, <4>2, <5>1
        <5>3. kept = MaxLead + take
          BY <1>1, <5>1, <5>2 DEF kept
        <5>4. QED
          BY <1>1, <1>3, <5>1, <5>2, <5>3, CallBounds
      <4>3. CASE head[s].at < n
        <5>1. shed > 0
          BY <1>2, <1>3, <3>1, <3>6, <4>3
        <5>2. at = 0 /\ queue'.len = MaxLead /\ MaxLead > 0
          BY <1>3, <1>5, <1>6, <3>1, <3>2, <4>3, <5>1
        <5>3. QED
          BY <1>1, <1>5, <1>6, <3>1, <3>5, <3>8, <4>3, <5>2
      <4>4. QED
        BY <1>5, <3>1, <4>1, <4>2, <4>3
    <3>9. QED
      BY <3>1, <3>4, <3>5, <3>7, <3>8 DEF HeadHolds
  <2>5. QED
    BY <2>3, <2>4
<1>8. head' \in [Sinks -> Cursor]
  BY <1>4, <1>7 DEF Call!Clamped
<1>9. MaxLead > 0 => queue'.len <= MaxLead
  BY <1>3, <1>6
<1>10. crew' = crew
  BY DEF Call!Append
<1>11. QED
  BY <1>6, <1>7, <1>8, <1>9, <1>10 DEF CallInv, CallTyped, CallHolds

\* The cursor a pull works on: its first pull registers it, where the queue begins.
LEMMA CallPullCursor ==
  ASSUME CallInv, NEW s \in Sinks, head[s].pulled # "eof", ~head[s].released
  PROVE  /\ Call!Registered(s) \in Cursor
         /\ Call!Registered(s).registered /\ ~Call!Registered(s).released
         /\ Call!Registered(s).pulled = head[s].pulled
         /\ HeadHolds(Call!Registered(s), queue)
<1>1. /\ head[s] \in Cursor /\ HeadHolds(head[s], queue)
      /\ queue.len \in Nat /\ queue.clock \in Nat /\ crew.sealed \in BOOLEAN
  BY DEF CallInv, CallTyped, CallHolds, Queue
<1>2. CASE head[s].registered
  BY <1>1, <1>2 DEF Call!Registered
<1>3. CASE ~head[s].registered
  <2>1. PICK a \in BOOLEAN : a = ~crew.sealed
    BY <1>1
  <2>2. Call!Registered(s) = [head[s] EXCEPT !.registered = TRUE, !.accepted = a]
    BY <1>3, <2>1 DEF Call!Registered
  <2>3. /\ Call!Registered(s) \in Cursor
        /\ Call!Registered(s).registered = TRUE /\ Call!Registered(s).at = head[s].at
        /\ Call!Registered(s).released = head[s].released /\ Call!Registered(s).last = head[s].last
        /\ Call!Registered(s).pulled = head[s].pulled
    BY <1>1, <2>2 DEF Cursor
  <2>4. head[s].at = 0 /\ head[s].last = 0 /\ head[s].pulled = "none"
    BY <1>1, <1>3 DEF HeadHolds
  <2>5. QED
    BY <1>1, <2>3, <2>4 DEF HeadHolds
<1>4. QED
  BY <1>2, <1>3

\* A pull moves one head, over what it plays.
LEMMA CallPull ==
  ASSUME CallInv, NEW s \in Sinks, Call!Pull(s)
  PROVE  CallInv'
<1> DEFINE h == Call!Registered(s)
           n == Call!Lesser(Window, queue.len - h.at)
           out == CASE ~h.accepted -> [h EXCEPT !.pulled = "eof"]
                    [] h.accepted /\ queue.len <= h.at ->
                         [h EXCEPT !.pulled = IF queue.finished THEN "eof" ELSE "pending"]
                    [] OTHER -> [h EXCEPT !.at = @ + n, !.last = queue.clock + h.at + n, !.pulled = "ready"]
<1>1. /\ head[s].pulled # "eof" /\ ~head[s].released
      /\ head' = [head EXCEPT ![s] = out] /\ crew' = Call!Joined(s) /\ queue' = queue
  BY DEF Call!Pull, queueVars
<1>2. /\ h \in Cursor /\ h.registered /\ ~h.released /\ h.pulled # "eof" /\ HeadHolds(h, queue)
  BY <1>1, CallPullCursor
<1>3. /\ queue \in Queue /\ queue.len \in Nat /\ queue.clock \in Nat /\ queue.finished \in BOOLEAN
      /\ h.at \in Nat /\ h.last \in Nat /\ h.accepted \in BOOLEAN
      /\ head \in [Sinks -> Cursor] /\ CallHolds
  BY <1>2 DEF CallInv, CallTyped, Queue, Cursor
<1> HIDE DEF h
<1>4. out \in Cursor /\ HeadHolds(out, queue)
  <2>1. CASE ~h.accepted
    <3>1. out = [h EXCEPT !.pulled = "eof"]
      BY <2>1
    <3> HIDE DEF out
    <3>2. /\ out \in Cursor /\ out.registered = h.registered /\ out.accepted = h.accepted
      BY <1>2, <3>1 DEF Cursor
    <3>3. QED
      BY <1>2, <2>1, <3>2 DEF HeadHolds
  <2>2. CASE h.accepted /\ queue.len <= h.at
    <3>1. PICK p \in {"eof", "pending"} : p = IF queue.finished THEN "eof" ELSE "pending"
      OBVIOUS
    <3>2. out = [h EXCEPT !.pulled = p]
      BY <2>2, <3>1
    <3> HIDE DEF out
    <3>3. /\ out \in Cursor /\ out.registered = h.registered /\ out.accepted = h.accepted
          /\ out.released = h.released /\ out.at = h.at /\ out.last = h.last /\ out.pulled = p
      BY <1>2, <3>2 DEF Cursor
    <3>4. h.at = queue.len
      BY <1>2, <1>3, <2>2 DEF HeadHolds
    <3>5. p = "eof" => queue.finished
      BY <3>1
    <3>6. QED
      BY <1>2, <1>3, <2>2, <3>3, <3>4, <3>5 DEF HeadHolds
  <2>3. CASE h.accepted /\ ~(queue.len <= h.at)
    <3>1. n \in Nat /\ n > 0 /\ h.at + n <= queue.len
      BY <1>3, <2>3, CallBounds DEF Call!Lesser
    <3>2. PICK at \in Nat, l \in Nat : at = h.at + n /\ l = queue.clock + h.at + n
      BY <1>3, <3>1
    <3>3. out = [h EXCEPT !.at = at, !.last = l, !.pulled = "ready"]
      BY <2>3, <3>2
    <3> HIDE DEF out, n
    <3>4. /\ out \in Cursor /\ out.registered = h.registered /\ out.accepted = h.accepted
          /\ out.released = h.released /\ out.at = at /\ out.last = l /\ out.pulled = "ready"
      BY <1>2, <3>3 DEF Cursor
    <3>5. queue.clock + at = l
      BY <1>3, <3>1, <3>2
    <3>6. QED
      BY <1>2, <1>3, <3>1, <3>2, <3>4, <3>5 DEF HeadHolds
  <2>4. QED
    BY <1>3, <2>1, <2>2, <2>3
<1> HIDE DEF out
<1>5. /\ head' \in [Sinks -> Cursor]
      /\ \A t \in Sinks : head'[t] = IF t = s THEN out ELSE head[t]
  BY <1>1, <1>3, <1>4
<1>6. crew'.sealed \in BOOLEAN
  BY <1>1 DEF CallInv, CallTyped, Call!Joined
<1>7. CallHolds'
  BY <1>1, <1>3, <1>4, <1>5 DEF CallHolds
<1>8. QED
  BY <1>1, <1>3, <1>5, <1>6, <1>7 DEF CallInv, CallTyped

\* A cursor that is released no longer counts.
LEMMA CallRelease ==
  ASSUME CallInv, NEW s \in Sinks, Call!Release(s)
  PROVE  CallInv'
<1>1. /\ head[s] \in Cursor /\ HeadHolds(head[s], queue) /\ head[s].accepted /\ ~head[s].released
      /\ head \in [Sinks -> Cursor] /\ queue \in Queue /\ crew.sealed \in BOOLEAN /\ CallHolds
  BY DEF CallInv, CallTyped, CallHolds, Call!Release, Call!Live
<1>2. PICK r : r = [head[s] EXCEPT !.released = TRUE]
  OBVIOUS
<1>3. /\ r \in Cursor /\ r.released = TRUE /\ r.registered = head[s].registered
  BY <1>1, <1>2 DEF Cursor
<1>4. head[s].registered
  BY <1>1 DEF HeadHolds
<1>5. HeadHolds(r, queue)
  BY <1>3, <1>4 DEF HeadHolds
<1>6. head' = [head EXCEPT ![s] = r] /\ queue' = queue /\ crew'.sealed = crew.sealed
  BY <1>2 DEF Call!Release
<1>7. /\ head' \in [Sinks -> Cursor]
      /\ \A t \in Sinks : head'[t] = IF t = s THEN r ELSE head[t]
  BY <1>1, <1>3, <1>6
<1>8. CallHolds'
  BY <1>1, <1>5, <1>6, <1>7 DEF CallHolds
<1>9. QED
  BY <1>1, <1>6, <1>7, <1>8 DEF CallInv, CallTyped

\* The lane has spoken its last take.
LEMMA CallFinish ==
  ASSUME CallInv, Call!Finish
  PROVE  CallInv'
<1>1. PICK q : q = [queue EXCEPT !.finished = TRUE]
  OBVIOUS
<1>2. queue' = q /\ head' = head /\ crew' = crew
  BY <1>1 DEF Call!Finish
<1>3. q \in Queue /\ q.finished = TRUE /\ q.clock = queue.clock /\ q.len = queue.len
  BY <1>1 DEF CallInv, CallTyped, Queue
<1>4. \A s \in Sinks : HeadHolds(head[s], queue) => HeadHolds(head[s], q)
  BY <1>3 DEF HeadHolds
<1>5. QED
  BY <1>2, <1>3, <1>4 DEF CallInv, CallTyped, CallHolds

LEMMA CallSeal ==
  ASSUME CallInv, Call!Seal
  PROVE  CallInv'
<1>1. queue' = queue /\ head' = head /\ crew'.sealed \in BOOLEAN
  BY DEF Call!Seal, CallInv, CallTyped
<1>2. QED
  BY <1>1 DEF CallInv, CallTyped, CallHolds

LEMMA CallNext ==
  ASSUME CallInv, Call!QueueNext
  PROVE  CallInv'
BY CallAppend, CallPull, CallRelease, CallFinish, CallSeal DEF Call!QueueNext

-----------------------------------------------------------------------------
(* The parts share no state: a step of one leaves the others where they    *)
(* are.                                                                    *)

LEMMA CallAlways == Init /\ [][Next]_vars => []CallInv
<1>1. Init => CallInv
  BY CallInit DEF Init
<1>2. CallInv /\ [Next]_vars => CallInv'
  <2> SUFFICES ASSUME CallInv, [Next]_vars PROVE CallInv'
    OBVIOUS
  <2>1. CASE CallStep
    BY <2>1, CallNext DEF CallStep
  <2>2. CASE UNCHANGED queueVars
    BY <2>2 DEF queueVars, CallInv, CallTyped, CallHolds
  <2>3. QED
    BY <2>1, <2>2 DEF Next, vars, CommitStep, TimelineStep, CaptionsStep, RegistryStep
<1>3. QED
  BY <1>1, <1>2, PTL

\* voicequeue.Append, discardLocked, NextInto, beginLocked: a live cursor's place in
\* the dub never goes back, it passes samples it has not played only where the lead
\* was exceeded, and at its end it has played all that was not shed.
THEOREM CallsShedTheStalest == Spec => []OnlyTheStalestIsShed
<1>1. ASSUME CallInv
      PROVE  OnlyTheStalestIsShed
  <2> SUFFICES ASSUME NEW s \in Call!Live, head[s].last > 0
               PROVE  /\ Call!Position(s) >= head[s].last
                      /\ Call!Position(s) > head[s].last => head[s].at = 0 /\ queue.len = MaxLead
                      /\ MaxLead > 0 => queue.len <= MaxLead
                      /\ head[s].pulled = "eof" => queue.finished /\ head[s].at = queue.len
    BY Zenon DEF OnlyTheStalestIsShed, Of, Call!OnlyTheStalestIsShed
  <2>1. s \in Sinks /\ head[s].accepted /\ ~head[s].released /\ HeadHolds(head[s], queue)
    BY <1>1 DEF Call!Live, CallInv, CallHolds
  <2>2. MaxLead > 0 => queue.len <= MaxLead
    BY <1>1 DEF CallInv, CallHolds
  <2>3. QED
    BY <2>1, <2>2 DEF HeadHolds, Call!Position
<1>2. QED
  BY <1>1, CallAlways, PTL DEF Spec

-----------------------------------------------------------------------------
(* The registry.  AudioRegistryProofs proves it of its own module; here is *)
(* that instance of it, and that the two have the same steps.              *)

Proved == INSTANCE AudioRegistryProofs

LEMMA RegistryConstants == Proved!AudioAssumption
BY RegistryAssumption DEF Proved!AudioAssumption, Registry!AudioAssumption

LEMMA SameInit == Registry!Init => Proved!Init
BY DEF Registry!Init, Proved!Init, Registry!Pair, Proved!Pair, Registry!JobId, Proved!JobId,
       Registry!LaneOff, Proved!LaneOff, Registry!Idle, Proved!Idle, Registry!Thread,
       Proved!Thread, Registry!Creation, Proved!Creation, Registry!NoReplay, Proved!NoReplay

\* Step by step.
LEMMA SameSteps == Registry!Next => Proved!Next
<1> USE DEF Registry!Cardinality, Proved!Cardinality, Registry!IsFiniteSet, Proved!IsFiniteSet,
        Registry!Pair, Proved!Pair, Registry!PushId, Proved!PushId, Registry!JobId,
        Proved!JobId, Registry!PairOf, Proved!PairOf, Registry!SlugOf, Proved!SlugOf,
        Registry!SelfFed, Proved!SelfFed, Registry!Creation, Proved!Creation, Registry!Thread,
        Proved!Thread, Registry!gateVars, Proved!gateVars, Registry!jobVars, Proved!jobVars,
        Registry!liveVars, Proved!liveVars, Registry!Idle, Proved!Idle, Registry!NoReplay,
        Proved!NoReplay, Registry!LaneOff, Proved!LaneOff, Registry!Gens, Proved!Gens,
        Registry!Holding, Proved!Holding, Registry!StartMuFree, Proved!StartMuFree,
        Registry!liveGateLocked, Proved!liveGateLocked, Registry!PushTargets,
        Proved!PushTargets, Registry!admitPushTargetLocked, Proved!admitPushTargetLocked,
        Registry!pairGone, Proved!pairGone, Registry!Finished, Proved!Finished, Registry!Alive,
        Proved!Alive, Registry!LaneAt, Proved!LaneAt, Registry!Pending, Proved!Pending,
        Registry!JobClosed, Proved!JobClosed, Registry!CallAt, Proved!CallAt, Registry!Return,
        Proved!Return, Registry!Admissible, Proved!Admissible, Registry!Forgotten,
        Proved!Forgotten, Registry!JobAt, Proved!JobAt, Registry!JobOnly, Proved!JobOnly,
        Registry!IsDevice, Proved!IsDevice, Registry!StreamAt, Proved!StreamAt
<1>1. \A s : Registry!LaneStarts(s) => Proved!LaneStarts(s)
  BY DEF Registry!LaneStarts, Proved!LaneStarts
<1>2. \A s, l : Registry!Create(s, l) => Proved!Create(s, l)
  BY DEF Registry!Create, Proved!Create
<1>3. \A s : Registry!Created(s) => Proved!Created(s)
  BY DEF Registry!Created, Proved!Created
<1>4. \A s, l : Registry!StartHLS(s, l) => Proved!StartHLS(s, l)
  BY DEF Registry!StartHLS, Proved!StartHLS
<1>5. \A s : Registry!LaneRuns(s) => Proved!LaneRuns(s)
  BY DEF Registry!LaneRuns, Proved!LaneRuns
<1>6. \A s : Registry!LaneEnds(s) => Proved!LaneEnds(s)
  BY DEF Registry!LaneEnds, Proved!LaneEnds
<1>7. \A s : Registry!FinishSnapshot(s) => Proved!FinishSnapshot(s)
  BY DEF Registry!FinishSnapshot, Proved!FinishSnapshot
<1>8. \A s : Registry!Played(s) => Proved!Played(s)
  BY DEF Registry!Played, Proved!Played
<1>9. \A s : Registry!PlayoutCut(s) => Proved!PlayoutCut(s)
  BY DEF Registry!PlayoutCut, Proved!PlayoutCut
<1>10. \A s : Registry!LoopDrops(s) => Proved!LoopDrops(s)
  BY DEF Registry!LoopDrops, Proved!LoopDrops
<1>11. \A s : Registry!RetireGate(s) => Proved!RetireGate(s)
  BY DEF Registry!RetireGate, Proved!RetireGate
<1>12. \A s : Registry!ReplaysDrained(s) => Proved!ReplaysDrained(s)
  BY DEF Registry!ReplaysDrained, Proved!ReplaysDrained
<1>13. \A s : Registry!stopSession(s) => Proved!stopSession(s)
  BY DEF Registry!stopSession, Proved!stopSession
<1>14. \A s : Registry!ResetReturns(s) => Proved!ResetReturns(s)
  BY DEF Registry!ResetReturns, Proved!ResetReturns
<1>15. \A s : Registry!forgetRoutes(s) => Proved!forgetRoutes(s)
  BY DEF Registry!forgetRoutes, Proved!forgetRoutes
<1>16. \A c, id : Registry!Push(c, id) => Proved!Push(c, id)
  BY DEF Registry!Push, Proved!Push
<1>17. \A t : Registry!Dispatch(t) => Proved!Dispatch(t)
  BY DEF Registry!Dispatch, Proved!Dispatch
<1>18. \A t : Registry!beginStart(t) => Proved!beginStart(t)
  <2>1. Registry!StartMuFree = Proved!StartMuFree
    OBVIOUS
  <2>2. \A id : Registry!admitPushTargetLocked(id) = Proved!admitPushTargetLocked(id)
    OBVIOUS
  <2>3. \A s : Registry!liveGateLocked(s) = Proved!liveGateLocked(s)
    OBVIOUS
  <2>4. \A t, answer : Registry!Return(t, answer) = Proved!Return(t, answer)
    OBVIOUS
  <2> HIDE DEF Registry!StartMuFree, Proved!StartMuFree, Registry!admitPushTargetLocked,
           Proved!admitPushTargetLocked, Registry!liveGateLocked, Proved!liveGateLocked,
           Registry!Return, Proved!Return
  <2>5. QED
    BY <2>1, <2>2, <2>3, <2>4 DEF Registry!beginStart, Proved!beginStart
<1>19. \A t : Registry!CancelOld(t) => Proved!CancelOld(t)
  BY DEF Registry!CancelOld, Proved!CancelOld
<1>20. \A t : Registry!OldReaped(t) => Proved!OldReaped(t)
  BY DEF Registry!OldReaped, Proved!OldReaped
<1>21. \A t : Registry!Start(t) => Proved!Start(t)
  BY DEF Registry!Start, Proved!Start
<1>22. \A t : Registry!Admit(t) => Proved!Admit(t)
  BY DEF Registry!Admit, Proved!Admit
<1>23. \A t : Registry!AdmitRefused(t) => Proved!AdmitRefused(t)
  BY DEF Registry!AdmitRefused, Proved!AdmitRefused
<1>24. \A id : Registry!ProcessDies(id) => Proved!ProcessDies(id)
  BY DEF Registry!ProcessDies, Proved!ProcessDies
<1>25. \A t : Registry!rememberPush(t) => Proved!rememberPush(t)
  BY DEF Registry!rememberPush, Proved!rememberPush
<1>26. \A r : Registry!pushRoutes(r) => Proved!pushRoutes(r)
  BY DEF Registry!pushRoutes, Proved!pushRoutes
<1>27. \A r, id : Registry!Relaunch(r, id) => Proved!Relaunch(r, id)
  BY DEF Registry!Relaunch, Proved!Relaunch
<1>28. \A r : Registry!ReplayDone(r) => Proved!ReplayDone(r)
  BY DEF Registry!ReplayDone, Proved!ReplayDone
<1>29. \A g : Registry!FeedEnds(g) => Proved!FeedEnds(g)
  BY DEF Registry!FeedEnds, Proved!FeedEnds
<1>30. \A g : Registry!FeedFails(g) => Proved!FeedFails(g)
  BY DEF Registry!FeedFails, Proved!FeedFails
<1>31. \A g : Registry!ReattachGone(g) => Proved!ReattachGone(g)
  BY DEF Registry!ReattachGone, Proved!ReattachGone
<1>32. \A g : Registry!Reattach(g) => Proved!Reattach(g)
  BY DEF Registry!Reattach, Proved!Reattach
<1>33. \A g : Registry!ReopenEnds(g) => Proved!ReopenEnds(g)
  BY DEF Registry!ReopenEnds, Proved!ReopenEnds
<1>34. \A g : Registry!ReopenTries(g) => Proved!ReopenTries(g)
  BY DEF Registry!ReopenTries, Proved!ReopenTries
<1>35. \A g : Registry!Restart(g) => Proved!Restart(g)
  BY DEF Registry!Restart, Proved!Restart
<1>36. \A g : Registry!CloseDone(g) => Proved!CloseDone(g)
  BY DEF Registry!CloseDone, Proved!CloseDone
<1>37. \A g : Registry!retireJob(g) => Proved!retireJob(g)
  BY DEF Registry!retireJob, Proved!retireJob
<1>38. \A l, p : Registry!OpenStream(l, p) => Proved!OpenStream(l, p)
  BY DEF Registry!OpenStream, Proved!OpenStream
<1>39. \A l : Registry!StreamEnds(l) => Proved!StreamEnds(l)
  BY DEF Registry!StreamEnds, Proved!StreamEnds
<1>40. \A l : Registry!CloseStream(l) => Proved!CloseStream(l)
  BY DEF Registry!CloseStream, Proved!CloseStream
<1> HIDE DEF Registry!Cardinality, Proved!Cardinality, Registry!IsFiniteSet, Proved!IsFiniteSet,
         Registry!gateVars, Proved!gateVars, Registry!jobVars, Proved!jobVars, Registry!liveVars,
         Proved!liveVars, Registry!Idle, Proved!Idle, Registry!NoReplay, Proved!NoReplay,
         Registry!LaneOff, Proved!LaneOff, Registry!Holding, Proved!Holding,
         Registry!StartMuFree, Proved!StartMuFree, Registry!liveGateLocked,
         Proved!liveGateLocked, Registry!PushTargets, Proved!PushTargets,
         Registry!admitPushTargetLocked, Proved!admitPushTargetLocked, Registry!pairGone,
         Proved!pairGone, Registry!Finished, Proved!Finished, Registry!Alive, Proved!Alive,
         Registry!LaneAt, Proved!LaneAt, Registry!Pending, Proved!Pending, Registry!JobClosed,
         Proved!JobClosed, Registry!CallAt, Proved!CallAt, Registry!Return, Proved!Return,
         Registry!Admissible, Proved!Admissible, Registry!Forgotten, Proved!Forgotten,
         Registry!JobAt, Proved!JobAt, Registry!JobOnly, Proved!JobOnly, Registry!IsDevice,
         Proved!IsDevice, Registry!StreamAt, Proved!StreamAt
<1>41. \A s : Registry!LaneWorks(s) => Proved!LaneWorks(s)
  BY <1>2, <1>4, <1>3, <1>5, <1>7, <1>8, <1>11, <1>12, <1>13, <1>14, <1>15
  DEF Registry!LaneWorks, Proved!LaneWorks
<1>42. \A t : Registry!CallWorks(t) => Proved!CallWorks(t)
  BY <1>17, <1>18, <1>19, <1>20, <1>21, <1>22, <1>23, <1>25
  DEF Registry!CallWorks, Proved!CallWorks
<1>43. \A r : Registry!ReplayWorks(r) => Proved!ReplayWorks(r)
  BY <1>26, <1>27, <1>28
  DEF Registry!ReplayWorks, Proved!ReplayWorks
<1>44. \A g : Registry!JobWorks(g) => Proved!JobWorks(g)
  BY <1>29, <1>31, <1>32, <1>33, <1>34, <1>35, <1>36, <1>37
  DEF Registry!JobWorks, Proved!JobWorks
<1>45. Registry!Environment => Proved!Environment
  BY <1>1, <1>6, <1>9, <1>10, <1>16, <1>30, <1>24, <1>39, <1>40, <1>38
  DEF Registry!Environment, Proved!Environment
<1>46. QED
  BY <1>41, <1>42, <1>43, <1>44, <1>45 DEF Registry!Next, Proved!Next

\* The other parts leave the registry where it is.
LEMMA RegistrySteps == [Next]_vars => [Proved!Next]_(Proved!vars)
<1> USE DEF Proved!vars, Proved!liveVars, Proved!gateVars, Proved!jobVars, registryVars
<1>1. CASE RegistryStep
  BY <1>1, SameSteps DEF RegistryStep
<1>2. CASE CommitStep \/ TimelineStep \/ CallStep \/ CaptionsStep
  BY <1>2 DEF CommitStep, TimelineStep, CallStep, CaptionsStep
<1>3. CASE UNCHANGED vars
  BY <1>3 DEF vars
<1>4. QED
  BY <1>1, <1>2, <1>3 DEF Next

LEMMA RegistryRefines == Spec => Proved!Spec
<1>1. Init => Proved!Init
  BY SameInit DEF Init
<1>2. QED
  BY <1>1, RegistrySteps, PTL DEF Spec, Proved!Spec

\* launchMixFedJob, launchSelfFedJob, retireJob and Reset: a push target has one
\* process at work, whose job the registry owns until it is gone and no Reset leaves
\* behind, and every process that outlives its owner is a cancelled native video.
THEOREM TargetsAreOwned == Spec => []JobsAreOwned
<1>1. Proved!Spec => []Proved!JobsAreOwned
  BY Proved!TheRegistryOwnsItsJobs, RegistryConstants
<1>2. Proved!JobsAreOwned => JobsAreOwned
  <2> USE DEF Registry!Gens, Proved!Gens, Registry!Thread, Proved!Thread, Registry!Creation, Proved!Creation,
        Registry!SlugOf, Proved!SlugOf, Registry!JobClosed, Proved!JobClosed,
        Registry!Holding, Proved!Holding, Registry!Alive, Proved!Alive
  <2>1. Proved!OneProcessAtWork => Registry!OneProcessAtWork
    BY DEF Registry!OneProcessAtWork, Proved!OneProcessAtWork
  <2>2. Proved!NoJobEscapes => Registry!NoJobEscapes
    BY DEF Registry!NoJobEscapes, Proved!NoJobEscapes
  <2>3. Proved!OnlyVideoIsLeftToDie => Registry!OnlyVideoIsLeftToDie
    BY DEF Registry!OnlyVideoIsLeftToDie, Proved!OnlyVideoIsLeftToDie, Registry!SelfFed, Proved!SelfFed
  <2>4. Proved!QuietAfterReset => Registry!QuietAfterReset
    BY DEF Registry!QuietAfterReset, Proved!QuietAfterReset, Registry!SelfFed, Proved!SelfFed
  <2>5. QED
    BY <2>1, <2>2, <2>3, <2>4 DEF JobsAreOwned, Of, Proved!JobsAreOwned
<1>3. QED
  BY <1>1, <1>2, RegistryRefines, PTL

\* rememberPush: what a Drop ran through is remembered only by a session that was
\* created again.
THEOREM DroppedStayForgotten == Spec => DroppedPushForgotten
<1>1. Proved!Spec => Proved!DroppedPushForgotten
  BY Proved!DroppedPushesAreForgotten, RegistryConstants
<1>2. Proved!DroppedPushForgotten => DroppedPushForgotten
  <2>1. [\A t \in Proved!Thread :
           /\ call[t].pc = "remember" /\ call[t].stale
           /\ call'[t].pc = "end"
           /\ routes' # routes
           => gates[Proved!SlugOf(call[t].id)] # 0]_(Proved!vars)
        => [\A t \in Registry!Thread :
           /\ call[t].pc = "remember" /\ call[t].stale
           /\ call'[t].pc = "end"
           /\ routes' # routes
           => gates[Registry!SlugOf(call[t].id)] # 0]_(Registry!vars)
    BY DEF Registry!Thread, Proved!Thread, Registry!Creation, Proved!Creation, Registry!SlugOf,
       Proved!SlugOf, Registry!vars, Proved!vars, Registry!liveVars, Proved!liveVars,
       Registry!gateVars, Proved!gateVars, Registry!jobVars, Proved!jobVars
  <2>2. QED
    BY <2>1, PTL DEF DroppedPushForgotten, Registry!DroppedPushForgotten, Proved!DroppedPushForgotten
<1>3. QED
  BY <1>1, <1>2, RegistryRefines, PTL
=============================================================================
