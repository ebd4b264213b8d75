-------------------------- MODULE LanePartsProofs --------------------------
(***************************************************************************)
(* Theorems about the translation calls lanes make (ProviderCalls), in the *)
(* composition LaneParts: for every set of lanes and calls, every number   *)
(* of workers and helpers, every bound of the queue and every plan.        *)
(***************************************************************************)
EXTENDS LaneParts, FiniteSetTheorems, TLAPS

-----------------------------------------------------------------------------
(* The shape of the state.                                                 *)

Who == Calls \cup {"none"}

Pcs == MT!InJob \cup {"idle", "admit", "enqueue", "queued", "returned"}

CallState == [pc : Pcs, proc : 0 .. MaxSpawn, stale : 0 .. MaxSpawn, attempt : Nat, ctx : BOOLEAN,
              end : {"none", "ok", "closed", "cancelled", "failed"}, got : Who]

HelperState == [at : {"unborn", "live", "stopping", "done"}, gate : Who, asked : Who, reply : Who]

\* All of it but the counts, which follow from what they count.
CallsShaped ==
  /\ call \in [Calls -> CallState]
  /\ queue \in Seq(Calls) /\ running \subseteq Calls
  /\ closing \in [Lanes -> {"open", "admitted", "reaping", "closed"}]
  /\ helpers \in [Lanes -> [1 .. MaxSpawn -> HelperState]]
  /\ cached \in [Lanes -> 0 .. MaxSpawn] /\ spawned \in [Lanes -> 0 .. MaxSpawn]
  /\ poolEnd \in {"open", "closing", "done"}
  /\ plan \in Plans

CallsTyped == CallsShaped /\ inflight \in Nat /\ tasks \in [Lanes -> Nat]

\* What the proofs need of the constants.
LEMMA Bounds ==
  /\ IsFiniteSet(Calls) /\ "none" \notin Calls /\ MaxSpawn \in Nat
  /\ CallsTyped => \A c \in Calls : MT!LaneOf(c) \in Lanes
  /\ CallsTyped => plan.spawns \in 0 .. MaxSpawn
BY PlansAssumption DEF PlansAssumption, CallsTyped, CallsShaped, MT!LaneOf

-----------------------------------------------------------------------------
(* The counts, and where a call is.                                        *)

\* The calls Pool.inflight counts, and those of a lane that lifecycle.tasks counts.
InPool == {c \in Calls : call[c].pc \in MT!InJob \cup {"enqueue", "queued"}}
InLane(l) == {c \in Calls : MT!LaneOf(c) = l /\ call[c].pc \in MT!InJob \cup {"admit", "enqueue", "queued"}}

CountsHold ==
  /\ running = {c \in Calls : call[c].pc \in MT!InJob}
  /\ inflight = Cardinality(InPool)
  /\ \A l \in Lanes : tasks[l] = Cardinality(InLane(l))

\* Every job in the queue is there once, and waits.
QueueHolds ==
  /\ \A i \in 1 .. Len(queue) : call[queue[i]].pc = "queued"
  /\ \A i, j \in 1 .. Len(queue) : queue[i] = queue[j] => i = j

ClosedHolds ==
  /\ \A l \in Lanes : closing[l] = "closed" =>
       \A c \in Calls : MT!LaneOf(c) = l => call[c].pc \in {"idle", "returned"}
  /\ poolEnd = "done" => InPool = {}

Counted == CountsHold /\ QueueHolds /\ ClosedHolds

LEMMA Counting ==
  ASSUME NEW S, S \subseteq Calls, NEW c \in Calls
  PROVE  /\ IsFiniteSet(S) /\ Cardinality(S) \in Nat
         /\ c \notin S => Cardinality(S \cup {c}) = Cardinality(S) + 1
         /\ c \in S => Cardinality(S \ {c}) = Cardinality(S) - 1
<1>1. IsFiniteSet(S)
  BY Bounds, FS_Subset
<1>2. QED
  BY <1>1, FS_CardinalityType, FS_AddElement, FS_RemoveElement

LEMMA EmptyCount ==
  ASSUME NEW S, S \subseteq Calls, Cardinality(S) = 0
  PROVE  S = {}
<1>1. IsFiniteSet(S)
  BY Bounds, FS_Subset
<1>2. QED
  BY <1>1, FS_EmptySet

\* Only c moves.
Alone(c) == \A d \in Calls : d # c => call'[d] = call[d]

\* A step that moves call c within the job, or nobody.
LEMMA CountedWithin ==
  ASSUME CallsTyped, Counted,
         \A d \in Calls : call'[d].pc = call[d].pc \/ (call[d].pc \in MT!InJob /\ call'[d].pc \in MT!InJob),
         UNCHANGED <<queue, running, inflight, poolEnd, tasks, plan>>,
         \A l \in Lanes : closing'[l] = "closed" => closing[l] = "closed"
  PROVE  Counted'
<1>1. /\ InPool' = InPool /\ \A l \in Lanes : InLane(l)' = InLane(l)
      /\ \A d \in Calls : MT!LaneOf(d)' = MT!LaneOf(d)
      /\ {d \in Calls : call'[d].pc \in MT!InJob} = {d \in Calls : call[d].pc \in MT!InJob}
  BY Zenon DEF InPool, InLane, MT!LaneOf
<1>2. CountsHold'
  BY <1>1 DEF Counted, CountsHold
<1>3. QueueHolds'
  <2>1. \A i \in 1 .. Len(queue) : queue[i] \in Calls
    BY DEF CallsTyped, CallsShaped
  <2>2. "queued" \notin MT!InJob
    BY DEF MT!InJob
  <2>3. QED
    BY <2>1, <2>2 DEF Counted, QueueHolds
<1>4. ClosedHolds'
  <2>1. "idle" \notin MT!InJob /\ "returned" \notin MT!InJob
    BY DEF MT!InJob
  <2>2. QED
    BY <1>1, <2>1 DEF Counted, ClosedHolds
<1>5. QED
  BY <1>2, <1>3, <1>4 DEF Counted

\* A step that moves call c in or out of the counts.
PoolPcs == MT!InJob \cup {"enqueue", "queued"}
LanePcs == PoolPcs \cup {"admit"}

LEMMA CountedMove ==
  ASSUME CallsTyped, CountsHold, NEW c \in Calls, Alone(c), plan' = plan,
         running' = (IF call'[c].pc \in MT!InJob THEN running \cup {c} ELSE running \ {c}),
         inflight' = (IF call[c].pc \in PoolPcs
                        THEN IF call'[c].pc \in PoolPcs THEN inflight ELSE inflight - 1
                        ELSE IF call'[c].pc \in PoolPcs THEN inflight + 1 ELSE inflight),
         tasks' = (IF call[c].pc \in LanePcs
                     THEN IF call'[c].pc \in LanePcs THEN tasks ELSE [tasks EXCEPT ![MT!LaneOf(c)] = @ - 1]
                     ELSE IF call'[c].pc \in LanePcs THEN [tasks EXCEPT ![MT!LaneOf(c)] = @ + 1] ELSE tasks)
  PROVE  CountsHold'
<1>a. PICK k \in Lanes : k = MT!LaneOf(c)
  BY Bounds
<1>0. k = MT!LaneOf(c) /\ \A d \in Calls : MT!LaneOf(d)' = MT!LaneOf(d)
  BY <1>a DEF MT!LaneOf
<1>1. InPool' = IF call'[c].pc \in PoolPcs THEN InPool \cup {c} ELSE InPool \ {c}
  BY DEF InPool, PoolPcs, Alone
<1>2. c \in InPool <=> call[c].pc \in PoolPcs
  BY DEF InPool, PoolPcs
<1>3. inflight' = Cardinality(InPool')
  <2>1. InPool \subseteq Calls
    BY DEF InPool
  <2>2. CASE call[c].pc \in PoolPcs
    <3>1. InPool \cup {c} = InPool
      BY <1>2, <2>2
    <3>2. QED
      BY <1>1, <1>2, <2>1, <2>2, <3>1, Counting DEF CountsHold
  <2>3. CASE call[c].pc \notin PoolPcs
    <3>1. InPool \ {c} = InPool
      BY <1>2, <2>3
    <3>2. QED
      BY <1>1, <1>2, <2>1, <2>3, <3>1, Counting DEF CountsHold
  <2>4. QED
    BY <2>2, <2>3
<1>4. \A l \in Lanes \ {k} : InLane(l)' = InLane(l)
  BY <1>0 DEF InLane, Alone
<1>5. InLane(k)' = IF call'[c].pc \in LanePcs THEN InLane(k) \cup {c} ELSE InLane(k) \ {c}
  BY <1>0 DEF InLane, LanePcs, PoolPcs, Alone
<1>6. c \in InLane(k) <=> call[c].pc \in LanePcs
  BY <1>0 DEF InLane, LanePcs, PoolPcs
<1>7. tasks'[k] = Cardinality(InLane(k)')
  <2>0. InLane(k) \subseteq Calls /\ tasks \in [Lanes -> Nat] /\ tasks[k] = Cardinality(InLane(k))
    BY <1>0 DEF InLane, CallsTyped, CallsShaped, CountsHold
  <2>2. CASE call[c].pc \in LanePcs
    <3>1. InLane(k) \cup {c} = InLane(k)
      BY <1>6, <2>2
    <3>2. Cardinality(InLane(k) \ {c}) = Cardinality(InLane(k)) - 1
      BY <1>6, <2>0, <2>2, Counting
    <3>3. CASE call'[c].pc \in LanePcs
      BY <1>5, <2>0, <2>2, <3>1, <3>3
    <3>4. CASE call'[c].pc \notin LanePcs
      <4>1. tasks'[k] = tasks[k] - 1
        BY <1>0, <2>0, <2>2, <3>4
      <4>2. QED
        BY <1>5, <2>0, <3>2, <3>4, <4>1
    <3>5. QED
      BY <3>3, <3>4
  <2>3. CASE call[c].pc \notin LanePcs
    <3>1. InLane(k) \ {c} = InLane(k)
      BY <1>6, <2>3
    <3>2. Cardinality(InLane(k) \cup {c}) = Cardinality(InLane(k)) + 1
      BY <1>6, <2>0, <2>3, Counting
    <3>3. CASE call'[c].pc \notin LanePcs
      BY <1>5, <2>0, <2>3, <3>1, <3>3
    <3>4. CASE call'[c].pc \in LanePcs
      <4>1. tasks'[k] = tasks[k] + 1
        BY <1>0, <2>0, <2>3, <3>4
      <4>2. QED
        BY <1>5, <2>0, <3>2, <3>4, <4>1
    <3>5. QED
      BY <3>3, <3>4
  <2>4. QED
    BY <2>2, <2>3
<1>8. \A l \in Lanes \ {k} : tasks'[l] = tasks[l]
  BY <1>0 DEF CallsTyped, CallsShaped
<1>9. running' = {d \in Calls : call'[d].pc \in MT!InJob}
  BY DEF CountsHold, Alone
<1>10. QED
  <2>1. ASSUME NEW l \in Lanes
        PROVE  tasks'[l] = Cardinality(InLane(l)')
    <3>1. CASE l = k
      BY <1>7, <3>1
    <3>2. CASE l # k
      <4>1. tasks[l] = Cardinality(InLane(l)) /\ InLane(l)' = InLane(l) /\ tasks'[l] = tasks[l]
        BY <1>4, <1>8, <3>2 DEF CountsHold
      <4>2. QED
        BY <4>1
    <3>3. QED
      BY <3>1, <3>2
  <2>2. QED
    BY <1>3, <1>9, <2>1, Zenon DEF CountsHold

\* The jobs in the queue stay there when nobody waiting moves.
LEMMA QueueKept ==
  ASSUME CallsTyped, QueueHolds, queue' = queue,
         \A d \in Calls : call[d].pc = "queued" => call'[d].pc = "queued"
  PROVE  QueueHolds'
<1>1. \A i \in 1 .. Len(queue) : queue[i] \in Calls
  BY DEF CallsTyped, CallsShaped
<1>2. QED
  BY <1>1 DEF QueueHolds

\* A lane or a pool that closed admits nobody.
LEMMA ClosedKept ==
  ASSUME CallsTyped, ClosedHolds, NEW c \in Calls, Alone(c), UNCHANGED <<closing, poolEnd, plan>>,
         call'[c].pc \in LanePcs => closing[MT!LaneOf(c)] # "closed",
         call'[c].pc \in PoolPcs => poolEnd # "done" \/ call[c].pc \in PoolPcs,
         call'[c].pc \in Pcs
  PROVE  ClosedHolds'
<1>1. \A d \in Calls : MT!LaneOf(d)' = MT!LaneOf(d)
  BY DEF MT!LaneOf
<1>2. ASSUME NEW l \in Lanes, closing'[l] = "closed", NEW d \in Calls, MT!LaneOf(d)' = l
      PROVE  call'[d].pc \in {"idle", "returned"}
  BY <1>1, <1>2 DEF ClosedHolds, Alone, Pcs, LanePcs, PoolPcs
<1>3. ASSUME poolEnd' = "done" PROVE InPool' = {}
  BY <1>3 DEF ClosedHolds, InPool, PoolPcs, Alone
<1>4. QED
  BY <1>2, <1>3 DEF ClosedHolds

\* Where a call is in a lane that is not closed, or a pool that is not.
LEMMA StillOpen ==
  ASSUME CallsTyped, ClosedHolds, NEW c \in Calls
  PROVE  /\ call[c].pc \in LanePcs => closing[MT!LaneOf(c)] # "closed"
         /\ call[c].pc \in PoolPcs => poolEnd # "done"
BY Bounds DEF ClosedHolds, InPool, LanePcs, PoolPcs, MT!InJob

LEMMA CountedFinish ==
  ASSUME CallsTyped, Counted, NEW c \in Calls, NEW end, NEW got, call[c].pc \in MT!InJob,
         MT!Finish(c, end, got)
  PROVE  Counted'
<1>1. /\ Alone(c) /\ call'[c].pc = "returned"
      /\ running' = running \ {c} /\ inflight' = inflight - 1
      /\ tasks' = [tasks EXCEPT ![MT!LaneOf(c)] = @ - 1]
      /\ UNCHANGED <<queue, poolEnd, closing, plan>>
  BY DEF MT!Finish, MT!Idle, Alone, CallsTyped, CallsShaped
<1>2. /\ call[c].pc \in PoolPcs /\ call[c].pc \in LanePcs
      /\ call'[c].pc \notin LanePcs /\ call'[c].pc \notin PoolPcs /\ call'[c].pc \notin MT!InJob
      /\ call[c].pc # "queued" /\ call'[c].pc \in Pcs
  BY <1>1 DEF PoolPcs, LanePcs, MT!InJob, Pcs
<1>3. CountsHold'
  BY <1>1, <1>2, CountedMove DEF Counted
<1>4. QueueHolds'
  BY <1>1, <1>2, QueueKept DEF Counted, Alone
<1>5. ClosedHolds'
  BY <1>1, <1>2, ClosedKept DEF Counted
<1>6. QED
  BY <1>3, <1>4, <1>5 DEF Counted

\* A job at work steps on, whatever it does to a helper and the cache.
LEMMA CountedWork ==
  ASSUME CallsTyped, Counted, NEW c \in Calls, Alone(c), call[c].pc \in MT!InJob,
         call'[c].pc \in MT!InJob, UNCHANGED <<queue, running, inflight, poolEnd, tasks, closing, plan>>
  PROVE  Counted'
BY CountedWithin DEF Alone

LEMMA CountedJob ==
  ASSUME CallsTyped, Counted, NEW c \in Calls, MT!Job(c)
  PROVE  Counted'
<1> USE DEF MT!At, MT!Goto, MT!Pool, MT!Lifecycle, MT!Cache
<1>0. {"get", "reap", "gate", "write", "wait", "await", "translated", "release", "failed", "discard"} = MT!InJob
  BY DEF MT!InJob
<1>2. CASE MT!Refused(c)
  BY <1>0, <1>2, CountedFinish DEF MT!Refused
<1>3. CASE MT!Get(c)
  <2>1. call[c].pc \in MT!InJob
    BY <1>0, <1>3 DEF MT!Get
  <2>2. \/ MT!Finish(c, "cancelled", "none")
        \/ /\ Alone(c) /\ call'[c].pc \in MT!InJob
           /\ UNCHANGED <<queue, running, inflight, poolEnd, tasks, closing, plan>>
    BY <1>0, <1>3 DEF MT!Get, MT!NoCall, Alone, CallsTyped, CallsShaped, CallState
  <2>3. QED
    BY <2>1, <2>2, CountedFinish, CountedWork
<1>4. CASE MT!SpawnFails(c)
  BY <1>0, <1>4, CountedWork DEF MT!SpawnFails, Alone, CallsTyped, CallsShaped, CallState
<1>5. CASE MT!Reaped(c)
  <2>1. call[c].pc \in MT!InJob
    BY <1>0, <1>5 DEF MT!Reaped
  <2>2. \/ MT!Finish(c, "failed", "none")
        \/ /\ Alone(c) /\ call'[c].pc \in MT!InJob
           /\ UNCHANGED <<queue, running, inflight, poolEnd, tasks, closing, plan>>
    BY <1>0, <1>5 DEF MT!Reaped, MT!NoCall, Alone, CallsTyped, CallsShaped, CallState
  <2>3. QED
    BY <2>1, <2>2, CountedFinish, CountedWork
<1>6. CASE MT!Acquire(c) \/ MT!WriteFailed(c) \/ MT!Release(c)
  BY <1>0, <1>6, CountedWork DEF MT!Acquire, MT!WriteFailed, MT!Release, Alone, CallsTyped, CallsShaped,
     CallState
<1>7. CASE MT!WriteLine(c)
  <2>1. call[c].pc = "write" /\ (\E pc \in {"await", "wait", "release"} : call' = [call EXCEPT ![c].pc = pc])
        /\ UNCHANGED <<queue, running, inflight, poolEnd, tasks, closing, plan>>
    BY <1>7 DEF MT!WriteLine
  <2>2. QED
    BY <1>0, <2>1, CountedWork DEF Alone, CallsTyped, CallsShaped, CallState
<1>8. CASE MT!Await(c)
  <2>1. /\ call[c].pc = "await" /\ UNCHANGED <<queue, running, inflight, poolEnd, tasks, closing, plan>>
        /\ \/ \E got : call' = [call EXCEPT ![c].pc = "translated", ![c].got = got]
           \/ call' = [call EXCEPT ![c].pc = "release"]
    BY <1>8 DEF MT!Await
  <2>2. Alone(c) /\ call'[c].pc \in {"translated", "release"}
    BY <2>1 DEF Alone, CallsTyped, CallsShaped, CallState
  <2>3. QED
    BY <1>0, <2>1, <2>2, CountedWork
<1>9. CASE MT!Translated(c)
  BY <1>0, <1>9, CountedFinish DEF MT!Translated
<1>10. CASE MT!Discard(c)
  <2>1. call[c].pc \in MT!InJob
    BY <1>0, <1>10 DEF MT!Discard
  <2>2. \/ MT!Finish(c, "failed", "none")
        \/ /\ Alone(c) /\ call'[c].pc \in MT!InJob
           /\ UNCHANGED <<queue, running, inflight, poolEnd, tasks, closing, plan>>
    BY <1>0, <1>10 DEF MT!Discard, MT!NoCall, Alone, CallsTyped, CallsShaped, CallState
  <2>3. QED
    BY <2>1, <2>2, CountedFinish, CountedWork
<1>11. CASE MT!Retry(c)
  <2>1. call[c].pc \in MT!InJob
    BY <1>0, <1>11 DEF MT!Retry
  <2>2. \/ MT!Finish(c, "failed", "none")
        \/ /\ Alone(c) /\ call'[c].pc \in MT!InJob
           /\ UNCHANGED <<queue, running, inflight, poolEnd, tasks, closing, plan>>
    BY <1>0, <1>11 DEF MT!Retry, MT!NoCall, Alone, CallsTyped, CallsShaped, CallState
  <2>3. QED
    BY <2>1, <2>2, CountedFinish, CountedWork
<1>12. QED
  BY <1>2, <1>3, <1>4, <1>5, <1>6, <1>7, <1>8, <1>9, <1>10, <1>11 DEF MT!Job

\* Admission: a call enters the counts, or leaves them when it is rejected.
LEMMA CountedSubmit ==
  ASSUME CallsTyped, Counted, NEW c \in Calls, MT!Submit(c)
  PROVE  Counted'
<1>1. call[c].pc = "idle" /\ Alone(c) /\ UNCHANGED <<queue, running, inflight, poolEnd, closing, plan>>
      /\ "idle" \notin LanePcs /\ "idle" \notin PoolPcs /\ "admit" \notin PoolPcs
      /\ "admit" \notin MT!InJob /\ "returned" \notin LanePcs /\ "returned" \notin PoolPcs
      /\ "returned" \notin MT!InJob /\ "admit" \in LanePcs /\ "admit" \in Pcs /\ "returned" \in Pcs
      /\ c \notin running
  BY DEF MT!Submit, MT!At, MT!Goto, MT!Pool, Alone, CallsTyped, CallsShaped, CallState, PoolPcs, LanePcs,
         MT!InJob, Pcs, Counted, CountsHold
<1>2. \/ call'[c].pc = "returned" /\ tasks' = tasks
      \/ /\ call'[c].pc = "admit" /\ tasks' = [tasks EXCEPT ![MT!LaneOf(c)] = @ + 1]
         /\ closing[MT!LaneOf(c)] = "open"
  BY DEF MT!Submit, MT!At, MT!Goto, CallsTyped, CallsShaped, CallState
<1>3. CountsHold'
  BY <1>1, <1>2, CountedMove DEF Counted
<1>4. QueueHolds'
  BY <1>1, QueueKept DEF Counted, Alone
<1>5. ClosedHolds'
  BY <1>1, <1>2, ClosedKept DEF Counted
<1>6. QED
  BY <1>3, <1>4, <1>5 DEF Counted

LEMMA CountedAdmit ==
  ASSUME CallsTyped, Counted, NEW c \in Calls, MT!Admit(c)
  PROVE  Counted'
<1>1. call[c].pc = "admit" /\ Alone(c) /\ UNCHANGED <<queue, running, poolEnd, closing, plan>>
      /\ "admit" \in LanePcs /\ "admit" \notin PoolPcs /\ "enqueue" \in PoolPcs /\ "enqueue" \in LanePcs
      /\ "enqueue" \notin MT!InJob /\ "returned" \notin LanePcs /\ "returned" \notin PoolPcs
      /\ "returned" \notin MT!InJob /\ "enqueue" \in Pcs /\ "returned" \in Pcs
      /\ c \notin running
  BY DEF MT!Admit, MT!At, MT!Goto, Alone, CallsTyped, CallsShaped, CallState, PoolPcs, LanePcs, MT!InJob, Pcs,
         Counted, CountsHold
<1>2. \/ /\ call'[c].pc = "returned" /\ tasks' = [tasks EXCEPT ![MT!LaneOf(c)] = @ - 1]
         /\ inflight' = inflight
      \/ /\ call'[c].pc = "enqueue" /\ tasks' = tasks /\ inflight' = inflight + 1 /\ poolEnd = "open"
  BY DEF MT!Admit, MT!At, MT!Goto, CallsTyped, CallsShaped, CallState
<1>3. CountsHold'
  BY <1>1, <1>2, CountedMove DEF Counted
<1>4. QueueHolds'
  BY <1>1, QueueKept DEF Counted, Alone
<1>5. ClosedHolds'
  BY <1>1, <1>2, ClosedKept, StillOpen DEF Counted
<1>6. QED
  BY <1>3, <1>4, <1>5 DEF Counted

LEMMA CountedEnqueue ==
  ASSUME CallsTyped, Counted, NEW c \in Calls, MT!Enqueue(c)
  PROVE  Counted'
<1>1. call[c].pc = "enqueue" /\ Alone(c) /\ UNCHANGED <<running, poolEnd, closing, plan>>
      /\ "queued" \in LanePcs /\ "queued" \in PoolPcs /\ "enqueue" \in PoolPcs /\ "enqueue" \in LanePcs
      /\ "queued" \notin MT!InJob /\ "returned" \notin LanePcs /\ "returned" \notin PoolPcs
      /\ "returned" \notin MT!InJob /\ "queued" \in Pcs /\ "returned" \in Pcs
      /\ c \notin running
  BY DEF MT!Enqueue, MT!At, MT!Goto, Alone, CallsTyped, CallsShaped, CallState, PoolPcs, LanePcs, MT!InJob, Pcs,
         Counted, CountsHold
<1>2. \/ /\ call'[c].pc = "returned" /\ tasks' = [tasks EXCEPT ![MT!LaneOf(c)] = @ - 1]
         /\ inflight' = inflight - 1 /\ queue' = queue
      \/ /\ call'[c].pc = "queued" /\ tasks' = tasks /\ inflight' = inflight
         /\ queue' = Append(queue, c)
  BY DEF MT!Enqueue, MT!At, MT!Goto, CallsTyped, CallsShaped, CallState
<1>3. CountsHold'
  BY <1>1, <1>2, CountedMove DEF Counted
<1>4. QueueHolds'
  <2>1. \A i \in 1 .. Len(queue) : queue[i] \in Calls /\ call[queue[i]].pc = "queued"
    BY DEF CallsTyped, CallsShaped, Counted, QueueHolds
  <2>2. CASE queue' = queue
    BY <1>1, <2>2, QueueKept DEF Counted, Alone
  <2>3. CASE queue' = Append(queue, c) /\ call'[c].pc = "queued"
    <3>1. /\ Len(queue') = Len(queue) + 1 /\ Len(queue) \in Nat /\ queue'[Len(queue) + 1] = c
          /\ \A i \in 1 .. Len(queue) : queue'[i] = queue[i]
      BY <2>3 DEF CallsTyped, CallsShaped
    <3>2. \A i \in 1 .. Len(queue) : queue[i] # c
      BY <1>1, <2>1
    <3>3. \A i \in 1 .. Len(queue') : call'[queue'[i]].pc = "queued"
      BY <1>1, <2>1, <2>3, <3>1, <3>2 DEF Alone
    <3>4. ASSUME NEW i \in 1 .. Len(queue'), NEW j \in 1 .. Len(queue'), queue'[i] = queue'[j]
          PROVE  i = j
      BY <3>1, <3>2, <3>4 DEF Counted, QueueHolds
    <3>5. QED
      BY <3>3, <3>4 DEF QueueHolds
  <2>4. QED
    BY <1>2, <2>2, <2>3
<1>5. ClosedHolds'
  BY <1>1, <1>2, ClosedKept, StillOpen DEF Counted
<1>6. QED
  BY <1>3, <1>4, <1>5 DEF Counted

\* A worker takes the first of the queue.
LEMMA CountedTake ==
  ASSUME CallsTyped, Counted, MT!Take
  PROVE  Counted'
<1>1. PICK c \in Calls : c = Head(queue) /\ queue # <<>>
  BY DEF MT!Take, CallsTyped, CallsShaped
<1>2. Len(queue) \in Nat /\ Len(queue) > 0 /\ queue[1] = c
  BY <1>1 DEF CallsTyped, CallsShaped
<1>3. call[c].pc = "queued"
  BY <1>2 DEF Counted, QueueHolds
<1>4. Alone(c) /\ call'[c].pc = "get" /\ UNCHANGED <<poolEnd, closing, plan, inflight, tasks>>
      /\ running' = running \cup {c} /\ queue' = Tail(queue)
  BY <1>1 DEF MT!Take, MT!Lifecycle, Alone, CallsTyped, CallsShaped, CallState
<1>5. "queued" \in LanePcs /\ "queued" \in PoolPcs /\ "get" \in MT!InJob /\ "get" \in LanePcs /\ "get" \in PoolPcs
      /\ "get" \in Pcs
  BY DEF MT!InJob, LanePcs, PoolPcs, Pcs
<1>6. CountsHold'
  BY <1>3, <1>4, <1>5, CountedMove DEF Counted
<1>7. QueueHolds'
  <2>1. /\ Len(queue') = Len(queue) - 1
        /\ \A i \in 1 .. Len(queue') : queue'[i] = queue[i + 1]
    BY <1>1, <1>4 DEF CallsTyped, CallsShaped
  <2>2. ASSUME NEW i \in 1 .. Len(queue')
        PROVE  queue'[i] \in Calls /\ queue'[i] # c /\ call[queue'[i]].pc = "queued"
    <3>1. i + 1 \in 1 .. Len(queue) /\ 1 \in 1 .. Len(queue) /\ i + 1 # 1
      BY <1>2, <2>1
    <3>2. queue[i + 1] \in Calls
      BY <3>1 DEF CallsTyped, CallsShaped
    <3>3. call[queue[i + 1]].pc = "queued" /\ queue[i + 1] # queue[1]
      BY <3>1 DEF Counted, QueueHolds
    <3>4. QED
      BY <1>2, <2>1, <3>2, <3>3
  <2>3. \A i \in 1 .. Len(queue') : call'[queue'[i]].pc = "queued"
    BY <1>4, <2>2 DEF Alone
  <2>4. ASSUME NEW i \in 1 .. Len(queue'), NEW j \in 1 .. Len(queue'), queue'[i] = queue'[j]
        PROVE  i = j
    BY <1>2, <2>1, <2>4 DEF Counted, QueueHolds
  <2>5. QED
    BY <2>3, <2>4 DEF QueueHolds
<1>8. ClosedHolds'
  BY <1>3, <1>4, <1>5, ClosedKept, StillOpen DEF Counted
<1>9. QED
  BY <1>6, <1>7, <1>8 DEF Counted

\* Close waits until nobody is counted.
LEMMA CountedClose ==
  ASSUME CallsTyped, Counted, NEW l \in Lanes, MT!Drained(l)
  PROVE  Counted'
<1>1. UNCHANGED <<call, queue, running, inflight, poolEnd, tasks, plan>> /\ tasks[l] = 0
      /\ \A k \in Lanes \ {l} : closing'[k] = closing[k]
  BY DEF MT!Drained, MT!Pool, CallsTyped, CallsShaped
<1>2. InLane(l) = {}
  <2>1. InLane(l) \subseteq Calls /\ Cardinality(InLane(l)) = 0
    BY <1>1 DEF Counted, CountsHold, InLane
  <2>2. QED
    BY <2>1, EmptyCount
<1>3. /\ InPool' = InPool /\ \A k \in Lanes : InLane(k)' = InLane(k)
      /\ \A d \in Calls : MT!LaneOf(d)' = MT!LaneOf(d)
  BY <1>1, Zenon DEF InPool, InLane, MT!LaneOf
<1>4. CountsHold' /\ QueueHolds'
  BY <1>1, <1>3 DEF Counted, CountsHold, QueueHolds
<1>5. ClosedHolds'
  <2>1. \A d \in Calls : MT!LaneOf(d) = l => call[d].pc \in {"idle", "returned"}
    BY <1>2 DEF InLane, CallsTyped, CallsShaped, CallState, Pcs
  <2>2. QED
    BY <1>1, <1>3, <2>1 DEF Counted, ClosedHolds
<1>6. QED
  BY <1>4, <1>5 DEF Counted

LEMMA CountedPoolClose ==
  ASSUME CallsTyped, Counted, MT!PoolDrained
  PROVE  Counted'
<1>1. UNCHANGED <<call, queue, running, inflight, closing, tasks, plan>> /\ inflight = 0
  BY DEF MT!PoolDrained, MT!Lifecycle
<1>2. InPool = {}
  <2>1. InPool \subseteq Calls /\ Cardinality(InPool) = 0
    BY <1>1 DEF Counted, CountsHold, InPool
  <2>2. QED
    BY <2>1, EmptyCount
<1>3. /\ InPool' = InPool /\ \A k \in Lanes : InLane(k)' = InLane(k)
      /\ \A d \in Calls : MT!LaneOf(d)' = MT!LaneOf(d)
  BY <1>1, Zenon DEF InPool, InLane, MT!LaneOf
<1>4. CountsHold' /\ QueueHolds'
  BY <1>1, <1>3 DEF Counted, CountsHold, QueueHolds
<1>5. ClosedHolds'
  BY <1>1, <1>2, <1>3 DEF Counted, ClosedHolds
<1>6. QED
  BY <1>4, <1>5 DEF Counted

LEMMA CountedNext ==
  ASSUME CallsTyped, Counted, MT!Next
  PROVE  Counted'
<1> USE DEF MT!Pool, MT!Lifecycle, MT!Cache
<1>1. ASSUME NEW c \in Calls, MT!Cancel(c)
      PROVE  Counted'
  <2>1. \A d \in Calls : call'[d].pc = call[d].pc
    BY <1>1 DEF MT!Cancel, CallsTyped, CallsShaped, CallState
  <2>2. QED
    BY <1>1, <2>1, CountedWithin DEF MT!Cancel
<1>2. ASSUME NEW l \in Lanes, NEW n \in 1 .. MaxSpawn, MT!Reply(l, n) \/ MT!Exit(l, n) \/ MT!Reap(l, n)
      PROVE  Counted'
  BY <1>2, CountedWithin DEF MT!Reply, MT!Exit, MT!Reap
<1>3. ASSUME NEW l \in Lanes, MT!CloseLane(l) \/ MT!CloseAll(l)
      PROVE  Counted'
  <2>1. \A k \in Lanes : closing'[k] = "closed" => closing[k] = "closed"
    BY <1>3 DEF MT!CloseLane, MT!CloseAll, CallsTyped, CallsShaped
  <2>2. UNCHANGED <<call, queue, running, inflight, poolEnd, tasks, plan>>
    BY <1>3 DEF MT!CloseLane, MT!CloseAll
  <2>3. QED
    BY <2>1, <2>2, CountedWithin
<1>4. CASE MT!ClosePool
  <2>1. UNCHANGED <<call, queue, running, inflight, closing, tasks, plan>> /\ poolEnd' # "done"
    BY <1>4 DEF MT!ClosePool
  <2>2. /\ InPool' = InPool /\ \A k \in Lanes : InLane(k)' = InLane(k)
        /\ \A d \in Calls : MT!LaneOf(d)' = MT!LaneOf(d)
    BY <2>1, Zenon DEF InPool, InLane, MT!LaneOf
  <2>3. QED
    BY <2>1, <2>2 DEF Counted, CountsHold, QueueHolds, ClosedHolds
<1>5. QED
  BY <1>1, <1>2, <1>3, <1>4, CountedSubmit, CountedAdmit, CountedEnqueue, CountedJob, CountedTake,
     CountedClose, CountedPoolClose DEF MT!Next, MT!Closing

-----------------------------------------------------------------------------
(* The shape is kept.                                                      *)

TasksShaped == tasks = [l \in Lanes |-> tasks[l]]

\* The counts are those of sets of calls.
LEMMA CountsTyped ==
  ASSUME CallsShaped', TasksShaped', Counted'
  PROVE  CallsTyped'
<1>1. inflight' \in Nat
  <2>1. InPool' \subseteq Calls
    BY DEF InPool
  <2>2. IsFiniteSet(InPool')
    BY <2>1, Bounds, FS_Subset
  <2>3. QED
    BY <2>2, FS_CardinalityType DEF Counted, CountsHold
<1>2. ASSUME NEW l \in Lanes PROVE tasks'[l] \in Nat
  <2>1. InLane(l)' \subseteq Calls
    BY DEF InLane
  <2>2. IsFiniteSet(InLane(l)')
    BY <2>1, Bounds, FS_Subset
  <2>3. tasks'[l] = Cardinality(InLane(l)')
    BY DEF Counted, CountsHold
  <2>4. QED
    BY <2>2, <2>3, FS_CardinalityType
<1>3. tasks' \in [Lanes -> Nat]
  BY <1>2 DEF TasksShaped
<1>4. QED
  BY <1>1, <1>3 DEF CallsTyped

LEMMA FinishShaped ==
  ASSUME CallsTyped, NEW c \in Calls, NEW end \in {"ok", "closed", "cancelled", "failed"}, NEW got \in Who,
         MT!Finish(c, end, got), helpers' \in [Lanes -> [1 .. MaxSpawn -> HelperState]], UNCHANGED <<cached, spawned>>
  PROVE  CallsShaped' /\ TasksShaped'
<1>1. PICK e \in {"ok", "closed", "cancelled", "failed"}, g \in Who :
        call' = [call EXCEPT ![c] = [MT!Idle EXCEPT !.pc = "returned", !.end = e, !.got = g]]
  <2>1. PICK e \in {"ok", "closed", "cancelled", "failed"} :
          call' = [call EXCEPT ![c] = [MT!Idle EXCEPT !.pc = "returned",
                                                      !.end = e, !.got = IF e = "ok" THEN got ELSE MT!NoCall]]
    BY DEF MT!Finish
  <2>2. CASE e = "ok"
    BY <2>1, <2>2
  <2>3. CASE e # "ok"
    BY <2>1, <2>3 DEF MT!NoCall, Who
  <2>4. QED
    BY <2>2, <2>3
<1>2. [MT!Idle EXCEPT !.pc = "returned", !.end = e, !.got = g] \in CallState
  <2>1. MT!Idle \in CallState
    BY Bounds DEF CallState, Pcs, Who, MT!Idle, MT!NoCall
  <2>2. QED
    BY <2>1, Bounds DEF CallState, Pcs
<1>3. call' \in [Calls -> CallState]
  BY <1>1, <1>2 DEF CallsTyped, CallsShaped
<1>4. QED
  BY <1>3 DEF MT!Finish, CallsTyped, CallsShaped, TasksShaped

\* What a step sets of a call.
LEMMA MovedTyped ==
  ASSUME CallsTyped, NEW c \in Calls, NEW pc \in Pcs
  PROVE  /\ call' = [call EXCEPT ![c].pc = pc] => call' \in [Calls -> CallState]
         /\ \A got \in Who : call' = [call EXCEPT ![c].pc = pc, ![c].got = got] => call' \in [Calls -> CallState]
         /\ \A end \in {"closed", "cancelled"} :
              call' = [call EXCEPT ![c].pc = pc, ![c].end = end] => call' \in [Calls -> CallState]
         /\ \A attempt \in Nat :
              call' = [call EXCEPT ![c].pc = pc, ![c].attempt = attempt] => call' \in [Calls -> CallState]
<1> call \in [Calls -> CallState]
  BY DEF CallsTyped, CallsShaped
<1>0. ASSUME NEW x \in CallState, call' = [call EXCEPT ![c] = x] PROVE call' \in [Calls -> CallState]
  BY <1>0
<1>1. ASSUME call' = [call EXCEPT ![c].pc = pc] PROVE call' \in [Calls -> CallState]
  <2>1. [call[c] EXCEPT !.pc = pc] \in CallState
    BY DEF CallState
  <2>2. QED
    BY <1>0, <1>1, <2>1
<1>2. ASSUME NEW got \in Who, call' = [call EXCEPT ![c].pc = pc, ![c].got = got] PROVE call' \in [Calls -> CallState]
  <2>1. [call[c] EXCEPT !.pc = pc, !.got = got] \in CallState
    BY DEF CallState
  <2>2. QED
    BY <1>0, <1>2, <2>1
<1>3. ASSUME NEW end \in {"closed", "cancelled"}, call' = [call EXCEPT ![c].pc = pc, ![c].end = end]
      PROVE  call' \in [Calls -> CallState]
  <2>1. [call[c] EXCEPT !.pc = pc, !.end = end] \in CallState
    BY DEF CallState
  <2>2. QED
    BY <1>0, <1>3, <2>1
<1>4. ASSUME NEW attempt \in Nat, call' = [call EXCEPT ![c].pc = pc, ![c].attempt = attempt]
      PROVE  call' \in [Calls -> CallState]
  <2>1. [call[c] EXCEPT !.pc = pc, !.attempt = attempt] \in CallState
    BY DEF CallState
  <2>2. QED
    BY <1>0, <1>4, <2>1
<1>5. QED
  BY <1>1, <1>2, <1>3, <1>4

LEMMA PlacedTyped ==
  ASSUME CallsTyped, NEW c \in Calls, NEW pc \in Pcs, NEW proc \in 0 .. MaxSpawn, NEW stale \in 0 .. MaxSpawn
  PROVE  /\ call' = [call EXCEPT ![c].pc = pc, ![c].proc = proc, ![c].stale = stale] => call' \in [Calls -> CallState]
         /\ call' = [call EXCEPT ![c].pc = pc, ![c].stale = stale] => call' \in [Calls -> CallState]
         /\ call' = [call EXCEPT ![c].pc = pc, ![c].attempt = 2, ![c].proc = proc] => call' \in [Calls -> CallState]
<1> call \in [Calls -> CallState]
  BY DEF CallsTyped, CallsShaped
<1>1. ASSUME call' = [call EXCEPT ![c].pc = pc, ![c].proc = proc, ![c].stale = stale]
      PROVE  call' \in [Calls -> CallState]
  <2>1. [call[c] EXCEPT !.pc = pc, !.proc = proc, !.stale = stale] \in CallState
    BY DEF CallState
  <2>2. QED
    BY <1>1, <2>1
<1>2. ASSUME call' = [call EXCEPT ![c].pc = pc, ![c].stale = stale]
      PROVE  call' \in [Calls -> CallState]
  <2>1. [call[c] EXCEPT !.pc = pc, !.stale = stale] \in CallState
    BY DEF CallState
  <2>2. QED
    BY <1>2, <2>1
<1>3. ASSUME call' = [call EXCEPT ![c].pc = pc, ![c].attempt = 2, ![c].proc = proc]
      PROVE  call' \in [Calls -> CallState]
  <2>1. [call[c] EXCEPT !.pc = pc, !.attempt = 2, !.proc = proc] \in CallState
    BY DEF CallState
  <2>2. QED
    BY <1>3, <2>1
<1>4. QED
  BY <1>1, <1>2, <1>3

\* A job moves on, and leaves the pool and the lifecycle alone.
LEMMA WorkShaped ==
  ASSUME CallsTyped, call' \in [Calls -> CallState], helpers' \in [Lanes -> [1 .. MaxSpawn -> HelperState]],
         cached' \in [Lanes -> 0 .. MaxSpawn], spawned' \in [Lanes -> 0 .. MaxSpawn],
         UNCHANGED <<queue, running, inflight, poolEnd, tasks, closing, plan>>
  PROVE  CallsShaped' /\ TasksShaped'
BY DEF CallsTyped, CallsShaped, TasksShaped

\* What a step may set of a helper.
LEMMA SetTyped ==
  ASSUME CallsTyped, NEW l \in Lanes, NEW n \in 1 .. MaxSpawn, NEW h \in HelperState, MT!Set(l, n, h)
  PROVE  helpers' \in [Lanes -> [1 .. MaxSpawn -> HelperState]]
BY DEF MT!Set, CallsTyped, CallsShaped

LEMMA AbortedTyped ==
  ASSUME NEW h \in HelperState
  PROVE  /\ MT!Aborted(h) \in HelperState
         /\ MT!Aborted(h).at # "live" /\ MT!Aborted(h).gate = h.gate
         /\ MT!Aborted(h).asked = h.asked /\ MT!Aborted(h).reply = h.reply
         /\ h.at \in {"unborn", "done"} => MT!Aborted(h) = h
BY DEF MT!Aborted, HelperState

-----------------------------------------------------------------------------
(* Which helpers there are, and which one serves.                          *)

\* The helper of a call that is on one has been spawned.
OnHelper == {"gate", "write", "wait", "await", "translated", "release", "failed", "discard"}

Numbered ==
  /\ \A l \in Lanes : cached[l] <= spawned[l]
  /\ \A c \in Calls : /\ call[c].proc <= spawned[MT!LaneOf(c)]
                      /\ call[c].pc \in OnHelper => call[c].proc # 0

\* The helper that takes input is the one in the cache; a closed lane has none.
Serving ==
  /\ \A l \in Lanes : \A n \in 1 .. MaxSpawn : helpers[l][n].at = "live" => cached[l] = n
  /\ \A l \in Lanes : closing[l] = "closed" =>
       \A n \in 1 .. MaxSpawn : helpers[l][n].at \in {"unborn", "done"}

LEMMA OnOne ==
  ASSUME CallsTyped, Numbered, NEW c \in Calls, call[c].pc \in OnHelper
  PROVE  /\ MT!LaneOf(c) \in Lanes /\ call[c].proc \in 1 .. MaxSpawn
         /\ MT!Mine(c) \in HelperState /\ MT!Mine(c) = helpers[MT!LaneOf(c)][call[c].proc]
<1>1. MT!LaneOf(c) \in Lanes /\ call[c].proc \in 0 .. MaxSpawn /\ call[c].proc # 0
  BY Bounds DEF CallsTyped, CallsShaped, CallState, Numbered
<1>2. call[c].proc \in 1 .. MaxSpawn
  BY <1>1, Bounds
<1>3. QED
  BY <1>1, <1>2 DEF CallsTyped, CallsShaped, MT!Mine

\* A job on a helper: its own place, and what it does to that helper.
LEMMA OnHelperShaped ==
  ASSUME CallsTyped, Numbered, NEW c \in Calls,
         \/ MT!Acquire(c) \/ MT!WriteLine(c) \/ MT!WriteFailed(c) \/ MT!Await(c) \/ MT!Release(c)
  PROVE  CallsShaped' /\ TasksShaped'
<1> USE DEF MT!At, MT!Goto, MT!Pool, MT!Lifecycle, MT!Cache
<1>p. /\ MT!InJob \subseteq Pcs /\ {"idle", "admit", "enqueue", "queued", "returned"} \subseteq Pcs
      /\ {"get", "reap", "gate", "write", "wait", "await", "translated", "release", "failed", "discard"} \subseteq Pcs
  BY DEF Pcs, MT!InJob
<1>0. call[c].pc \in OnHelper /\ UNCHANGED <<queue, running, inflight, poolEnd, tasks, closing, plan, cached, spawned>>
  BY DEF MT!Acquire, MT!WriteLine, MT!WriteFailed, MT!Await, MT!Release, OnHelper
<1> DEFINE l == MT!LaneOf(c)
           n == call[c].proc
           h == MT!Mine(c)
<1>1. l \in Lanes /\ n \in 1 .. MaxSpawn /\ h \in HelperState
  BY <1>0, OnOne
<1>2. h.gate \in Who /\ h.asked \in Who /\ h.reply \in Who /\ c \in Who /\ "none" \in Who
  BY <1>1 DEF HelperState, Who
<1>3. /\ call' \in [Calls -> CallState]
      /\ helpers' = helpers \/ \E g \in HelperState : MT!Set(l, n, g)
  <2> HIDE DEF l, n, h
  <2>a. MT!LaneOf(c) = l /\ call[c].proc = n /\ MT!Mine(c) = h
    BY DEF l, n, h
  <2>1. CASE MT!Acquire(c)
    <3>1. [h EXCEPT !.gate = c] \in HelperState
      BY <1>1, <1>2 DEF HelperState
    <3>2. call' \in [Calls -> CallState]
      BY <1>p, <2>1, MovedTyped DEF MT!Acquire
    <3>3. QED
      BY <2>a, <2>1, <3>1, <3>2 DEF MT!Acquire
  <2>2. CASE MT!WriteLine(c)
    <3>1. call' \in [Calls -> CallState]
      <4>1. PICK pc \in Pcs : call' = [call EXCEPT ![c].pc = pc]
        BY <1>p, <2>2 DEF MT!WriteLine
      <4>2. QED
        BY <4>1, MovedTyped
    <3>2. \A a \in Who : [h EXCEPT !.asked = a] \in HelperState /\ [MT!Aborted(h) EXCEPT !.asked = a] \in HelperState
      BY <1>1, AbortedTyped DEF HelperState
    <3>3. QED
      <4>1. CASE MT!Set(l, n, [h EXCEPT !.asked = c])
        BY <4>1, <3>1, <3>2, <1>2
      <4>2. CASE \E asked \in {h.asked, IF h.at = "live" THEN c ELSE h.asked} :
                   MT!Set(l, n, [MT!Aborted(h) EXCEPT !.asked = asked])
        BY <4>2, <3>1, <3>2, <1>2
      <4>3. CASE UNCHANGED helpers
        BY <4>3, <3>1, <2>a
      <4>4. QED
        BY <2>a, <2>2, <4>1, <4>2, <4>3 DEF MT!WriteLine
  <2>3. CASE MT!WriteFailed(c)
    BY <1>p, <2>3, MovedTyped DEF MT!WriteFailed
  <2>4. CASE MT!Await(c)
    <3>1. call' \in [Calls -> CallState]
      <4>1. CASE call' = [call EXCEPT ![c].pc = "translated", ![c].got = h.reply]
        BY <1>p, <4>1, <1>2, MovedTyped
      <4>2. CASE call' = [call EXCEPT ![c].pc = "release"]
        BY <1>p, <4>2, MovedTyped
      <4>3. QED
        BY <2>a, <2>4, <4>1, <4>2 DEF MT!Await
    <3>2. [h EXCEPT !.reply = "none"] \in HelperState /\ [MT!Aborted(h) EXCEPT !.reply = "none"] \in HelperState
          /\ MT!Aborted(h) \in HelperState
      BY <1>1, <1>2, AbortedTyped DEF HelperState
    <3>3. QED
      BY <2>a, <2>4, <3>1, <3>2 DEF MT!Await, MT!NoCall
  <2>5. CASE MT!Release(c)
    <3>1. [h EXCEPT !.gate = "none"] \in HelperState
      BY <1>1, <1>2 DEF HelperState
    <3>2. call' \in [Calls -> CallState]
      BY <1>p, <2>5, MovedTyped DEF MT!Release
    <3>3. QED
      BY <2>a, <2>5, <3>1, <3>2 DEF MT!Release, MT!Opened, MT!NoCall
  <2>6. QED
    BY <2>1, <2>2, <2>3, <2>4, <2>5
<1>4. helpers' \in [Lanes -> [1 .. MaxSpawn -> HelperState]]
  <2>1. CASE helpers' = helpers
    BY <2>1 DEF CallsTyped, CallsShaped
  <2>2. CASE \E g \in HelperState : MT!Set(l, n, g)
    <3> HIDE DEF l, n, h
    <3>1. QED
      BY <1>1, <2>2, SetTyped
  <2>3. QED
    BY <1>3, <2>1, <2>2
<1>5. QED
  BY <1>0, <1>3, <1>4, WorkShaped DEF CallsTyped, CallsShaped

LEMMA JobShaped ==
  ASSUME CallsTyped, Numbered, NEW c \in Calls, MT!Job(c)
  PROVE  CallsShaped' /\ TasksShaped'
<1> USE DEF MT!At, MT!Goto, MT!Pool, MT!Lifecycle, MT!Cache
<1>p. /\ MT!InJob \subseteq Pcs /\ {"idle", "admit", "enqueue", "queued", "returned"} \subseteq Pcs
      /\ {"get", "reap", "gate", "write", "wait", "await", "translated", "release", "failed", "discard"} \subseteq Pcs
  BY DEF Pcs, MT!InJob
<1>0. /\ MT!LaneOf(c) \in Lanes /\ "none" \in Who /\ c \in Who
      /\ helpers \in [Lanes -> [1 .. MaxSpawn -> HelperState]]
      /\ cached \in [Lanes -> 0 .. MaxSpawn] /\ spawned \in [Lanes -> 0 .. MaxSpawn]
      /\ plan.spawns \in 0 .. MaxSpawn /\ MaxSpawn \in Nat
      /\ 0 \in 0 .. MaxSpawn /\ cached[MT!LaneOf(c)] \in 0 .. MaxSpawn
  BY Bounds DEF CallsTyped, CallsShaped, Who
<1>1. CASE MT!Refused(c)
  BY <1>0, <1>1, FinishShaped DEF MT!Refused, MT!NoCall
<1>2. CASE MT!Get(c)
  <2>1. CASE MT!Finish(c, "cancelled", MT!NoCall) /\ UNCHANGED MT!Cache
    BY <1>0, <2>1, FinishShaped DEF MT!NoCall
  <2>2. CASE /\ call' = [call EXCEPT ![c].pc = "gate", ![c].proc = cached[MT!LaneOf(c)], ![c].stale = 0]
             /\ UNCHANGED <<MT!Pool, MT!Lifecycle, MT!Cache, plan>>
    <3>1. call' \in [Calls -> CallState]
      BY <1>p, <1>0, <2>2, PlacedTyped, MovedTyped
    <3>2. QED
      BY <1>0, <2>2, <3>1, WorkShaped
  <2>3. ASSUME /\ spawned[MT!LaneOf(c)] < plan.spawns
               /\ LET new == spawned[MT!LaneOf(c)] + 1 IN
                  /\ MT!Set(MT!LaneOf(c), new, [MT!Unborn EXCEPT !.at = "live"])
                  /\ cached' = [cached EXCEPT ![MT!LaneOf(c)] = new] /\ spawned' = [spawned EXCEPT ![MT!LaneOf(c)] = new]
                  /\ call' = [call EXCEPT ![c].pc = "reap", ![c].proc = new, ![c].stale = cached[MT!LaneOf(c)]]
               /\ UNCHANGED <<MT!Pool, MT!Lifecycle, plan>>
        PROVE  CallsShaped' /\ TasksShaped'
    <3>1. PICK new \in 1 .. MaxSpawn : new = spawned[MT!LaneOf(c)] + 1
      BY <1>0, <2>3
    <3>2. [MT!Unborn EXCEPT !.at = "live"] \in HelperState
      <4>1. MT!Unborn \in HelperState
        BY <1>0 DEF MT!Unborn, MT!NoCall, HelperState
      <4>2. QED
        BY <4>1 DEF HelperState
    <3>3. helpers' \in [Lanes -> [1 .. MaxSpawn -> HelperState]]
      BY <1>0, <2>3, <3>1, <3>2, SetTyped
    <3>4. cached' \in [Lanes -> 0 .. MaxSpawn] /\ spawned' \in [Lanes -> 0 .. MaxSpawn]
      BY <1>0, <2>3, <3>1
    <3>5. call' = [call EXCEPT ![c].pc = "reap", ![c].proc = new, ![c].stale = cached[MT!LaneOf(c)]]
      BY <2>3, <3>1
    <3>6. call' \in [Calls -> CallState]
      <4>1. "reap" \in Pcs /\ new \in 0 .. MaxSpawn
        BY <1>p, <1>0
      <4>2. PICK old \in 0 .. MaxSpawn : call' = [call EXCEPT ![c].pc = "reap", ![c].proc = new, ![c].stale = old]
        BY <1>0, <3>5
      <4>3. QED
        BY <4>1, <4>2, PlacedTyped
    <3>7. QED
      BY <2>3, <3>3, <3>4, <3>6, WorkShaped
  <2>4. QED
    BY <1>2, <2>1, <2>2, <2>3 DEF MT!Get
<1>3. CASE MT!SpawnFails(c)
  <2>1. call' \in [Calls -> CallState]
    BY <1>p, <1>0, <1>3, PlacedTyped DEF MT!SpawnFails
  <2>2. cached' \in [Lanes -> 0 .. MaxSpawn]
    BY <1>0, <1>3 DEF MT!SpawnFails
  <2>3. QED
    BY <1>0, <1>3, <2>1, <2>2, WorkShaped DEF MT!SpawnFails
<1>4. CASE MT!Reaped(c)
  <2>1. CASE MT!Finish(c, "failed", MT!NoCall) /\ UNCHANGED MT!Cache
    BY <1>0, <2>1, FinishShaped DEF MT!NoCall
  <2>2. CASE /\ call' = [call EXCEPT ![c].pc = "gate", ![c].stale = 0]
             /\ UNCHANGED <<MT!Pool, MT!Lifecycle, MT!Cache, plan>>
    <3>1. call' \in [Calls -> CallState]
      BY <1>p, <1>0, <2>2, PlacedTyped, MovedTyped
    <3>2. QED
      BY <1>0, <2>2, <3>1, WorkShaped
  <2>3. QED
    BY <1>4, <2>1, <2>2 DEF MT!Reaped
<1>5. CASE MT!Translated(c)
  <2>1. /\ call[c].pc \in OnHelper /\ call[c].got \in Who
        /\ MT!Set(MT!LaneOf(c), call[c].proc, MT!Opened(c)) /\ MT!Finish(c, "ok", call[c].got)
        /\ UNCHANGED <<cached, spawned>>
    BY <1>5 DEF MT!Translated, OnHelper, CallsTyped, CallsShaped, CallState
  <2>2. call[c].proc \in 1 .. MaxSpawn /\ MT!Mine(c) \in HelperState
    BY <2>1, OnOne
  <2>3. MT!Opened(c) \in HelperState
    BY <1>0, <2>2 DEF MT!Opened, MT!NoCall, HelperState
  <2>4. helpers' \in [Lanes -> [1 .. MaxSpawn -> HelperState]]
    BY <1>0, <2>1, <2>2, <2>3, SetTyped
  <2>5. QED
    BY <2>1, <2>4, FinishShaped
<1>6. CASE MT!Discard(c)
  <2>1. CASE MT!Finish(c, "failed", MT!NoCall) /\ UNCHANGED MT!Cache
    BY <1>0, <2>1, FinishShaped DEF MT!NoCall
  <2>2. CASE /\ cached' = [cached EXCEPT ![MT!LaneOf(c)] = IF @ = call[c].proc THEN 0 ELSE @]
             /\ call' = [call EXCEPT ![c].pc = "discard"]
             /\ UNCHANGED <<MT!Pool, MT!Lifecycle, helpers, spawned, plan>>
    <3>1. call' \in [Calls -> CallState]
      BY <1>p, <1>0, <2>2, PlacedTyped, MovedTyped
    <3>2. cached' \in [Lanes -> 0 .. MaxSpawn]
      BY <1>0, <2>2
    <3>3. QED
      BY <1>0, <2>2, <3>1, <3>2, WorkShaped
  <2>3. QED
    BY <1>6, <2>1, <2>2 DEF MT!Discard
<1>7. CASE MT!Retry(c)
  <2>1. CASE MT!Finish(c, "failed", MT!NoCall) /\ UNCHANGED MT!Cache
    BY <1>0, <2>1, FinishShaped DEF MT!NoCall
  <2>2. CASE /\ call' = [call EXCEPT ![c].pc = "get", ![c].attempt = 2, ![c].proc = 0]
             /\ UNCHANGED <<MT!Pool, MT!Lifecycle, MT!Cache, plan>>
    <3>1. call' \in [Calls -> CallState]
      BY <1>p, <1>0, <2>2, PlacedTyped, MovedTyped
    <3>2. QED
      BY <1>0, <2>2, <3>1, WorkShaped
  <2>3. QED
    BY <1>7, <2>1, <2>2 DEF MT!Retry
<1>8. QED
  BY <1>1, <1>2, <1>3, <1>4, <1>5, <1>6, <1>7, OnHelperShaped DEF MT!Job

LEMMA ShapedNext ==
  ASSUME CallsTyped, Numbered, MT!Next
  PROVE  CallsShaped' /\ TasksShaped'
<1> USE DEF MT!At, MT!Goto, MT!Pool, MT!Lifecycle, MT!Cache
<1>p. /\ MT!InJob \subseteq Pcs /\ {"idle", "admit", "enqueue", "queued", "returned"} \subseteq Pcs
      /\ {"get", "reap", "gate", "write", "wait", "await", "translated", "release", "failed", "discard"} \subseteq Pcs
  BY DEF Pcs, MT!InJob
<1>1. ASSUME NEW c \in Calls, MT!Submit(c) \/ MT!Admit(c) \/ MT!Cancel(c)
      PROVE  CallsShaped' /\ TasksShaped'
  <2>1. call' \in [Calls -> CallState]
    <3>1. CASE MT!Submit(c)
      BY <1>p, <3>1, MovedTyped DEF MT!Submit
    <3>2. CASE MT!Admit(c)
      BY <1>p, <3>2, MovedTyped DEF MT!Admit
    <3>3. CASE MT!Cancel(c)
      <4>1. call \in [Calls -> CallState] /\ call' = [call EXCEPT ![c].ctx = FALSE]
        BY <3>3 DEF MT!Cancel, CallsTyped, CallsShaped
      <4>2. [call[c] EXCEPT !.ctx = FALSE] \in CallState
        BY <4>1 DEF CallState
      <4>3. QED
        BY <4>1, <4>2
    <3>4. QED
      BY <1>1, <3>1, <3>2, <3>3
  <2>2. TasksShaped'
    BY <1>1 DEF MT!Submit, MT!Admit, MT!Cancel, CallsTyped, TasksShaped
  <2>3. QED
    BY <1>1, <2>1, <2>2 DEF MT!Submit, MT!Admit, MT!Cancel, CallsTyped, CallsShaped
<1>2. ASSUME NEW c \in Calls, MT!Enqueue(c)
      PROVE  CallsShaped' /\ TasksShaped'
  <2>1. call' \in [Calls -> CallState]
    BY <1>p, <1>2, MovedTyped DEF MT!Enqueue
  <2>2. TasksShaped'
    BY <1>2 DEF MT!Enqueue, CallsTyped, TasksShaped
  <2>3. queue' \in Seq(Calls)
    <3>1. queue' = Append(queue, c) \/ queue' = queue
      BY <1>2 DEF MT!Enqueue
    <3>2. queue \in Seq(Calls)
      BY DEF CallsTyped, CallsShaped
    <3>3. Append(queue, c) \in Seq(Calls)
      BY <3>2
    <3>4. QED
      BY <3>1, <3>2, <3>3
  <2>4. QED
    BY <1>2, <2>1, <2>2, <2>3 DEF MT!Enqueue, CallsTyped, CallsShaped
<1>3. CASE MT!Take
  <2>1. PICK c \in Calls : c = Head(queue)
    BY <1>3 DEF MT!Take, CallsTyped, CallsShaped
  <2>2. call' \in [Calls -> CallState]
    <3>1. call' = [call EXCEPT ![c].pc = "get", ![c].attempt = 1]
      BY <1>3, <2>1 DEF MT!Take
    <3>2. QED
      BY <1>p, <3>1, MovedTyped
  <2>3. queue' \in Seq(Calls) /\ running' \subseteq Calls
    BY <1>3, <2>1 DEF MT!Take, CallsTyped, CallsShaped
  <2>4. QED
    BY <1>3, <2>2, <2>3 DEF MT!Take, CallsTyped, CallsShaped, TasksShaped
<1>4. ASSUME NEW l \in Lanes, NEW n \in 1 .. MaxSpawn, MT!Reply(l, n) \/ MT!Exit(l, n) \/ MT!Reap(l, n)
      PROVE  CallsShaped' /\ TasksShaped'
  <2>1. helpers[l][n] \in HelperState /\ "none" \in Who
    BY DEF CallsTyped, CallsShaped, Who
  <2>2. PICK h \in HelperState : MT!Set(l, n, h)
    BY <1>4, <2>1, AbortedTyped DEF MT!Reply, MT!Exit, MT!Reap, MT!NoCall, HelperState
  <2>3. helpers' \in [Lanes -> [1 .. MaxSpawn -> HelperState]]
    BY <2>2, SetTyped
  <2>4. QED
    BY <1>4, <2>3 DEF MT!Reply, MT!Exit, MT!Reap, CallsTyped, CallsShaped, TasksShaped
<1>5. ASSUME NEW l \in Lanes, MT!CloseLane(l) \/ MT!Drained(l)
      PROVE  CallsShaped' /\ TasksShaped'
  BY <1>5 DEF MT!CloseLane, MT!Drained, CallsTyped, CallsShaped, TasksShaped
<1>6. ASSUME NEW l \in Lanes, MT!CloseAll(l)
      PROVE  CallsShaped' /\ TasksShaped'
  <2>1. \A n \in 1 .. MaxSpawn : MT!Aborted(helpers[l][n]) \in HelperState
    BY AbortedTyped DEF CallsTyped, CallsShaped
  <2>2. helpers' \in [Lanes -> [1 .. MaxSpawn -> HelperState]]
    BY <1>6, <2>1 DEF MT!CloseAll, CallsTyped, CallsShaped
  <2>3. closing' \in [Lanes -> {"open", "admitted", "reaping", "closed"}] /\ cached' \in [Lanes -> 0 .. MaxSpawn]
    BY <1>6, Bounds DEF MT!CloseAll, CallsTyped, CallsShaped
  <2>4. QED
    BY <1>6, <2>2, <2>3 DEF MT!CloseAll, CallsTyped, CallsShaped, TasksShaped
<1>7. CASE MT!ClosePool \/ MT!PoolDrained
  BY <1>7 DEF MT!ClosePool, MT!PoolDrained, CallsTyped, CallsShaped, TasksShaped
<1>8. QED
  BY <1>1, <1>2, <1>3, <1>4, <1>5, <1>6, <1>7, JobShaped DEF MT!Next, MT!Closing

-----------------------------------------------------------------------------
(* A call knows a helper that was spawned.                                 *)

\* A call takes the cached helper, keeps its own or leaves it.
LEMMA NumberedKept ==
  ASSUME CallsTyped, Numbered, NEW c \in Calls, Alone(c), UNCHANGED <<plan, spawned>>,
         call'[c].proc \in {0, call[c].proc, cached[MT!LaneOf(c)]},
         call'[c].pc \in OnHelper => call'[c].proc # 0,
         \A l \in Lanes : cached'[l] \in {0, cached[l]}
  PROVE  Numbered'
<1>1. \A d \in Calls : MT!LaneOf(d)' = MT!LaneOf(d) /\ MT!LaneOf(d) \in Lanes
  BY Bounds DEF MT!LaneOf
<1>2. \A l \in Lanes : spawned[l] \in Nat
  BY Bounds DEF CallsTyped, CallsShaped
<1>3. \A l \in Lanes : cached'[l] <= spawned'[l]
  BY <1>2 DEF Numbered
<1>4. ASSUME NEW d \in Calls
      PROVE  call'[d].proc <= spawned'[MT!LaneOf(d)'] /\ (call'[d].pc \in OnHelper => call'[d].proc # 0)
  BY <1>1, <1>2 DEF Numbered, Alone
<1>5. QED
  BY <1>3, <1>4 DEF Numbered

LEMMA NumberedSpawn ==
  ASSUME CallsTyped, Numbered, NEW c \in Calls, Alone(c), plan' = plan, NEW new \in 1 .. MaxSpawn,
         new = spawned[MT!LaneOf(c)] + 1,
         spawned' = [spawned EXCEPT ![MT!LaneOf(c)] = new], cached' = [cached EXCEPT ![MT!LaneOf(c)] = new],
         call'[c].proc = new
  PROVE  Numbered'
<1>1. \A d \in Calls : MT!LaneOf(d)' = MT!LaneOf(d) /\ MT!LaneOf(d) \in Lanes
  BY Bounds DEF MT!LaneOf
<1>2. /\ \A l \in Lanes : spawned[l] \in 0 .. MaxSpawn /\ spawned[l] <= spawned'[l]
      /\ spawned'[MT!LaneOf(c)] = new
      /\ \A d \in Calls : call[d].proc \in 0 .. MaxSpawn
  <2>1. spawned \in [Lanes -> 0 .. MaxSpawn] /\ call \in [Calls -> CallState]
    BY DEF CallsTyped, CallsShaped
  <2>2. PICK k \in Lanes : k = MT!LaneOf(c)
    BY <1>1
  <2>3. spawned' = [spawned EXCEPT ![k] = new] /\ new = spawned[k] + 1
    BY <2>2
  <2>4. \A l \in Lanes : spawned'[l] = IF l = k THEN new ELSE spawned[l]
    BY <2>1, <2>3
  <2>5. ASSUME NEW l \in Lanes PROVE spawned[l] \in 0 .. MaxSpawn /\ spawned[l] <= spawned'[l]
    <3>1. spawned[l] \in 0 .. MaxSpawn /\ MaxSpawn \in Nat
      BY <2>1, Bounds
    <3>2. QED
      BY <2>3, <2>4, <3>1
  <2>6. \A d \in Calls : call[d].proc \in 0 .. MaxSpawn
    BY <2>1 DEF CallState
  <2>7. QED
    BY <2>2, <2>4, <2>5, <2>6
<1>3. \A l \in Lanes : cached'[l] <= spawned'[l]
  BY <1>1, <1>2 DEF Numbered, CallsTyped, CallsShaped
<1>4. ASSUME NEW d \in Calls
      PROVE  call'[d].proc <= spawned'[MT!LaneOf(d)'] /\ (call'[d].pc \in OnHelper => call'[d].proc # 0)
  <2>1. CASE d = c
    BY <1>1, <1>2, <2>1
  <2>2. CASE d # c
    <3>1. call[d].proc <= spawned[MT!LaneOf(d)] /\ spawned[MT!LaneOf(d)] <= spawned'[MT!LaneOf(d)]
      BY <1>1, <1>2 DEF Numbered
    <3>2. /\ spawned[MT!LaneOf(d)] \in 0 .. MaxSpawn /\ spawned'[MT!LaneOf(d)] \in 0 .. MaxSpawn
          /\ call[d].proc \in 0 .. MaxSpawn
      BY <1>1, <1>2 DEF CallsTyped, CallsShaped
    <3>3. QED
      BY <1>1, <2>2, <3>1, <3>2, Bounds DEF Numbered, Alone
  <2>3. QED
    BY <2>1, <2>2
<1>5. QED
  BY <1>3, <1>4 DEF Numbered

\* A call that returned knows none.
LEMMA FinishLeaves ==
  ASSUME CallsTyped, NEW c \in Calls, NEW end, NEW got, MT!Finish(c, end, got)
  PROVE  /\ Alone(c) /\ call'[c].pc = "returned" /\ call'[c].proc = 0
         /\ UNCHANGED <<queue, poolEnd, closing, plan>>
BY DEF MT!Finish, MT!Idle, Alone, CallsTyped, CallsShaped

LEMMA NumberedNext ==
  ASSUME CallsTyped, Numbered, MT!Next
  PROVE  Numbered'
<1> USE DEF MT!At, MT!Goto, MT!Pool, MT!Lifecycle, MT!Cache
<1>a. /\ "returned" \notin OnHelper /\ "admit" \notin OnHelper /\ "enqueue" \notin OnHelper /\ "queued" \notin OnHelper
      /\ "get" \notin OnHelper /\ "reap" \notin OnHelper
      /\ {"gate", "write", "wait", "await", "translated", "release", "failed", "discard"} = OnHelper
  BY DEF OnHelper
<1>b. \A c \in Calls : MT!LaneOf(c) \in Lanes
  BY Bounds
<1>1. ASSUME NEW c \in Calls, MT!Submit(c) \/ MT!Admit(c) \/ MT!Enqueue(c) \/ MT!Cancel(c)
      PROVE  Numbered'
  <2>1. Alone(c) /\ call'[c].proc = call[c].proc /\ UNCHANGED <<cached, spawned, plan>>
    BY <1>1 DEF MT!Submit, MT!Admit, MT!Enqueue, MT!Cancel, Alone, CallsTyped, CallsShaped, CallState
  <2>2. call'[c].pc \in OnHelper => call[c].pc \in OnHelper
    <3>1. CASE MT!Cancel(c)
      BY <3>1 DEF MT!Cancel, CallsTyped, CallsShaped, CallState
    <3>2. CASE MT!Submit(c)
      BY <1>a, <3>2 DEF MT!Submit, CallsTyped, CallsShaped, CallState
    <3>3. CASE MT!Admit(c)
      BY <1>a, <3>3 DEF MT!Admit, CallsTyped, CallsShaped, CallState
    <3>4. CASE MT!Enqueue(c)
      BY <1>a, <3>4 DEF MT!Enqueue, CallsTyped, CallsShaped, CallState
    <3>5. QED
      BY <1>1, <3>1, <3>2, <3>3, <3>4
  <2>3. QED
    BY <2>1, <2>2, NumberedKept DEF Numbered
<1>2. ASSUME NEW c \in Calls, NEW end, NEW got, MT!Finish(c, end, got), UNCHANGED <<cached, spawned>>
      PROVE  Numbered'
  BY <1>2, <1>a, FinishLeaves, NumberedKept
<1>3. ASSUME NEW c \in Calls, MT!Get(c)
      PROVE  Numbered'
  <2>1. CASE /\ call' = [call EXCEPT ![c].pc = "gate", ![c].proc = cached[MT!LaneOf(c)], ![c].stale = 0]
             /\ cached[MT!LaneOf(c)] # 0
             /\ UNCHANGED <<MT!Pool, MT!Lifecycle, MT!Cache, plan>>
    <3>1. Alone(c) /\ call'[c].proc = cached[MT!LaneOf(c)]
      BY <2>1 DEF Alone, CallsTyped, CallsShaped, CallState
    <3>2. QED
      BY <2>1, <3>1, NumberedKept
  <2>2. CASE /\ spawned[MT!LaneOf(c)] < plan.spawns
             /\ LET new == spawned[MT!LaneOf(c)] + 1 IN
                /\ cached' = [cached EXCEPT ![MT!LaneOf(c)] = new] /\ spawned' = [spawned EXCEPT ![MT!LaneOf(c)] = new]
                /\ call' = [call EXCEPT ![c].pc = "reap", ![c].proc = new, ![c].stale = cached[MT!LaneOf(c)]]
             /\ UNCHANGED plan
    <3>1. PICK new \in 1 .. MaxSpawn : new = spawned[MT!LaneOf(c)] + 1
      <4>1. spawned[MT!LaneOf(c)] \in 0 .. MaxSpawn /\ plan.spawns \in 0 .. MaxSpawn /\ MaxSpawn \in Nat
        BY <1>b, Bounds DEF CallsTyped, CallsShaped
      <4>2. QED
        BY <2>2, <4>1
    <3>2. Alone(c) /\ call'[c].proc = new
      BY <2>2, <3>1 DEF Alone, CallsTyped, CallsShaped, CallState
    <3>3. QED
      BY <2>2, <3>1, <3>2, NumberedSpawn
  <2>3. QED
    BY <1>2, <1>3, <2>1, <2>2 DEF MT!Get
<1>4. ASSUME NEW c \in Calls, MT!SpawnFails(c)
      PROVE  Numbered'
  <2>1. Alone(c) /\ call'[c].proc = 0 /\ call'[c].pc = "reap" /\ UNCHANGED <<spawned, plan>>
    BY <1>4 DEF MT!SpawnFails, Alone, CallsTyped, CallsShaped, CallState
  <2>2. \A l \in Lanes : cached'[l] \in {0, cached[l]}
    BY <1>4 DEF MT!SpawnFails, CallsTyped, CallsShaped
  <2>3. QED
    BY <1>a, <2>1, <2>2, NumberedKept
<1>5. ASSUME NEW c \in Calls, MT!Reaped(c)
      PROVE  Numbered'
  <2>1. CASE /\ call[c].proc # 0 /\ call' = [call EXCEPT ![c].pc = "gate", ![c].stale = 0]
             /\ UNCHANGED <<MT!Pool, MT!Lifecycle, MT!Cache, plan>>
    <3>1. Alone(c) /\ call'[c].proc = call[c].proc
      BY <2>1 DEF Alone, CallsTyped, CallsShaped, CallState
    <3>2. QED
      BY <2>1, <3>1, NumberedKept
  <2>2. QED
    BY <1>2, <1>5, <2>1 DEF MT!Reaped
<1>6. ASSUME NEW c \in Calls,
             MT!Acquire(c) \/ MT!WriteLine(c) \/ MT!WriteFailed(c) \/ MT!Await(c) \/ MT!Release(c)
      PROVE  Numbered'
  <2>1. call[c].pc \in OnHelper /\ UNCHANGED <<cached, spawned, plan>>
    BY <1>6, <1>a DEF MT!Acquire, MT!WriteLine, MT!WriteFailed, MT!Await, MT!Release
  <2>2. CASE \E pc \in Pcs : call' = [call EXCEPT ![c].pc = pc]
    <3>1. Alone(c) /\ call'[c].proc = call[c].proc
      BY <2>2 DEF Alone, CallsTyped, CallsShaped, CallState
    <3>2. QED
      BY <2>1, <3>1, NumberedKept DEF Numbered
  <2>3. CASE \E got \in {MT!Mine(c).reply} : call' = [call EXCEPT ![c].pc = "translated", ![c].got = got]
    <3>1. Alone(c) /\ call'[c].proc = call[c].proc
      BY <2>3 DEF Alone, CallsTyped, CallsShaped, CallState
    <3>2. QED
      BY <2>1, <3>1, NumberedKept DEF Numbered
  <2>4. {"write", "await", "wait", "release", "failed"} \subseteq Pcs
    BY DEF Pcs, MT!InJob
  <2>5. CASE MT!Await(c)
    BY <2>2, <2>3, <2>4, <2>5 DEF MT!Await
  <2>6. CASE MT!Acquire(c) \/ MT!WriteFailed(c) \/ MT!Release(c)
    BY <2>2, <2>4, <2>6 DEF MT!Acquire, MT!WriteFailed, MT!Release
  <2>7. CASE MT!WriteLine(c)
    <3>1. \E pc \in {"await", "wait", "release"} : call' = [call EXCEPT ![c].pc = pc]
      BY <2>7 DEF MT!WriteLine
    <3>2. QED
      BY <2>2, <2>4, <3>1
  <2>8. QED
    BY <1>6, <2>5, <2>6, <2>7
<1>7. ASSUME NEW c \in Calls, MT!Discard(c)
      PROVE  Numbered'
  <2>1. CASE /\ cached' = [cached EXCEPT ![MT!LaneOf(c)] = IF @ = call[c].proc THEN 0 ELSE @]
             /\ call[c].pc = "failed" /\ call' = [call EXCEPT ![c].pc = "discard"]
             /\ UNCHANGED <<MT!Pool, MT!Lifecycle, helpers, spawned, plan>>
    <3>1. Alone(c) /\ call'[c].proc = call[c].proc
      BY <2>1 DEF Alone, CallsTyped, CallsShaped, CallState
    <3>2. \A l \in Lanes : cached'[l] \in {0, cached[l]}
      BY <2>1 DEF CallsTyped, CallsShaped
    <3>3. call[c].pc \in OnHelper
      BY <2>1, <1>a
    <3>4. QED
      BY <2>1, <3>1, <3>2, <3>3, NumberedKept DEF Numbered
  <2>2. QED
    BY <1>2, <1>7, <2>1 DEF MT!Discard
<1>8. ASSUME NEW c \in Calls, MT!Retry(c)
      PROVE  Numbered'
  <2>1. CASE /\ call' = [call EXCEPT ![c].pc = "get", ![c].attempt = 2, ![c].proc = 0]
             /\ UNCHANGED <<MT!Pool, MT!Lifecycle, MT!Cache, plan>>
    <3>1. Alone(c) /\ call'[c].proc = 0 /\ call'[c].pc = "get"
      BY <2>1 DEF Alone, CallsTyped, CallsShaped, CallState
    <3>2. QED
      BY <1>a, <2>1, <3>1, NumberedKept
  <2>2. QED
    BY <1>2, <1>8, <2>1 DEF MT!Retry
<1>9. CASE MT!Take
  <2>1. PICK c \in Calls : c = Head(queue)
    BY <1>9 DEF MT!Take, CallsTyped, CallsShaped
  <2>2. call' = [call EXCEPT ![c].pc = "get", ![c].attempt = 1] /\ UNCHANGED <<cached, spawned, plan>>
    BY <1>9, <2>1 DEF MT!Take
  <2>3. Alone(c) /\ call'[c].proc = call[c].proc /\ call'[c].pc = "get"
    BY <2>2 DEF Alone, CallsTyped, CallsShaped, CallState
  <2>4. QED
    BY <1>a, <2>2, <2>3, NumberedKept
<1>10. ASSUME UNCHANGED <<call, spawned, plan>>, \A l \in Lanes : cached'[l] \in {0, cached[l]}
       PROVE  Numbered'
  <2>1. \A l \in Lanes : spawned[l] \in Nat
    BY Bounds DEF CallsTyped, CallsShaped
  <2>2. \A l \in Lanes : cached'[l] <= spawned'[l]
    BY <1>10, <2>1 DEF Numbered
  <2>3. QED
    BY <1>10, <2>2 DEF Numbered, MT!LaneOf
<1>11. ASSUME NEW l \in Lanes, NEW n \in 1 .. MaxSpawn, MT!Reply(l, n) \/ MT!Exit(l, n) \/ MT!Reap(l, n)
       PROVE  Numbered'
  BY <1>10, <1>11 DEF MT!Reply, MT!Exit, MT!Reap
<1>12. ASSUME NEW l \in Lanes, MT!CloseLane(l) \/ MT!CloseAll(l) \/ MT!Drained(l)
       PROVE  Numbered'
  <2>1. \A k \in Lanes : cached'[k] \in {0, cached[k]}
    BY <1>12 DEF MT!CloseLane, MT!CloseAll, MT!Drained, CallsTyped, CallsShaped
  <2>2. UNCHANGED <<call, spawned, plan>>
    BY <1>12 DEF MT!CloseLane, MT!CloseAll, MT!Drained
  <2>3. QED
    BY <1>10, <2>1, <2>2
<1>13. CASE MT!ClosePool \/ MT!PoolDrained
  BY <1>10, <1>13 DEF MT!ClosePool, MT!PoolDrained
<1>14. ASSUME NEW c \in Calls, MT!Refused(c)
       PROVE  Numbered'
  BY <1>2, <1>14 DEF MT!Refused
<1>15. ASSUME NEW c \in Calls, MT!Translated(c)
       PROVE  Numbered'
  BY <1>2, <1>15 DEF MT!Translated
<1>16. QED
  BY <1>1, <1>3, <1>4, <1>5, <1>6, <1>7, <1>8, <1>9, <1>11, <1>12, <1>13, <1>14, <1>15
     DEF MT!Next, MT!Job, MT!Closing

-----------------------------------------------------------------------------
(* One helper takes input: the cached one.                                 *)

\* A helper only goes on to its end, and the cache drops none that serves.
LEMMA ServingKept ==
  ASSUME CallsTyped, Serving,
         \A l \in Lanes : \A n \in 1 .. MaxSpawn :
            \/ helpers'[l][n].at = helpers[l][n].at
            \/ (helpers[l][n].at \in {"live", "stopping"} /\ helpers'[l][n].at \in {"stopping", "done"}),
         \A l \in Lanes : cached'[l] = cached[l] \/ (cached[l] # 0 => helpers'[l][cached[l]].at # "live"),
         \A l \in Lanes : closing'[l] = "closed" => closing[l] = "closed"
  PROVE  Serving'
<1>1. ASSUME NEW l \in Lanes, NEW n \in 1 .. MaxSpawn, helpers'[l][n].at = "live"
      PROVE  cached'[l] = n
  <2>1. helpers[l][n].at = "live" /\ cached[l] = n /\ n # 0
    BY <1>1, Bounds DEF Serving
  <2>2. QED
    BY <1>1, <2>1
<1>2. ASSUME NEW l \in Lanes, closing'[l] = "closed", NEW n \in 1 .. MaxSpawn
      PROVE  helpers'[l][n].at \in {"unborn", "done"}
  <2>1. helpers[l][n].at \in {"unborn", "done"}
    BY <1>2 DEF Serving
  <2>2. QED
    BY <2>1
<1>3. QED
  BY <1>1, <1>2 DEF Serving

\* The helper a call is on, and what its step sets of it.
LEMMA ServingSet ==
  ASSUME CallsTyped, Serving, NEW l \in Lanes, NEW n \in 1 .. MaxSpawn, NEW h, MT!Set(l, n, h),
         h.at = helpers[l][n].at \/ h.at = MT!Aborted(helpers[l][n]).at
           \/ (helpers[l][n].at = "stopping" /\ h.at = "done"),
         UNCHANGED <<cached, closing>>
  PROVE  Serving'
<1>1. \A k \in Lanes : \A m \in 1 .. MaxSpawn : (k # l \/ m # n) => helpers'[k][m] = helpers[k][m]
  BY DEF MT!Set, CallsTyped, CallsShaped
<1>2. helpers'[l][n] = h
  BY DEF MT!Set, CallsTyped, CallsShaped
<1>3. helpers[l][n] \in HelperState
  BY DEF CallsTyped, CallsShaped
<1>4. MT!Aborted(helpers[l][n]).at = helpers[l][n].at \/ (helpers[l][n].at = "live" /\ MT!Aborted(helpers[l][n]).at = "stopping")
  BY <1>3 DEF MT!Aborted, HelperState
<1>5. \A k \in Lanes : \A m \in 1 .. MaxSpawn :
        \/ helpers'[k][m].at = helpers[k][m].at
        \/ (helpers[k][m].at \in {"live", "stopping"} /\ helpers'[k][m].at \in {"stopping", "done"})
  BY <1>1, <1>2, <1>4
<1>6. QED
  BY <1>5, ServingKept

\* Where no helper moves.
LEMMA ServingStays ==
  ASSUME CallsTyped, Serving, UNCHANGED <<helpers, closing>>,
         \A l \in Lanes : cached'[l] = cached[l] \/ (cached[l] # 0 => helpers[l][cached[l]].at # "live")
  PROVE  Serving'
BY ServingKept

\* A job on a helper sets that one at most.
LEMMA OnHelperSets ==
  ASSUME CallsTyped, Numbered, NEW c \in Calls,
         \/ MT!Acquire(c) \/ MT!WriteLine(c) \/ MT!WriteFailed(c) \/ MT!Await(c) \/ MT!Release(c) \/ MT!Translated(c)
  PROVE  /\ UNCHANGED <<cached, spawned, closing, plan>> /\ call[c].pc \in OnHelper
         /\ \/ helpers' = helpers
            \/ \E h \in HelperState : /\ MT!Set(MT!LaneOf(c), call[c].proc, h)
                                      /\ h.at = MT!Mine(c).at \/ h.at = MT!Aborted(MT!Mine(c)).at
<1> USE DEF MT!At, MT!Goto, MT!Pool, MT!Lifecycle, MT!Cache
<1>1. /\ UNCHANGED <<cached, spawned, closing, plan>> /\ call[c].pc \in OnHelper
  BY DEF MT!Acquire, MT!WriteLine, MT!WriteFailed, MT!Await, MT!Release, MT!Translated, MT!Finish, OnHelper
<1>2. PICK h \in HelperState : h = MT!Mine(c)
  BY <1>1, OnOne
<1>3. PICK l, n : l = MT!LaneOf(c) /\ n = call[c].proc
  OBVIOUS
<1>4. h.gate \in Who /\ h.asked \in Who /\ h.reply \in Who /\ c \in Who /\ "none" \in Who /\ MT!Aborted(h) \in HelperState
  BY AbortedTyped DEF HelperState, Who
<1>5. /\ \A x \in Who : /\ [h EXCEPT !.gate = x] \in HelperState /\ [h EXCEPT !.gate = x].at = h.at
                        /\ [h EXCEPT !.asked = x] \in HelperState /\ [h EXCEPT !.asked = x].at = h.at
                        /\ [h EXCEPT !.reply = x] \in HelperState /\ [h EXCEPT !.reply = x].at = h.at
  BY DEF HelperState
<1>6. /\ \A x \in Who : /\ [MT!Aborted(h) EXCEPT !.asked = x] \in HelperState
                        /\ [MT!Aborted(h) EXCEPT !.asked = x].at = MT!Aborted(h).at
                        /\ [MT!Aborted(h) EXCEPT !.reply = x] \in HelperState
                        /\ [MT!Aborted(h) EXCEPT !.reply = x].at = MT!Aborted(h).at
  BY <1>4 DEF HelperState
<1>7. helpers' = helpers \/ \E g \in HelperState : MT!Set(l, n, g) /\ (g.at = h.at \/ g.at = MT!Aborted(h).at)
  <2>1. CASE MT!Acquire(c)
    BY <1>2, <1>3, <1>4, <1>5, <2>1 DEF MT!Acquire
  <2>2. CASE MT!WriteLine(c)
    <3>1. CASE MT!Set(l, n, [h EXCEPT !.asked = c])
      BY <3>1, <1>4, <1>5
    <3>2. CASE \E asked \in {h.asked, IF h.at = "live" THEN c ELSE h.asked} :
                 MT!Set(l, n, [MT!Aborted(h) EXCEPT !.asked = asked])
      BY <3>2, <1>4, <1>6
    <3>3. QED
      BY <1>2, <1>3, <2>2, <3>1, <3>2 DEF MT!WriteLine
  <2>3. CASE MT!WriteFailed(c)
    BY <2>3 DEF MT!WriteFailed
  <2>4. CASE MT!Await(c)
    BY <1>2, <1>3, <1>4, <1>5, <1>6, <2>4 DEF MT!Await, MT!NoCall
  <2>5. CASE MT!Release(c) \/ MT!Translated(c)
    BY <1>2, <1>3, <1>4, <1>5, <2>5 DEF MT!Release, MT!Translated, MT!Opened, MT!NoCall
  <2>6. QED
    BY <2>1, <2>2, <2>3, <2>4, <2>5
<1>8. QED
  BY <1>1, <1>2, <1>3, <1>7

LEMMA ServingNext ==
  ASSUME CallsTyped, Numbered, Serving, MT!Next
  PROVE  Serving'
<1> USE DEF MT!At, MT!Goto, MT!Pool, MT!Lifecycle, MT!Cache
<1>b. \A c \in Calls : MT!LaneOf(c) \in Lanes
  BY Bounds
<1>1. ASSUME NEW c \in Calls, MT!Submit(c) \/ MT!Admit(c) \/ MT!Enqueue(c) \/ MT!Cancel(c)
      PROVE  Serving'
  BY <1>1, ServingStays DEF MT!Submit, MT!Admit, MT!Enqueue, MT!Cancel
<1>2. ASSUME NEW c \in Calls, NEW end, NEW got, MT!Finish(c, end, got), UNCHANGED <<helpers, cached>>
      PROVE  Serving'
  BY <1>2, ServingStays DEF MT!Finish
<1>3. ASSUME NEW c \in Calls, MT!Get(c)
      PROVE  Serving'
  <2>1. CASE /\ MT!LaneOf(c) \in Lanes /\ spawned[MT!LaneOf(c)] < plan.spawns
             /\ cached[MT!LaneOf(c)] # 0 => MT!Unusable(helpers[MT!LaneOf(c)][cached[MT!LaneOf(c)]])
             /\ closing[MT!LaneOf(c)] \in {"open", "admitted"}
             /\ LET new == spawned[MT!LaneOf(c)] + 1 IN
                /\ MT!Set(MT!LaneOf(c), new, [MT!Unborn EXCEPT !.at = "live"])
                /\ cached' = [cached EXCEPT ![MT!LaneOf(c)] = new]
             /\ UNCHANGED <<MT!Lifecycle, plan>>
    <3>0. PICK k \in Lanes : k = MT!LaneOf(c)
      BY <1>b
    <3>1. PICK new \in 1 .. MaxSpawn : new = spawned[k] + 1
      <4>1. spawned[k] \in 0 .. MaxSpawn /\ plan.spawns \in 0 .. MaxSpawn /\ MaxSpawn \in Nat
        BY Bounds DEF CallsTyped, CallsShaped
      <4>2. QED
        BY <2>1, <3>0, <4>1
    <3>2. /\ helpers'[k][new].at = "live" /\ cached'[k] = new
          /\ \A l \in Lanes \ {k} : helpers'[l] = helpers[l] /\ cached'[l] = cached[l]
          /\ \A n \in 1 .. MaxSpawn : n # new => helpers'[k][n] = helpers[k][n]
      <4>1. [MT!Unborn EXCEPT !.at = "live"].at = "live"
        BY DEF MT!Unborn
      <4>2. PICK h : h = [MT!Unborn EXCEPT !.at = "live"] /\ MT!Set(k, new, h) /\ cached' = [cached EXCEPT ![k] = new]
        BY <2>1, <3>0, <3>1
      <4>3. QED
        BY <4>1, <4>2 DEF MT!Set, CallsTyped, CallsShaped
    <3>3. \A n \in 1 .. MaxSpawn : helpers[k][n].at # "live"
      BY <2>1, <3>0, Bounds DEF Serving, MT!Unusable
    <3>4. ASSUME NEW l \in Lanes, NEW n \in 1 .. MaxSpawn, helpers'[l][n].at = "live"
          PROVE  cached'[l] = n
      BY <3>2, <3>3, <3>4 DEF Serving
    <3>5. ASSUME NEW l \in Lanes, closing'[l] = "closed", NEW n \in 1 .. MaxSpawn
          PROVE  helpers'[l][n].at \in {"unborn", "done"}
      <4>1. closing[l] = "closed" /\ l # k
        BY <2>1, <3>0, <3>5
      <4>2. QED
        BY <3>2, <4>1 DEF Serving
    <3>6. QED
      BY <3>4, <3>5 DEF Serving
  <2>2. CASE UNCHANGED <<helpers, cached, closing>>
    BY <2>2, ServingStays
  <2>3. QED
    BY <1>b, <1>3, <2>1, <2>2 DEF MT!Get, MT!Finish
<1>4. ASSUME NEW c \in Calls, MT!SpawnFails(c)
      PROVE  Serving'
  <2>1. \A l \in Lanes : cached'[l] = cached[l] \/ (cached[l] # 0 => helpers[l][cached[l]].at # "live")
    BY <1>b, <1>4 DEF MT!SpawnFails, MT!Unusable, CallsTyped, CallsShaped
  <2>2. QED
    BY <1>4, <2>1, ServingStays DEF MT!SpawnFails
<1>5. ASSUME NEW c \in Calls, MT!Reaped(c) \/ MT!Refused(c) \/ MT!Retry(c)
      PROVE  Serving'
  <2>1. UNCHANGED <<helpers, cached, closing>>
    BY <1>5 DEF MT!Reaped, MT!Refused, MT!Retry, MT!Finish
  <2>2. QED
    BY <2>1, ServingStays
<1>6. ASSUME NEW c \in Calls,
             MT!Acquire(c) \/ MT!WriteLine(c) \/ MT!WriteFailed(c) \/ MT!Await(c) \/ MT!Release(c) \/ MT!Translated(c)
      PROVE  Serving'
  <2>1. CASE helpers' = helpers
    BY <1>6, <2>1, OnHelperSets, ServingStays
  <2>2. CASE \E h \in HelperState : /\ MT!Set(MT!LaneOf(c), call[c].proc, h)
                                    /\ h.at = MT!Mine(c).at \/ h.at = MT!Aborted(MT!Mine(c)).at
    <3>1. PICK h \in HelperState : /\ MT!Set(MT!LaneOf(c), call[c].proc, h)
                                   /\ h.at = MT!Mine(c).at \/ h.at = MT!Aborted(MT!Mine(c)).at
      BY <2>2
    <3>2. /\ UNCHANGED <<cached, closing>> /\ MT!LaneOf(c) \in Lanes /\ call[c].proc \in 1 .. MaxSpawn
          /\ MT!Mine(c) = helpers[MT!LaneOf(c)][call[c].proc]
      BY <1>6, OnHelperSets, OnOne
    <3>3. QED
      BY <3>1, <3>2, ServingSet
  <2>3. QED
    BY <1>6, <2>1, <2>2, OnHelperSets
<1>7. ASSUME NEW c \in Calls, MT!Discard(c)
      PROVE  Serving'
  <2>1. CASE /\ MT!Unusable(MT!Mine(c)) /\ UNCHANGED <<helpers, closing>>
             /\ cached' = [cached EXCEPT ![MT!LaneOf(c)] = IF @ = call[c].proc THEN 0 ELSE @]
    <3>1. MT!Mine(c) = helpers[MT!LaneOf(c)][call[c].proc]
      BY DEF MT!Mine
    <3>2. \A l \in Lanes : cached'[l] = cached[l] \/ (cached[l] # 0 => helpers[l][cached[l]].at # "live")
      BY <2>1, <3>1 DEF MT!Unusable, CallsTyped, CallsShaped
    <3>3. QED
      BY <2>1, <3>2, ServingStays
  <2>2. CASE UNCHANGED <<helpers, cached, closing>>
    BY <2>2, ServingStays
  <2>3. QED
    BY <1>7, <2>1, <2>2 DEF MT!Discard, MT!Finish
<1>8. CASE MT!Take \/ MT!ClosePool \/ MT!PoolDrained
  BY <1>8, ServingStays DEF MT!Take, MT!ClosePool, MT!PoolDrained
<1>9. ASSUME NEW l \in Lanes, NEW n \in 1 .. MaxSpawn, MT!Reply(l, n) \/ MT!Exit(l, n) \/ MT!Reap(l, n)
      PROVE  Serving'
  <2>1. helpers[l][n] \in HelperState
    BY DEF CallsTyped, CallsShaped
  <2>2. CASE MT!Reply(l, n)
    <3>1. PICK h : /\ h = [helpers[l][n] EXCEPT !.reply = helpers[l][n].asked, !.asked = MT!NoCall]
                   /\ MT!Set(l, n, h)
      BY <2>2 DEF MT!Reply
    <3>2. h.at = helpers[l][n].at
      BY <2>1, <3>1 DEF HelperState
    <3>3. QED
      BY <2>2, <3>1, <3>2, ServingSet DEF MT!Reply
  <2>3. CASE MT!Exit(l, n)
    BY <2>3, ServingSet DEF MT!Exit
  <2>4. CASE MT!Reap(l, n)
    <3>1. PICK h : h = [helpers[l][n] EXCEPT !.at = "done", !.asked = MT!NoCall] /\ MT!Set(l, n, h)
      BY <2>4 DEF MT!Reap
    <3>2. h.at = "done" /\ helpers[l][n].at = "stopping"
      BY <2>1, <2>4, <3>1 DEF MT!Reap, HelperState
    <3>3. QED
      BY <2>4, <3>1, <3>2, ServingSet DEF MT!Reap
  <2>5. QED
    BY <1>9, <2>2, <2>3, <2>4
<1>10. ASSUME NEW l \in Lanes, MT!CloseLane(l)
       PROVE  Serving'
  <2>1. \A k \in Lanes : closing'[k] = "closed" => closing[k] = "closed"
    BY <1>10 DEF MT!CloseLane, CallsTyped, CallsShaped
  <2>2. QED
    BY <1>10, <2>1, ServingKept DEF MT!CloseLane
<1>11. ASSUME NEW l \in Lanes, MT!CloseAll(l)
       PROVE  Serving'
  <2>1. \A k \in Lanes : closing'[k] = "closed" => closing[k] = "closed"
    BY <1>11 DEF MT!CloseAll, CallsTyped, CallsShaped
  <2>2. /\ \A k \in Lanes \ {l} : helpers'[k] = helpers[k] /\ cached'[k] = cached[k]
        /\ \A n \in 1 .. MaxSpawn : helpers'[l][n] = MT!Aborted(helpers[l][n])
    BY <1>11 DEF MT!CloseAll, CallsTyped, CallsShaped
  <2>3. \A n \in 1 .. MaxSpawn : helpers[l][n] \in HelperState
    BY DEF CallsTyped, CallsShaped
  <2>4. \A n \in 1 .. MaxSpawn :
          /\ helpers'[l][n].at # "live"
          /\ helpers'[l][n].at = helpers[l][n].at \/ (helpers[l][n].at = "live" /\ helpers'[l][n].at = "stopping")
    BY <2>2, <2>3 DEF MT!Aborted, HelperState
  <2>5. cached[l] # 0 => cached[l] \in 1 .. MaxSpawn
    BY Bounds DEF CallsTyped, CallsShaped
  <2>6. \A k \in Lanes : cached'[k] = cached[k] \/ (cached[k] # 0 => helpers'[k][cached[k]].at # "live")
    BY <2>2, <2>4, <2>5
  <2>7. \A k \in Lanes : \A n \in 1 .. MaxSpawn :
          \/ helpers'[k][n].at = helpers[k][n].at
          \/ (helpers[k][n].at \in {"live", "stopping"} /\ helpers'[k][n].at \in {"stopping", "done"})
    BY <2>2, <2>4
  <2>8. QED
    BY <2>1, <2>6, <2>7, ServingKept
<1>12. ASSUME NEW l \in Lanes, MT!Drained(l)
       PROVE  Serving'
  <2>1. /\ UNCHANGED <<helpers, cached>> /\ \A n \in 1 .. MaxSpawn : helpers[l][n].at \in {"unborn", "done"}
        /\ \A k \in Lanes \ {l} : closing'[k] = closing[k]
    BY <1>12 DEF MT!Drained, CallsTyped, CallsShaped
  <2>2. QED
    BY <2>1 DEF Serving
<1>13. QED
  BY <1>1, <1>3, <1>4, <1>5, <1>6, <1>7, <1>8, <1>9, <1>10, <1>11, <1>12 DEF MT!Next, MT!Job, MT!Closing

-----------------------------------------------------------------------------
(* The pipes: whose request and reply they hold.                           *)

\* From the gate to its release a call has its helper to itself.
Holding == {"write", "wait", "await", "translated", "release"}

\* The gate of a helper is its call's; the pipes of a call that waits hold nothing
\* but its own request or reply; and a helper that takes input holds nothing else.
GatesHold == \A c \in Calls : call[c].pc \in Holding => MT!Mine(c).gate = c
PipesHold ==
  \A c \in Calls : call[c].pc = "await" =>
    /\ MT!Mine(c).asked \in {c, "none"} /\ MT!Mine(c).reply \in {c, "none"}
    /\ MT!Mine(c).asked = "none" \/ MT!Mine(c).reply = "none"
Awaited(x, l, n) == x # "none" => call[x].pc = "await" /\ MT!LaneOf(x) = l /\ call[x].proc = n
LiveHold ==
  \A l \in Lanes : \A n \in 1 .. MaxSpawn : helpers[l][n].at = "live" =>
    Awaited(helpers[l][n].asked, l, n) /\ Awaited(helpers[l][n].reply, l, n)
Piped == GatesHold /\ PipesHold /\ LiveHold

\* No call that holds a helper moves, and no helper.
LEMMA PipedStays ==
  ASSUME CallsTyped, Piped, UNCHANGED <<helpers, plan>>,
         \A d \in Calls : /\ call'[d].pc \in Holding => call[d].pc \in Holding
                          /\ call[d].pc \in Holding => call'[d].pc = call[d].pc /\ call'[d].proc = call[d].proc
  PROVE  Piped'
<1>1. \A d \in Calls : MT!LaneOf(d)' = MT!LaneOf(d)
  BY DEF MT!LaneOf
<1>2. \A d \in Calls : call'[d].pc \in Holding => call'[d].pc = call[d].pc /\ MT!Mine(d)' = MT!Mine(d)
  BY <1>1 DEF MT!Mine
<1>3. "await" \in Holding
  BY DEF Holding
<1>4. GatesHold' /\ PipesHold'
  BY <1>2, <1>3 DEF Piped, GatesHold, PipesHold
<1>5. ASSUME NEW l \in Lanes, NEW n \in 1 .. MaxSpawn, helpers'[l][n].at = "live"
      PROVE  Awaited(helpers[l][n].asked, l, n)' /\ Awaited(helpers[l][n].reply, l, n)'
  <2>0. helpers[l][n] \in HelperState
    BY DEF CallsTyped, CallsShaped
  <2>1. helpers[l][n].asked \in Who /\ helpers[l][n].reply \in Who
    BY <2>0 DEF HelperState
  <2>2. Awaited(helpers[l][n].asked, l, n) /\ Awaited(helpers[l][n].reply, l, n)
    BY <1>5 DEF Piped, LiveHold
  <2>3. QED
    BY <1>1, <1>3, <2>1, <2>2 DEF Awaited, Who
<1>6. QED
  BY <1>4, <1>5 DEF Piped, LiveHold

\* Helpers move and no call does: gates stay, and what a pipe holds was in one.
LEMMA PipedHelpers ==
  ASSUME CallsTyped, Numbered, Piped, UNCHANGED <<call, plan>>,
         \A l \in Lanes : \A n \in 1 .. MaxSpawn :
           /\ helpers'[l][n].gate = helpers[l][n].gate
           /\ helpers'[l][n].at = "live" => helpers[l][n].at = "live"
           /\ \/ helpers'[l][n].asked \in {helpers[l][n].asked, "none"} /\ helpers'[l][n].reply = helpers[l][n].reply
              \/ /\ helpers[l][n].reply = "none"
                 /\ helpers'[l][n].asked = "none" /\ helpers'[l][n].reply = helpers[l][n].asked
  PROVE  Piped'
<1>1. \A d \in Calls : MT!LaneOf(d)' = MT!LaneOf(d)
  BY DEF MT!LaneOf
<1>2. ASSUME NEW d \in Calls, call[d].pc \in Holding
      PROVE  /\ MT!Mine(d)' = helpers'[MT!LaneOf(d)][call[d].proc] /\ MT!Mine(d) = helpers[MT!LaneOf(d)][call[d].proc]
             /\ MT!LaneOf(d) \in Lanes /\ call[d].proc \in 1 .. MaxSpawn
  <2>1. call[d].pc \in OnHelper
    BY <1>2 DEF Holding, OnHelper
  <2>2. QED
    BY <1>1, <2>1, OnOne DEF MT!Mine
<1>3. GatesHold'
  BY <1>2 DEF Piped, GatesHold
<1>4. PipesHold'
  <2>1. "await" \in Holding
    BY DEF Holding
  <2>2. ASSUME NEW d \in Calls, call'[d].pc = "await"
        PROVE  /\ MT!Mine(d)'.asked \in {d, "none"} /\ MT!Mine(d)'.reply \in {d, "none"}
               /\ MT!Mine(d)'.asked = "none" \/ MT!Mine(d)'.reply = "none"
    <3>1. call[d].pc = "await" /\ call[d].pc \in Holding
      BY <2>1, <2>2
    <3>2. /\ MT!Mine(d).asked \in {d, "none"} /\ MT!Mine(d).reply \in {d, "none"}
          /\ MT!Mine(d).asked = "none" \/ MT!Mine(d).reply = "none"
      BY <3>1 DEF Piped, PipesHold
    <3>3. QED
      BY <1>2, <3>1, <3>2
  <2>3. QED
    BY <2>2 DEF PipesHold
<1>5. ASSUME NEW l \in Lanes, NEW n \in 1 .. MaxSpawn, helpers'[l][n].at = "live"
      PROVE  Awaited(helpers[l][n].asked, l, n)' /\ Awaited(helpers[l][n].reply, l, n)'
  <2>0. helpers[l][n] \in HelperState
    BY DEF CallsTyped, CallsShaped
  <2>1. helpers[l][n].asked \in Who /\ helpers[l][n].reply \in Who
    BY <2>0 DEF HelperState
  <2>2. Awaited(helpers[l][n].asked, l, n) /\ Awaited(helpers[l][n].reply, l, n)
    BY <1>5 DEF Piped, LiveHold
  <2>3. /\ helpers'[l][n].asked \in {helpers[l][n].asked, "none"}
        /\ helpers'[l][n].reply \in {helpers[l][n].asked, helpers[l][n].reply}
    OBVIOUS
  <2>4. \A x \in {helpers[l][n].asked, helpers[l][n].reply, "none"} :
          x # "none" => call'[x].pc = "await" /\ MT!LaneOf(x)' = l /\ call'[x].proc = n
    BY <1>1, <2>1, <2>2 DEF Awaited, Who
  <2>5. QED
    BY <2>3, <2>4 DEF Awaited
<1>6. QED
  BY <1>3, <1>4, <1>5 DEF Piped, LiveHold

\* A call takes a gate nobody has, or works on the helper whose gate it has.
LEMMA PipedOn ==
  ASSUME CallsTyped, Numbered, Piped, NEW c \in Calls, Alone(c), plan' = plan, call[c].pc \in OnHelper,
         MT!Mine(c).gate \in {c, "none"}, NEW h, MT!Set(MT!LaneOf(c), call[c].proc, h),
         call'[c].pc \in Holding => h.gate = c /\ call'[c].proc = call[c].proc,
         call'[c].pc = "await" => /\ h.asked \in {c, "none"} /\ h.reply \in {c, "none"}
                                  /\ h.asked = "none" \/ h.reply = "none",
         h.at = "live" => \A x \in {h.asked, h.reply} : x # "none" => x = c /\ call'[c].pc = "await"
  PROVE  Piped'
<1>0. PICK l \in Lanes, n \in 1 .. MaxSpawn : l = MT!LaneOf(c) /\ n = call[c].proc
  BY OnOne
<1>1. \A d \in Calls : MT!LaneOf(d)' = MT!LaneOf(d) /\ MT!LaneOf(d) \in Lanes
  BY Bounds DEF MT!LaneOf
<1>2. /\ helpers'[l][n] = h /\ MT!Mine(c) = helpers[l][n]
      /\ \A k \in Lanes : \A m \in 1 .. MaxSpawn : (k # l \/ m # n) => helpers'[k][m] = helpers[k][m]
  BY <1>0 DEF MT!Set, MT!Mine, CallsTyped, CallsShaped
<1>3. call'[c].pc \in Holding => MT!Mine(c)' = h
  BY <1>0, <1>1, <1>2 DEF MT!Mine
<1>4. ASSUME NEW d \in Calls, d # c, call'[d].pc \in Holding
      PROVE  MT!Mine(d)' = MT!Mine(d) /\ call'[d] = call[d] /\ ~(MT!LaneOf(d) = l /\ call[d].proc = n)
  <2>1. call'[d] = call[d] /\ call[d].pc \in Holding
    BY <1>4 DEF Alone
  <2>2. MT!Mine(d).gate = d
    BY <2>1 DEF Piped, GatesHold
  <2>3. call[d].pc \in OnHelper
    BY <2>1 DEF Holding, OnHelper
  <2>4. MT!LaneOf(d) \in Lanes /\ call[d].proc \in 1 .. MaxSpawn /\ MT!Mine(d) = helpers[MT!LaneOf(d)][call[d].proc]
    BY <2>3, OnOne
  <2>5. ~(MT!LaneOf(d) = l /\ call[d].proc = n)
    BY <1>2, <1>4, <2>2, <2>4, Bounds
  <2>6. QED
    BY <1>1, <1>2, <2>1, <2>4, <2>5 DEF MT!Mine
<1>5. GatesHold'
  BY <1>3, <1>4 DEF Piped, GatesHold
<1>6. PipesHold'
  <2>1. "await" \in Holding
    BY DEF Holding
  <2>2. QED
    BY <1>3, <1>4, <2>1 DEF Piped, PipesHold
<1>7. ASSUME NEW k \in Lanes, NEW m \in 1 .. MaxSpawn, helpers'[k][m].at = "live"
      PROVE  Awaited(helpers[k][m].asked, k, m)' /\ Awaited(helpers[k][m].reply, k, m)'
  <2>1. CASE k = l /\ m = n
    <3>1. \A x \in {h.asked, h.reply} : x # "none" =>
            call'[x].pc = "await" /\ MT!LaneOf(x)' = l /\ call'[x].proc = n
      <4>1. "await" \in Holding
        BY DEF Holding
      <4>2. QED
        BY <1>0, <1>1, <1>2, <1>7, <2>1, <4>1
    <3>2. QED
      BY <1>2, <2>1, <3>1 DEF Awaited
  <2>2. CASE k # l \/ m # n
    <3>1. helpers'[k][m] = helpers[k][m]
      BY <1>2, <2>2
    <3>0. helpers[k][m] \in HelperState
      BY DEF CallsTyped, CallsShaped
    <3>2. helpers[k][m].asked \in Who /\ helpers[k][m].reply \in Who
      BY <3>0 DEF HelperState
    <3>3. Awaited(helpers[k][m].asked, k, m) /\ Awaited(helpers[k][m].reply, k, m)
      BY <1>7, <3>1 DEF Piped, LiveHold
    <3>4. ASSUME NEW x \in Calls, call[x].pc = "await", MT!LaneOf(x) = k, call[x].proc = m
          PROVE  call'[x].pc = "await" /\ MT!LaneOf(x)' = k /\ call'[x].proc = m
      BY <1>0, <1>1, <2>2, <3>4 DEF Alone
    <3>5. QED
      BY <3>1, <3>2, <3>3, <3>4 DEF Awaited, Who
  <2>3. QED
    BY <2>1, <2>2
<1>8. QED
  BY <1>5, <1>6, <1>7 DEF Piped, LiveHold

\* A call off its helper stays off it.
LEMMA PipedAside ==
  ASSUME CallsTyped, Piped, NEW c \in Calls, Alone(c), UNCHANGED <<helpers, plan>>,
         call[c].pc \notin Holding, call'[c].pc \notin Holding
  PROVE  Piped'
BY PipedStays DEF Alone

\* What a call finds in the pipes of a helper it has to itself, until it asks.
LEMMA Clean ==
  ASSUME CallsTyped, Numbered, Piped, NEW c \in Calls, call[c].pc \in OnHelper, call[c].pc # "await",
         MT!Mine(c).gate \in {c, "none"}, MT!Mine(c).at = "live"
  PROVE  MT!Mine(c).asked = "none" /\ MT!Mine(c).reply = "none"
<1>1. PICK l \in Lanes, n \in 1 .. MaxSpawn : l = MT!LaneOf(c) /\ n = call[c].proc /\ MT!Mine(c) = helpers[l][n]
  BY OnOne
<1>2. helpers[l][n].asked \in Who /\ helpers[l][n].reply \in Who
  <2>1. helpers[l][n] \in HelperState
    BY DEF CallsTyped, CallsShaped
  <2>2. QED
    BY <2>1 DEF HelperState
<1>3. ASSUME NEW x \in {MT!Mine(c).asked, MT!Mine(c).reply}, x # "none"
      PROVE  FALSE
  <2>1. x \in Calls /\ call[x].pc = "await" /\ MT!LaneOf(x) = l /\ call[x].proc = n
    BY <1>1, <1>2, <1>3 DEF Piped, LiveHold, Awaited, Who
  <2>2. MT!Mine(x).gate = x
    BY <2>1 DEF Piped, GatesHold, Holding
  <2>3. MT!Mine(x) = MT!Mine(c)
    BY <1>1, <2>1 DEF MT!Mine
  <2>4. QED
    BY <2>1, <2>2, <2>3, Bounds
<1>4. QED
  BY <1>3

\* A new helper is one no call is on.
LEMMA PipedSpawn ==
  ASSUME CallsTyped, Numbered, Piped, NEW c \in Calls, Alone(c), plan' = plan, NEW new \in 1 .. MaxSpawn,
         new = spawned[MT!LaneOf(c)] + 1, call[c].pc \notin Holding, call'[c].pc \notin Holding,
         NEW h, h.asked = "none", h.reply = "none", MT!Set(MT!LaneOf(c), new, h)
  PROVE  Piped'
<1>0. PICK l \in Lanes : l = MT!LaneOf(c)
  BY Bounds
<1>1. \A d \in Calls : MT!LaneOf(d)' = MT!LaneOf(d) /\ MT!LaneOf(d) \in Lanes
  BY Bounds DEF MT!LaneOf
<1>3. /\ helpers'[l][new] = h
      /\ \A k \in Lanes : \A m \in 1 .. MaxSpawn : (k # l \/ m # new) => helpers'[k][m] = helpers[k][m]
  BY <1>0 DEF MT!Set, CallsTyped, CallsShaped
<1>4. ASSUME NEW d \in Calls, call'[d].pc \in Holding
      PROVE  MT!Mine(d)' = MT!Mine(d) /\ call'[d] = call[d] /\ d # c
  <2>1. d # c /\ call'[d] = call[d] /\ call[d].pc \in Holding
    BY <1>4 DEF Alone
  <2>2. call[d].pc \in OnHelper
    BY <2>1 DEF Holding, OnHelper
  <2>3. MT!LaneOf(d) \in Lanes /\ call[d].proc \in 1 .. MaxSpawn /\ MT!Mine(d) = helpers[MT!LaneOf(d)][call[d].proc]
    BY <2>2, OnOne
  <2>4. MT!LaneOf(d) = l => call[d].proc # new
    <3>1. call[d].proc <= spawned[MT!LaneOf(d)] /\ spawned[MT!LaneOf(d)] \in 0 .. MaxSpawn
      BY <1>1 DEF Numbered, CallsTyped, CallsShaped
    <3>2. QED
      BY <1>0, <2>3, <3>1, Bounds
  <2>5. QED
    BY <1>1, <1>3, <2>1, <2>3, <2>4 DEF MT!Mine
<1>5. "await" \in Holding
  BY DEF Holding
<1>6. GatesHold' /\ PipesHold'
  BY <1>4, <1>5 DEF Piped, GatesHold, PipesHold
<1>7. ASSUME NEW k \in Lanes, NEW m \in 1 .. MaxSpawn, helpers'[k][m].at = "live"
      PROVE  Awaited(helpers[k][m].asked, k, m)' /\ Awaited(helpers[k][m].reply, k, m)'
  <2>1. CASE k = l /\ m = new
    BY <1>3, <2>1 DEF Awaited
  <2>2. CASE k # l \/ m # new
    <3>1. helpers'[k][m] = helpers[k][m]
      BY <1>3, <2>2
    <3>2. helpers[k][m].asked \in Who /\ helpers[k][m].reply \in Who
      <4>1. helpers[k][m] \in HelperState
        BY DEF CallsTyped, CallsShaped
      <4>2. QED
        BY <4>1 DEF HelperState
    <3>3. Awaited(helpers[k][m].asked, k, m) /\ Awaited(helpers[k][m].reply, k, m)
      BY <1>7, <3>1 DEF Piped, LiveHold
    <3>4. ASSUME NEW x \in Calls, call[x].pc = "await"
          PROVE  call'[x] = call[x] /\ MT!LaneOf(x)' = MT!LaneOf(x)
      BY <1>1, <1>5, <3>4 DEF Alone
    <3>5. QED
      BY <3>1, <3>2, <3>3, <3>4 DEF Awaited, Who
  <2>3. QED
    BY <2>1, <2>2
<1>8. QED
  BY <1>6, <1>7 DEF Piped, LiveHold

LEMMA Fields ==
  ASSUME NEW h \in HelperState, NEW x
  PROVE  /\ \E g : g = [h EXCEPT !.gate = x] /\ g.gate = x /\ g.asked = h.asked /\ g.reply = h.reply /\ g.at = h.at
         /\ \E g : g = [h EXCEPT !.asked = x] /\ g.asked = x /\ g.gate = h.gate /\ g.reply = h.reply /\ g.at = h.at
         /\ \E g : g = [h EXCEPT !.reply = x] /\ g.reply = x /\ g.gate = h.gate /\ g.asked = h.asked /\ g.at = h.at
<1>1. \E g : g = [h EXCEPT !.gate = x] /\ g.gate = x /\ g.asked = h.asked /\ g.reply = h.reply /\ g.at = h.at
  <2> WITNESS [h EXCEPT !.gate = x]
  <2> QED
    BY DEF HelperState
<1>2. \E g : g = [h EXCEPT !.asked = x] /\ g.asked = x /\ g.gate = h.gate /\ g.reply = h.reply /\ g.at = h.at
  <2> WITNESS [h EXCEPT !.asked = x]
  <2> QED
    BY DEF HelperState
<1>3. \E g : g = [h EXCEPT !.reply = x] /\ g.reply = x /\ g.gate = h.gate /\ g.asked = h.asked /\ g.at = h.at
  <2> WITNESS [h EXCEPT !.reply = x]
  <2> QED
    BY DEF HelperState
<1>4. QED
  BY <1>1, <1>2, <1>3

\* What was asked and got on a helper is the call's own.
LEMMA PipedOnHelper ==
  ASSUME CallsTyped, Numbered, Piped, NEW c \in Calls,
         \/ MT!Acquire(c) \/ MT!WriteLine(c) \/ MT!WriteFailed(c) \/ MT!Await(c) \/ MT!Release(c) \/ MT!Translated(c)
  PROVE  Piped'
<1> USE DEF MT!At, MT!Goto, MT!Pool, MT!Lifecycle, MT!Cache
<1>a. {"write", "wait", "await", "translated", "release"} = Holding /\ "gate" \notin Holding /\ "failed" \notin Holding
      /\ "returned" \notin Holding
  BY DEF Holding
<1>0. UNCHANGED plan /\ call[c].pc \in OnHelper
  BY OnHelperSets
<1>1. PICK h \in HelperState : h = MT!Mine(c)
  BY <1>0, OnOne
<1>2. MT!LaneOf(c) \in Lanes /\ call[c].proc \in 1 .. MaxSpawn /\ h = helpers[MT!LaneOf(c)][call[c].proc]
  BY <1>0, <1>1, OnOne
<1>3. call[c].pc \in Holding => h.gate = c
  BY <1>1 DEF Piped, GatesHold
<1>4. h.gate \in {c, "none"} /\ h.at = "live" /\ call[c].pc # "await" => h.asked = "none" /\ h.reply = "none"
  BY <1>0, <1>1, Clean
<1>5. call[c].pc = "await" => /\ h.asked \in {c, "none"} /\ h.reply \in {c, "none"}
                              /\ h.asked = "none" \/ h.reply = "none"
  BY <1>1 DEF Piped, PipesHold
<1>6. /\ MT!Aborted(h) \in HelperState /\ MT!Aborted(h).at # "live" /\ MT!Aborted(h).gate = h.gate
      /\ MT!Aborted(h).asked = h.asked /\ MT!Aborted(h).reply = h.reply
  BY AbortedTyped
<1>7. MT!Set(MT!LaneOf(c), call[c].proc, h) <=> helpers' = helpers
  BY <1>2 DEF MT!Set, CallsTyped, CallsShaped
<1>8. ASSUME NEW pc, call' = [call EXCEPT ![c].pc = pc]
      PROVE  Alone(c) /\ call'[c].pc = pc /\ call'[c].proc = call[c].proc
  BY <1>8 DEF Alone, CallsTyped, CallsShaped, CallState
<1>10. CASE MT!Acquire(c)
  <2>1. ASSUME h.gate = "none", MT!Set(MT!LaneOf(c), call[c].proc, [h EXCEPT !.gate = c]),
               call' = [call EXCEPT ![c].pc = "write"], call[c].pc = "gate"
        PROVE  Piped'
    <3>1. PICK g : g = [h EXCEPT !.gate = c] /\ g.gate = c /\ g.asked = h.asked /\ g.reply = h.reply /\ g.at = h.at
      BY Fields
    <3>2. Alone(c) /\ call'[c].pc = "write" /\ call'[c].proc = call[c].proc
      BY <1>8, <2>1
    <3>3. QED
      BY <1>0, <1>1, <1>4, <2>1, <3>1, <3>2, PipedOn
  <2>2. ASSUME UNCHANGED helpers, call' = [call EXCEPT ![c].pc = "failed"], call[c].pc = "gate"
        PROVE  Piped'
    BY <1>0, <1>8, <1>a, <2>2, PipedAside
  <2>3. QED
    BY <1>1, <1>10, <2>1, <2>2 DEF MT!Acquire, MT!NoCall
<1>11. CASE MT!WriteLine(c)
  <2>0. h.gate = c /\ call[c].pc = "write"
    BY <1>3, <1>11, <1>a DEF MT!WriteLine
  <2>1. ASSUME h.at = "live", MT!Set(MT!LaneOf(c), call[c].proc, [h EXCEPT !.asked = c]),
               call' = [call EXCEPT ![c].pc = "await"]
        PROVE  Piped'
    <3>1. PICK g : g = [h EXCEPT !.asked = c] /\ g.asked = c /\ g.gate = h.gate /\ g.reply = h.reply /\ g.at = h.at
      BY Fields
    <3>2. Alone(c) /\ call'[c].pc = "await" /\ call'[c].proc = call[c].proc
      BY <1>8, <2>1
    <3>3. h.reply = "none"
      BY <1>4, <2>0, <2>1
    <3>4. QED
      <4>1. /\ g.gate = c /\ g.asked = c /\ g.reply = "none" /\ MT!Mine(c).gate = c
            /\ MT!Set(MT!LaneOf(c), call[c].proc, g)
        BY <1>1, <2>0, <2>1, <3>1, <3>3
      <4>2. QED
        BY <1>0, <3>2, <4>1, PipedOn
  <2>2. ASSUME NEW asked, MT!Set(MT!LaneOf(c), call[c].proc, [MT!Aborted(h) EXCEPT !.asked = asked]),
               NEW pc \in {"wait", "release"}, call' = [call EXCEPT ![c].pc = pc]
        PROVE  Piped'
    <3>0. PICK a \in HelperState : a = MT!Aborted(h) /\ a.gate = h.gate /\ a.at # "live"
      BY <1>6
    <3>1. PICK g : g = [a EXCEPT !.asked = asked] /\ g.asked = asked /\ g.gate = a.gate /\ g.reply = a.reply /\ g.at = a.at
      BY Fields
    <3>2. Alone(c) /\ call'[c].pc # "await" /\ call'[c].proc = call[c].proc
      BY <1>8, <2>2
    <3>3. QED
      BY <1>0, <1>1, <2>0, <2>2, <3>0, <3>1, <3>2, PipedOn
  <2>3. QED
    <3>1. CASE /\ ~call[c].ctx \/ h.at # "live"
               /\ \E asked \in {h.asked, IF h.at = "live" THEN c ELSE h.asked} :
                    MT!Set(MT!LaneOf(c), call[c].proc, [MT!Aborted(h) EXCEPT !.asked = asked])
               /\ call' = [call EXCEPT ![c].pc = IF call[c].ctx THEN "wait" ELSE "release"]
      <4>1. PICK pc \in {"wait", "release"} : call' = [call EXCEPT ![c].pc = pc]
        BY <3>1
      <4>2. QED
        BY <2>2, <3>1, <4>1
    <3>2. CASE UNCHANGED helpers /\ call' = [call EXCEPT ![c].pc = "release"]
      <4>1. Alone(c) /\ call'[c].pc = "release" /\ call'[c].proc = call[c].proc
        BY <1>8, <3>2
      <4>2. h.at = "live" => h.asked = "none" /\ h.reply = "none"
        BY <1>4, <2>0
      <4>3. QED
        BY <1>0, <1>1, <1>7, <2>0, <3>2, <4>1, <4>2, PipedOn
    <3>3. CASE /\ call[c].ctx /\ h.at = "live" /\ call' = [call EXCEPT ![c].pc = "await"]
               /\ MT!Set(MT!LaneOf(c), call[c].proc, [h EXCEPT !.asked = c])
      BY <2>1, <3>3
    <3>4. QED
      <4>1. UNCHANGED <<helpers>> <=> UNCHANGED helpers
        OBVIOUS
      <4>2. QED
        BY <1>1, <1>11, <3>1, <3>2, <3>3, <4>1 DEF MT!WriteLine
<1>12. CASE MT!WriteFailed(c)
  <2>1. h.gate = c /\ h.at = "done" /\ call' = [call EXCEPT ![c].pc = "release"] /\ UNCHANGED helpers
    BY <1>1, <1>3, <1>12, <1>a DEF MT!WriteFailed
  <2>2. Alone(c) /\ call'[c].pc = "release" /\ call'[c].proc = call[c].proc
    BY <1>8, <2>1
  <2>3. QED
    BY <1>0, <1>1, <1>7, <2>1, <2>2, PipedOn
<1>13. CASE MT!Await(c)
  <2>0. h.gate = c /\ call[c].pc = "await"
    BY <1>3, <1>13, <1>a DEF MT!Await
  <2>1. ASSUME h.reply # "none", MT!Set(MT!LaneOf(c), call[c].proc, [h EXCEPT !.reply = "none"]),
               call' = [call EXCEPT ![c].pc = "translated", ![c].got = h.reply]
        PROVE  Piped'
    <3>1. PICK g : g = [h EXCEPT !.reply = "none"] /\ g.reply = "none" /\ g.gate = h.gate /\ g.asked = h.asked /\ g.at = h.at
      BY Fields
    <3>2. Alone(c) /\ call'[c].pc = "translated" /\ call'[c].proc = call[c].proc
      BY <2>1 DEF Alone, CallsTyped, CallsShaped, CallState
    <3>3. h.asked = "none"
      BY <1>5, <2>0, <2>1
    <3>4. QED
      BY <1>0, <1>1, <2>0, <2>1, <3>1, <3>2, <3>3, PipedOn
  <2>2. ASSUME NEW g, g.at # "live", g.gate = c, MT!Set(MT!LaneOf(c), call[c].proc, g),
               call' = [call EXCEPT ![c].pc = "release"]
        PROVE  Piped'
    <3>1. Alone(c) /\ call'[c].pc = "release" /\ call'[c].proc = call[c].proc
      BY <1>8, <2>2
    <3>2. QED
      BY <1>0, <1>1, <2>0, <2>2, <3>1, PipedOn
  <2>3. [MT!Aborted(h) EXCEPT !.reply = "none"].at # "live" /\ [MT!Aborted(h) EXCEPT !.reply = "none"].gate = h.gate
    BY <1>6 DEF HelperState
  <2>4. QED
    BY <1>1, <1>6, <1>7, <1>13, <2>0, <2>1, <2>2, <2>3 DEF MT!Await, MT!NoCall
<1>14. ASSUME call[c].pc \in {"translated", "release"}, Alone(c), call'[c].pc \in {"failed", "returned"},
              MT!Set(MT!LaneOf(c), call[c].proc, [h EXCEPT !.gate = "none"])
       PROVE  Piped'
  <2>1. PICK g : g = [h EXCEPT !.gate = "none"] /\ g.gate = "none" /\ g.asked = h.asked /\ g.reply = h.reply /\ g.at = h.at
    BY Fields
  <2>2. h.gate = c
    BY <1>3, <1>14, <1>a
  <2>3. QED
    BY <1>0, <1>1, <1>4, <1>14, <1>a, <2>1, <2>2, PipedOn
<1>15. CASE MT!Release(c)
  BY <1>1, <1>8, <1>14, <1>15 DEF MT!Release, MT!Opened, MT!NoCall
<1>16. CASE MT!Translated(c)
  <2>1. Alone(c) /\ call'[c].pc = "returned"
    BY <1>16, FinishLeaves DEF MT!Translated
  <2>2. QED
    BY <1>1, <1>14, <1>16, <2>1 DEF MT!Translated, MT!Opened, MT!NoCall
<1>17. QED
  BY <1>10, <1>11, <1>12, <1>13, <1>15, <1>16

LEMMA PipedNext ==
  ASSUME CallsTyped, Numbered, Piped, Counted, MT!Next
  PROVE  Piped'
<1> USE DEF MT!At, MT!Goto, MT!Pool, MT!Lifecycle, MT!Cache
<1>a. \A pc \in {"idle", "admit", "enqueue", "queued", "returned", "get", "reap", "gate", "failed", "discard"} : pc \notin Holding
  BY DEF Holding
<1>b. \A c \in Calls : MT!LaneOf(c) \in Lanes
  BY Bounds
<1>1. ASSUME NEW c \in Calls, MT!Submit(c) \/ MT!Admit(c) \/ MT!Enqueue(c)
      PROVE  Piped'
  <2>1. Alone(c) /\ UNCHANGED <<helpers, plan>>
    BY <1>1 DEF MT!Submit, MT!Admit, MT!Enqueue, Alone, CallsTyped, CallsShaped
  <2>2. call[c].pc \in {"idle", "admit", "enqueue"} /\ call'[c].pc \in {"admit", "enqueue", "queued", "returned"}
    <3>1. CASE MT!Submit(c)
      BY <3>1 DEF MT!Submit, CallsTyped, CallsShaped, CallState
    <3>2. CASE MT!Admit(c)
      BY <3>2 DEF MT!Admit, CallsTyped, CallsShaped, CallState
    <3>3. CASE MT!Enqueue(c)
      BY <3>3 DEF MT!Enqueue, CallsTyped, CallsShaped, CallState
    <3>4. QED
      BY <1>1, <3>1, <3>2, <3>3
  <2>3. QED
    BY <1>a, <2>1, <2>2, PipedAside
<1>2. ASSUME NEW c \in Calls, MT!Cancel(c)
      PROVE  Piped'
  <2>1. UNCHANGED <<helpers, plan>> /\ \A d \in Calls : call'[d].pc = call[d].pc /\ call'[d].proc = call[d].proc
    BY <1>2 DEF MT!Cancel, CallsTyped, CallsShaped, CallState
  <2>2. QED
    BY <2>1, PipedStays
<1>3. ASSUME NEW c \in Calls, call[c].pc \in {"get", "reap", "failed", "discard"}, Alone(c),
             call'[c].pc \in {"get", "reap", "gate", "discard", "returned"}, UNCHANGED <<helpers, plan>>
      PROVE  Piped'
  BY <1>3, <1>a, PipedAside
<1>4. ASSUME NEW c \in Calls, NEW end, NEW got, call[c].pc \in {"get", "reap", "failed", "discard"},
             MT!Finish(c, end, got), UNCHANGED helpers
      PROVE  Piped'
  BY <1>3, <1>4, FinishLeaves
<1>5. ASSUME NEW c \in Calls, MT!Refused(c)
      PROVE  Piped'
  BY <1>4, <1>5 DEF MT!Refused
<1>6. ASSUME NEW c \in Calls, MT!Get(c)
      PROVE  Piped'
  <2>0. call[c].pc = "get"
    BY <1>6 DEF MT!Get
  <2>1. CASE /\ call' = [call EXCEPT ![c].pc = "gate", ![c].proc = cached[MT!LaneOf(c)], ![c].stale = 0]
             /\ UNCHANGED <<helpers, plan>>
    <3>1. Alone(c) /\ call'[c].pc = "gate"
      BY <2>1 DEF Alone, CallsTyped, CallsShaped, CallState
    <3>2. QED
      BY <1>3, <2>0, <2>1, <3>1
  <2>2. CASE /\ spawned[MT!LaneOf(c)] < plan.spawns
             /\ LET new == spawned[MT!LaneOf(c)] + 1 IN
                /\ MT!Set(MT!LaneOf(c), new, [MT!Unborn EXCEPT !.at = "live"])
                /\ call' = [call EXCEPT ![c].pc = "reap", ![c].proc = new, ![c].stale = cached[MT!LaneOf(c)]]
             /\ UNCHANGED plan
    <3>1. PICK new \in 1 .. MaxSpawn : new = spawned[MT!LaneOf(c)] + 1
      <4>1. spawned[MT!LaneOf(c)] \in 0 .. MaxSpawn /\ plan.spawns \in 0 .. MaxSpawn /\ MaxSpawn \in Nat
        BY <1>b, Bounds DEF CallsTyped, CallsShaped
      <4>2. QED
        BY <2>2, <4>1
    <3>2. Alone(c) /\ call'[c].pc = "reap"
      BY <2>2, <3>1 DEF Alone, CallsTyped, CallsShaped, CallState
    <3>3. [MT!Unborn EXCEPT !.at = "live"].asked = "none" /\ [MT!Unborn EXCEPT !.at = "live"].reply = "none"
      BY DEF MT!Unborn, MT!NoCall
    <3>4. PICK h : h.asked = "none" /\ h.reply = "none" /\ MT!Set(MT!LaneOf(c), new, h)
      BY <2>2, <3>1, <3>3
    <3>5. call[c].pc \notin Holding /\ call'[c].pc \notin Holding
      BY <1>a, <2>0, <3>2
    <3>6. QED
      BY <2>2, <3>1, <3>2, <3>4, <3>5, PipedSpawn
  <2>3. QED
    BY <1>4, <1>6, <2>0, <2>1, <2>2 DEF MT!Get
<1>7. ASSUME NEW c \in Calls, MT!SpawnFails(c)
      PROVE  Piped'
  <2>1. call[c].pc = "get" /\ Alone(c) /\ call'[c].pc = "reap" /\ UNCHANGED <<helpers, plan>>
    BY <1>7 DEF MT!SpawnFails, Alone, CallsTyped, CallsShaped, CallState
  <2>2. QED
    BY <1>3, <2>1
<1>8. ASSUME NEW c \in Calls, MT!Reaped(c)
      PROVE  Piped'
  <2>1. CASE /\ call[c].pc = "reap" /\ call' = [call EXCEPT ![c].pc = "gate", ![c].stale = 0]
             /\ UNCHANGED <<helpers, plan>>
    <3>1. Alone(c) /\ call'[c].pc = "gate"
      BY <2>1 DEF Alone, CallsTyped, CallsShaped, CallState
    <3>2. QED
      BY <1>3, <2>1, <3>1
  <2>2. QED
    BY <1>4, <1>8, <2>1 DEF MT!Reaped
<1>9. ASSUME NEW c \in Calls, MT!Discard(c)
      PROVE  Piped'
  <2>1. CASE /\ call[c].pc = "failed" /\ call' = [call EXCEPT ![c].pc = "discard"]
             /\ UNCHANGED <<helpers, plan>>
    <3>1. Alone(c) /\ call'[c].pc = "discard"
      BY <2>1 DEF Alone, CallsTyped, CallsShaped, CallState
    <3>2. QED
      BY <1>3, <2>1, <3>1
  <2>2. QED
    BY <1>4, <1>9, <2>1 DEF MT!Discard
<1>10. ASSUME NEW c \in Calls, MT!Retry(c)
       PROVE  Piped'
  <2>1. CASE /\ call[c].pc = "discard" /\ call' = [call EXCEPT ![c].pc = "get", ![c].attempt = 2, ![c].proc = 0]
             /\ UNCHANGED <<helpers, plan>>
    <3>1. Alone(c) /\ call'[c].pc = "get"
      BY <2>1 DEF Alone, CallsTyped, CallsShaped, CallState
    <3>2. QED
      BY <1>3, <2>1, <3>1
  <2>2. QED
    BY <1>4, <1>10, <2>1 DEF MT!Retry
<1>11. CASE MT!Take
  <2>1. PICK c \in Calls : c = Head(queue) /\ queue # <<>>
    BY <1>11 DEF MT!Take, CallsTyped, CallsShaped
  <2>2. call[c].pc = "queued"
    <3>1. Len(queue) \in Nat /\ Len(queue) > 0 /\ queue[1] = c
      BY <2>1 DEF CallsTyped, CallsShaped
    <3>2. QED
      BY <3>1 DEF Counted, QueueHolds
  <2>3. call' = [call EXCEPT ![c].pc = "get", ![c].attempt = 1] /\ UNCHANGED <<helpers, plan>>
    BY <1>11, <2>1 DEF MT!Take
  <2>4. Alone(c) /\ call'[c].pc = "get"
    BY <2>3 DEF Alone, CallsTyped, CallsShaped, CallState
  <2>5. QED
    BY <1>a, <2>2, <2>3, <2>4, PipedAside
<1>12. CASE UNCHANGED <<call, helpers, plan>>
  BY <1>12, PipedStays
<1>13. CASE MT!ClosePool \/ MT!PoolDrained
  BY <1>12, <1>13 DEF MT!ClosePool, MT!PoolDrained
<1>14. ASSUME NEW l \in Lanes, MT!CloseLane(l) \/ MT!Drained(l)
       PROVE  Piped'
  BY <1>12, <1>14 DEF MT!CloseLane, MT!Drained
<1>15. ASSUME NEW l \in Lanes, NEW n \in 1 .. MaxSpawn, NEW h, MT!Set(l, n, h), UNCHANGED <<call, plan>>,
              h.gate = helpers[l][n].gate, h.at = "live" => helpers[l][n].at = "live",
              \/ h.asked \in {helpers[l][n].asked, "none"} /\ h.reply = helpers[l][n].reply
              \/ helpers[l][n].reply = "none" /\ h.asked = "none" /\ h.reply = helpers[l][n].asked
       PROVE  Piped'
  <2>1. /\ helpers'[l][n] = h
        /\ \A k \in Lanes : \A m \in 1 .. MaxSpawn : (k # l \/ m # n) => helpers'[k][m] = helpers[k][m]
    BY <1>15 DEF MT!Set, CallsTyped, CallsShaped
  <2>2. ASSUME NEW k \in Lanes, NEW m \in 1 .. MaxSpawn
        PROVE  /\ helpers'[k][m].gate = helpers[k][m].gate
               /\ helpers'[k][m].at = "live" => helpers[k][m].at = "live"
               /\ \/ helpers'[k][m].asked \in {helpers[k][m].asked, "none"} /\ helpers'[k][m].reply = helpers[k][m].reply
                  \/ /\ helpers[k][m].reply = "none"
                     /\ helpers'[k][m].asked = "none" /\ helpers'[k][m].reply = helpers[k][m].asked
    BY <1>15, <2>1
  <2>3. QED
    BY <1>15, <2>2, PipedHelpers
<1>16. ASSUME NEW l \in Lanes, NEW n \in 1 .. MaxSpawn, MT!Reply(l, n) \/ MT!Exit(l, n) \/ MT!Reap(l, n)
       PROVE  Piped'
  <2>0. PICK g \in HelperState : g = helpers[l][n]
    BY DEF CallsTyped, CallsShaped
  <2>1. CASE MT!Reply(l, n)
    <3>1. \E h : /\ h = [g EXCEPT !.reply = g.asked, !.asked = "none"]
                 /\ h.gate = g.gate /\ h.at = g.at /\ h.asked = "none" /\ h.reply = g.asked
      <4> WITNESS [g EXCEPT !.reply = g.asked, !.asked = "none"]
      <4> QED
        BY DEF HelperState
    <3>2. PICK h : /\ h = [g EXCEPT !.reply = g.asked, !.asked = "none"]
                   /\ h.gate = g.gate /\ h.at = g.at /\ h.asked = "none" /\ h.reply = g.asked
      BY <3>1
    <3>3. MT!Set(l, n, h) /\ g.reply = "none" /\ UNCHANGED <<call, plan>>
      BY <2>0, <2>1, <3>2 DEF MT!Reply, MT!NoCall
    <3>4. QED
      BY <1>15, <2>0, <3>2, <3>3
  <2>2. CASE MT!Exit(l, n)
    <3>1. MT!Set(l, n, MT!Aborted(g)) /\ UNCHANGED <<call, plan>>
      BY <2>0, <2>2 DEF MT!Exit
    <3>2. QED
      BY <1>15, <2>0, <3>1, AbortedTyped
  <2>3. CASE MT!Reap(l, n)
    <3>1. \E h : /\ h = [g EXCEPT !.at = "done", !.asked = "none"]
                 /\ h.gate = g.gate /\ h.at = "done" /\ h.asked = "none" /\ h.reply = g.reply
      <4> WITNESS [g EXCEPT !.at = "done", !.asked = "none"]
      <4> QED
        BY DEF HelperState
    <3>2. PICK h : /\ h = [g EXCEPT !.at = "done", !.asked = "none"]
                   /\ h.gate = g.gate /\ h.at = "done" /\ h.asked = "none" /\ h.reply = g.reply
      BY <3>1
    <3>3. MT!Set(l, n, h) /\ UNCHANGED <<call, plan>>
      BY <2>0, <2>3, <3>2 DEF MT!Reap, MT!NoCall
    <3>4. QED
      BY <1>15, <2>0, <3>2, <3>3
  <2>4. QED
    BY <1>16, <2>1, <2>2, <2>3
<1>17. ASSUME NEW l \in Lanes, MT!CloseAll(l)
       PROVE  Piped'
  <2>1. /\ UNCHANGED <<call, plan>> /\ \A k \in Lanes \ {l} : helpers'[k] = helpers[k]
        /\ \A n \in 1 .. MaxSpawn : helpers'[l][n] = MT!Aborted(helpers[l][n])
    BY <1>17 DEF MT!CloseAll, CallsTyped, CallsShaped
  <2>2. ASSUME NEW k \in Lanes, NEW m \in 1 .. MaxSpawn
        PROVE  /\ helpers'[k][m].gate = helpers[k][m].gate
               /\ helpers'[k][m].at = "live" => helpers[k][m].at = "live"
               /\ helpers'[k][m].asked = helpers[k][m].asked /\ helpers'[k][m].reply = helpers[k][m].reply
    <3>1. helpers[k][m] \in HelperState
      BY DEF CallsTyped, CallsShaped
    <3>2. CASE k # l
      BY <2>1, <3>2
    <3>3. CASE k = l
      BY <2>1, <3>1, <3>3, AbortedTyped
    <3>4. QED
      BY <3>2, <3>3
  <2>3. QED
    BY <2>1, <2>2, PipedHelpers
<1>18. QED
  BY <1>1, <1>2, <1>5, <1>6, <1>7, <1>8, <1>9, <1>10, <1>11, <1>13, <1>14, <1>16, <1>17, PipedOnHelper
  DEF MT!Next, MT!Job, MT!Closing

-----------------------------------------------------------------------------
(* What a caller is told.                                                  *)

\* A call has no end before it returned, and what it brings back is its own.
Told ==
  /\ \A c \in Calls : call[c].pc = "translated" => call[c].got = c
  /\ \A c \in Calls : call[c].pc # "returned" => call[c].end = "none"
  /\ MT!ReplyIsForRequest

\* A call moves on without an end.
LEMMA ToldMoved ==
  ASSUME Told, NEW c \in Calls, Alone(c), call'[c].end = "none", call'[c].pc = "translated" => call'[c].got = c
  PROVE  Told'
BY DEF Told, Alone, MT!ReplyIsForRequest

\* A call returns: with its own translation, or none.
LEMMA ToldReturned ==
  ASSUME Told, NEW c \in Calls, Alone(c), call'[c].pc = "returned", call'[c].end = "ok" => call'[c].got = c
  PROVE  Told'
BY DEF Told, Alone, MT!ReplyIsForRequest

LEMMA ToldFinish ==
  ASSUME CallsTyped, Told, NEW c \in Calls, NEW end, NEW got, MT!Finish(c, end, got), end = "ok" => got = c
  PROVE  Told'
<1>1. PICK e \in {end, IF call[c].ctx THEN end ELSE "cancelled"} :
        call' = [call EXCEPT ![c] = [MT!Idle EXCEPT !.pc = "returned",
                                                    !.end = e, !.got = IF e = "ok" THEN got ELSE MT!NoCall]]
  BY DEF MT!Finish
<1>2. Alone(c) /\ call'[c].pc = "returned" /\ call'[c].end = e /\ (e = "ok" => call'[c].got = got)
  BY <1>1 DEF MT!Idle, Alone, CallsTyped, CallsShaped
<1>3. e = "ok" => end = "ok"
  BY <1>1
<1>4. QED
  BY <1>2, <1>3, ToldReturned

LEMMA ToldNext ==
  ASSUME CallsTyped, Piped, Counted, Told, MT!Next
  PROVE  Told'
<1> USE DEF MT!At, MT!Goto, MT!Pool, MT!Lifecycle, MT!Cache
<1>1. ASSUME NEW c \in Calls, NEW pc \in Pcs, pc # "translated", call[c].pc # "returned",
             \/ call' = [call EXCEPT ![c].pc = pc]
             \/ \E proc, stale : call' = [call EXCEPT ![c].pc = pc, ![c].proc = proc, ![c].stale = stale]
             \/ call' = [call EXCEPT ![c].pc = pc, ![c].stale = 0]
             \/ call' = [call EXCEPT ![c].pc = pc, ![c].attempt = 2, ![c].proc = 0]
             \/ call' = [call EXCEPT ![c].pc = pc, ![c].attempt = 1]
      PROVE  Told'
  <2>1. Alone(c) /\ call'[c].end = call[c].end /\ call'[c].pc = pc
    <3> USE DEF Alone, CallsTyped, CallsShaped, CallState
    <3>1. CASE call' = [call EXCEPT ![c].pc = pc]
      BY <3>1
    <3>2. ASSUME NEW proc, NEW stale, call' = [call EXCEPT ![c].pc = pc, ![c].proc = proc, ![c].stale = stale]
          PROVE  Alone(c) /\ call'[c].end = call[c].end /\ call'[c].pc = pc
      BY <3>2
    <3>3. CASE call' = [call EXCEPT ![c].pc = pc, ![c].stale = 0]
      BY <3>3
    <3>4. CASE call' = [call EXCEPT ![c].pc = pc, ![c].attempt = 2, ![c].proc = 0]
      BY <3>4
    <3>5. CASE call' = [call EXCEPT ![c].pc = pc, ![c].attempt = 1]
      BY <3>5
    <3> HIDE DEF Alone, CallsTyped, CallsShaped, CallState
    <3>6. QED
      BY <1>1, <3>1, <3>2, <3>3, <3>4, <3>5
  <2>2. call[c].end = "none"
    BY <1>1 DEF Told
  <2>3. QED
    BY <1>1, <2>1, <2>2, ToldMoved
<1>2. ASSUME NEW c \in Calls, NEW end \in {"closed", "cancelled"},
             call' = [call EXCEPT ![c].pc = "returned", ![c].end = end]
      PROVE  Told'
  <2>1. Alone(c) /\ call'[c].end = end /\ call'[c].pc = "returned"
    BY <1>2 DEF Alone, CallsTyped, CallsShaped, CallState
  <2>2. QED
    BY <2>1, ToldReturned
<1>3. CASE UNCHANGED call
  BY <1>3 DEF Told, MT!ReplyIsForRequest
<1>p. /\ {"idle", "admit", "enqueue", "queued", "returned"} \subseteq Pcs
      /\ {"get", "reap", "gate", "write", "wait", "await", "translated", "release", "failed", "discard"} \subseteq Pcs
  BY DEF Pcs, MT!InJob
<1>4. ASSUME NEW c \in Calls, MT!Submit(c) \/ MT!Admit(c) \/ MT!Enqueue(c)
      PROVE  Told'
  <2>1. \/ \E end \in {"closed", "cancelled"} : call' = [call EXCEPT ![c].pc = "returned", ![c].end = end]
        \/ \E pc \in {"admit", "enqueue", "queued"} : call' = [call EXCEPT ![c].pc = pc]
    BY <1>4 DEF MT!Submit, MT!Admit, MT!Enqueue
  <2>2. call[c].pc # "returned"
    BY <1>4 DEF MT!Submit, MT!Admit, MT!Enqueue
  <2>3. QED
    BY <1>1, <1>2, <1>p, <2>1, <2>2
<1>5. ASSUME NEW c \in Calls, MT!Cancel(c)
      PROVE  Told'
  <2>1. Alone(c) /\ call'[c].end = call[c].end /\ call'[c].pc = call[c].pc /\ call'[c].got = call[c].got
        /\ call[c].pc # "returned"
    BY <1>5 DEF MT!Cancel, Alone, CallsTyped, CallsShaped, CallState
  <2>2. QED
    BY <2>1, ToldMoved DEF Told
<1>6. ASSUME NEW c \in Calls, MT!Refused(c)
      PROVE  Told'
  BY <1>6, ToldFinish DEF MT!Refused
<1>7. ASSUME NEW c \in Calls, MT!Get(c)
      PROVE  Told'
  <2>1. CASE MT!Finish(c, "cancelled", MT!NoCall)
    BY <2>1, ToldFinish
  <2>2. CASE \E pc \in {"gate", "reap"} : \E proc, stale :
               call' = [call EXCEPT ![c].pc = pc, ![c].proc = proc, ![c].stale = stale]
    <3>1. call[c].pc # "returned"
      BY <1>7 DEF MT!Get
    <3>2. PICK pc \in {"gate", "reap"} : \E proc, stale :
            call' = [call EXCEPT ![c].pc = pc, ![c].proc = proc, ![c].stale = stale]
      BY <2>2
    <3>3. pc \in Pcs /\ pc # "translated"
      BY <1>p
    <3>4. QED
      BY <1>1, <3>1, <3>2, <3>3
  <2>3. QED
    BY <1>7, <2>1, <2>2 DEF MT!Get
<1>8. ASSUME NEW c \in Calls, MT!SpawnFails(c)
      PROVE  Told'
  <2>1. call[c].pc = "get" /\ \E proc, stale : call' = [call EXCEPT ![c].pc = "reap", ![c].proc = proc, ![c].stale = stale]
    BY <1>8 DEF MT!SpawnFails
  <2>2. QED
    BY <1>1, <1>p, <2>1
<1>9. ASSUME NEW c \in Calls, MT!Reaped(c)
      PROVE  Told'
  <2>1. CASE MT!Finish(c, "failed", MT!NoCall)
    BY <2>1, ToldFinish
  <2>2. CASE call[c].pc = "reap" /\ call' = [call EXCEPT ![c].pc = "gate", ![c].stale = 0]
    BY <1>1, <1>p, <2>2
  <2>3. QED
    BY <1>9, <2>1, <2>2 DEF MT!Reaped
<1>10. ASSUME NEW c \in Calls, MT!Acquire(c) \/ MT!WriteLine(c) \/ MT!WriteFailed(c) \/ MT!Release(c)
       PROVE  Told'
  <2>1. call[c].pc # "returned"
    BY <1>10 DEF MT!Acquire, MT!WriteLine, MT!WriteFailed, MT!Release
  <2>2. CASE MT!WriteLine(c)
    <3>1. \E pc \in {"await", "wait", "release"} : call' = [call EXCEPT ![c].pc = pc]
      BY <2>2 DEF MT!WriteLine
    <3>2. QED
      BY <1>1, <1>p, <2>1, <3>1
  <2>3. CASE MT!Acquire(c) \/ MT!WriteFailed(c) \/ MT!Release(c)
    <3>1. \E pc \in {"write", "failed", "release"} : call' = [call EXCEPT ![c].pc = pc]
      BY <2>3 DEF MT!Acquire, MT!WriteFailed, MT!Release
    <3>2. QED
      BY <1>1, <1>p, <2>1, <3>1
  <2>4. QED
    BY <1>10, <2>2, <2>3
<1>11. ASSUME NEW c \in Calls, MT!Await(c)
       PROVE  Told'
  <2>0. call[c].pc = "await"
    BY <1>11 DEF MT!Await
  <2>1. CASE MT!Mine(c).reply # "none" /\ call' = [call EXCEPT ![c].pc = "translated", ![c].got = MT!Mine(c).reply]
    <3>1. MT!Mine(c).reply = c
      BY <2>0, <2>1 DEF Piped, PipesHold
    <3>2. Alone(c) /\ call'[c].end = call[c].end /\ call'[c].got = MT!Mine(c).reply
      BY <2>1 DEF Alone, CallsTyped, CallsShaped, CallState
    <3>3. call[c].end = "none"
      BY <2>0 DEF Told
    <3>4. QED
      BY <3>1, <3>2, <3>3, ToldMoved
  <2>2. CASE call' = [call EXCEPT ![c].pc = "release"]
    BY <1>1, <1>p, <2>0, <2>2
  <2>3. QED
    BY <1>11, <2>1, <2>2 DEF MT!Await, MT!NoCall
<1>12. ASSUME NEW c \in Calls, MT!Translated(c)
       PROVE  Told'
  <2>1. call[c].got = c /\ MT!Finish(c, "ok", call[c].got)
    BY <1>12 DEF MT!Translated, Told
  <2>2. QED
    BY <2>1, ToldFinish
<1>13. ASSUME NEW c \in Calls, MT!Discard(c)
       PROVE  Told'
  <2>1. CASE MT!Finish(c, "failed", MT!NoCall)
    BY <2>1, ToldFinish
  <2>2. CASE call[c].pc = "failed" /\ call' = [call EXCEPT ![c].pc = "discard"]
    BY <1>1, <1>p, <2>2
  <2>3. QED
    BY <1>13, <2>1, <2>2 DEF MT!Discard
<1>14. ASSUME NEW c \in Calls, MT!Retry(c)
       PROVE  Told'
  <2>1. CASE MT!Finish(c, "failed", MT!NoCall)
    BY <2>1, ToldFinish
  <2>2. CASE call[c].pc = "discard" /\ call' = [call EXCEPT ![c].pc = "get", ![c].attempt = 2, ![c].proc = 0]
    BY <1>1, <1>p, <2>2
  <2>3. QED
    BY <1>14, <2>1, <2>2 DEF MT!Retry
<1>15. CASE MT!Take
  <2>1. PICK c \in Calls : c = Head(queue) /\ queue # <<>>
    BY <1>15 DEF MT!Take, CallsTyped, CallsShaped
  <2>2. call[c].pc = "queued"
    <3>1. Len(queue) \in Nat /\ Len(queue) > 0 /\ queue[1] = c
      BY <2>1 DEF CallsTyped, CallsShaped
    <3>2. QED
      BY <3>1 DEF Counted, QueueHolds
  <2>3. call' = [call EXCEPT ![c].pc = "get", ![c].attempt = 1]
    BY <1>15, <2>1 DEF MT!Take
  <2>4. QED
    BY <1>1, <1>p, <2>2, <2>3
<1>16. CASE MT!ClosePool \/ MT!PoolDrained
  BY <1>3, <1>16 DEF MT!ClosePool, MT!PoolDrained
<1>17. ASSUME NEW l \in Lanes, MT!CloseLane(l) \/ MT!CloseAll(l) \/ MT!Drained(l)
       PROVE  Told'
  BY <1>3, <1>17 DEF MT!CloseLane, MT!CloseAll, MT!Drained
<1>18. ASSUME NEW l \in Lanes, NEW n \in 1 .. MaxSpawn, MT!Reply(l, n) \/ MT!Exit(l, n) \/ MT!Reap(l, n)
       PROVE  Told'
  BY <1>3, <1>18 DEF MT!Reply, MT!Exit, MT!Reap
<1>19. QED
  BY <1>4, <1>5, <1>6, <1>7, <1>8, <1>9, <1>10, <1>11, <1>12, <1>13, <1>14, <1>15, <1>16, <1>17, <1>18
  DEF MT!Next, MT!Job, MT!Closing

-----------------------------------------------------------------------------
(* Calls stay apart.                                                       *)

CallsInv == CallsTyped /\ Counted /\ Numbered /\ Serving /\ Piped /\ Told

LEMMA CallsStart == Init => CallsInv
<1> SUFFICES ASSUME Init PROVE CallsInv
  OBVIOUS
<1>1. MT!Init
  BY DEF Init
<1>2. MT!Idle \in CallState /\ MT!Idle.pc = "idle" /\ MT!Idle.proc = 0 /\ MT!Idle.end = "none"
  BY Bounds DEF CallState, Pcs, Who, MT!Idle, MT!NoCall
<1>3. MT!Unborn \in HelperState /\ MT!Unborn.at = "unborn"
  BY DEF MT!Unborn, MT!NoCall, HelperState, Who
<1>4. \A c \in Calls : call[c] = MT!Idle
  BY <1>1 DEF MT!Init
<1>5. \A l \in Lanes : \A n \in 1 .. MaxSpawn : helpers[l][n] = MT!Unborn
  BY <1>1 DEF MT!Init
<1>6. CallsTyped
  <2>1. call \in [Calls -> CallState] /\ helpers \in [Lanes -> [1 .. MaxSpawn -> HelperState]]
    BY <1>1, <1>2, <1>3 DEF MT!Init
  <2>2. /\ queue = <<>> /\ running = {} /\ inflight = 0 /\ poolEnd = "open" /\ plan \in Plans
        /\ tasks = [l \in Lanes |-> 0] /\ closing = [l \in Lanes |-> "open"]
        /\ cached = [l \in Lanes |-> 0] /\ spawned = [l \in Lanes |-> 0]
    BY <1>1 DEF MT!Init
  <2>3. queue \in Seq(Calls) /\ 0 \in 0 .. MaxSpawn
    BY <2>2, Bounds
  <2>4. QED
    BY <2>1, <2>2, <2>3 DEF CallsTyped, CallsShaped
<1>7. Counted
  <2>1. "idle" \notin MT!InJob
    BY DEF MT!InJob
  <2>2. InPool = {} /\ (\A l \in Lanes : InLane(l) = {}) /\ {c \in Calls : call[c].pc \in MT!InJob} = {}
    BY <1>2, <1>4, <2>1 DEF InPool, InLane
  <2>3. Cardinality({}) = 0
    BY FS_EmptySet
  <2>4. CountsHold
    BY <1>1, <2>2, <2>3 DEF CountsHold, MT!Init
  <2>5. QueueHolds
    BY <1>1 DEF QueueHolds, MT!Init
  <2>6. ClosedHolds
    BY <1>1, <2>2 DEF ClosedHolds, MT!Init
  <2>7. QED
    BY <2>4, <2>5, <2>6 DEF Counted
<1>8. Numbered
  <2>1. "idle" \notin OnHelper
    BY DEF OnHelper
  <2>2. \A c \in Calls : MT!LaneOf(c) \in Lanes
    BY <1>6, Bounds
  <2>3. QED
    BY <1>1, <1>2, <1>4, <2>1, <2>2 DEF Numbered, MT!Init
<1>9. Serving
  BY <1>1, <1>3, <1>5 DEF Serving, MT!Init
<1>10. Piped
  BY <1>2, <1>3, <1>4, <1>5 DEF Piped, GatesHold, PipesHold, LiveHold, Holding
<1>11. Told
  BY <1>2, <1>4 DEF Told, MT!ReplyIsForRequest
<1>12. QED
  BY <1>6, <1>7, <1>8, <1>9, <1>10, <1>11 DEF CallsInv

LEMMA CallsNext == CallsInv /\ MT!Next => CallsInv'
<1> SUFFICES ASSUME CallsInv, MT!Next PROVE CallsInv'
  OBVIOUS
<1>1. CallsTyped /\ Counted /\ Numbered /\ Serving /\ Piped /\ Told
  BY DEF CallsInv
<1>2. Counted' /\ CallsShaped' /\ TasksShaped' /\ Numbered' /\ Serving' /\ Piped' /\ Told'
  BY <1>1, CountedNext, ShapedNext, NumberedNext, ServingNext, PipedNext, ToldNext
<1>3. CallsTyped'
  BY <1>2, CountsTyped
<1>4. QED
  BY <1>2, <1>3 DEF CallsInv

\* The other parts do not touch the calls.
LEMMA CallsRest == CallsInv /\ UNCHANGED callVars => CallsInv'
<1> SUFFICES ASSUME CallsInv, UNCHANGED callVars PROVE CallsInv'
  OBVIOUS
<1>1. UNCHANGED <<call, queue, running, inflight, tasks, closing, helpers, cached, spawned, poolEnd, plan>>
  BY DEF callVars
<1>2. CallsTyped' /\ Numbered' /\ Serving' /\ Told'
  BY <1>1 DEF CallsInv, CallsTyped, CallsShaped, Numbered, Serving, Told, MT!ReplyIsForRequest, MT!LaneOf
<1>3. Piped'
  BY <1>1, PipedStays DEF CallsInv
<1>4. Counted'
  BY <1>1, CountedWithin DEF CallsInv
<1>5. QED
  BY <1>2, <1>3, <1>4 DEF CallsInv

LEMMA CallsKept == CallsInv /\ [Next]_vars => CallsInv'
<1> SUFFICES ASSUME CallsInv, [Next]_vars PROVE CallsInv'
  OBVIOUS
<1>1. CASE CallsStep
  BY <1>1, CallsNext DEF CallsStep
<1>2. CASE SttStep \/ WhisperStep \/ VoiceStep \/ LoopStep \/ DeviceStep \/ PcmStep \/ SinkStep \/ WavStep \/ LaneStep
  BY <1>2, CallsRest DEF SttStep, WhisperStep, VoiceStep, LoopStep, DeviceStep, PcmStep, SinkStep, WavStep,
                         LaneStep, Speech, Intake
<1>3. CASE UNCHANGED vars
  BY <1>3, CallsRest DEF vars
<1>4. QED
  BY <1>1, <1>2, <1>3 DEF Next

LEMMA CallsApart == CallsInv => CallsStayApart
<1> SUFFICES ASSUME CallsInv PROVE MT!ReplyIsForRequest /\ MT!ClosedIsEmpty
  BY DEF CallsStayApart, Of
<1>1. MT!ReplyIsForRequest
  BY DEF CallsInv, Told
<1>2. MT!OneHelperPerRoute
  BY DEF CallsInv, Serving, MT!OneHelperPerRoute
<1>3. \A l \in Lanes : closing[l] = "closed" =>
        /\ \A c \in Calls : MT!LaneOf(c) = l => call[c].pc \in {"idle", "returned"}
        /\ \A n \in 1 .. MaxSpawn : helpers[l][n].at \in {"unborn", "done"}
  BY DEF CallsInv, Serving, Counted, ClosedHolds
<1>4. ASSUME poolEnd = "done" PROVE queue = <<>> /\ running = {}
  <2>1. InPool = {}
    BY <1>4 DEF CallsInv, Counted, ClosedHolds
  <2>2. running = {}
    BY <2>1 DEF CallsInv, Counted, CountsHold, InPool
  <2>3. ASSUME queue # <<>> PROVE FALSE
    <3>1. Len(queue) \in Nat /\ Len(queue) > 0 /\ queue[1] \in Calls
      BY <2>3 DEF CallsInv, CallsTyped, CallsShaped
    <3>2. call[queue[1]].pc = "queued"
      BY <3>1 DEF CallsInv, Counted, QueueHolds
    <3>3. QED
      BY <2>1, <3>1, <3>2 DEF InPool
  <2>4. QED
    BY <2>2, <2>3
<1>5. QED
  BY <1>1, <1>2, <1>3, <1>4 DEF MT!ClosedIsEmpty

\* An answer is the request's own, one helper serves a route, a lane that closed
\* has no call and no process left, and a pool that closed no job: at every step of
\* the calls, whoever cancels, whichever helper hangs, exits or is replaced.
THEOREM CallsAreApart == Spec => []CallsStayApart
<1>1. CallsInv /\ [Next]_vars => CallsInv'
  BY CallsKept
<1>2. QED
  BY CallsStart, CallsApart, <1>1, PTL DEF Spec
=============================================================================
