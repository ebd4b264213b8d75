------------------------ MODULE AudioRegistryProofs -------------------------
(***************************************************************************)
(* Why a push target never has two processes at work and a Reset leaves no *)
(* job behind, for every set of sessions, languages, targets and callers.  *)
(* Whoever holds startMu is alone (MuHeld); a job that is not closed is    *)
(* registered, or it is the one that the holder waits for (JobsOwned); and *)
(* a session without a gate admits nobody (GateShut).                      *)
(***************************************************************************)
EXTENDS AudioRegistry, TLAPS

USE DEF Gens

\* startMu has one holder: a launch or a teardown.
MuHeld ==
  /\ \A t, u \in Thread : call[t].pc \in Holding /\ call[u].pc \in Holding => t = u
  /\ \A t \in Thread, s \in Slug : call[t].pc \in Holding => lane[s].pc # "reap"
  /\ \A s, r \in Slug : lane[s].pc = "reap" /\ lane[r].pc = "reap" => s = r

\* A launch knows its identity, and its target has no registered job.
CallsNamed ==
  \A t \in Thread :
    /\ call[t].pc # "off" => call[t].id \in JobId
    /\ call[t].pc # "off" /\ t[1] = "push" => call[t].id \in PushId
    /\ call[t].pc = "remember" => t[1] = "push"
    /\ call[t].pc \in Holding => jobs[call[t].id] = 0
    /\ call[t].pc \in {"cancel", "reap"} => call[t].old \in Gens
    /\ call[t].pc = "reap" => job[call[t].old].cancelled

\* A registration is of a job of that identity.
JobsNamed == \A id \in JobId : jobs[id] # 0 => jobs[id] \in Gens /\ job[jobs[id]].id = id

\* A teardown has deregistered and cancelled what it waits for.
ResetsNamed ==
  \A s \in Slug :
    lane[s].pc = "reap" =>
      /\ \A id \in JobId : SlugOf(id) = s => jobs[id] = 0
      /\ \A g \in lane[s].jobs : g \in Gens /\ job[g].cancelled

\* Somebody answers for the job.
HasOwner(g) ==
  \/ jobs[job[g].id] = g
  \/ \E t \in Thread : call[t].pc \in {"cancel", "reap"} /\ call[t].old = g
  \/ \E s \in Slug : lane[s].pc = "reap" /\ g \in lane[s].jobs

JobsOwned ==
  /\ \A g \in Gens : JobClosed(g) \/ HasOwner(g)
  /\ \A g, h \in Gens : ~JobClosed(g) /\ ~JobClosed(h) /\ job[g].id = job[h].id => g = h

\* A session without a gate: its launches and jobs end with the teardown, its
\* replays before it.
GateShutAt(s) ==
  /\ lane[s].pc \in {"drain", "lock", "reap", "forget"} => gates[s] = 0
  /\ gates[s] = 0 /\ lane[s].pc \notin {"drain", "lock"} =>
       \A t \in Thread : call[t].pc \in Holding => SlugOf(call[t].id) # s
  /\ gates[s] = 0 /\ lane[s].pc \notin {"drain", "lock", "reap"} =>
       \A g \in Gens : SlugOf(job[g].id) = s => JobClosed(g)
  /\ \A r \in Creation :
       replay[r].pc \in {"list", "next"} /\ replay[r].pair[1] = s =>
         /\ replay[r].gate # 0
         /\ \/ replay[r].gate = gates[s]
            \/ lane[s].pc = "drain" /\ replay[r].gate = lane[s].gate

GateShut == \A s \in Slug : GateShutAt(s)

\* Gates are never reused, and a reader of a live gate is registered.
GatesNamed ==
  /\ \A s \in Slug : gates[s] <= nextGate
  /\ \A s, r \in Slug : gates[s] = gates[r] /\ gates[s] # 0 => s = r
  /\ \A l \in Listener : stream[l].pc = "open" =>
       /\ stream[l].gate # 0 /\ stream[l].gate <= nextGate
       /\ \A s \in Slug : stream[l].gate = gates[s] => stream[l].pair[1] = s /\ l \in streams

\* A playout that is waited for admits nobody any more and misses nobody.
PlayoutNotedAt(s) ==
  /\ lane[s].pc = "playing" => gates[s] # 0
  /\ lane[s].pc \in {"playing", "played"} /\ gates[s] # 0 =>
       /\ gates[s] \in finishing
       /\ \A t \in Thread : call[t].pc \in Holding => SlugOf(call[t].id) # s
       /\ \A g \in Gens :
            SlugOf(job[g].id) = s /\ ~SelfFed(job[g].id) /\ ~JobClosed(g) =>
              lane[s].pc = "playing" /\ g \in lane[s].jobs
       /\ \A l \in Listener :
            stream[l].pc = "open" /\ stream[l].gate = gates[s] =>
              lane[s].pc = "playing" /\ l \in lane[s].streams

PlayoutNoted == \A s \in Slug : PlayoutNotedAt(s)

Registry ==
  MuHeld /\ CallsNamed /\ JobsNamed /\ ResetsNamed /\ JobsOwned /\ GateShut /\ GatesNamed /\ PlayoutNoted

AInv == TypeOK /\ Registry

-----------------------------------------------------------------------------
(* Shapes.                                                                 *)

\* A job's identifier names its pair and session.
LEMMA Ids ==
  ASSUME NEW id \in JobId
  PROVE  /\ PairOf(id) \in Pair /\ SlugOf(id) \in Slug /\ SlugOf(id) = PairOf(id)[1]
         /\ SelfFed(id) => id \in PushId
BY AudioAssumption DEF JobId, Pair, PushId, PairOf, SlugOf, SelfFed, AudioAssumption

LEMMA PushIds == PushId \subseteq JobId
BY DEF PushId, JobId

\* The lane's, the launch's and the replay's updates keep their types.
LEMMA LanePcType ==
  ASSUME TypeOK, NEW s \in Slug, NEW pc \in LanePc
  PROVE  [lane EXCEPT ![s].pc = pc] \in [Slug -> Lane]
<1>1. \A a \in Lane : [a EXCEPT !.pc = pc] \in Lane
  BY DEF Lane
<1>2. QED
  BY <1>1 DEF TypeOK

LEMMA LaneTodoType ==
  ASSUME TypeOK, NEW s \in Slug, NEW todo \in SUBSET Lang
  PROVE  [lane EXCEPT ![s].todo = todo] \in [Slug -> Lane]
<1>1. \A a \in Lane : [a EXCEPT !.todo = todo] \in Lane
  BY DEF Lane
<1>2. QED
  BY <1>1 DEF TypeOK

LEMMA LaneOffType == LaneOff \in Lane /\ [LaneOff EXCEPT !.pc = "forget"] \in Lane
BY DEF LaneOff, Lane, LanePc

LEMMA CallPcType ==
  ASSUME TypeOK, NEW t \in Thread, NEW pc \in CallPc
  PROVE  [call EXCEPT ![t].pc = pc] \in [Thread -> Call]
<1>1. \A c \in Call : [c EXCEPT !.pc = pc] \in Call
  BY DEF Call
<1>2. QED
  BY <1>1 DEF TypeOK

LEMMA CallIdType ==
  ASSUME TypeOK, NEW t \in Thread, NEW pc \in CallPc, NEW id \in JobId, NEW seen \in Nat
  PROVE  /\ [call EXCEPT ![t].pc = pc, ![t].id = id] \in [Thread -> Call]
         /\ [call EXCEPT ![t].pc = pc, ![t].id = id, ![t].seen = seen] \in [Thread -> Call]
         /\ [call EXCEPT ![t].pc = pc, ![t].old = seen] \in [Thread -> Call]
<1>1. \A c \in Call :
        /\ [c EXCEPT !.pc = pc, !.id = id] \in Call
        /\ [c EXCEPT !.pc = pc, !.id = id, !.seen = seen] \in Call
        /\ [c EXCEPT !.pc = pc, !.old = seen] \in Call
  BY DEF Call
<1>2. QED
  BY <1>1 DEF TypeOK

\* A launch that returns is idle, or remembers its push.
LEMMA ReturnType ==
  ASSUME TypeOK, NEW t \in Thread,
         NEW answer \in {"none", "started", "notReady", "noAudio", "refused"}, Return(t, answer)
  PROVE  call' \in [Thread -> Call]
<1>1. Idle \in Call
  BY DEF Idle, Call, CallPc
<1>2. \A c \in Call, pc \in CallPc : [c EXCEPT !.pc = pc, !.answer = answer, !.old = 0] \in Call
  BY DEF Call
<1>3. "end" \in CallPc /\ "remember" \in CallPc
  BY DEF CallPc
<1>4. CASE t[1] # "push"
  BY <1>1, <1>4 DEF Return, TypeOK
<1>5. CASE t[1] = "push"
  BY <1>2, <1>3, <1>5 DEF Return, TypeOK
<1>6. QED
  BY <1>4, <1>5

\* The type invariant is kept by the steps of the lane,
LEMMA TypeLane ==
  ASSUME TypeOK, NEW s \in Slug, LaneWorks(s)
  PROVE  TypeOK'
<1> USE DEF liveVars, gateVars, jobVars
<1>1. ASSUME NEW l \in Lang, Create(s, l)
      PROVE  TypeOK'
  <2>1. /\ creates + 1 \in Nat /\ <<s, l>> \in Pair
        /\ (IF gates[s] = 0 THEN nextGate + 1 ELSE gates[s]) \in Nat
    BY DEF Pair, TypeOK
  <2>2. lane' \in [Slug -> Lane]
    <3>1. lane[s].todo \in SUBSET Lang
      BY DEF TypeOK, Lane
    <3>2. QED
      BY <1>1, <3>1, LaneTodoType DEF Create
  <2>3. \A g \in Nat : [pc |-> "list", gate |-> g, pair |-> <<s, l>>, todo |-> {}] \in Replay
    BY <2>1 DEF Replay
  <2>4. replay' \in [Creation -> Replay]
    BY <1>1, <2>1, <2>3 DEF Create, TypeOK
  <2>5. QED
    BY <1>1, <2>1, <2>2, <2>4 DEF Create, TypeOK
<1>2. ASSUME NEW l \in Lang, StartHLS(s, l)
      PROVE  TypeOK'
  <2>1. <<<<s, l>>, "hls">> \in JobId /\ <<"hls", s>> \in Thread /\ "dispatch" \in CallPc
    BY DEF JobId, Pair, Thread, CallPc
  <2>2. lane[s].todo \in SUBSET Lang
    BY DEF TypeOK, Lane
  <2>3. lane' \in [Slug -> Lane]
    BY <1>2, <2>2, LaneTodoType DEF StartHLS
  <2>4. call' \in [Thread -> Call]
    BY <1>2, <2>1, CallIdType DEF StartHLS
  <2>5. QED
    BY <1>2, <2>3, <2>4 DEF StartHLS, TypeOK
<1>3. CASE Created(s)
  <2>1. \A a \in Lane, todo \in SUBSET Lang : [a EXCEPT !.pc = "hls", !.todo = todo] \in Lane
    BY DEF Lane, LanePc
  <2>2. lane' \in [Slug -> Lane]
    BY <1>3, <2>1 DEF Created, TypeOK
  <2>3. QED
    BY <1>3, <2>2 DEF Created, TypeOK
<1>4. CASE LaneRuns(s) \/ Played(s) \/ ReplaysDrained(s)
  <2>1. "live" \in LanePc /\ "played" \in LanePc /\ "lock" \in LanePc
    BY DEF LanePc
  <2>2. lane' \in [Slug -> Lane]
    <3>1. PICK pc \in {"live", "played", "lock"} : LaneAt(s, pc)
      BY <1>4 DEF LaneRuns, Played, ReplaysDrained
    <3>2. pc \in LanePc
      BY <2>1
    <3>3. QED
      BY <3>1, <3>2, LanePcType DEF LaneAt
  <2>3. QED
    BY <1>4, <2>2 DEF LaneRuns, Played, ReplaysDrained, TypeOK
<1>5. CASE FinishSnapshot(s)
  <2>1. \A a \in Lane, x \in SUBSET Nat, y \in SUBSET Listener :
          [a EXCEPT !.pc = "playing", !.jobs = x, !.streams = y] \in Lane
    BY DEF Lane, LanePc
  <2>2. CASE gates[s] = 0
    <3>1. LaneAt(s, "played") /\ UNCHANGED finishing
      BY <1>5, <2>2 DEF FinishSnapshot
    <3>2. "played" \in LanePc
      BY DEF LanePc
    <3>3. lane' \in [Slug -> Lane]
      BY <3>1, <3>2, LanePcType DEF LaneAt
    <3>4. QED
      BY <1>5, <3>1, <3>3 DEF FinishSnapshot, TypeOK
  <2>3. CASE gates[s] # 0
    <3> DEFINE mixed == {g \in Gens : jobs[job[g].id] = g /\ SlugOf(job[g].id) = s /\ ~SelfFed(job[g].id)}
               heard == {l \in streams : stream[l].pair[1] = s}
    <3>1. /\ finishing' = finishing \cup {gates[s]}
          /\ lane' = [lane EXCEPT ![s].pc = "playing", ![s].jobs = mixed, ![s].streams = heard]
      BY <1>5, <2>3 DEF FinishSnapshot
    <3>2. mixed \in SUBSET Nat /\ heard \in SUBSET Listener
      BY DEF TypeOK
    <3>3. lane' \in [Slug -> Lane]
      <4> HIDE DEF mixed, heard
      <4>1. QED
        BY <2>1, <3>1, <3>2 DEF TypeOK
    <3>4. finishing' \subseteq Nat
      BY <3>1 DEF TypeOK
    <3>5. QED
      BY <1>5, <3>3, <3>4 DEF FinishSnapshot, TypeOK
  <2>4. QED
    BY <2>2, <2>3
<1>6. CASE RetireGate(s)
  <2>1. \A a \in Lane, pc \in LanePc, g \in Nat, d \in BOOLEAN :
          [a EXCEPT !.pc = pc, !.gate = g, !.drop = d] \in Lane
    BY DEF Lane
  <2>2. /\ (IF gates[s] = 0 THEN "lock" ELSE "drain") \in LanePc /\ gates[s] \in Nat
        /\ (lane[s].drop \/ lane[s].pc = "played") \in BOOLEAN
    BY DEF LanePc, TypeOK
  <2>3. lane' \in [Slug -> Lane]
    BY <1>6, <2>1, <2>2 DEF RetireGate, TypeOK
  <2>4. gates' \in [Slug -> Nat] /\ dead' \subseteq Nat
    BY <1>6 DEF RetireGate, TypeOK
  <2>5. QED
    BY <1>6, <2>3, <2>4 DEF RetireGate, TypeOK
<1>7. CASE stopSession(s)
  <2>1. \A a \in Lane, x \in SUBSET Nat : [a EXCEPT !.pc = "reap", !.jobs = x] \in Lane
    BY DEF Lane, LanePc
  <2>2. lane' \in [Slug -> Lane]
    <3> DEFINE mine == {g \in Gens : jobs[job[g].id] = g /\ SlugOf(job[g].id) = s}
    <3>1. lane' = [lane EXCEPT ![s].pc = "reap", ![s].jobs = mine] /\ mine \in SUBSET Nat
      BY <1>7 DEF stopSession
    <3> HIDE DEF mine
    <3>2. QED
      BY <2>1, <3>1 DEF TypeOK
  <2>3. \A j \in Job : [j EXCEPT !.cancelled = TRUE] \in Job
    BY DEF Job
  <2>4. job' \in [Gens -> Job]
    BY <1>7, <2>3 DEF stopSession, TypeOK
  <2>5. pairs' \in [Pair -> Nat] /\ jobs' \in [JobId -> Nat] /\ gates' \in [Slug -> Nat]
        /\ dead' \subseteq Nat
    BY <1>7 DEF stopSession, TypeOK
  <2>6. QED
    BY <1>7, <2>2, <2>4, <2>5 DEF stopSession, TypeOK
<1>8. CASE ResetReturns(s)
  <2>1. lane' \in [Slug -> Lane]
    BY <1>8, LaneOffType DEF ResetReturns, TypeOK
  <2>2. QED
    BY <1>8, <2>1 DEF ResetReturns, TypeOK
<1>9. CASE forgetRoutes(s)
  <2>1. lane' \in [Slug -> Lane]
    BY <1>9, LaneOffType DEF forgetRoutes, TypeOK
  <2>2. \A c \in Call : [c EXCEPT !.stale = TRUE] \in Call
    BY DEF Call
  <2>3. call' \in [Thread -> Call]
    BY <1>9, <2>2 DEF forgetRoutes, TypeOK
  <2>4. QED
    BY <1>9, <2>1, <2>3 DEF forgetRoutes, TypeOK
<1>10. QED
  BY <1>1, <1>2, <1>3, <1>4, <1>5, <1>6, <1>7, <1>8, <1>9 DEF LaneWorks

\* of a launch,
LEMMA TypeCall ==
  ASSUME TypeOK, CallsNamed, NEW t \in Thread, CallWorks(t)
  PROVE  TypeOK'
<1> USE DEF liveVars, gateVars, jobVars
<1>1. {"begin", "start", "reap", "cancel", "admit", "end"} \subseteq CallPc
  BY DEF CallPc
<1>2. CASE Dispatch(t)
  <2>1. call' \in [Thread -> Call]
    <3>1. CASE CallAt(t, "begin")
      BY <1>1, <3>1, CallPcType DEF CallAt
    <3>2. CASE Return(t, "notReady")
      BY <3>2, ReturnType
    <3>3. CASE Return(t, "refused")
      BY <3>3, ReturnType
    <3>4. QED
      BY <1>2, <3>1, <3>2, <3>3 DEF Dispatch
  <2>2. QED
    BY <1>2, <2>1 DEF Dispatch, TypeOK
<1>3. CASE OldReaped(t)
  <2>1. call' \in [Thread -> Call]
    BY <1>1, <1>3, CallPcType DEF OldReaped, CallAt
  <2>2. QED
    BY <1>3, <2>1 DEF OldReaped, TypeOK
<1>4. CASE Start(t)
  <2>1. call' \in [Thread -> Call]
    <3>1. CASE CallAt(t, "admit")
      BY <1>1, <3>1, CallPcType DEF CallAt
    <3>2. CASE Return(t, "refused")
      BY <3>2, ReturnType
    <3>3. QED
      BY <1>4, <3>1, <3>2 DEF Start
  <2>2. QED
    BY <1>4, <2>1 DEF Start, TypeOK
<1>5. CASE beginStart(t)
  <2>1. call[t].id \in JobId
    BY <1>5 DEF beginStart, CallsNamed
  <2>2. jobs' \in [JobId -> Nat]
    BY <1>5, <2>1 DEF beginStart, TypeOK
  <2>3. CASE UNCHANGED jobs /\ \E a \in {"noAudio", "refused", "notReady"} : Return(t, a)
    <3>1. call' \in [Thread -> Call]
      BY <2>3, ReturnType
    <3>2. QED
      BY <1>5, <2>2, <3>1 DEF beginStart, TypeOK
  <2>4. CASE call' = [call EXCEPT ![t].pc = IF jobs[call[t].id] = 0 THEN "start" ELSE "cancel",
                                  ![t].old = jobs[call[t].id]]
    <3>1. jobs[call[t].id] \in Nat /\ (IF jobs[call[t].id] = 0 THEN "start" ELSE "cancel") \in CallPc
      BY <1>1, <2>1 DEF TypeOK
    <3>2. call' \in [Thread -> Call]
      BY <2>1, <2>4, <3>1, CallIdType
    <3>3. QED
      BY <1>5, <2>2, <3>2 DEF beginStart, TypeOK
  <2>5. QED
    BY <1>5, <2>3, <2>4 DEF beginStart
<1>6. CASE CancelOld(t)
  <2>1. call' \in [Thread -> Call]
    BY <1>1, <1>6, CallPcType DEF CancelOld, CallAt
  <2>2. \A j \in Job : [j EXCEPT !.cancelled = TRUE] \in Job
    BY DEF Job
  <2>3. job' \in [Gens -> Job]
    BY <1>6, <2>2 DEF CancelOld, TypeOK
  <2>4. QED
    BY <1>6, <2>1, <2>3 DEF CancelOld, TypeOK
<1>7. CASE Admit(t)
  <2>1. call[t].id \in JobId
    BY <1>7 DEF Admit, CallsNamed
  <2>2. call' \in [Thread -> Call]
    BY <1>7, ReturnType DEF Admit
  <2>3. [id |-> call[t].id, template |-> pairs[PairOf(call[t].id)], cancelled |-> FALSE, pc |-> "feed"] \in Job
    BY <2>1, Ids DEF Job, TypeOK
  <2>4. nextJob' \in Nat /\ nextJob' = nextJob + 1 /\ (1 .. nextJob') = (1 .. nextJob) \cup {nextJob + 1}
    BY <1>7 DEF Admit, TypeOK
  <2>5. job' \in [Gens' -> Job]
    BY <1>7, <2>3, <2>4 DEF Admit, TypeOK
  <2>6. jobs' \in [JobId -> Nat]
    BY <1>7, <2>1, <2>4 DEF Admit, TypeOK
  <2>7. QED
    BY <1>7, <2>2, <2>4, <2>5, <2>6 DEF Admit, TypeOK
<1>8. CASE AdmitRefused(t)
  <2>1. call' \in [Thread -> Call]
    BY <1>8, ReturnType DEF AdmitRefused
  <2>2. dying' \subseteq PushId
    BY <1>8, Ids DEF AdmitRefused, CallsNamed, TypeOK
  <2>3. QED
    BY <1>8, <2>1, <2>2 DEF AdmitRefused, TypeOK
<1>9. CASE rememberPush(t)
  <2>1. call' \in [Thread -> Call]
    BY <1>1, <1>9, CallPcType DEF rememberPush
  <2>2. routes' \subseteq PushId
    BY <1>9 DEF rememberPush, CallsNamed, TypeOK
  <2>3. QED
    BY <1>9, <2>1, <2>2 DEF rememberPush, TypeOK
<1>10. QED
  BY <1>2, <1>3, <1>4, <1>5, <1>6, <1>7, <1>8, <1>9 DEF CallWorks

\* of a replay,
LEMMA TypeReplay ==
  ASSUME TypeOK, NEW r \in Creation, ReplayWorks(r)
  PROVE  TypeOK'
<1> USE DEF liveVars, gateVars, jobVars
<1>1. \A a \in Replay, pc \in {"next", "end"}, todo \in SUBSET PushId :
        /\ [a EXCEPT !.pc = pc, !.todo = todo] \in Replay
        /\ [a EXCEPT !.todo = todo] \in Replay
        /\ a.todo \subseteq PushId
  BY DEF Replay
<1>2. CASE pushRoutes(r)
  <2> DEFINE mine == {id \in routes : PairOf(id) = replay[r].pair}
  <2>1. mine \in SUBSET PushId /\ replay' = [replay EXCEPT ![r].pc = "next", ![r].todo = mine]
    BY <1>2 DEF pushRoutes, TypeOK
  <2> HIDE DEF mine
  <2>2. replay' \in [Creation -> Replay]
    BY <1>1, <2>1 DEF TypeOK
  <2>3. QED
    BY <1>2, <2>2 DEF pushRoutes, TypeOK
<1>3. ASSUME NEW id \in PushId, Relaunch(r, id)
      PROVE  TypeOK'
  <2>1. id \in JobId /\ <<"replay", r>> \in Thread /\ "dispatch" \in CallPc
    BY PushIds DEF Thread, CallPc
  <2>2. call' \in [Thread -> Call]
    BY <1>3, <2>1, CallIdType DEF Relaunch
  <2>3. replay[r].todo \ {id} \in SUBSET PushId
    BY <1>1 DEF TypeOK
  <2>4. replay' \in [Creation -> Replay]
    BY <1>1, <1>3, <2>3 DEF Relaunch, TypeOK
  <2>5. QED
    BY <1>3, <2>2, <2>4 DEF Relaunch, TypeOK
<1>4. CASE ReplayDone(r)
  <2>1. replay' \in [Creation -> Replay]
    BY <1>1, <1>4 DEF ReplayDone, TypeOK
  <2>2. QED
    BY <1>4, <2>1 DEF ReplayDone, TypeOK
<1>5. QED
  BY <1>2, <1>3, <1>4 DEF ReplayWorks

JobPc == {"feed", "eof", "reopen", "restart", "ended", "done", "gone"}

LEMMA JobOnlyType ==
  ASSUME TypeOK, NEW g \in Gens, NEW from, NEW pc \in JobPc, JobOnly(g, from, pc)
  PROVE  TypeOK'
<1>1. \A j \in Job : [j EXCEPT !.pc = pc] \in Job
  BY DEF Job, JobPc
<1>2. job' \in [Gens -> Job]
  BY <1>1 DEF JobOnly, JobAt, TypeOK
<1>3. QED
  BY <1>2 DEF JobOnly, TypeOK, liveVars, gateVars

\* of a job,
LEMMA TypeJob ==
  ASSUME TypeOK, NEW g \in Gens, JobWorks(g) \/ FeedFails(g)
  PROVE  TypeOK'
<1> USE DEF liveVars, gateVars, jobVars
<1>1. CASE \E from \in JobPc, pc \in JobPc : JobOnly(g, from, pc)
  BY <1>1, JobOnlyType
<1>2. CASE Reattach(g)
  <2>1. \A j \in Job, r \in Nat, pc \in JobPc : [j EXCEPT !.template = r, !.pc = pc] \in Job
    BY DEF Job, JobPc
  <2>2. job[g].id \in JobId
    BY DEF TypeOK, Job
  <2>3. pairs[PairOf(job[g].id)] \in Nat /\ (IF IsDevice(g) THEN "reopen" ELSE "restart") \in JobPc
    BY <2>2, Ids DEF TypeOK, JobPc
  <2>4. job' \in [Gens -> Job]
    BY <1>2, <2>1, <2>3 DEF Reattach, TypeOK
  <2>5. QED
    BY <1>2, <2>4 DEF Reattach, TypeOK
<1>3. CASE retireJob(g)
  <2>1. \A j \in Job : [j EXCEPT !.pc = "gone", !.cancelled = TRUE] \in Job
    BY DEF Job
  <2>2. job' \in [Gens -> Job]
    BY <1>3, <2>1 DEF retireJob, TypeOK
  <2>3. jobs' \in [JobId -> Nat]
    <3>1. CASE jobs' = jobs
      BY <3>1 DEF TypeOK
    <3>2. CASE jobs' = [jobs EXCEPT ![job[g].id] = 0]
      BY <3>2 DEF TypeOK
    <3>3. QED
      BY <1>3, <3>1, <3>2 DEF retireJob
  <2>4. QED
    BY <1>3, <2>2, <2>3 DEF retireJob, TypeOK
<1>4. QED
  BY <1>1, <1>2, <1>3
  DEF JobWorks, FeedFails, FeedEnds, ReattachGone, ReopenEnds, ReopenTries, Restart, CloseDone, JobPc

\* and of the requests and the daemon.
LEMMA TypeEnvironment ==
  ASSUME TypeOK, Environment
  PROVE  TypeOK'
<1> USE DEF liveVars, gateVars, jobVars
<1>1. ASSUME NEW s \in Slug, LaneStarts(s)
      PROVE  TypeOK'
  <2>1. [LaneOff EXCEPT !.pc = "create", !.todo = Lang] \in Lane
    BY DEF LaneOff, Lane, LanePc
  <2>2. lane' \in [Slug -> Lane]
    <3> DEFINE new == [LaneOff EXCEPT !.pc = "create", !.todo = Lang]
    <3>1. lane' = [lane EXCEPT ![s] = new] /\ new \in Lane
      BY <1>1, <2>1 DEF LaneStarts
    <3> HIDE DEF new
    <3>2. QED
      BY <3>1 DEF TypeOK
  <2>3. QED
    BY <1>1, <2>2 DEF LaneStarts, TypeOK
<1>2. ASSUME NEW s \in Slug, LaneEnds(s)
      PROVE  TypeOK'
  <2>1. PICK pc \in {"finish", "retire"} : LaneAt(s, pc)
    BY <1>2 DEF LaneEnds
  <2>2. pc \in LanePc
    BY DEF LanePc
  <2>3. lane' \in [Slug -> Lane]
    BY <2>1, <2>2, LanePcType DEF LaneAt
  <2>4. QED
    BY <1>2, <2>3 DEF LaneEnds, TypeOK
<1>3. ASSUME NEW s \in Slug, PlayoutCut(s) \/ LoopDrops(s)
      PROVE  TypeOK'
  <2>1. \A a \in Lane : [a EXCEPT !.pc = "retire"] \in Lane
                        /\ [a EXCEPT !.pc = "retire", !.drop = TRUE] \in Lane
    BY DEF Lane, LanePc
  <2>2. lane' \in [Slug -> Lane]
    <3>1. CASE lane' = [lane EXCEPT ![s].pc = "retire"]
      BY <2>1, <3>1 DEF TypeOK
    <3>2. CASE lane' = [lane EXCEPT ![s].pc = "retire", ![s].drop = TRUE]
      BY <2>1, <3>2 DEF TypeOK
    <3>3. QED
      BY <1>3, <3>1, <3>2 DEF PlayoutCut, LoopDrops
  <2>3. QED
    BY <1>3, <2>2 DEF PlayoutCut, LoopDrops, TypeOK
<1>4. ASSUME NEW c \in Caller, NEW id \in PushId, Push(c, id)
      PROVE  TypeOK'
  <2>1. id \in JobId /\ <<"push", c>> \in Thread /\ "dispatch" \in CallPc /\ teardowns \in Nat
    BY PushIds DEF Thread, CallPc, TypeOK
  <2>2. call' \in [Thread -> Call]
    BY <1>4, <2>1, CallIdType DEF Push
  <2>3. QED
    BY <1>4, <2>2 DEF Push, TypeOK
<1>5. ASSUME NEW g \in Gens, FeedFails(g)
      PROVE  TypeOK'
  BY <1>5, TypeJob
<1>6. ASSUME NEW id \in dying, ProcessDies(id)
      PROVE  TypeOK'
  BY <1>6 DEF ProcessDies, TypeOK
<1>7. ASSUME NEW l \in Listener, StreamEnds(l) \/ CloseStream(l)
      PROVE  TypeOK'
  <2>1. \A a \in Stream, pc \in {"done", "gone"} : [a EXCEPT !.pc = pc] \in Stream
    BY DEF Stream
  <2>2. stream' \in [Listener -> Stream]
    <3>1. PICK pc \in {"done", "gone"} : stream' = [stream EXCEPT ![l].pc = pc]
      BY <1>7 DEF StreamEnds, CloseStream, StreamAt
    <3>2. QED
      BY <2>1, <3>1 DEF TypeOK
  <2>3. streams' \subseteq Listener
    BY <1>7 DEF StreamEnds, CloseStream, TypeOK
  <2>4. QED
    BY <1>7, <2>2, <2>3 DEF StreamEnds, CloseStream, TypeOK
<1>8. ASSUME NEW l \in Listener, NEW p \in Pair, OpenStream(l, p)
      PROVE  TypeOK'
  <2>1. p[1] \in Slug /\ gates[p[1]] \in Nat /\ pairs[p] \in Nat
    BY DEF Pair, TypeOK
  <2>2. [pc |-> "open", gate |-> gates[p[1]], pair |-> p, template |-> pairs[p]] \in Stream
    BY <2>1 DEF Stream
  <2>3. stream' \in [Listener -> Stream]
    BY <1>8, <2>2 DEF OpenStream, TypeOK
  <2>4. QED
    BY <1>8, <2>3 DEF OpenStream, TypeOK
<1>9. QED
  BY <1>1, <1>2, <1>3, <1>4, <1>5, <1>6, <1>7, <1>8 DEF Environment

-----------------------------------------------------------------------------
(* Calm steps: they admit nobody, open no gate and lose sight of no job.    *)

\* No launch enters startMu, and one that leaves it has nobody to wait for.
CallCalm(t) ==
  /\ call'[t].pc # "off" => call'[t].id \in JobId /\ (t[1] = "push" => call'[t].id \in PushId)
  /\ call'[t].pc = "remember" => t[1] = "push"
  /\ call'[t].pc \in Holding => call[t].pc \in Holding /\ call'[t].id = call[t].id
  /\ call'[t].pc \in {"cancel", "reap"} =>
       call[t].pc \in {"cancel", "reap"} /\ call'[t].old = call[t].old
  /\ call'[t].pc = "reap" => job'[call'[t].old].cancelled
  /\ call[t].pc \in {"cancel", "reap"} =>
       JobClosed(call[t].old) \/ (call'[t].pc \in {"cancel", "reap"} /\ call'[t].old = call[t].old)

CallsCalm == \A t \in Thread : CallCalm(t)

\* A lane stays within its teardown or its playout, or it is in neither.
LanesCalm ==
  \A s \in Slug :
    \/ /\ lane'[s].pc = lane[s].pc /\ lane'[s].jobs = lane[s].jobs
       /\ lane'[s].streams = lane[s].streams /\ lane'[s].gate = lane[s].gate
    \/ /\ lane'[s].pc \in {"off", "create", "hls", "live", "finish", "retire"}
       /\ lane[s].pc \notin {"drain", "lock", "reap"}

\* A job keeps its identity, stays closed and cancelled, and leaves the
\* registry closed.
JobsCalm ==
  /\ nextJob' = nextJob
  /\ \A g \in Gens :
       /\ job'[g].id = job[g].id
       /\ JobClosed(g) => JobClosed(g)'
       /\ job[g].cancelled => job'[g].cancelled
  /\ \A id \in JobId : jobs'[id] = jobs[id] \/ (jobs'[id] = 0 /\ JobClosed(jobs[id]))

ReplaysCalm ==
  \A r \in Creation :
    replay'[r].pc \in {"list", "next"} =>
      /\ replay[r].pc \in {"list", "next"}
      /\ replay'[r].gate = replay[r].gate /\ replay'[r].pair = replay[r].pair

StreamsCalm ==
  \A l \in Listener :
    stream'[l].pc = "open" => stream'[l] = stream[l] /\ (l \in streams => l \in streams')

GatesCalm == gates' = gates /\ finishing' = finishing /\ nextGate' = nextGate

\* A step that is calm in each part keeps the invariant: no job loses its owner, no
\* holder of startMu appears, and what a playout has noted stays noted.
LEMMA Calm ==
  ASSUME AInv, TypeOK', CallsCalm, LanesCalm, JobsCalm, ReplaysCalm, StreamsCalm, GatesCalm
  PROVE  Registry'
<1> USE DEF AInv, Registry, CallCalm
<1>1. MuHeld'
  BY DEF MuHeld, CallsCalm, LanesCalm
<1>2. CallsNamed'
  <2>1. \A t \in Thread : call'[t].pc \in Holding => jobs'[call'[t].id] = 0
    BY DEF CallsNamed, CallsCalm, JobsCalm, Holding
  <2>2. \A t \in Thread : call'[t].pc \in {"cancel", "reap"} => call'[t].old \in Gens'
    BY DEF CallsNamed, CallsCalm, JobsCalm
  <2>3. QED
    BY <2>1, <2>2 DEF CallsNamed, CallsCalm
<1>3. JobsNamed'
  BY DEF JobsNamed, JobsCalm
<1>4. ResetsNamed'
  BY DEF ResetsNamed, JobsCalm, LanesCalm
<1>5. JobsOwned'
  <2>1. ASSUME NEW g \in Gens, ~JobClosed(g)'
        PROVE  HasOwner(g)'
    <3>1. ~JobClosed(g) /\ HasOwner(g)
      BY <2>1 DEF JobsOwned, JobsCalm
    <3>2. CASE jobs[job[g].id] = g
      <4>1. job[g].id \in JobId
        BY DEF TypeOK, Job
      <4>2. QED
        BY <3>1, <3>2, <4>1 DEF HasOwner, JobsCalm
    <3>3. CASE \E t \in Thread : call[t].pc \in {"cancel", "reap"} /\ call[t].old = g
      BY <3>1, <3>3 DEF HasOwner, CallsCalm
    <3>4. CASE \E s \in Slug : lane[s].pc = "reap" /\ g \in lane[s].jobs
      BY <3>4 DEF HasOwner, LanesCalm
    <3>5. QED
      BY <3>1, <3>2, <3>3, <3>4 DEF HasOwner
  <2>2. \A g, h \in Gens : ~JobClosed(g)' /\ ~JobClosed(h)' /\ job'[g].id = job'[h].id => g = h
    BY DEF JobsOwned, JobsCalm
  <2>3. Gens' = Gens
    BY DEF JobsCalm
  <2>4. QED
    BY <2>1, <2>2, <2>3 DEF JobsOwned
<1>6. GateShut'
  <2> SUFFICES ASSUME NEW s \in Slug
               PROVE  GateShutAt(s)'
    BY DEF GateShut
  <2>1. lane'[s].pc \in {"drain", "lock", "reap", "forget"} => gates'[s] = 0
    BY DEF GateShut, GateShutAt, LanesCalm, GatesCalm
  <2>2. gates'[s] = 0 /\ lane'[s].pc \notin {"drain", "lock"} =>
          \A t \in Thread : call'[t].pc \in Holding => SlugOf(call'[t].id) # s
    BY DEF GateShut, GateShutAt, LanesCalm, GatesCalm, CallsCalm
  <2>3. gates'[s] = 0 /\ lane'[s].pc \notin {"drain", "lock", "reap"} =>
          \A g \in Gens' : SlugOf(job'[g].id) = s => JobClosed(g)'
    BY DEF GateShut, GateShutAt, LanesCalm, GatesCalm, JobsCalm
  <2>4. \A r \in Creation :
          replay'[r].pc \in {"list", "next"} /\ replay'[r].pair[1] = s =>
            /\ replay'[r].gate # 0
            /\ \/ replay'[r].gate = gates'[s]
               \/ lane'[s].pc = "drain" /\ replay'[r].gate = lane'[s].gate
    BY DEF GateShut, GateShutAt, LanesCalm, GatesCalm, ReplaysCalm
  <2>5. QED
    BY <2>1, <2>2, <2>3, <2>4 DEF GateShutAt, SlugOf, JobClosed
<1>7. GatesNamed'
  BY DEF GatesNamed, GatesCalm, StreamsCalm
<1>8. PlayoutNoted'
  <2> SUFFICES ASSUME NEW s \in Slug, lane'[s].pc \in {"playing", "played"}
               PROVE  PlayoutNotedAt(s)'
    BY DEF PlayoutNoted, PlayoutNotedAt
  <2>1. /\ lane'[s].pc = lane[s].pc /\ lane'[s].jobs = lane[s].jobs
        /\ lane'[s].streams = lane[s].streams
    BY DEF LanesCalm
  <2>2. gates'[s] # 0 => \A t \in Thread : call'[t].pc \in Holding => SlugOf(call'[t].id) # s
    BY <2>1 DEF PlayoutNoted, PlayoutNotedAt, CallsCalm, GatesCalm
  <2>3. gates'[s] # 0 =>
          \A g \in Gens' :
            SlugOf(job'[g].id) = s /\ ~SelfFed(job'[g].id) /\ ~JobClosed(g)' =>
              lane'[s].pc = "playing" /\ g \in lane'[s].jobs
    BY <2>1 DEF PlayoutNoted, PlayoutNotedAt, JobsCalm, GatesCalm
  <2>4. gates'[s] # 0 =>
          \A l \in Listener :
            stream'[l].pc = "open" /\ stream'[l].gate = gates'[s] =>
              lane'[s].pc = "playing" /\ l \in lane'[s].streams
    BY <2>1 DEF PlayoutNoted, PlayoutNotedAt, StreamsCalm, GatesCalm
  <2>5. QED
    BY <2>1, <2>2, <2>3, <2>4 DEF PlayoutNoted, PlayoutNotedAt, GatesCalm
<1>9. QED
  BY <1>1, <1>2, <1>3, <1>4, <1>5, <1>6, <1>7, <1>8

\* What a step leaves alone is calm.
LEMMA Untouched ==
  /\ UNCHANGED lane => LanesCalm
  /\ UNCHANGED <<job, nextJob, jobs>> => JobsCalm
  /\ UNCHANGED replay => ReplaysCalm
  /\ UNCHANGED <<stream, streams>> => StreamsCalm
  /\ UNCHANGED <<gates, finishing, nextGate>> => GatesCalm
BY DEF LanesCalm, JobsCalm, ReplaysCalm, StreamsCalm, GatesCalm, JobClosed

\* A launch that rests is calm,
LEMMA SameCall ==
  ASSUME AInv, JobsCalm, NEW t \in Thread, call'[t] = call[t]
  PROVE  CallCalm(t)
<1>1. /\ call[t].pc # "off" => call[t].id \in JobId /\ (t[1] = "push" => call[t].id \in PushId)
      /\ call[t].pc = "remember" => t[1] = "push"
  BY DEF AInv, Registry, CallsNamed
<1>2. call[t].pc = "reap" => job'[call[t].old].cancelled
  BY DEF AInv, Registry, CallsNamed, JobsCalm
<1>3. QED
  BY <1>1, <1>2 DEF CallCalm

\* and so are all when one is and the others rest.
LEMMA OneCall ==
  ASSUME AInv, JobsCalm, NEW t \in Thread, CallCalm(t),
         \A u \in Thread : u # t => call'[u] = call[u]
  PROVE  CallsCalm
BY SameCall DEF CallsCalm

\* A launch that is over, or a push that has only its answer to remember.
LEMMA Returned ==
  ASSUME AInv, NEW t \in Thread, call[t].pc \notin {"off", "cancel", "reap"},
         NEW answer \in {"none", "started", "notReady", "noAudio", "refused"}, Return(t, answer)
  PROVE  CallCalm(t) /\ call'[t].pc \notin Holding /\ \A u \in Thread : u # t => call'[u] = call[u]
<1>1. call[t] \in Call
  BY DEF AInv, TypeOK
<1>2. CASE t[1] # "push"
  BY <1>2 DEF AInv, TypeOK, Return, CallCalm, Idle, Holding
<1>3. CASE t[1] = "push"
  <2> DEFINE new == [call[t] EXCEPT !.pc = IF answer = "refused" THEN "end" ELSE "remember",
                                    !.answer = answer, !.old = 0]
  <2>1. call' = [call EXCEPT ![t] = new]
    BY <1>3 DEF Return
  <2>2. new.id = call[t].id /\ new.pc \in {"end", "remember"}
    BY <1>1 DEF Call
  <2> HIDE DEF new
  <2>3. call'[t] = new /\ \A u \in Thread : u # t => call'[u] = call[u]
    BY <2>1 DEF AInv, TypeOK
  <2>4. call[t].id \in JobId /\ (t[1] = "push" => call[t].id \in PushId)
    BY DEF AInv, Registry, CallsNamed
  <2>5. QED
    BY <1>3, <2>2, <2>3, <2>4 DEF CallCalm, Holding
<1>4. QED
  BY <1>2, <1>3

\* A launch that goes on.
LEMMA Advanced ==
  ASSUME AInv, NEW t \in Thread, NEW pc \in CallPc, CallAt(t, pc)
  PROVE  /\ call'[t].pc = pc /\ call'[t].id = call[t].id /\ call'[t].old = call[t].old
         /\ \A u \in Thread : u # t => call'[u] = call[u]
<1>1. call[t] \in Call
  BY DEF AInv, TypeOK
<1>2. QED
  BY <1>1 DEF AInv, TypeOK, CallAt, Call

\* The launches' own steps are calm but for two: taking startMu for a target that
\* may start, and admitting the process.
LEMMA CallsOwnSteps ==
  ASSUME AInv, TypeOK', NEW t \in Thread,
         \/ Dispatch(t) \/ CancelOld(t) \/ OldReaped(t) \/ Start(t) \/ AdmitRefused(t) \/ rememberPush(t)
         \/ beginStart(t) /\ UNCHANGED jobs /\ \E a \in {"noAudio", "refused", "notReady"} : Return(t, a)
  PROVE  Registry'
<1> USE DEF liveVars, gateVars, jobVars
<1>1. call[t].id \in JobId /\ (t[1] = "push" => call[t].id \in PushId)
  BY DEF AInv, Registry, CallsNamed, Dispatch, CancelOld, OldReaped, Start, AdmitRefused, rememberPush, beginStart
<1>2. UNCHANGED <<lane, replay, stream, streams, gates, finishing, nextGate, nextJob, jobs>>
  BY DEF Dispatch, CancelOld, OldReaped, Start, AdmitRefused, rememberPush, beginStart
<1>3. LanesCalm /\ ReplaysCalm /\ StreamsCalm /\ GatesCalm
  BY <1>2, Untouched
<1>4. {"begin", "start", "reap", "cancel", "admit", "end"} \subseteq CallPc
  BY DEF CallPc
<1>5. JobsCalm /\ CallCalm(t) /\ \A u \in Thread : u # t => call'[u] = call[u]
  <2>1. CASE Dispatch(t)
    <3>1. JobsCalm
      BY <2>1, Untouched DEF Dispatch
    <3>2. CASE CallAt(t, "begin")
      BY <1>1, <1>4, <2>1, <3>1, <3>2, Advanced DEF Dispatch, CallCalm, Holding
    <3>3. CASE Return(t, "notReady") \/ Return(t, "refused")
      BY <2>1, <3>1, <3>3, Returned DEF Dispatch
    <3>4. QED
      BY <2>1, <3>2, <3>3 DEF Dispatch
  <2>2. CASE CancelOld(t)
    <3>1. call[t].pc = "cancel" /\ call[t].old \in Gens
      BY <2>2 DEF CancelOld, AInv, Registry, CallsNamed
    <3>2. PICK o \in Gens : o = call[t].old
      BY <3>1
    <3>3. \A g \in Gens : job[g] \in Job
      BY DEF AInv, TypeOK
    <3>4. /\ job'[o].cancelled /\ job'[o].id = job[o].id /\ job'[o].pc = job[o].pc
          /\ \A g \in Gens : g # o => job'[g] = job[g]
      BY <2>2, <3>2, <3>3 DEF CancelOld, AInv, TypeOK, Job
    <3>5. JobsCalm
      BY <1>2, <3>2, <3>4 DEF JobsCalm, JobClosed
    <3>6. CallAt(t, "reap")
      BY <2>2 DEF CancelOld
    <3>7. QED
      BY <1>1, <1>4, <3>1, <3>2, <3>4, <3>5, <3>6, Advanced DEF CallCalm, Holding
  <2>3. CASE OldReaped(t)
    <3>1. JobsCalm /\ CallAt(t, "start") /\ call[t].pc = "reap" /\ JobClosed(call[t].old)
      BY <2>3, Untouched DEF OldReaped
    <3>2. QED
      BY <1>1, <1>4, <3>1, Advanced DEF CallCalm, Holding
  <2>4. CASE Start(t)
    <3>1. JobsCalm /\ call[t].pc = "start"
      BY <2>4, Untouched DEF Start
    <3>2. CASE CallAt(t, "admit")
      BY <1>1, <1>4, <3>1, <3>2, Advanced DEF CallCalm, Holding
    <3>3. CASE Return(t, "refused")
      BY <3>1, <3>3, Returned
    <3>4. QED
      BY <2>4, <3>2, <3>3 DEF Start
  <2>5. CASE AdmitRefused(t)
    <3>1. JobsCalm /\ call[t].pc = "admit" /\ Return(t, "notReady")
      BY <2>5, Untouched DEF AdmitRefused
    <3>2. QED
      BY <3>1, Returned
  <2>6. CASE rememberPush(t)
    <3>1. JobsCalm /\ call[t].pc = "remember" /\ CallAt(t, "end")
      BY <2>6, Untouched DEF rememberPush, CallAt
    <3>2. QED
      BY <1>1, <1>4, <3>1, Advanced DEF CallCalm, Holding
  <2>7. CASE beginStart(t) /\ UNCHANGED jobs /\ \E a \in {"noAudio", "refused", "notReady"} : Return(t, a)
    <3>1. JobsCalm /\ call[t].pc = "begin"
      BY <1>2, <2>7, Untouched DEF beginStart
    <3>2. QED
      BY <2>7, <3>1, Returned
  <2>8. QED
    BY <2>1, <2>2, <2>3, <2>4, <2>5, <2>6, <2>7
<1>6. CallsCalm
  BY <1>5, OneCall
<1>7. QED
  BY <1>3, <1>5, <1>6, Calm

\* A step of no launch is calm for all.
LEMMA CallsStill ==
  ASSUME AInv, JobsCalm, UNCHANGED call
  PROVE  CallsCalm
BY SameCall DEF CallsCalm

\* A launch that is dispatched.
LEMMA Dispatched ==
  ASSUME AInv, NEW t \in Thread, call[t].pc \in {"off", "end"}, NEW id \in JobId,
         t[1] = "push" => id \in PushId,
         \/ call' = [call EXCEPT ![t].pc = "dispatch", ![t].id = id]
         \/ call' = [call EXCEPT ![t].pc = "dispatch", ![t].id = id, ![t].seen = teardowns]
  PROVE  CallCalm(t) /\ \A u \in Thread : u # t => call'[u] = call[u]
<1>1. call[t] \in Call
  BY DEF AInv, TypeOK
<1>2. call'[t].pc = "dispatch" /\ call'[t].id = id /\ \A u \in Thread : u # t => call'[u] = call[u]
  BY <1>1 DEF AInv, TypeOK, Call
<1>3. QED
  BY <1>2 DEF CallCalm, Holding

\* The replays' steps are calm.
LEMMA ReplaysOwnSteps ==
  ASSUME AInv, TypeOK', NEW r \in Creation, ReplayWorks(r)
  PROVE  Registry'
<1> USE DEF liveVars, gateVars, jobVars
<1>1. UNCHANGED <<lane, job, nextJob, jobs, stream, streams, gates, finishing, nextGate>>
  BY DEF ReplayWorks, pushRoutes, Relaunch, ReplayDone
<1>2. LanesCalm /\ JobsCalm /\ StreamsCalm /\ GatesCalm
  BY <1>1, Untouched
<1>3. ReplaysCalm
  <2>1. replay[r] \in Replay
    BY DEF AInv, TypeOK
  <2>2. /\ replay'[r].gate = replay[r].gate /\ replay'[r].pair = replay[r].pair
        /\ replay'[r].pc \in {"list", "next"} => replay[r].pc \in {"list", "next"}
        /\ \A q \in Creation : q # r => replay'[q] = replay[q]
    <3>1. CASE pushRoutes(r)
      BY <2>1, <3>1 DEF pushRoutes, AInv, TypeOK, Replay
    <3>2. CASE \E id \in PushId : Relaunch(r, id)
      BY <2>1, <3>2 DEF Relaunch, AInv, TypeOK, Replay
    <3>3. CASE ReplayDone(r)
      BY <2>1, <3>3 DEF ReplayDone, AInv, TypeOK, Replay
    <3>4. QED
      BY <3>1, <3>2, <3>3 DEF ReplayWorks
  <2>3. QED
    BY <2>2 DEF ReplaysCalm
<1>4. CallsCalm
  <2>1. CASE pushRoutes(r) \/ ReplayDone(r)
    BY <1>2, <2>1, CallsStill DEF pushRoutes, ReplayDone
  <2>2. ASSUME NEW id \in PushId, Relaunch(r, id)
        PROVE  CallsCalm
    <3>1. PICK t \in Thread : t = <<"replay", r>>
      BY DEF Thread
    <3>2. call[t].pc = "off" /\ call' = [call EXCEPT ![t].pc = "dispatch", ![t].id = id] /\ id \in JobId
      BY <2>2, <3>1, PushIds DEF Relaunch
    <3>3. CallCalm(t) /\ \A u \in Thread : u # t => call'[u] = call[u]
      BY <3>2, Dispatched
    <3>4. QED
      BY <1>2, <3>3, OneCall
  <2>3. QED
    BY <2>1, <2>2 DEF ReplayWorks
<1>5. QED
  BY <1>2, <1>3, <1>4, Calm

\* A job that moves on is not one that was done.
LEMMA JobMoves ==
  ASSUME AInv, NEW g \in Gens, NEW from \in JobPc, NEW pc \in JobPc, JobOnly(g, from, pc),
         from \in {"done", "gone"} => pc \in {"done", "gone"}
  PROVE  JobsCalm
<1>1. \A h \in Gens : job[h] \in Job
  BY DEF AInv, TypeOK
<1>2. /\ job'[g].id = job[g].id /\ job'[g].cancelled = job[g].cancelled /\ job'[g].pc = pc
      /\ \A h \in Gens : h # g => job'[h] = job[h]
  BY <1>1 DEF JobOnly, JobAt, AInv, TypeOK, Job
<1>3. QED
  BY <1>2 DEF JobOnly, JobsCalm, JobClosed, liveVars

\* The jobs' steps are calm: one that deregisters itself is closed.
LEMMA JobsOwnSteps ==
  ASSUME AInv, TypeOK', NEW g \in Gens, JobWorks(g) \/ FeedFails(g)
  PROVE  Registry'
<1> USE DEF liveVars, gateVars, jobVars
<1>1. \A h \in Gens : job[h] \in Job
  BY DEF AInv, TypeOK
<1>2. JobsCalm /\ UNCHANGED <<lane, call, replay, stream, streams, gates, finishing, nextGate>>
  <2>1. CASE \E from \in JobPc, pc \in JobPc : from \notin {"done", "gone"} /\ JobOnly(g, from, pc)
    <3>1. JobsCalm
      BY <2>1, JobMoves
    <3>2. QED
      BY <2>1, <3>1 DEF JobOnly
  <2>2. CASE Reattach(g)
    <3>1. /\ job'[g].id = job[g].id /\ job'[g].cancelled = job[g].cancelled
          /\ job'[g].pc \in {"reopen", "restart"} /\ job[g].pc = "eof"
          /\ \A h \in Gens : h # g => job'[h] = job[h]
      BY <1>1, <2>2 DEF Reattach, AInv, TypeOK, Job
    <3>2. QED
      BY <2>2, <3>1 DEF Reattach, JobsCalm, JobClosed
  <2>3. CASE retireJob(g)
    <3>1. /\ job'[g].id = job[g].id /\ job'[g].cancelled
          /\ job'[g].pc = "gone" /\ job[g].pc = "done"
          /\ \A h \in Gens : h # g => job'[h] = job[h]
      BY <1>1, <2>3 DEF retireJob, AInv, TypeOK, Job
    <3>2. \A id \in JobId : jobs'[id] = jobs[id] \/ (jobs'[id] = 0 /\ jobs[id] = g)
      BY <2>3 DEF retireJob, AInv, TypeOK
    <3>3. QED
      BY <2>3, <3>1, <3>2 DEF retireJob, JobsCalm, JobClosed
  <2>4. QED
    BY <2>1, <2>2, <2>3
    DEF JobWorks, FeedFails, FeedEnds, ReattachGone, ReopenEnds, ReopenTries, Restart, CloseDone, JobPc
<1>3. QED
  BY <1>2, Untouched, CallsStill, Calm

\* What the world does is calm, but for a reader that joins.
LEMMA EnvironmentsSteps ==
  ASSUME AInv, TypeOK', Environment,
         ~ \E l \in Listener, p \in Pair : OpenStream(l, p)
  PROVE  Registry'
<1> USE DEF liveVars, gateVars, jobVars
<1>1. ASSUME NEW s \in Slug, LaneStarts(s) \/ LaneEnds(s) \/ PlayoutCut(s) \/ LoopDrops(s)
      PROVE  Registry'
  <2>1. UNCHANGED <<call, job, nextJob, jobs, replay, stream, streams, gates, finishing, nextGate>>
    BY <1>1 DEF LaneStarts, LaneEnds, PlayoutCut, LoopDrops
  <2>2. lane[s] \in Lane
    BY DEF AInv, TypeOK
  <2>3. /\ lane[s].pc \in {"off", "live", "playing"}
        /\ lane'[s].pc \in {"create", "finish", "retire"}
        /\ \A q \in Slug : q # s => lane'[q] = lane[q]
    <3>1. CASE LaneStarts(s)
      <4> DEFINE new == [LaneOff EXCEPT !.pc = "create", !.todo = Lang]
      <4>1. lane' = [lane EXCEPT ![s] = new] /\ new.pc = "create" /\ lane[s].pc \in {"off", "live"}
        BY <3>1 DEF LaneStarts, LaneOff
      <4> HIDE DEF new
      <4>2. QED
        BY <4>1 DEF AInv, TypeOK
    <3>2. CASE LaneEnds(s)
      BY <2>2, <3>2 DEF LaneEnds, LaneAt, AInv, TypeOK, Lane
    <3>3. CASE PlayoutCut(s)
      BY <2>2, <3>3 DEF PlayoutCut, AInv, TypeOK, Lane
    <3>4. CASE LoopDrops(s)
      <4>1. CASE lane' = [lane EXCEPT ![s].pc = "retire"]
        BY <2>2, <3>4, <4>1 DEF LoopDrops, AInv, TypeOK, Lane
      <4>2. CASE lane' = [lane EXCEPT ![s].pc = "retire", ![s].drop = TRUE]
        BY <2>2, <3>4, <4>2 DEF LoopDrops, AInv, TypeOK, Lane
      <4>3. QED
        BY <3>4, <4>1, <4>2 DEF LoopDrops
    <3>5. QED
      BY <1>1, <3>1, <3>2, <3>3, <3>4
  <2>4. LanesCalm
    BY <2>3 DEF LanesCalm
  <2>5. QED
    BY <2>1, <2>4, Untouched, CallsStill, Calm
<1>2. ASSUME NEW c \in Caller, NEW id \in PushId, Push(c, id)
      PROVE  Registry'
  <2>1. PICK t \in Thread : t = <<"push", c>>
    BY DEF Thread
  <2>2. call[t].pc = "off" /\ id \in JobId
        /\ call' = [call EXCEPT ![t].pc = "dispatch", ![t].id = id, ![t].seen = teardowns]
    <3>1. call[t] = Idle /\ Idle.pc = "off"
      BY <1>2, <2>1 DEF Push, Idle
    <3>2. call' = [call EXCEPT ![t].pc = "dispatch", ![t].id = id, ![t].seen = teardowns]
      BY <1>2, <2>1 DEF Push
    <3>3. QED
      BY <3>1, <3>2, PushIds
  <2>3. CallCalm(t) /\ \A u \in Thread : u # t => call'[u] = call[u]
    BY <2>2, Dispatched
  <2>4. UNCHANGED <<lane, job, nextJob, jobs, replay, stream, streams, gates, finishing, nextGate>>
    BY <1>2 DEF Push
  <2>5. QED
    BY <2>3, <2>4, Untouched, OneCall, Calm
<1>3. ASSUME NEW id \in dying, ProcessDies(id)
      PROVE  Registry'
  <2>1. UNCHANGED <<lane, call, job, nextJob, jobs, replay, stream, streams, gates, finishing, nextGate>>
    BY <1>3 DEF ProcessDies
  <2>2. QED
    BY <2>1, Untouched, CallsStill, Calm
<1>4. ASSUME NEW l \in Listener, StreamEnds(l) \/ CloseStream(l)
      PROVE  Registry'
  <2>1. UNCHANGED <<lane, call, job, nextJob, jobs, replay, gates, finishing, nextGate>>
    BY <1>4 DEF StreamEnds, CloseStream
  <2>2. stream[l] \in Stream
    BY DEF AInv, TypeOK
  <2>3. /\ stream'[l].pc # "open" /\ \A k \in Listener : k # l => stream'[k] = stream[k]
        /\ \A k \in Listener : k # l /\ k \in streams => k \in streams'
    <3>1. PICK pc \in {"done", "gone"} : stream' = [stream EXCEPT ![l].pc = pc]
      BY <1>4 DEF StreamEnds, CloseStream, StreamAt
    <3>2. streams' = streams \/ streams' = streams \ {l}
      BY <1>4 DEF StreamEnds, CloseStream
    <3>3. QED
      BY <2>2, <3>1, <3>2 DEF AInv, TypeOK, Stream
  <2>4. StreamsCalm
    BY <2>3 DEF StreamsCalm
  <2>5. QED
    BY <2>1, <2>4, Untouched, CallsStill, Calm
<1>5. QED
  BY <1>1, <1>2, <1>3, <1>4, JobsOwnSteps DEF Environment

\* A lane's steps outside its playout and its teardown are calm.
LEMMA LanesCalmSteps ==
  ASSUME AInv, TypeOK', NEW s \in Slug,
         \/ \E l \in Lang : StartHLS(s, l)
         \/ Created(s) \/ LaneRuns(s) \/ forgetRoutes(s)
  PROVE  Registry'
<1> USE DEF liveVars, gateVars, jobVars
<1>1. lane[s] \in Lane
  BY DEF AInv, TypeOK
<1>2. UNCHANGED <<job, nextJob, jobs, replay, stream, streams, gates, finishing, nextGate>>
  BY DEF StartHLS, Created, LaneRuns, forgetRoutes
<1>3. JobsCalm
  BY <1>2, Untouched
<1>4. LanesCalm /\ CallsCalm
  <2>1. ASSUME NEW l \in Lang, StartHLS(s, l)
        PROVE  LanesCalm /\ CallsCalm
    <3>1. PICK t \in Thread : t = <<"hls", s>>
      BY DEF Thread
    <3>2. PICK id \in JobId : id = <<<<s, l>>, "hls">>
      BY DEF JobId, Pair
    <3>3. call[t].pc = "off" /\ call' = [call EXCEPT ![t].pc = "dispatch", ![t].id = id]
      BY <2>1, <3>1, <3>2 DEF StartHLS
    <3>4. CallCalm(t) /\ \A u \in Thread : u # t => call'[u] = call[u]
      BY <3>1, <3>3, Dispatched
    <3>5. /\ lane'[s].pc = lane[s].pc /\ lane'[s].jobs = lane[s].jobs
          /\ lane'[s].streams = lane[s].streams /\ lane'[s].gate = lane[s].gate
          /\ \A q \in Slug : q # s => lane'[q] = lane[q]
      BY <1>1, <2>1 DEF StartHLS, AInv, TypeOK, Lane
    <3>6. QED
      BY <1>3, <3>4, <3>5, OneCall DEF LanesCalm
  <2>2. CASE Created(s) \/ LaneRuns(s)
    <3>1. /\ lane'[s].pc \in {"hls", "live"} /\ lane[s].pc \in {"create", "hls"}
          /\ \A q \in Slug : q # s => lane'[q] = lane[q]
      BY <1>1, <2>2 DEF Created, LaneRuns, LaneAt, AInv, TypeOK, Lane
    <3>2. UNCHANGED call
      BY <2>2 DEF Created, LaneRuns
    <3>3. QED
      BY <1>3, <3>1, <3>2, CallsStill DEF LanesCalm
  <2>3. CASE forgetRoutes(s)
    <3>1. lane' = [lane EXCEPT ![s] = LaneOff] /\ LaneOff.pc = "off" /\ lane[s].pc = "forget"
      BY <2>3 DEF forgetRoutes, LaneOff
    <3>2. LanesCalm
      BY <3>1 DEF LanesCalm, AInv, TypeOK
    <3>3. ASSUME NEW t \in Thread
          PROVE  CallCalm(t)
      <4>1. call[t] \in Call
        BY DEF AInv, TypeOK
      <4>2. CASE call'[t] = [call[t] EXCEPT !.stale = TRUE]
        <5>1. call'[t].pc = call[t].pc /\ call'[t].id = call[t].id /\ call'[t].old = call[t].old
          BY <4>1, <4>2 DEF Call
        <5>2. /\ call[t].pc # "off" => call[t].id \in JobId /\ (t[1] = "push" => call[t].id \in PushId)
              /\ call[t].pc = "remember" => t[1] = "push"
              /\ call[t].pc = "reap" => job[call[t].old].cancelled
          BY DEF AInv, Registry, CallsNamed
        <5>3. QED
          BY <1>2, <5>1, <5>2 DEF CallCalm
      <4>3. CASE call'[t] = call[t]
        BY <1>3, <4>3, SameCall
      <4>4. QED
        BY <2>3, <4>2, <4>3 DEF forgetRoutes
    <3>4. QED
      BY <3>2, <3>3 DEF CallsCalm
  <2>4. QED
    BY <2>1, <2>2, <2>3
<1>5. QED
  BY <1>2, <1>3, <1>4, Untouched, Calm

-----------------------------------------------------------------------------
(* The steps that are not calm.                                             *)

\* A new gate is nobody's, and a session whose lane creates has no replay left.
LEMMA CreateStep ==
  ASSUME AInv, TypeOK', NEW s \in Slug, NEW l \in Lang, Create(s, l)
  PROVE  Registry'
<1> USE DEF liveVars, gateVars, jobVars
<1> DEFINE g0 == IF gates[s] = 0 THEN nextGate + 1 ELSE gates[s]
<1>1. /\ UNCHANGED <<job, nextJob, jobs, call, stream, streams, finishing>>
      /\ lane[s].pc = "create"
  BY DEF Create
<1>2. /\ lane'[s].pc = "create" /\ lane'[s].jobs = lane[s].jobs /\ lane'[s].gate = lane[s].gate
      /\ lane'[s].streams = lane[s].streams
      /\ \A q \in Slug : q # s => lane'[q] = lane[q]
  BY <1>1 DEF Create, AInv, TypeOK, Lane
<1>3. /\ gates'[s] = g0 /\ g0 \in Nat \ {0} /\ nextGate \in Nat
      /\ \A q \in Slug : q # s => gates'[q] = gates[q]
      /\ \A q \in Slug : gates[q] \in Nat /\ gates[q] <= nextGate
      /\ nextGate' = IF gates[s] = 0 THEN g0 ELSE nextGate
  BY DEF Create, AInv, TypeOK, Registry, GatesNamed
<1>4. \A r \in Creation :
        \/ replay'[r] = replay[r]
        \/ replay'[r].gate = g0 /\ replay'[r].pair = <<s, l>>
  BY DEF Create, AInv, TypeOK
<1>5. g0 = gates[s] \/ (gates[s] = 0 /\ g0 = nextGate + 1)
  OBVIOUS
<1> HIDE DEF g0
<1> USE DEF AInv, Registry
<1>6. MuHeld' /\ CallsNamed' /\ JobsNamed' /\ ResetsNamed'
  BY <1>1, <1>2 DEF MuHeld, CallsNamed, JobsNamed, ResetsNamed, JobClosed
<1>7. JobsOwned'
  BY <1>1, <1>2 DEF JobsOwned, HasOwner, JobClosed
<1>8. GateShut'
  <2> SUFFICES ASSUME NEW q \in Slug
               PROVE  GateShutAt(q)'
    BY DEF GateShut
  <2>1. /\ lane'[q].pc = lane[q].pc /\ lane'[q].gate = lane[q].gate
        /\ gates'[q] = 0 => gates[q] = 0 /\ q # s
    BY <1>1, <1>2, <1>3
  <2>2. lane'[q].pc \in {"drain", "lock", "reap", "forget"} => gates'[q] = 0
    BY <1>1, <1>2, <1>3 DEF GateShut, GateShutAt, GateShutAt
  <2>3. gates'[q] = 0 /\ lane'[q].pc \notin {"drain", "lock"} =>
          \A t \in Thread : call'[t].pc \in Holding => SlugOf(call'[t].id) # q
    BY <1>1, <2>1 DEF GateShut, GateShutAt, GateShutAt
  <2>4. gates'[q] = 0 /\ lane'[q].pc \notin {"drain", "lock", "reap"} =>
          \A g \in Gens' : SlugOf(job'[g].id) = q => JobClosed(g)'
    BY <1>1, <2>1 DEF GateShut, GateShutAt, JobClosed
  <2>5. ASSUME NEW r \in Creation, replay'[r].pc \in {"list", "next"}, replay'[r].pair[1] = q
        PROVE  /\ replay'[r].gate # 0
               /\ \/ replay'[r].gate = gates'[q]
                  \/ lane'[q].pc = "drain" /\ replay'[r].gate = lane'[q].gate
    <3>1. CASE replay'[r].gate = g0 /\ replay'[r].pair = <<s, l>>
      BY <1>3, <2>5, <3>1
    <3>2. CASE replay'[r] = replay[r]
      <4>1. /\ replay[r].gate # 0
            /\ \/ replay[r].gate = gates[q]
               \/ lane[q].pc = "drain" /\ replay[r].gate = lane[q].gate
        BY <2>5, <3>2 DEF GateShut, GateShutAt, GateShutAt
      <4>2. q = s => gates'[q] = gates[q]
        BY <1>1, <1>3, <1>5, <4>1
      <4>3. QED
        BY <1>3, <2>1, <3>2, <4>1, <4>2
    <3>3. QED
      BY <1>4, <3>1, <3>2
  <2>6. QED
    BY <2>2, <2>3, <2>4, <2>5 DEF GateShutAt, SlugOf, JobClosed
<1>9. GatesNamed'
  <2>1. \A q \in Slug : gates'[q] <= nextGate'
    BY <1>3, <1>5
  <2>2. \A q, r \in Slug : gates'[q] = gates'[r] /\ gates'[q] # 0 => q = r
    BY <1>3, <1>5 DEF GatesNamed
  <2>3. ASSUME NEW k \in Listener, stream'[k].pc = "open"
        PROVE  /\ stream'[k].gate # 0 /\ stream'[k].gate <= nextGate'
               /\ \A q \in Slug : stream'[k].gate = gates'[q] => stream'[k].pair[1] = q /\ k \in streams'
    <3>1. stream'[k] = stream[k] /\ stream[k].gate \in Nat
      BY <1>1 DEF TypeOK, Stream
    <3>2. /\ stream[k].gate # 0 /\ stream[k].gate <= nextGate
          /\ \A q \in Slug : stream[k].gate = gates[q] => stream[k].pair[1] = q /\ k \in streams
      BY <2>3, <3>1 DEF GatesNamed
    <3>3. stream[k].gate <= nextGate'
      BY <1>3, <1>5, <3>1, <3>2
    <3>4. gates[s] = 0 => stream[k].gate # gates'[s]
      BY <1>3, <1>5, <3>1, <3>2
    <3>5. QED
      BY <1>1, <1>3, <1>5, <3>1, <3>2, <3>3, <3>4
  <2>4. QED
    BY <2>1, <2>2, <2>3 DEF GatesNamed
<1>10. PlayoutNoted'
  <2>1. \A q \in Slug : lane'[q].pc \in {"playing", "played"} =>
          lane'[q] = lane[q] /\ gates'[q] = gates[q]
    BY <1>2, <1>3
  <2>2. QED
    BY <1>1, <2>1 DEF PlayoutNoted, PlayoutNotedAt, JobClosed
<1>11. QED
  BY <1>6, <1>7, <1>8, <1>9, <1>10

\* Under startMu nobody is inside, so a job that is not closed is registered.
LEMMA FreeMeansRegistered ==
  ASSUME AInv, StartMuFree, NEW g \in Gens, ~JobClosed(g)
  PROVE  jobs[job[g].id] = g
BY DEF AInv, Registry, JobsOwned, HasOwner, StartMuFree, Holding

\* The snapshot notes every job and every reader: none is inside startMu, a job that
\* is not closed is registered, and a reader of a live gate is in streams.
LEMMA FinishStep ==
  ASSUME AInv, TypeOK', NEW s \in Slug, FinishSnapshot(s)
  PROVE  Registry'
<1> USE DEF liveVars, gateVars, jobVars, AInv, Registry
<1>1. /\ UNCHANGED <<gates, nextGate, jobs, job, nextJob, call, replay, stream, streams>>
      /\ lane[s].pc = "finish" /\ StartMuFree
  BY DEF FinishSnapshot
<1>2. /\ lane'[s].pc \in {"playing", "played"} /\ lane'[s].gate = lane[s].gate
      /\ \A q \in Slug : q # s => lane'[q] = lane[q]
  <2>1. CASE gates[s] = 0
    BY <2>1 DEF FinishSnapshot, LaneAt, TypeOK, Lane
  <2>2. CASE gates[s] # 0
    <3> DEFINE mixed == {g \in Gens : jobs[job[g].id] = g /\ SlugOf(job[g].id) = s /\ ~SelfFed(job[g].id)}
               heard == {l \in streams : stream[l].pair[1] = s}
    <3>1. lane' = [lane EXCEPT ![s].pc = "playing", ![s].jobs = mixed, ![s].streams = heard]
      BY <2>2 DEF FinishSnapshot
    <3> HIDE DEF mixed, heard
    <3>2. QED
      BY <3>1 DEF TypeOK, Lane
  <2>3. QED
    BY <2>1, <2>2
<1>3. finishing \subseteq finishing'
  <2>1. finishing' = finishing \/ finishing' = finishing \cup {gates[s]}
    BY DEF FinishSnapshot
  <2>2. QED
    BY <2>1
<1>4. MuHeld' /\ CallsNamed' /\ JobsNamed' /\ ResetsNamed'
  BY <1>1, <1>2 DEF MuHeld, CallsNamed, JobsNamed, ResetsNamed, JobClosed
<1>5. JobsOwned'
  BY <1>1, <1>2 DEF JobsOwned, HasOwner, JobClosed
<1>6. GateShut'
  <2> SUFFICES ASSUME NEW q \in Slug
               PROVE  GateShutAt(q)'
    BY DEF GateShut
  <2>1. GateShutAt(q)
    BY DEF GateShut
  <2>2. QED
    BY <1>1, <1>2, <2>1 DEF GateShutAt, JobClosed
<1>7. GatesNamed'
  BY <1>1 DEF GatesNamed
<1>8. PlayoutNoted'
  <2> SUFFICES ASSUME NEW q \in Slug
               PROVE  PlayoutNotedAt(q)'
    BY DEF PlayoutNoted
  <2>1. CASE q # s
    BY <1>1, <1>2, <1>3, <2>1 DEF PlayoutNoted, PlayoutNotedAt, JobClosed
  <2>2. CASE q = s /\ gates[s] = 0
    <3>1. lane'[s].pc = "played"
      BY <2>2 DEF FinishSnapshot, LaneAt, TypeOK, Lane
    <3>2. QED
      BY <1>1, <2>2, <3>1 DEF PlayoutNotedAt
  <2>3. CASE q = s /\ gates[s] # 0
    <3> DEFINE mixed == {g \in Gens : jobs[job[g].id] = g /\ SlugOf(job[g].id) = s /\ ~SelfFed(job[g].id)}
               heard == {l \in streams : stream[l].pair[1] = s}
    <3>1. /\ lane' = [lane EXCEPT ![s].pc = "playing", ![s].jobs = mixed, ![s].streams = heard]
          /\ gates[s] \in finishing'
      BY <2>3 DEF FinishSnapshot
    <3>2. \A g \in Gens : SlugOf(job[g].id) = s /\ ~SelfFed(job[g].id) /\ ~JobClosed(g) => g \in mixed
      BY <1>1, FreeMeansRegistered
    <3>3. \A l \in Listener : stream[l].pc = "open" /\ stream[l].gate = gates[s] => l \in heard
      BY DEF GatesNamed
    <3> HIDE DEF mixed, heard
    <3>4. lane'[s].pc = "playing" /\ lane'[s].jobs = mixed /\ lane'[s].streams = heard
      BY <3>1 DEF TypeOK, Lane
    <3>5. \A t \in Thread : call[t].pc \notin Holding
      BY <1>1 DEF StartMuFree
    <3>6. QED
      BY <1>1, <2>3, <3>1, <3>2, <3>3, <3>4, <3>5 DEF PlayoutNotedAt, JobClosed
  <2>4. QED
    BY <2>1, <2>2, <2>3
<1>9. QED
  BY <1>4, <1>5, <1>6, <1>7, <1>8

\* What was noted has ended, and nobody joined meanwhile.
LEMMA PlayedStep ==
  ASSUME AInv, TypeOK', NEW s \in Slug, Played(s)
  PROVE  Registry'
<1> USE DEF liveVars, gateVars, jobVars, AInv, Registry
<1>1. /\ UNCHANGED <<gates, finishing, nextGate, jobs, job, nextJob, call, replay, stream, streams>>
      /\ lane[s].pc = "playing"
      /\ \A g \in lane[s].jobs : JobClosed(g)
      /\ \A l \in lane[s].streams : stream[l].pc \in {"done", "gone"}
  BY DEF Played
<1>2. /\ lane'[s].pc = "played" /\ lane'[s].gate = lane[s].gate
      /\ \A q \in Slug : q # s => lane'[q] = lane[q]
  BY DEF Played, LaneAt, TypeOK, Lane
<1>3. MuHeld' /\ CallsNamed' /\ JobsNamed' /\ ResetsNamed'
  BY <1>1, <1>2 DEF MuHeld, CallsNamed, JobsNamed, ResetsNamed, JobClosed
<1>4. JobsOwned'
  BY <1>1, <1>2 DEF JobsOwned, HasOwner, JobClosed
<1>5. GateShut'
  <2> SUFFICES ASSUME NEW q \in Slug
               PROVE  GateShutAt(q)'
    BY DEF GateShut
  <2>1. GateShutAt(q)
    BY DEF GateShut
  <2>2. QED
    BY <1>1, <1>2, <2>1 DEF GateShutAt, JobClosed
<1>6. GatesNamed'
  BY <1>1 DEF GatesNamed
<1>7. PlayoutNoted'
  <2> SUFFICES ASSUME NEW q \in Slug
               PROVE  PlayoutNotedAt(q)'
    BY DEF PlayoutNoted
  <2>1. CASE q # s
    BY <1>1, <1>2, <2>1 DEF PlayoutNoted, PlayoutNotedAt, JobClosed
  <2>2. CASE q = s
    <3>1. PlayoutNotedAt(s) /\ \A l \in Listener : stream[l] \in Stream
      BY DEF PlayoutNoted, TypeOK
    <3>2. QED
      BY <1>1, <1>2, <2>2, <3>1 DEF PlayoutNotedAt, JobClosed
  <2>3. QED
    BY <2>1, <2>2
<1>8. QED
  BY <1>3, <1>4, <1>5, <1>6, <1>7

\* A teardown takes the gate first: its replays drain under the old number.
LEMMA RetireStep ==
  ASSUME AInv, TypeOK', NEW s \in Slug, RetireGate(s)
  PROVE  Registry'
<1> USE DEF liveVars, gateVars, jobVars, AInv, Registry
<1>1. /\ UNCHANGED <<finishing, nextGate, jobs, job, nextJob, call, replay, stream, streams>>
      /\ lane[s].pc \in {"retire", "played"} /\ gates[s] \in Nat
  BY DEF RetireGate, TypeOK
<1>2. /\ lane'[s].pc = IF gates[s] = 0 THEN "lock" ELSE "drain"
      /\ lane'[s].gate = gates[s]
      /\ \A q \in Slug : q # s => lane'[q] = lane[q]
  BY DEF RetireGate, TypeOK, Lane
<1>3. gates'[s] = 0 /\ \A q \in Slug : q # s => gates'[q] = gates[q]
  BY DEF RetireGate, TypeOK
<1>4. MuHeld' /\ CallsNamed' /\ JobsNamed' /\ ResetsNamed'
  BY <1>1, <1>2 DEF MuHeld, CallsNamed, JobsNamed, ResetsNamed, JobClosed
<1>5. JobsOwned'
  BY <1>1, <1>2 DEF JobsOwned, HasOwner, JobClosed
<1>6. GateShut'
  <2> SUFFICES ASSUME NEW q \in Slug
               PROVE  GateShutAt(q)'
    BY DEF GateShut
  <2>1. GateShutAt(q)
    BY DEF GateShut
  <2>2. CASE q # s
    BY <1>1, <1>2, <1>3, <2>1, <2>2 DEF GateShutAt, JobClosed
  <2>3. CASE q = s
    BY <1>1, <1>2, <1>3, <2>1, <2>3 DEF GateShutAt, JobClosed
  <2>4. QED
    BY <2>2, <2>3
<1>7. GatesNamed'
  <2>1. \A q \in Slug : gates'[q] = gates[q] \/ gates'[q] = 0
    BY <1>3
  <2>2. nextGate \in Nat
    BY DEF TypeOK
  <2>3. QED
    BY <1>1, <2>1, <2>2 DEF GatesNamed
<1>8. PlayoutNoted'
  BY <1>1, <1>2, <1>3 DEF PlayoutNoted, PlayoutNotedAt, JobClosed
<1>9. QED
  BY <1>4, <1>5, <1>6, <1>7, <1>8

\* The replays of the old gate are at their end.
LEMMA DrainStep ==
  ASSUME AInv, TypeOK', NEW s \in Slug, ReplaysDrained(s)
  PROVE  Registry'
<1> USE DEF liveVars, gateVars, jobVars, AInv, Registry
<1>1. /\ UNCHANGED <<gates, finishing, nextGate, jobs, job, nextJob, call, replay, stream, streams>>
      /\ lane[s].pc = "drain"
      /\ \A r \in Creation : replay[r].gate = lane[s].gate => replay[r].pc = "end"
  BY DEF ReplaysDrained
<1>2. /\ lane'[s].pc = "lock" /\ lane'[s].gate = lane[s].gate
      /\ \A q \in Slug : q # s => lane'[q] = lane[q]
  BY DEF ReplaysDrained, LaneAt, TypeOK, Lane
<1>3. MuHeld' /\ CallsNamed' /\ JobsNamed' /\ ResetsNamed'
  BY <1>1, <1>2 DEF MuHeld, CallsNamed, JobsNamed, ResetsNamed, JobClosed
<1>4. JobsOwned'
  BY <1>1, <1>2 DEF JobsOwned, HasOwner, JobClosed
<1>5. GateShut'
  <2> SUFFICES ASSUME NEW q \in Slug
               PROVE  GateShutAt(q)'
    BY DEF GateShut
  <2>1. GateShutAt(q)
    BY DEF GateShut
  <2>2. QED
    BY <1>1, <1>2, <2>1 DEF GateShutAt, JobClosed
<1>6. GatesNamed'
  BY <1>1 DEF GatesNamed
<1>7. PlayoutNoted'
  BY <1>1, <1>2 DEF PlayoutNoted, PlayoutNotedAt, JobClosed
<1>8. QED
  BY <1>3, <1>4, <1>5, <1>6, <1>7

\* stopSession deregisters what is registered, cancels it and waits for it; nobody
\* else is inside startMu.
LEMMA StopStep ==
  ASSUME AInv, TypeOK', NEW s \in Slug, stopSession(s)
  PROVE  Registry'
<1> USE DEF liveVars, gateVars, jobVars, AInv, Registry
<1> DEFINE mine == {g \in Gens : jobs[job[g].id] = g /\ SlugOf(job[g].id) = s}
<1>1. /\ UNCHANGED <<finishing, nextGate, nextJob, call, replay, stream>>
      /\ lane[s].pc = "lock" /\ StartMuFree
      /\ \A g \in Gens : job[g] \in Job
  BY DEF stopSession, TypeOK
<1>2. /\ \A t \in Thread : call[t].pc \notin Holding
      /\ \A q \in Slug : lane[q].pc # "reap"
  BY <1>1 DEF StartMuFree
<1>3. lane' = [lane EXCEPT ![s].pc = "reap", ![s].jobs = mine]
  BY DEF stopSession
<1>4. /\ lane'[s].pc = "reap" /\ lane'[s].jobs = mine
      /\ \A q \in Slug : q # s => lane'[q] = lane[q]
  <2> HIDE DEF mine
  <2>1. QED
    BY <1>3 DEF TypeOK, Lane
<1>5. gates[s] = 0
  BY <1>1 DEF GateShut, GateShutAt
<1>6. \A q \in Slug : gates'[q] = gates[q]
  BY <1>5 DEF stopSession, TypeOK
<1>7. \A id \in JobId : jobs'[id] = IF SlugOf(id) = s THEN 0 ELSE jobs[id]
  BY DEF stopSession
<1>8. \A g \in Gens : /\ job'[g].id = job[g].id /\ job'[g].pc = job[g].pc
                      /\ job'[g].cancelled = (job[g].cancelled \/ g \in mine)
  <2>1. job' = [g \in Gens |-> IF g \in mine THEN [job[g] EXCEPT !.cancelled = TRUE] ELSE job[g]]
    BY DEF stopSession
  <2>2. mine \subseteq Gens
    OBVIOUS
  <2> HIDE DEF mine
  <2>3. \A g \in Gens : job[g].cancelled \in BOOLEAN
    BY <1>1 DEF Job
  <2>4. QED
    BY <1>1, <2>1, <2>2, <2>3 DEF Job
<1>9. MuHeld'
  BY <1>1, <1>2, <1>4 DEF MuHeld
<1>10. CallsNamed'
  BY <1>1, <1>2 DEF CallsNamed, Holding
<1>11. JobsNamed'
  BY <1>1, <1>7, <1>8 DEF JobsNamed
<1>12. ResetsNamed'
  <2>1. \A g \in mine : g \in Gens' /\ job'[g].cancelled
    BY <1>1, <1>8
  <2> HIDE DEF mine
  <2>2. \A q \in Slug : lane'[q].pc = "reap" => q = s
    BY <1>2, <1>4
  <2>3. QED
    BY <1>4, <1>7, <2>1, <2>2 DEF ResetsNamed, SlugOf
<1>13. JobsOwned'
  <2>1. ASSUME NEW g \in Gens, ~JobClosed(g)'
        PROVE  HasOwner(g)'
    <3>1. ~JobClosed(g)
      BY <1>8, <2>1 DEF JobClosed
    <3>2. jobs[job[g].id] = g /\ job[g].id \in JobId
      BY <1>1, <3>1, FreeMeansRegistered DEF Job
    <3>3. CASE SlugOf(job[g].id) = s
      BY <1>4, <3>2, <3>3 DEF HasOwner
    <3>4. CASE SlugOf(job[g].id) # s
      BY <1>7, <1>8, <3>2, <3>4 DEF HasOwner
    <3>5. QED
      BY <3>3, <3>4
  <2> HIDE DEF mine
  <2>2. \A g, h \in Gens : ~JobClosed(g)' /\ ~JobClosed(h)' /\ job'[g].id = job'[h].id => g = h
    BY <1>8 DEF JobsOwned, JobClosed
  <2>3. Gens' = Gens
    BY <1>1
  <2>4. QED
    BY <2>1, <2>2, <2>3 DEF JobsOwned
<1> HIDE DEF mine
<1>14. GateShut'
  <2> SUFFICES ASSUME NEW q \in Slug
               PROVE  GateShutAt(q)'
    BY DEF GateShut
  <2>1. GateShutAt(q)
    BY DEF GateShut
  <2>2. CASE q # s
    BY <1>1, <1>4, <1>6, <1>8, <2>1, <2>2 DEF GateShutAt, JobClosed, SlugOf
  <2>3. CASE q = s
    BY <1>1, <1>2, <1>4, <1>5, <1>6, <2>1, <2>3 DEF GateShutAt
  <2>4. QED
    BY <2>2, <2>3
<1>15. GatesNamed'
  <2>1. \A l \in Listener : l \in streams /\ stream[l].pair[1] # s => l \in streams'
    BY DEF stopSession
  <2>2. QED
    BY <1>1, <1>5, <1>6, <2>1 DEF GatesNamed
<1>16. PlayoutNoted'
  <2>1. \A q \in Slug : lane'[q].pc \in {"playing", "played"} => q # s /\ lane'[q] = lane[q]
    BY <1>4
  <2>2. QED
    BY <1>1, <1>6, <1>8, <2>1 DEF PlayoutNoted, PlayoutNotedAt, JobClosed, SlugOf, SelfFed
<1>17. QED
  BY <1>9, <1>10, <1>11, <1>12, <1>13, <1>14, <1>15, <1>16

\* Whatever is not closed when the Reset returns is of another session.
LEMMA ResetStep ==
  ASSUME AInv, TypeOK', NEW s \in Slug, ResetReturns(s)
  PROVE  Registry'
<1> USE DEF liveVars, gateVars, jobVars, AInv, Registry
<1>1. /\ UNCHANGED <<gates, finishing, nextGate, jobs, job, nextJob, call, replay, stream, streams>>
      /\ lane[s].pc = "reap"
      /\ \A g \in lane[s].jobs : JobClosed(g)
  BY DEF ResetReturns
<1>2. /\ lane'[s].pc \in {"off", "forget"}
      /\ \A q \in Slug : q # s => lane'[q] = lane[q]
  <2> DEFINE new == IF lane[s].drop THEN [LaneOff EXCEPT !.pc = "forget"] ELSE LaneOff
  <2>1. lane' = [lane EXCEPT ![s] = new]
    BY DEF ResetReturns
  <2>2. new.pc \in {"off", "forget"}
    BY DEF LaneOff
  <2> HIDE DEF new
  <2>3. QED
    BY <2>1, <2>2 DEF TypeOK
<1>3. /\ \A q \in Slug : lane[q].pc = "reap" => q = s
      /\ \A t \in Thread : call[t].pc \notin Holding
  BY <1>1 DEF MuHeld
<1>4. \A q \in Slug : lane'[q].pc # "reap"
  BY <1>2, <1>3
<1>5. MuHeld' /\ CallsNamed' /\ JobsNamed' /\ ResetsNamed'
  BY <1>1, <1>3, <1>4 DEF MuHeld, CallsNamed, JobsNamed, ResetsNamed
<1>6. \A g \in Gens : JobClosed(g) \/ jobs[job[g].id] = g
  BY <1>1, <1>3 DEF JobsOwned, HasOwner, Holding
<1>7. JobsOwned'
  BY <1>1, <1>6 DEF JobsOwned, HasOwner, JobClosed
<1>8. GateShut'
  <2> SUFFICES ASSUME NEW q \in Slug
               PROVE  GateShutAt(q)'
    BY DEF GateShut
  <2>1. GateShutAt(q)
    BY DEF GateShut
  <2>2. CASE q # s
    BY <1>1, <1>2, <2>1, <2>2 DEF GateShutAt, JobClosed
  <2>3. CASE q = s
    <3>1. \A g \in Gens : SlugOf(job[g].id) = s => JobClosed(g)
      <4>1. \A g \in Gens : job[g].id \in JobId
        BY DEF TypeOK, Job
      <4>2. \A id \in JobId : SlugOf(id) = s => jobs[id] = 0
        BY <1>1 DEF ResetsNamed
      <4>3. \A g \in Gens : g # 0
        BY DEF TypeOK
      <4>4. QED
        BY <1>6, <4>1, <4>2, <4>3
    <3>2. QED
      BY <1>1, <1>2, <1>3, <2>1, <2>3, <3>1 DEF GateShutAt, JobClosed
  <2>4. QED
    BY <2>2, <2>3
<1>9. GatesNamed'
  BY <1>1 DEF GatesNamed
<1>10. PlayoutNoted'
  BY <1>1, <1>2 DEF PlayoutNoted, PlayoutNotedAt, JobClosed
<1>11. QED
  BY <1>5, <1>7, <1>8, <1>9, <1>10

\* A launch that takes startMu answers for the predecessor it detaches.
LEMMA BeginStep ==
  ASSUME AInv, TypeOK', NEW t \in Thread, beginStart(t),
         ~ (UNCHANGED jobs /\ \E a \in {"noAudio", "refused", "notReady"} : Return(t, a))
  PROVE  Registry'
<1> USE DEF liveVars, gateVars, jobVars, AInv, Registry
<1>1. PICK id \in JobId : id = call[t].id
  BY DEF beginStart, CallsNamed
<1>2. /\ UNCHANGED <<gates, finishing, nextGate, lane, job, nextJob, replay, stream, streams>>
      /\ call[t].pc = "begin" /\ StartMuFree
  BY DEF beginStart
<1>3. /\ jobs' = [jobs EXCEPT ![id] = 0]
      /\ call' = [call EXCEPT ![t].pc = IF jobs[id] = 0 THEN "start" ELSE "cancel", ![t].old = jobs[id]]
      /\ liveGateLocked(SlugOf(id))
  BY <1>1, Ids DEF beginStart
<1>4. /\ call'[t].pc = IF jobs[id] = 0 THEN "start" ELSE "cancel"
      /\ call'[t].id = id /\ call'[t].old = jobs[id]
      /\ \A u \in Thread : u # t => call'[u] = call[u]
  BY <1>1, <1>3 DEF TypeOK, Call
<1>5. /\ \A u \in Thread : call[u].pc \notin Holding
      /\ \A q \in Slug : lane[q].pc # "reap"
  BY <1>2 DEF StartMuFree
<1>6. jobs'[id] = 0 /\ \A j \in JobId : j # id => jobs'[j] = jobs[j]
  BY <1>3 DEF TypeOK
<1>7. MuHeld'
  BY <1>2, <1>4, <1>5 DEF MuHeld
<1>8. CallsNamed'
  <2>1. \A u \in Thread : u # t => call'[u].pc \notin Holding
    BY <1>4, <1>5
  <2>2. t[1] = "push" => id \in PushId
    BY <1>1, <1>2 DEF CallsNamed
  <2>3. jobs[id] # 0 => jobs[id] \in Gens
    BY DEF JobsNamed
  <2>4. QED
    BY <1>2, <1>4, <1>6, <2>1, <2>2, <2>3 DEF CallsNamed, Holding
<1>9. JobsNamed' /\ ResetsNamed'
  BY <1>2, <1>5, <1>6 DEF JobsNamed, ResetsNamed
<1>10. JobsOwned'
  <2>1. ASSUME NEW g \in Gens, ~JobClosed(g)'
        PROVE  HasOwner(g)'
    <3>1. ~JobClosed(g)
      BY <1>2, <2>1 DEF JobClosed
    <3>2. jobs[job[g].id] = g
      BY <1>2, <3>1, FreeMeansRegistered
    <3>3. job[g].id \in JobId /\ g # 0
      BY DEF TypeOK, Job
    <3>4. CASE job[g].id = id
      BY <1>4, <3>2, <3>3, <3>4 DEF HasOwner
    <3>5. CASE job[g].id # id
      BY <1>2, <1>6, <3>2, <3>3, <3>5 DEF HasOwner
    <3>6. QED
      BY <3>4, <3>5
  <2>2. QED
    BY <1>2, <2>1 DEF JobsOwned, JobClosed
<1>11. GateShut'
  <2> SUFFICES ASSUME NEW q \in Slug
               PROVE  GateShutAt(q)'
    BY DEF GateShut
  <2>1. GateShutAt(q)
    BY DEF GateShut
  <2>2. gates[q] = 0 => \A u \in Thread : call'[u].pc \in Holding => SlugOf(call'[u].id) # q
    BY <1>3, <1>4, <1>5 DEF liveGateLocked
  <2>3. QED
    BY <1>2, <2>1, <2>2 DEF GateShutAt, JobClosed
<1>12. GatesNamed'
  BY <1>2 DEF GatesNamed
<1>13. PlayoutNoted'
  <2> SUFFICES ASSUME NEW q \in Slug
               PROVE  PlayoutNotedAt(q)'
    BY DEF PlayoutNoted
  <2>1. PlayoutNotedAt(q)
    BY DEF PlayoutNoted
  <2>2. lane[q].pc \in {"playing", "played"} /\ gates[q] # 0 =>
          \A u \in Thread : call'[u].pc \in Holding => SlugOf(call'[u].id) # q
    BY <1>3, <1>4, <1>5, <2>1 DEF liveGateLocked, PlayoutNotedAt
  <2>3. QED
    BY <1>2, <2>1, <2>2 DEF PlayoutNotedAt, JobClosed
<1>14. QED
  BY <1>7, <1>8, <1>9, <1>10, <1>11, <1>12, <1>13

\* A process is admitted to a target none of whose jobs works any more.
LEMMA NoneBeforeIt ==
  ASSUME AInv, NEW t \in Thread, call[t].pc = "admit", NEW g \in Gens, job[g].id = call[t].id
  PROVE  JobClosed(g)
<1>1. call[t].id \in JobId /\ jobs[call[t].id] = 0 /\ g # 0
  BY DEF AInv, Registry, CallsNamed, Holding, TypeOK
<1>2. \A u \in Thread : call[u].pc \notin {"cancel", "reap"}
  BY DEF AInv, Registry, MuHeld, Holding
<1>3. \A s \in Slug : lane[s].pc # "reap"
  BY DEF AInv, Registry, MuHeld, Holding
<1>4. QED
  BY <1>1, <1>2, <1>3 DEF AInv, Registry, JobsOwned, HasOwner

\* An admission publishes the job while startMu is still held: it is owned.
LEMMA AdmitStep ==
  ASSUME AInv, TypeOK', NEW t \in Thread, Admit(t)
  PROVE  Registry'
<1> USE DEF liveVars, gateVars, jobVars, AInv, Registry
<1>1. PICK id \in JobId : id = call[t].id
  BY DEF Admit, CallsNamed
<1>2. PICK n \in Nat : n = nextJob + 1
  BY DEF TypeOK
<1>3. /\ UNCHANGED <<gates, finishing, nextGate, lane, replay, stream, streams>>
      /\ call[t].pc = "admit" /\ liveGateLocked(SlugOf(id)) /\ nextJob' = n
  BY <1>1, <1>2 DEF Admit, Admissible
<1>4. Gens' = Gens \cup {n} /\ n \notin Gens /\ n # 0
  BY <1>2, <1>3 DEF TypeOK
<1>5. /\ job'[n].id = id /\ job'[n].cancelled = FALSE /\ job'[n].pc = "feed"
      /\ \A g \in Gens : job'[g] = job[g]
  BY <1>1, <1>2, <1>4 DEF Admit
<1>6. jobs'[id] = n /\ \A j \in JobId : j # id => jobs'[j] = jobs[j]
  BY <1>1, <1>2 DEF Admit, TypeOK
<1>7. CallCalm(t) /\ call'[t].pc \notin Holding /\ \A u \in Thread : u # t => call'[u] = call[u]
  <2>1. Return(t, "started")
    BY DEF Admit
  <2>2. QED
    BY <1>3, <2>1, Returned
<1>8. /\ \A u \in Thread : call'[u].pc \notin Holding
      /\ \A u \in Thread : call[u].pc \in Holding => u = t
      /\ \A q \in Slug : lane[q].pc # "reap"
  <2>1. call[t].pc \in Holding
    BY <1>3 DEF Holding
  <2>2. \A u \in Thread : call[u].pc \in Holding => u = t
    BY <2>1 DEF MuHeld
  <2>3. \A q \in Slug : lane[q].pc # "reap"
    BY <2>1 DEF MuHeld
  <2>4. QED
    BY <1>7, <2>2, <2>3
<1>9. MuHeld'
  BY <1>3, <1>8 DEF MuHeld
<1>10. CallsNamed'
  <2>1. /\ call'[t].pc # "off" => call'[t].id \in JobId /\ (t[1] = "push" => call'[t].id \in PushId)
        /\ call'[t].pc = "remember" => t[1] = "push"
    BY <1>7 DEF CallCalm
  <2>2. QED
    BY <1>7, <1>8, <2>1 DEF CallsNamed, Holding
<1>11. JobsNamed'
  BY <1>4, <1>5, <1>6 DEF JobsNamed
<1>12. ResetsNamed'
  BY <1>3, <1>8 DEF ResetsNamed
<1>13. JobsOwned'
  <2>1. ASSUME NEW g \in Gens', ~JobClosed(g)'
        PROVE  HasOwner(g)'
    <3>1. CASE g = n
      BY <1>5, <1>6, <3>1 DEF HasOwner
    <3>2. CASE g # n
      <4>1. g \in Gens /\ job'[g] = job[g] /\ ~JobClosed(g) /\ job[g].id \in JobId
        BY <1>4, <1>5, <2>1, <3>2 DEF JobClosed, TypeOK, Job
      <4>2. jobs[job[g].id] = g
        BY <1>3, <1>8, <4>1 DEF JobsOwned, HasOwner, Holding
      <4>3. job[g].id # id
        BY <1>1, <1>3, <4>1, NoneBeforeIt
      <4>4. QED
        BY <1>6, <4>1, <4>2, <4>3 DEF HasOwner
    <3>3. QED
      BY <3>1, <3>2
  <2>2. \A g \in Gens : job[g].id = id => JobClosed(g)
    BY <1>1, <1>3, NoneBeforeIt
  <2>3. \A g, h \in Gens' : ~JobClosed(g)' /\ ~JobClosed(h)' /\ job'[g].id = job'[h].id => g = h
    BY <1>4, <1>5, <2>2 DEF JobsOwned, JobClosed
  <2>4. QED
    BY <2>1, <2>3 DEF JobsOwned
<1>14. GateShut'
  <2> SUFFICES ASSUME NEW q \in Slug
               PROVE  GateShutAt(q)'
    BY DEF GateShut
  <2>1. GateShutAt(q)
    BY DEF GateShut
  <2>2. gates[q] = 0 => SlugOf(id) # q
    BY <1>3 DEF liveGateLocked
  <2>3. gates[q] = 0 /\ lane[q].pc \notin {"drain", "lock", "reap"} =>
          \A g \in Gens' : SlugOf(job'[g].id) = q => JobClosed(g)'
    BY <1>4, <1>5, <2>1, <2>2 DEF GateShutAt, JobClosed
  <2>4. QED
    BY <1>3, <1>8, <2>1, <2>3 DEF GateShutAt
<1>15. GatesNamed'
  BY <1>3 DEF GatesNamed
<1>16. PlayoutNoted'
  <2> SUFFICES ASSUME NEW q \in Slug
               PROVE  PlayoutNotedAt(q)'
    BY DEF PlayoutNoted
  <2>1. PlayoutNotedAt(q)
    BY DEF PlayoutNoted
  <2>2. lane[q].pc \in {"playing", "played"} /\ gates[q] # 0 => SlugOf(id) # q
    BY <1>3, <2>1 DEF liveGateLocked, PlayoutNotedAt
  <2>3. lane[q].pc \in {"playing", "played"} /\ gates[q] # 0 =>
          \A g \in Gens' :
            SlugOf(job'[g].id) = q /\ ~SelfFed(job'[g].id) /\ ~JobClosed(g)' =>
              lane[q].pc = "playing" /\ g \in lane[q].jobs
    BY <1>4, <1>5, <2>1, <2>2 DEF PlayoutNotedAt, JobClosed
  <2>4. QED
    BY <1>3, <1>8, <2>1, <2>3 DEF PlayoutNotedAt
<1>17. QED
  BY <1>9, <1>10, <1>11, <1>12, <1>13, <1>14, <1>15, <1>16

\* A reader joins a live gate, which no playout waits for.
LEMMA OpenStep ==
  ASSUME AInv, TypeOK', NEW l \in Listener, NEW p \in Pair, OpenStream(l, p)
  PROVE  Registry'
<1> USE DEF liveVars, gateVars, jobVars, AInv, Registry
<1>1. /\ UNCHANGED <<gates, finishing, nextGate, jobs, job, nextJob, call, lane, replay>>
      /\ streams' = streams \cup {l} /\ liveGateLocked(p[1]) /\ p[1] \in Slug
  BY DEF OpenStream, pairGone, Pair
<1>2. /\ stream'[l].gate = gates[p[1]] /\ stream'[l].pair = p
      /\ \A k \in Listener : k # l => stream'[k] = stream[k]
  BY DEF OpenStream, TypeOK
<1>3. MuHeld' /\ CallsNamed' /\ JobsNamed' /\ ResetsNamed'
  BY <1>1 DEF MuHeld, CallsNamed, JobsNamed, ResetsNamed, JobClosed
<1>4. JobsOwned'
  BY <1>1 DEF JobsOwned, HasOwner, JobClosed
<1>5. GateShut'
  BY <1>1 DEF GateShut, GateShutAt, JobClosed
<1>6. GatesNamed'
  <2>1. /\ stream'[l].gate # 0 /\ stream'[l].gate <= nextGate'
        /\ \A s \in Slug : stream'[l].gate = gates'[s] => stream'[l].pair[1] = s /\ l \in streams'
    BY <1>1, <1>2 DEF GatesNamed, liveGateLocked
  <2>2. QED
    BY <1>1, <1>2, <2>1 DEF GatesNamed
<1>7. PlayoutNoted'
  <2> SUFFICES ASSUME NEW q \in Slug
               PROVE  PlayoutNotedAt(q)'
    BY DEF PlayoutNoted
  <2>1. PlayoutNotedAt(q)
    BY DEF PlayoutNoted
  <2>2. lane[q].pc \in {"playing", "played"} /\ gates[q] # 0 => stream'[l].gate # gates[q]
    BY <1>1, <1>2, <2>1 DEF PlayoutNotedAt, liveGateLocked
  <2>3. QED
    BY <1>1, <1>2, <2>1, <2>2 DEF PlayoutNotedAt, JobClosed
<1>8. QED
  BY <1>3, <1>4, <1>5, <1>6, <1>7

-----------------------------------------------------------------------------
(* The theorems.                                                            *)

\* A registry without sessions owns nothing.
LEMMA AInvInit == Init => AInv
<1> SUFFICES ASSUME Init PROVE AInv
  OBVIOUS
<1>1. Idle \in Call /\ NoReplay \in Replay
  BY DEF Idle, Call, CallPc, NoReplay, Replay
<1>2. \A l \in Listener : [pc |-> "off", gate |-> 0, pair |-> <<>>, template |-> 0] \in Stream
  BY DEF Stream
<1>3. Gens = {} /\ job \in [Gens -> Job]
  BY DEF Init
<1>4. TypeOK
  BY <1>1, <1>2, <1>3, LaneOffType DEF Init, TypeOK
<1>5. /\ \A t \in Thread : call[t].pc = "off"
      /\ \A s \in Slug : lane[s].pc = "off" /\ gates[s] = 0
      /\ \A r \in Creation : replay[r].pc = "none"
      /\ \A l \in Listener : stream[l].pc = "off"
      /\ \A id \in JobId : jobs[id] = 0
      /\ nextGate = 0
  BY DEF Init, Idle, LaneOff, NoReplay
<1>6. MuHeld /\ CallsNamed /\ JobsNamed /\ ResetsNamed /\ JobsOwned
  BY <1>3, <1>5 DEF MuHeld, CallsNamed, JobsNamed, ResetsNamed, JobsOwned, Holding
<1>7. GateShut /\ GatesNamed /\ PlayoutNoted
  BY <1>3, <1>5 DEF GateShut, GateShutAt, GatesNamed, PlayoutNoted, PlayoutNotedAt, Holding
<1>8. QED
  BY <1>4, <1>6, <1>7 DEF AInv, Registry

\* The invariant is inductive, action by action.
LEMMA AInvNext ==
  ASSUME AInv, Next
  PROVE  AInv'
<1>1. TypeOK'
  <2>1. TypeOK /\ CallsNamed
    BY DEF AInv, Registry
  <2>2. QED
    BY <2>1, TypeEnvironment, TypeLane, TypeCall, TypeReplay, TypeJob DEF Next, JobWorks
<1>2. Registry'
  <2>1. CASE Environment
    BY <1>1, <2>1, EnvironmentsSteps, OpenStep
  <2>2. ASSUME NEW s \in Slug, LaneWorks(s)
        PROVE  Registry'
    BY <1>1, <2>2, LanesCalmSteps, CreateStep, FinishStep, PlayedStep, RetireStep, DrainStep,
       StopStep, ResetStep DEF LaneWorks
  <2>3. ASSUME NEW t \in Thread, CallWorks(t)
        PROVE  Registry'
    <3>1. CASE beginStart(t)
      BY <1>1, <3>1, CallsOwnSteps, BeginStep
    <3>2. CASE ~beginStart(t)
      BY <1>1, <2>3, <3>2, CallsOwnSteps, AdmitStep DEF CallWorks
    <3>3. QED
      BY <3>1, <3>2
  <2>4. ASSUME NEW r \in Creation, ReplayWorks(r)
        PROVE  Registry'
    BY <1>1, <2>4, ReplaysOwnSteps
  <2>5. ASSUME NEW g \in Gens, JobWorks(g)
        PROVE  Registry'
    BY <1>1, <2>5, JobsOwnSteps
  <2>6. QED
    BY <2>1, <2>2, <2>3, <2>4, <2>5 DEF Next
<1>3. QED
  BY <1>1, <1>2 DEF AInv

LEMMA AInvStutter ==
  ASSUME AInv, UNCHANGED vars
  PROVE  AInv'
<1>1. /\ UNCHANGED <<gates, dead, finishing, nextGate, pairs, jobs, routes, teardowns, streams>>
      /\ UNCHANGED <<job, nextJob, lane, call, replay, creates, stream, dying>>
  BY DEF vars, liveVars, gateVars, jobVars
<1>2. TypeOK'
  BY <1>1 DEF AInv, TypeOK
<1>3. QED
  BY <1>1, <1>2, Untouched, CallsStill, Calm DEF AInv

\* The registry's invariant holds in every state, for every set of sessions,
\* targets, callers and listeners.
THEOREM RegistryInvariant == Spec => []AInv
<1>1. AInv /\ [Next]_vars => AInv'
  BY AInvNext, AInvStutter
<1>2. QED
  BY <1>1, AInvInit, PTL DEF Spec

-----------------------------------------------------------------------------
(* Processes that nobody owns any more.                                    *)

\* Only a refused admission leaves a process to die.
LEMMA DyingKept ==
  ASSUME Next, \A t \in Thread : ~AdmitRefused(t), \A id \in dying : ~ProcessDies(id)
  PROVE  dying' = dying
<1>1. CASE Environment
  <2>1. CASE \E s \in Slug : LaneStarts(s) \/ LaneEnds(s) \/ PlayoutCut(s) \/ LoopDrops(s)
    BY <2>1 DEF LaneStarts, LaneEnds, PlayoutCut, LoopDrops
  <2>2. CASE \E c \in Caller, id \in PushId : Push(c, id)
    BY <2>2 DEF Push
  <2>3. CASE \E g \in Gens : FeedFails(g)
    BY <2>3 DEF FeedFails, JobOnly
  <2>4. CASE \E l \in Listener : StreamEnds(l) \/ CloseStream(l) \/ \E p \in Pair : OpenStream(l, p)
    BY <2>4 DEF StreamEnds, CloseStream, OpenStream
  <2>5. QED
    BY <1>1, <2>1, <2>2, <2>3, <2>4 DEF Environment
<1>2. ASSUME NEW s \in Slug, LaneWorks(s)
      PROVE  dying' = dying
  <2>1. CASE \E l \in Lang : Create(s, l) \/ StartHLS(s, l)
    BY <2>1 DEF Create, StartHLS
  <2>2. CASE Created(s) \/ LaneRuns(s) \/ FinishSnapshot(s) \/ Played(s)
    BY <2>2 DEF Created, LaneRuns, FinishSnapshot, Played
  <2>3. CASE RetireGate(s) \/ ReplaysDrained(s) \/ stopSession(s)
    BY <2>3 DEF RetireGate, ReplaysDrained, stopSession
  <2>4. CASE ResetReturns(s) \/ forgetRoutes(s)
    BY <2>4 DEF ResetReturns, forgetRoutes
  <2>5. QED
    BY <1>2, <2>1, <2>2, <2>3, <2>4 DEF LaneWorks
<1>3. ASSUME NEW t \in Thread, CallWorks(t)
      PROVE  dying' = dying
  <2>1. CASE Dispatch(t) \/ beginStart(t) \/ CancelOld(t) \/ OldReaped(t)
    BY <2>1 DEF Dispatch, beginStart, CancelOld, OldReaped
  <2>2. CASE Start(t) \/ Admit(t) \/ rememberPush(t)
    BY <2>2 DEF Start, Admit, rememberPush
  <2>3. QED
    BY <1>3, <2>1, <2>2 DEF CallWorks
<1>4. ASSUME NEW r \in Creation, ReplayWorks(r)
      PROVE  dying' = dying
  BY <1>4 DEF ReplayWorks, pushRoutes, Relaunch, ReplayDone
<1>5. ASSUME NEW g \in Gens, JobWorks(g)
      PROVE  dying' = dying
  <2>1. CASE FeedEnds(g) \/ ReattachGone(g) \/ Reattach(g)
    BY <2>1 DEF FeedEnds, ReattachGone, Reattach, JobOnly
  <2>2. CASE ReopenEnds(g) \/ ReopenTries(g) \/ Restart(g) \/ CloseDone(g) \/ retireJob(g)
    BY <2>2 DEF ReopenEnds, ReopenTries, Restart, CloseDone, retireJob, JobOnly
  <2>3. QED
    BY <1>5, <2>1, <2>2 DEF JobWorks
<1>6. QED
  BY <1>1, <1>2, <1>3, <1>4, <1>5 DEF Next

LEMMA VideosAreLeftToDie == Spec => []OnlyVideoIsLeftToDie
<1>1. Init => OnlyVideoIsLeftToDie
  BY DEF Init, OnlyVideoIsLeftToDie
<1>2. ASSUME OnlyVideoIsLeftToDie, [Next]_vars
      PROVE  OnlyVideoIsLeftToDie'
  <2> USE DEF OnlyVideoIsLeftToDie
  <2>1. ASSUME NEW t \in Thread, AdmitRefused(t)
        PROVE  OnlyVideoIsLeftToDie'
    BY <1>2, <2>1 DEF AdmitRefused, SelfFed
  <2>2. ASSUME NEW id \in dying, ProcessDies(id)
        PROVE  OnlyVideoIsLeftToDie'
    BY <1>2, <2>2 DEF ProcessDies, SelfFed
  <2>3. CASE dying' = dying
    BY <1>2, <2>3 DEF SelfFed
  <2>4. CASE UNCHANGED vars
    BY <2>3, <2>4 DEF vars
  <2>5. QED
    BY <1>2, <2>1, <2>2, <2>3, <2>4, DyingKept
<1>3. QED
  BY <1>1, <1>2, PTL DEF Spec

\* launchMixFedJob, launchSelfFedJob, retireJob and Reset: a target never has two
\* processes at work, a working job is registered or about to be cancelled, a
\* session whose Reset has returned has no job, no launch and no replay left, and
\* every process that outlives its owner is a cancelled native video.
THEOREM TheRegistryOwnsItsJobs == Spec => []JobsAreOwned
<1>1. ASSUME AInv, OnlyVideoIsLeftToDie
      PROVE  JobsAreOwned
  <2> USE DEF AInv, Registry
  <2>1. OneProcessAtWork
    <3>1. \A g, h \in Gens : Alive(g) /\ Alive(h) /\ job[g].id = job[h].id => g = h
      BY <1>1 DEF JobsOwned, JobClosed, Alive
    <3>2. \A t, u \in Thread :
            call[t].pc = "admit" /\ call[u].pc = "admit" /\ call[t].id = call[u].id => t = u
      BY <1>1 DEF MuHeld, Holding
    <3>3. \A g \in Gens, t \in Thread : Alive(g) /\ call[t].pc = "admit" => job[g].id # call[t].id
      <4>1. \A g \in Gens : Alive(g) => ~JobClosed(g)
        BY DEF Alive, JobClosed
      <4>2. QED
        BY <1>1, <4>1, NoneBeforeIt
    <3>4. QED
      BY <3>1, <3>2, <3>3 DEF OneProcessAtWork
  <2>2. NoJobEscapes
    BY <1>1 DEF NoJobEscapes, JobsOwned, HasOwner, JobClosed, CallsNamed, ResetsNamed
  <2>3. QuietAfterReset
    <3> SUFFICES ASSUME NEW s \in Slug, gates[s] = 0, lane[s].pc \in {"off", "create", "forget"}
                 PROVE  /\ \A g \in Gens : SlugOf(job[g].id) = s => JobClosed(g)
                        /\ \A t \in Thread : call[t].pc \in Holding => SlugOf(call[t].id) # s
                        /\ \A r \in Creation : replay[r].pc \notin {"none", "end"} => replay[r].pair[1] # s
                        /\ \A id \in dying : SlugOf(id) = s => SelfFed(id)
      BY DEF QuietAfterReset
    <3>1. GateShutAt(s) /\ \A r \in Creation : replay[r].pc \in {"none", "list", "next", "end"}
      BY <1>1 DEF GateShut, TypeOK, Replay
    <3>2. \A id \in dying : SelfFed(id)
      BY <1>1 DEF OnlyVideoIsLeftToDie
    <3>3. QED
      BY <3>1, <3>2 DEF GateShutAt
  <2>4. QED
    BY <1>1, <2>1, <2>2, <2>3 DEF JobsAreOwned
<1>2. QED
  BY <1>1, RegistryInvariant, VideosAreLeftToDie, PTL

\* WaitPlayout: when it has returned, no mix-fed job and no reader of the session is
\* left, and no launch is past its admission.
THEOREM PlayoutsAreComplete == Spec => []PlayoutComplete
<1>1. ASSUME AInv
      PROVE  PlayoutComplete
  <2> SUFFICES ASSUME NEW s \in Slug, lane[s].pc = "played"
               PROVE  /\ \A g \in Gens : SlugOf(job[g].id) = s /\ ~SelfFed(job[g].id) => JobClosed(g)
                      /\ \A l \in Listener : stream[l].pc = "open" => stream[l].gate # gates[s]
                      /\ \A t \in Thread : call[t].pc \in {"start", "admit"} => SlugOf(call[t].id) # s
    BY DEF PlayoutComplete
  <2>1. GateShutAt(s) /\ PlayoutNotedAt(s) /\ GatesNamed
    BY <1>1 DEF AInv, Registry, GateShut, PlayoutNoted
  <2>2. CASE gates[s] = 0
    BY <2>1, <2>2 DEF GateShutAt, GatesNamed, Holding
  <2>3. CASE gates[s] # 0
    BY <2>1, <2>3 DEF PlayoutNotedAt, Holding
  <2>4. QED
    BY <2>2, <2>3
<1>2. QED
  BY <1>1, RegistryInvariant, PTL
-----------------------------------------------------------------------------
(* A push that a Drop ran through read the teardown count before that Drop *)
(* raised it.                                                              *)

CountedAt(t) == call[t].seen <= teardowns /\ (call[t].stale => call[t].seen < teardowns)

Counted == \A t \in Thread : CountedAt(t)

\* A step that gives launch t no other count, and marks it only when it raises the count.
KeepsCount(t) ==
  \/ call'[t].seen = call[t].seen /\ call'[t].stale = call[t].stale
  \/ call'[t] = Idle

LEMMA CountKept ==
  ASSUME TypeOK, Counted, NEW t \in Thread, KeepsCount(t), teardowns' = teardowns
  PROVE  CountedAt(t)'
BY DEF TypeOK, Counted, CountedAt, KeepsCount, Idle

LEMMA CountReturned ==
  ASSUME TypeOK, NEW t \in Thread, NEW answer, Return(t, answer), NEW u \in Thread
  PROVE  KeepsCount(u)
<1>1. CASE t[1] # "push"
  BY <1>1 DEF Return, KeepsCount, TypeOK
<1>2. CASE t[1] = "push"
  BY <1>2 DEF Return, KeepsCount, TypeOK, Call
<1>3. QED
  BY <1>1, <1>2

LEMMA CountMoved ==
  ASSUME TypeOK, NEW t \in Thread, NEW pc, CallAt(t, pc), NEW u \in Thread
  PROVE  KeepsCount(u)
BY DEF CallAt, KeepsCount, TypeOK, Call

\* The steps of a launch,
LEMMA CallsCount ==
  ASSUME TypeOK, Counted, NEW t \in Thread, CallWorks(t)
  PROVE  Counted'
<1>1. CASE Dispatch(t)
  BY <1>1, CountReturned, CountMoved, CountKept DEF Dispatch, Counted, liveVars
<1>2. CASE beginStart(t)
  <2>1. \A u \in Thread : KeepsCount(u)
    <3>1. CASE \E answer : Return(t, answer)
      BY <3>1, CountReturned
    <3>2. CASE \E pc, old : call' = [call EXCEPT ![t].pc = pc, ![t].old = old]
      BY <3>2 DEF KeepsCount, TypeOK, Call
    <3>3. QED
      BY <1>2, <3>1, <3>2 DEF beginStart
  <2>2. QED
    BY <1>2, <2>1, CountKept DEF beginStart, Counted
<1>3. CASE CancelOld(t)
  BY <1>3, CountMoved, CountKept DEF CancelOld, Counted, liveVars
<1>4. CASE OldReaped(t)
  BY <1>4, CountMoved, CountKept DEF OldReaped, Counted, liveVars
<1>5. CASE Start(t)
  BY <1>5, CountReturned, CountMoved, CountKept DEF Start, Counted, liveVars
<1>6. CASE Admit(t)
  BY <1>6, CountReturned, CountKept DEF Admit, Counted
<1>7. CASE AdmitRefused(t)
  BY <1>7, CountReturned, CountKept DEF AdmitRefused, Counted, liveVars
<1>8. CASE rememberPush(t)
  <2>1. CallAt(t, "end") /\ teardowns' = teardowns
    BY <1>8 DEF rememberPush, CallAt
  <2>2. QED
    BY <2>1, CountMoved, CountKept DEF Counted
<1>9. QED
  BY <1>1, <1>2, <1>3, <1>4, <1>5, <1>6, <1>7, <1>8 DEF CallWorks

\* and all others: a Push reads the count, a Drop raises it and marks whom it ran
\* through, a launch of a lane or a replay takes an identity.
LEMMA CountNext ==
  ASSUME TypeOK, Counted, [Next]_vars
  PROVE  Counted'
<1> USE DEF liveVars, gateVars, jobVars
<1>1. CASE UNCHANGED <<call, teardowns>>
  BY <1>1 DEF Counted, CountedAt
<1>2. ASSUME NEW t \in Thread, CallWorks(t)
      PROVE  Counted'
  BY <1>2, CallsCount
<1>3. ASSUME NEW t \in Thread, NEW pc, NEW id, call' = [call EXCEPT ![t].pc = pc, ![t].id = id],
             teardowns' = teardowns
      PROVE  Counted'
  <2>1. \A u \in Thread : KeepsCount(u)
    BY <1>3 DEF KeepsCount, TypeOK, Call
  <2>2. QED
    BY <1>3, <2>1, CountKept DEF Counted
<1>4. ASSUME NEW s \in Slug, NEW l \in Lang, StartHLS(s, l)
      PROVE  Counted'
  <2>1. <<"hls", s>> \in Thread
    BY DEF Thread
  <2>2. QED
    BY <1>3, <1>4, <2>1 DEF StartHLS
<1>5. ASSUME NEW r \in Creation, NEW id \in PushId, Relaunch(r, id)
      PROVE  Counted'
  <2>1. <<"replay", r>> \in Thread
    BY DEF Thread
  <2>2. QED
    BY <1>3, <1>5, <2>1 DEF Relaunch
<1>6. ASSUME NEW c \in Caller, NEW id \in PushId, Push(c, id)
      PROVE  Counted'
  <2>1. <<"push", c>> \in Thread
    BY DEF Thread
  <2>2. ~call[<<"push", c>>].stale
    BY <1>6 DEF Push, Idle
  <2>3. QED
    BY <1>6, <2>1, <2>2 DEF Push, Counted, CountedAt, TypeOK, Call
<1>7. ASSUME NEW s \in Slug, forgetRoutes(s)
      PROVE  Counted'
  <2>1. teardowns' = teardowns + 1 /\ teardowns \in Nat
    BY <1>7 DEF forgetRoutes, TypeOK
  <2>2. ASSUME NEW t \in Thread
        PROVE  call'[t].seen = call[t].seen /\ call[t].seen \in Nat
    BY <1>7, <2>2 DEF forgetRoutes, TypeOK, Call
  <2>3. QED
    BY <2>1, <2>2 DEF Counted, CountedAt
<1>8. CASE \E s \in Slug : LaneWorks(s)
  <2> SUFFICES ASSUME NEW s \in Slug, LaneWorks(s) PROVE Counted'
    BY <1>8
  <2>1. CASE \E l \in Lang : Create(s, l)
    BY <1>1, <2>1 DEF Create
  <2>2. CASE Created(s) \/ LaneRuns(s) \/ Played(s) \/ RetireGate(s) \/ ReplaysDrained(s) \/ ResetReturns(s)
    BY <1>1, <2>2 DEF Created, LaneRuns, Played, RetireGate, ReplaysDrained, ResetReturns
  <2>3. CASE FinishSnapshot(s)
    BY <1>1, <2>3, Zenon DEF FinishSnapshot
  <2>4. CASE stopSession(s)
    BY <1>1, <2>4, Zenon DEF stopSession
  <2>5. QED
    BY <1>4, <1>7, <2>1, <2>2, <2>3, <2>4 DEF LaneWorks
<1>9. CASE \E r \in Creation : ReplayWorks(r)
  <2> SUFFICES ASSUME NEW r \in Creation, ReplayWorks(r) PROVE Counted'
    BY <1>9
  <2>1. CASE pushRoutes(r)
    BY <1>1, <2>1, Zenon DEF pushRoutes
  <2>2. CASE ReplayDone(r)
    BY <1>1, <2>2 DEF ReplayDone
  <2>3. QED
    BY <1>5, <2>1, <2>2 DEF ReplayWorks
<1>10. CASE \E g \in Gens : JobWorks(g)
  BY <1>1, <1>10 DEF JobWorks, FeedEnds, JobOnly, ReattachGone, Reattach, ReopenEnds, ReopenTries,
                     Restart, CloseDone, retireJob
<1>11. CASE Environment
  <2>1. CASE \E s \in Slug : LaneStarts(s) \/ LaneEnds(s) \/ PlayoutCut(s) \/ LoopDrops(s)
    BY <1>1, <2>1 DEF LaneStarts, LaneEnds, PlayoutCut, LoopDrops
  <2>2. CASE \E g \in Gens : FeedFails(g)
    BY <1>1, <2>2 DEF FeedFails, JobOnly
  <2>3. CASE \E id \in dying : ProcessDies(id)
    BY <1>1, <2>3 DEF ProcessDies
  <2>4. CASE \E l \in Listener : StreamEnds(l) \/ CloseStream(l) \/ \E p \in Pair : OpenStream(l, p)
    BY <1>1, <2>4 DEF StreamEnds, CloseStream, OpenStream
  <2>5. QED
    BY <1>6, <1>11, <2>1, <2>2, <2>3, <2>4 DEF Environment
<1>12. CASE UNCHANGED vars
  BY <1>1, <1>12 DEF vars
<1>13. QED
  BY <1>2, <1>8, <1>9, <1>10, <1>11, <1>12 DEF Next

\* Only the launch itself leaves "remember".
LEMMA RememberIsItsOwn ==
  ASSUME TypeOK, [Next]_vars, NEW t \in Thread, call[t].pc = "remember", call'[t].pc = "end",
         routes' # routes
  PROVE  rememberPush(t)
<1> USE DEF liveVars, gateVars, jobVars
<1>1. CASE \E u \in Thread : rememberPush(u)
  <2> SUFFICES ASSUME NEW u \in Thread, rememberPush(u) PROVE u = t
    BY <1>1
  <2>1. QED
    BY DEF rememberPush, TypeOK
<1>2. CASE \E s \in Slug : forgetRoutes(s)
  <2> SUFFICES ASSUME NEW s \in Slug, forgetRoutes(s) PROVE FALSE
    BY <1>2
  <2>1. call'[t].pc = call[t].pc
    BY DEF forgetRoutes, TypeOK, Call
  <2>2. QED
    BY <2>1
<1>3. CASE Environment
  <2>1. CASE \E s \in Slug : LaneStarts(s) \/ LaneEnds(s) \/ PlayoutCut(s) \/ LoopDrops(s)
    BY <2>1 DEF LaneStarts, LaneEnds, PlayoutCut, LoopDrops
  <2>2. CASE \E c \in Caller, id \in PushId : Push(c, id)
    BY <2>2 DEF Push
  <2>3. CASE \E g \in Gens : FeedFails(g)
    BY <2>3 DEF FeedFails, JobOnly
  <2>4. CASE \E id \in dying : ProcessDies(id)
    BY <2>4 DEF ProcessDies
  <2>5. CASE \E l \in Listener : StreamEnds(l) \/ CloseStream(l) \/ \E p \in Pair : OpenStream(l, p)
    BY <2>5 DEF StreamEnds, CloseStream, OpenStream
  <2>6. QED
    BY <1>3, <2>1, <2>2, <2>3, <2>4, <2>5 DEF Environment
<1>4. CASE \E s \in Slug : LaneWorks(s)
  <2> SUFFICES ASSUME NEW s \in Slug, LaneWorks(s) PROVE routes' = routes \/ forgetRoutes(s)
    BY <1>2, <1>4
  <2>1. CASE FinishSnapshot(s)
    BY <2>1, Zenon DEF FinishSnapshot
  <2>2. CASE stopSession(s)
    BY <2>2, Zenon DEF stopSession
  <2>3. CASE ~(FinishSnapshot(s) \/ stopSession(s))
    BY <2>3 DEF LaneWorks, Create, StartHLS, Created, LaneRuns, Played, RetireGate, ReplaysDrained,
       ResetReturns
  <2>4. QED
    BY <2>1, <2>2, <2>3
<1>5. CASE \E u \in Thread : CallWorks(u)
  <2> SUFFICES ASSUME NEW u \in Thread, CallWorks(u) PROVE routes' = routes \/ rememberPush(u)
    BY <1>1, <1>5
  <2>1. CASE beginStart(u)
    BY <2>1, Zenon DEF beginStart
  <2>2. CASE Admit(u)
    BY <2>2, Zenon DEF Admit
  <2>3. CASE ~(beginStart(u) \/ Admit(u))
    BY <2>3 DEF CallWorks, Dispatch, CancelOld, OldReaped, Start, AdmitRefused
  <2>4. QED
    BY <2>1, <2>2, <2>3
<1>6. CASE \E r \in Creation : ReplayWorks(r)
  <2> SUFFICES ASSUME NEW r \in Creation, ReplayWorks(r) PROVE routes' = routes
    BY <1>6
  <2>1. CASE pushRoutes(r)
    BY <2>1, Zenon DEF pushRoutes
  <2>2. CASE ~pushRoutes(r)
    BY <2>2 DEF ReplayWorks, Relaunch, ReplayDone
  <2>3. QED
    BY <2>1, <2>2
<1>7. CASE \E g \in Gens : JobWorks(g)
  BY <1>7 DEF JobWorks, FeedEnds, JobOnly, ReattachGone, Reattach, ReopenEnds, ReopenTries,
     Restart, CloseDone, retireJob
<1>8. CASE UNCHANGED vars
  BY <1>8 DEF vars
<1>9. QED
  BY <1>3, <1>4, <1>5, <1>6, <1>7, <1>8 DEF Next

\* rememberPush: what a Drop ran through is remembered only by a session that was
\* created again.
THEOREM DroppedPushesAreForgotten == Spec => DroppedPushForgotten
<1>1. Init => Counted
  BY DEF Init, Counted, CountedAt, Idle
<1>2. AInv /\ Counted /\ [Next]_vars => Counted'
  BY CountNext DEF AInv
<1>3. AInv /\ Counted /\ [Next]_vars =>
        [\A t \in Thread :
           /\ call[t].pc = "remember" /\ call[t].stale
           /\ call'[t].pc = "end"
           /\ routes' # routes
           => gates[SlugOf(call[t].id)] # 0]_vars
  <2> SUFFICES ASSUME AInv, Counted, [Next]_vars, NEW t \in Thread, call[t].pc = "remember",
                      call[t].stale, call'[t].pc = "end", routes' # routes
               PROVE  gates[SlugOf(call[t].id)] # 0
    OBVIOUS
  <2>1. rememberPush(t)
    BY RememberIsItsOwn DEF AInv
  <2>2. call[t].seen # teardowns
    BY DEF Counted, CountedAt, AInv, TypeOK, Call
  <2>3. QED
    BY <2>1, <2>2 DEF rememberPush, Forgotten
<1>4. QED
  BY <1>1, <1>2, <1>3, RegistryInvariant, PTL DEF Spec, DroppedPushForgotten
=============================================================================
