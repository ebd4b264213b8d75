---------------------------- MODULE AudioRegistry ----------------------------
(***************************************************************************)
(* The dubbed-audio playout registry (internal/media/egress/audio): which  *)
(* encoder processes run for a session, which push routes it remembers,    *)
(* and how a session's teardown gets through all of them.                  *)
(*                                                                         *)
(* Two locks.  A section under live.mu is one step.  startMu serialises    *)
(* the launches end to end, over several such sections, and the teardown   *)
(* waits for jobs while it holds it; a launch or a teardown that is past   *)
(* the lock is in Holding or in pc "reap".                                 *)
(*                                                                         *)
(* Who acts, in any interleaving:                                          *)
(*   - lane[s]: the one lane, or the event loop between two lanes, that    *)
(*     creates a session's pairs, starts its renditions, waits the playout *)
(*     out and resets or drops it (SessionRuntime: never two at a time);   *)
(*   - call[t]: a launch, by a Push request, by that lane for a rendition, *)
(*     or by the replay goroutine a Create started;                        *)
(*   - job[g]: the goroutine of encoder job g, and its process;            *)
(*   - stream[l]: an HTTP request reading a pair's transport stream.       *)
(*                                                                         *)
(* A template is the number of the Create that registered it; a gate has a *)
(* number of its own.  A process is running while its job is at "feed".    *)
(* pairBusy is left out: it makes the goroutine poll again.                *)
(***************************************************************************)
EXTENDS Naturals, FiniteSets

CONSTANTS
  Slug, Lang,
  Target,     \* push targets
  Device,     \* those that are audio devices: their sink is reopened
  Camera,     \* those that are native video devices: their job is self-fed
  MaxTargets, \* maxPushTargetsPerPair
  Caller,     \* model bound: Push requests, each made once
  Listener,   \* model bound: ServeTS requests, each made once
  Rendered,   \* model bound: sessions with an HLS tree
  MaxCreate,  \* model bound: pairs ever created
  MaxDrop,    \* model bound: drops by the event loop
  MayRebuild  \* model bound: a lane may be rebuilt over its own pairs

AudioAssumption ==
  /\ Device \subseteq Target /\ Camera \subseteq Target /\ Device \cap Camera = {}
  /\ "hls" \notin Target
  /\ Rendered \subseteq Slug
  /\ MaxTargets \in Nat \ {0} /\ MaxCreate \in Nat /\ MaxDrop \in Nat
  /\ MayRebuild \in BOOLEAN
ASSUME AudioAssumption

Pair == Slug \X Lang
PushId == Pair \X Target
JobId == Pair \X (Target \cup {"hls"})

PairOf(id) == id[1]
SlugOf(id) == id[1][1]
SelfFed(id) == id[2] \in Camera

Creation == 1 .. MaxCreate
Thread == ({"push"} \X Caller) \cup ({"hls"} \X Slug) \cup ({"replay"} \X Creation)

VARIABLES
  gates,     \* liveState.gates: slug -> number of its gate, or 0
  dead,      \* gates whose context is cancelled
  finishing, \* gates that admit nothing any more
  nextGate,  \* gates made so far
  pairs,     \* liveState.pairs: pair -> its template, or 0
  jobs,      \* liveState.jobs: id -> the job registered under it, or 0
  routes,    \* liveState.routes: the remembered pushes
  teardowns, \* liveState.teardowns
  streams,   \* liveState.streams: the requests registered
  job,       \* every job ever admitted, by generation
  nextJob,   \* liveState.nextJob
  lane,      \* slug -> what its lane or the loop is doing
  call,      \* thread -> the launch it is in
  replay,    \* creation -> its replay goroutine
  creates,   \* creations so far (bounded by MaxCreate)
  stream,    \* listener -> its request
  dying      \* pushes of native video with a process that was cancelled and is not awaited

gateVars == <<gates, dead, finishing, nextGate>>
jobVars == <<job, nextJob>>
liveVars == <<gateVars, pairs, jobs, routes, teardowns, streams>>
vars == <<liveVars, jobVars, lane, call, replay, creates, stream, dying>>

Idle == [pc |-> "off", id |-> <<>>, seen |-> 0, answer |-> "none", stale |-> FALSE, old |-> 0]

NoReplay == [pc |-> "none", gate |-> 0, pair |-> <<>>, todo |-> {}]

LaneOff == [pc |-> "off", todo |-> {}, drop |-> FALSE, gate |-> 0,
            jobs |-> {}, streams |-> {}]

Init ==
  /\ gates = [s \in Slug |-> 0]
  /\ dead = {} /\ finishing = {} /\ nextGate = 0
  /\ pairs = [p \in Pair |-> 0]
  /\ jobs = [id \in JobId |-> 0]
  /\ routes = {}
  /\ teardowns = 0
  /\ streams = {}
  /\ job = [g \in {} |-> Idle]
  /\ nextJob = 0
  /\ lane = [s \in Slug |-> LaneOff]
  /\ call = [t \in Thread |-> Idle]
  /\ replay = [r \in Creation |-> NoReplay]
  /\ creates = 0
  /\ stream = [l \in Listener |-> [pc |-> "off", gate |-> 0, pair |-> <<>>, template |-> 0]]
  /\ dying = {}

-----------------------------------------------------------------------------
(* What the sections under live.mu ask.                                    *)

Gens == 1 .. nextJob

\* The steps of a launch during which it holds startMu.
Holding == {"cancel", "reap", "start", "admit"}

StartMuFree ==
  /\ \A t \in Thread : call[t].pc \notin Holding
  /\ \A s \in Slug : lane[s].pc # "reap"

\* A liveGateLocked that would admit while the session ends.
LiveGateThoughFinishing(s) == gates[s] # 0

\* liveGateLocked: admission needs a gate that is not finishing.
liveGateLocked(s) == gates[s] # 0 /\ gates[s] \notin finishing

\* admitPushTargetLocked: the union of live jobs and remembered routes.
PushTargets(p) == {id \in PushId : PairOf(id) = p /\ (jobs[id] # 0 \/ id \in routes)}

admitPushTargetLocked(id) ==
  id \in PushTargets(PairOf(id)) \/ Cardinality(PushTargets(PairOf(id))) < MaxTargets

pairGone(p) == pairs[p] = 0 \/ ~liveGateLocked(p[1])

\* The lane that made template r has ended: its tracks are finished.
Finished(p, r) ==
  pairs[p] # r \/ lane[p[1]].pc \notin {"create", "hls", "live"}

Alive(g) == job[g].pc = "feed"

-----------------------------------------------------------------------------
(* The lane of a session, and the event loop between its lanes.            *)

LaneAt(s, pc) == lane' = [lane EXCEPT ![s].pc = pc]

\* Pairs a lane is about to create.
Pending == {p \in Pair : lane[p[1]].pc = "create" /\ p[2] \in lane[p[1]].todo}

LaneStarts(s) ==
  /\ lane[s].pc = "off" \/ (MayRebuild /\ lane[s].pc = "live")
  /\ creates + Cardinality(Pending) + Cardinality(Lang) <= MaxCreate
  /\ lane' = [lane EXCEPT ![s] = [LaneOff EXCEPT !.pc = "create", !.todo = Lang]]
  /\ UNCHANGED <<liveVars, jobVars, call, replay, creates, stream, dying>>

\* Create: publish the pair and enroll one replay in its gate's drain.
Create(s, l) ==
  LET g == IF gates[s] = 0 THEN nextGate + 1 ELSE gates[s]
      r == creates + 1
  IN  /\ lane[s].pc = "create" /\ l \in lane[s].todo
      /\ gates' = [gates EXCEPT ![s] = g]
      /\ nextGate' = IF gates[s] = 0 THEN g ELSE nextGate
      /\ pairs' = [pairs EXCEPT ![<<s, l>>] = r]
      /\ replay' = [replay EXCEPT ![r] =
           [pc |-> "list", gate |-> g, pair |-> <<s, l>>, todo |-> {}]]
      /\ creates' = r
      /\ lane' = [lane EXCEPT ![s].todo = @ \ {l}]
      /\ UNCHANGED <<dead, finishing, jobs, routes, teardowns, streams, jobVars, call, stream, dying>>

Created(s) ==
  /\ lane[s].pc = "create" /\ lane[s].todo = {}
  /\ lane' = [lane EXCEPT ![s].pc = "hls", ![s].todo = IF s \in Rendered THEN Lang ELSE {}]
  /\ UNCHANGED <<liveVars, jobVars, call, replay, creates, stream, dying>>

\* StartHLS: a failure costs that rendition, never the lane.
StartHLS(s, l) ==
  LET t == <<"hls", s>>
  IN  /\ lane[s].pc = "hls" /\ l \in lane[s].todo
      /\ call[t].pc = "off"
      /\ call' = [call EXCEPT ![t].pc = "dispatch", ![t].id = <<<<s, l>>, "hls">>]
      /\ lane' = [lane EXCEPT ![s].todo = @ \ {l}]
      /\ UNCHANGED <<liveVars, jobVars, replay, creates, stream, dying>>

LaneRuns(s) ==
  /\ lane[s].pc = "hls" /\ lane[s].todo = {} /\ call[<<"hls", s>>].pc = "off"
  /\ LaneAt(s, "live")
  /\ UNCHANGED <<liveVars, jobVars, call, replay, creates, stream, dying>>

\* The source ends cleanly, or the lane is cancelled or fails (Outputs.Scrub).
LaneEnds(s) ==
  /\ lane[s].pc = "live"
  /\ LaneAt(s, "finish") \/ LaneAt(s, "retire")
  /\ UNCHANGED <<liveVars, jobVars, call, replay, creates, stream, dying>>

\* finishSnapshot: close admission and note who is still playing.
FinishSnapshot(s) ==
  LET mixed == {g \in Gens : jobs[job[g].id] = g /\ SlugOf(job[g].id) = s /\ ~SelfFed(job[g].id)}
  IN  /\ lane[s].pc = "finish"
      /\ StartMuFree
      /\ IF gates[s] = 0 THEN LaneAt(s, "played") /\ UNCHANGED finishing
         ELSE /\ finishing' = finishing \cup {gates[s]}
              /\ lane' = [lane EXCEPT ![s].pc = "playing", ![s].jobs = mixed,
                            ![s].streams = {l \in streams : stream[l].pair[1] = s}]
      /\ UNCHANGED <<gates, dead, nextGate, pairs, jobs, routes, teardowns, streams,
                     jobVars, call, replay, creates, stream, dying>>

JobClosed(g) == job[g].pc \in {"done", "gone"}

\* WaitPlayout: every job and stream it noted has closed its done channel ...
Played(s) ==
  /\ lane[s].pc = "playing"
  /\ \A g \in lane[s].jobs : JobClosed(g)
  /\ \A l \in lane[s].streams : stream[l].pc \in {"done", "gone"}
  /\ LaneAt(s, "played")
  /\ UNCHANGED <<liveVars, jobVars, call, replay, creates, stream, dying>>

\* ... or the lane is cancelled meanwhile; in both cases it drops the session.
PlayoutCut(s) ==
  /\ lane[s].pc = "playing"
  /\ lane' = [lane EXCEPT ![s].pc = "retire", ![s].drop = TRUE]
  /\ UNCHANGED <<liveVars, jobVars, call, replay, creates, stream, dying>>

\* Between two lanes the loop drops the session (clean) or the next lane
\* scrubs what is left of it (Reset).
LoopDrops(s) ==
  /\ lane[s].pc = "off"
  /\ \/ lane' = [lane EXCEPT ![s].pc = "retire"]
     \/ teardowns < MaxDrop /\ lane' = [lane EXCEPT ![s].pc = "retire", ![s].drop = TRUE]
  /\ UNCHANGED <<liveVars, jobVars, call, replay, creates, stream, dying>>

\* Reset: the gate first ...
RetireGate(s) ==
  LET g == gates[s]
  IN  /\ lane[s].pc \in {"retire", "played"}
      /\ lane' = [lane EXCEPT ![s].pc = IF g = 0 THEN "lock" ELSE "drain", ![s].gate = g,
                              ![s].drop = @ \/ lane[s].pc = "played"]
      /\ dead' = IF g = 0 THEN dead ELSE dead \cup {g}
      /\ gates' = [gates EXCEPT ![s] = 0]
      /\ UNCHANGED <<finishing, nextGate, pairs, jobs, routes, teardowns, streams,
                     jobVars, call, replay, creates, stream, dying>>

\* ... then its replays, before startMu ...
ReplaysDrained(s) ==
  /\ lane[s].pc = "drain"
  /\ \A r \in Creation : replay[r].gate = lane[s].gate => replay[r].pc = "end"
  /\ LaneAt(s, "lock")
  /\ UNCHANGED <<liveVars, jobVars, call, replay, creates, stream, dying>>

\* ... then, under startMu, the pairs, the jobs and the streams.
stopSession(s) ==
  LET mine == {g \in Gens : jobs[job[g].id] = g /\ SlugOf(job[g].id) = s}
  IN  /\ lane[s].pc = "lock"
      /\ StartMuFree
      /\ pairs' = [p \in Pair |-> IF p[1] = s THEN 0 ELSE pairs[p]]
      /\ jobs' = [id \in JobId |-> IF SlugOf(id) = s THEN 0 ELSE jobs[id]]
      /\ job' = [g \in Gens |-> IF g \in mine THEN [job[g] EXCEPT !.cancelled = TRUE] ELSE job[g]]
      /\ dead' = IF gates[s] = 0 THEN dead ELSE dead \cup {gates[s]}
      /\ gates' = [gates EXCEPT ![s] = 0]
      /\ streams' = {l \in streams : stream[l].pair[1] # s}
      /\ lane' = [lane EXCEPT ![s].pc = "reap", ![s].jobs = mine]
      /\ UNCHANGED <<finishing, nextGate, routes, teardowns, nextJob, call, replay, creates, stream, dying>>

\* A Reset that would not wait for the jobs it cancels.
ResetReturnsAtOnce(s) ==
  /\ lane[s].pc = "reap"
  /\ lane' = [lane EXCEPT ![s] = IF lane[s].drop THEN [LaneOff EXCEPT !.pc = "forget"] ELSE LaneOff]
  /\ UNCHANGED <<liveVars, jobVars, call, replay, creates, stream, dying>>

ResetReturns(s) ==
  /\ lane[s].pc = "reap"
  /\ \A g \in lane[s].jobs : JobClosed(g)
  /\ lane' = [lane EXCEPT ![s] = IF lane[s].drop THEN [LaneOff EXCEPT !.pc = "forget"] ELSE LaneOff]
  /\ UNCHANGED <<liveVars, jobVars, call, replay, creates, stream, dying>>

\* Drop forgets the routes; .stale marks the requests it ran through.
forgetRoutes(s) ==
  /\ lane[s].pc = "forget"
  /\ routes' = {id \in routes : SlugOf(id) # s}
  /\ teardowns' = teardowns + 1
  /\ lane' = [lane EXCEPT ![s] = LaneOff]
  /\ call' = [t \in Thread |->
       IF t[1] = "push" /\ call[t].pc \notin {"off", "end"} /\ SlugOf(call[t].id) = s
         THEN [call[t] EXCEPT !.stale = TRUE] ELSE call[t]]
  /\ UNCHANGED <<gateVars, pairs, jobs, streams, jobVars, replay, creates, stream, dying>>

-----------------------------------------------------------------------------
(* One launch: launchMixFedJob or launchSelfFedJob, and the push around it. *)

CallAt(t, pc) == call' = [call EXCEPT ![t].pc = pc]

\* Only a requested push that started or was not ready is remembered.
Return(t, answer) ==
  call' = IF t[1] # "push" THEN [call EXCEPT ![t] = Idle]
          ELSE [call EXCEPT ![t].pc = IF answer = "refused" THEN "end" ELSE "remember",
                            ![t].answer = answer, ![t].old = 0]

\* Push samples the teardowns before it dispatches.
Push(c, id) ==
  LET t == <<"push", c>>
  IN  /\ call[t] = Idle
      /\ id \in PushId
      /\ call' = [call EXCEPT ![t].pc = "dispatch", ![t].id = id, ![t].seen = teardowns]
      /\ UNCHANGED <<liveVars, jobVars, lane, replay, creates, stream, dying>>

\* No ffmpeg, or no video rendition yet, is an answer of its own.
Dispatch(t) ==
  /\ call[t].pc = "dispatch"
  /\ CallAt(t, "begin") \/ Return(t, "notReady") \/ Return(t, "refused")
  /\ UNCHANGED <<liveVars, jobVars, lane, replay, creates, stream, dying>>

\* Take startMu; admit the launch and detach its predecessor in one section.
beginStart(t) ==
  LET id == call[t].id
      p == PairOf(id)
      unknown == ~SelfFed(id) /\ pairs[p] = 0
      full == id \in PushId /\ ~admitPushTargetLocked(id)
  IN  /\ call[t].pc = "begin"
      /\ StartMuFree
      /\ \/ unknown /\ Return(t, "noAudio") /\ UNCHANGED jobs
         \/ ~unknown /\ full /\ Return(t, "refused") /\ UNCHANGED jobs
         \/ /\ ~unknown /\ ~full /\ ~liveGateLocked(p[1])
            /\ Return(t, "notReady") /\ UNCHANGED jobs
         \/ /\ ~unknown /\ ~full /\ liveGateLocked(p[1])
            /\ jobs' = [jobs EXCEPT ![id] = 0]
            /\ call' = [call EXCEPT ![t].pc = IF jobs[id] = 0 THEN "start" ELSE "cancel",
                                    ![t].old = jobs[id]]
      /\ UNCHANGED <<gateVars, pairs, routes, teardowns, streams, jobVars, lane, replay, creates, stream, dying>>

\* reapJob: cancel the predecessor and wait for its teardown.
CancelOld(t) ==
  /\ call[t].pc = "cancel"
  /\ job' = [job EXCEPT ![call[t].old].cancelled = TRUE]
  /\ CallAt(t, "reap")
  /\ UNCHANGED <<liveVars, nextJob, lane, replay, creates, stream, dying>>

\* A launch that would not wait for the process it replaces.
OldNotAwaited(t) ==
  /\ call[t].pc = "reap"
  /\ CallAt(t, "start")
  /\ UNCHANGED <<liveVars, jobVars, lane, replay, creates, stream, dying>>

OldReaped(t) ==
  /\ call[t].pc = "reap"
  /\ JobClosed(call[t].old)
  /\ CallAt(t, "start")
  /\ UNCHANGED <<liveVars, jobVars, lane, replay, creates, stream, dying>>

\* The process starts, or the launch fails with an error nobody remembers.
Start(t) ==
  /\ call[t].pc = "start"
  /\ CallAt(t, "admit") \/ Return(t, "refused")
  /\ UNCHANGED <<liveVars, jobVars, lane, replay, creates, stream, dying>>

\* admitMixFedJob, admitSelfFedJob.
Admissible(id) == liveGateLocked(SlugOf(id)) /\ (SelfFed(id) \/ pairs[PairOf(id)] # 0)

Admit(t) ==
  LET id == call[t].id
      g == nextJob + 1
      new == [id |-> id, template |-> pairs[PairOf(id)], cancelled |-> FALSE, pc |-> "feed"]
  IN  /\ call[t].pc = "admit"
      /\ Admissible(id)
      /\ nextJob' = g
      /\ job' = [h \in Gens \cup {g} |-> IF h = g THEN new ELSE job[h]]
      /\ jobs' = [jobs EXCEPT ![id] = g]
      /\ Return(t, "started")
      /\ UNCHANGED <<gateVars, pairs, routes, teardowns, streams, lane, replay, creates, stream, dying>>

\* A mix-fed process is closed, which waits for it; a self-fed one is only
\* cancelled, and joins those of its target that are dying already.
AdmitRefused(t) ==
  LET id == call[t].id
  IN  /\ call[t].pc = "admit"
      /\ ~Admissible(id)
      /\ dying' = IF SelfFed(id) THEN dying \cup {id} ELSE dying
      /\ Return(t, "notReady")
      /\ UNCHANGED <<liveVars, jobVars, lane, replay, creates, stream>>

ProcessDies(id) ==
  /\ id \in dying
  /\ dying' = dying \ {id}
  /\ UNCHANGED <<liveVars, jobVars, lane, call, replay, creates, stream>>

\* A Forgotten that would compare no counts.
NeverForgotten(t) == FALSE

\* rememberPush: the gate or an unchanged count of teardowns, then the bound.
Forgotten(t) == gates[SlugOf(call[t].id)] = 0 /\ call[t].seen # teardowns

rememberPush(t) ==
  LET id == call[t].id
      full == call[t].answer # "started" /\ ~admitPushTargetLocked(id)
  IN  /\ call[t].pc = "remember"
      /\ routes' = IF Forgotten(t) \/ full THEN routes ELSE routes \cup {id}
      /\ call' = [call EXCEPT ![t].pc = "end"]
      /\ UNCHANGED <<gateVars, pairs, jobs, teardowns, streams, jobVars, lane, replay, creates, stream, dying>>

-----------------------------------------------------------------------------
(* The replay goroutine of one Create: relaunchRoutes, then replays.Done.  *)

pushRoutes(r) ==
  /\ replay[r].pc = "list"
  /\ replay' = [replay EXCEPT ![r].pc = "next",
                  ![r].todo = {id \in routes : PairOf(id) = replay[r].pair}]
  /\ UNCHANGED <<liveVars, jobVars, lane, call, creates, stream, dying>>

\* A failure keeps the route for the next rebuild.
Relaunch(r, id) ==
  LET t == <<"replay", r>>
  IN  /\ replay[r].pc = "next" /\ id \in replay[r].todo
      /\ call[t].pc = "off"
      /\ replay[r].gate \notin dead
      /\ replay' = [replay EXCEPT ![r].todo = @ \ {id}]
      /\ call' = [call EXCEPT ![t].pc = "dispatch", ![t].id = id]
      /\ UNCHANGED <<liveVars, jobVars, lane, creates, stream, dying>>

ReplayDone(r) ==
  /\ replay[r].pc = "next"
  /\ call[<<"replay", r>>].pc = "off"
  /\ replay[r].todo = {} \/ replay[r].gate \in dead
  /\ replay' = [replay EXCEPT ![r].pc = "end", ![r].todo = {}]
  /\ UNCHANGED <<liveVars, jobVars, lane, call, creates, stream, dying>>

-----------------------------------------------------------------------------
(* One job goroutine.                                                      *)

JobAt(g, pc) == job' = [job EXCEPT ![g].pc = pc]

JobOnly(g, from, pc) ==
  /\ job[g].pc = from
  /\ JobAt(g, pc)
  /\ UNCHANGED <<liveVars, nextJob, lane, call, replay, creates, stream, dying>>

IsDevice(g) == job[g].id[2] \in Device

\* The feed returns once it closed its sink: at EOF of the template, cancelled,
\* or with an error, which a device sink outlives.
FeedEnds(g) ==
  \/ job[g].cancelled /\ JobOnly(g, "feed", "ended")
  \/ /\ ~job[g].cancelled /\ ~SelfFed(job[g].id)
     /\ Finished(PairOf(job[g].id), job[g].template)
     /\ JobOnly(g, "feed", "eof")

FeedFails(g) ==
  /\ ~job[g].cancelled
  /\ IF IsDevice(g) THEN JobOnly(g, "feed", "reopen") ELSE JobOnly(g, "feed", "ended")

\* reattachEncoder: the session is gone, or its pair was rebuilt.
ReattachGone(g) ==
  /\ job[g].cancelled \/ pairGone(PairOf(job[g].id))
  /\ JobOnly(g, "eof", "ended")

Reattach(g) ==
  LET p == PairOf(job[g].id)
  IN  /\ job[g].pc = "eof"
      /\ ~pairGone(p) /\ pairs[p] # job[g].template
      /\ job' = [job EXCEPT ![g].template = pairs[p],
                            ![g].pc = IF IsDevice(g) THEN "reopen" ELSE "restart"]
      /\ UNCHANGED <<liveVars, nextJob, lane, call, replay, creates, stream, dying>>

\* A reopening that would not look at its pair.
ReopenBlind(g) ==
  /\ job[g].cancelled
  /\ JobOnly(g, "reopen", "ended")

\* reopenDeviceSink: look at the pair before every attempt; the pause between
\* two attempts ends with the job's context.
ReopenEnds(g) ==
  /\ job[g].cancelled \/ pairGone(PairOf(job[g].id))
  /\ JobOnly(g, "reopen", "ended")

ReopenTries(g) == ~pairGone(PairOf(job[g].id)) /\ JobOnly(g, "reopen", "restart")

\* A device that does not open is tried again after a pause, if nobody cancelled.
Restart(g) ==
  \/ JobOnly(g, "restart", "feed")
  \/ IF IsDevice(g) /\ ~job[g].cancelled
       THEN JobOnly(g, "restart", "reopen") ELSE JobOnly(g, "restart", "ended")

\* The cursor is released, then done is closed.
CloseDone(g) == JobOnly(g, "ended", "done")

\* retireJob: a dead job never deregisters its replacement.
retireJob(g) ==
  LET id == job[g].id
  IN  /\ job[g].pc = "done"
      /\ jobs' = IF jobs[id] = g THEN [jobs EXCEPT ![id] = 0] ELSE jobs
      /\ job' = [job EXCEPT ![g].pc = "gone", ![g].cancelled = TRUE]
      /\ UNCHANGED <<gateVars, pairs, routes, teardowns, streams, nextJob, lane, call, replay, creates, stream, dying>>

-----------------------------------------------------------------------------
(* One ServeTS request.                                                    *)

OpenStream(l, p) ==
  /\ stream[l].pc = "off"
  /\ ~pairGone(p)
  /\ stream' = [stream EXCEPT ![l] = [pc |-> "open", gate |-> gates[p[1]], pair |-> p, template |-> pairs[p]]]
  /\ streams' = streams \cup {l}
  /\ UNCHANGED <<gateVars, pairs, jobs, routes, teardowns, jobVars, lane, call, replay, creates, dying>>

StreamAt(l, from, pc) == stream[l].pc = from /\ stream' = [stream EXCEPT ![l].pc = pc]

\* The client leaves, the session's gate is cancelled, or the mix is at EOF.
StreamMustEnd(l) ==
  /\ stream[l].pc = "open"
  /\ stream[l].gate \in dead \/ Finished(stream[l].pair, stream[l].template)

StreamEnds(l) ==
  /\ StreamAt(l, "open", "done")
  /\ UNCHANGED <<liveVars, jobVars, lane, call, replay, creates, dying>>

CloseStream(l) ==
  /\ StreamAt(l, "done", "gone")
  /\ streams' = streams \ {l}
  /\ UNCHANGED <<gateVars, pairs, jobs, routes, teardowns, jobVars, lane, call, replay, creates, dying>>

-----------------------------------------------------------------------------
(* The specification.                                                      *)

LaneWorks(s) ==
  \/ \E l \in Lang : Create(s, l) \/ StartHLS(s, l)
  \/ Created(s) \/ LaneRuns(s)
  \/ FinishSnapshot(s) \/ Played(s)
  \/ RetireGate(s) \/ ReplaysDrained(s) \/ stopSession(s) \/ ResetReturns(s)
  \/ forgetRoutes(s)

CallWorks(t) ==
  \/ Dispatch(t) \/ beginStart(t) \/ CancelOld(t) \/ OldReaped(t)
  \/ Start(t) \/ Admit(t) \/ AdmitRefused(t) \/ rememberPush(t)

ReplayWorks(r) == pushRoutes(r) \/ (\E id \in PushId : Relaunch(r, id)) \/ ReplayDone(r)

JobWorks(g) ==
  /\ g \in Gens
  /\ \/ FeedEnds(g) \/ ReattachGone(g) \/ Reattach(g)
     \/ ReopenEnds(g) \/ ReopenTries(g) \/ Restart(g)
     \/ CloseDone(g) \/ retireJob(g)

Environment ==
  \/ \E s \in Slug : LaneStarts(s) \/ LaneEnds(s) \/ PlayoutCut(s) \/ LoopDrops(s)
  \/ \E c \in Caller, id \in PushId : Push(c, id)
  \/ \E g \in Gens : FeedFails(g)
  \/ \E id \in dying : ProcessDies(id)
  \/ \E l \in Listener : StreamEnds(l) \/ CloseStream(l) \/ \E p \in Pair : OpenStream(l, p)

Next ==
  \/ Environment
  \/ \E s \in Slug : LaneWorks(s)
  \/ \E t \in Thread : CallWorks(t)
  \/ \E r \in Creation : ReplayWorks(r)
  \/ \E g \in Gens : JobWorks(g)

Spec == Init /\ [][Next]_vars

(***************************************************************************)
(* Every goroutine is scheduled, and sync.Mutex starves no waiter: a launch*)
(* or a teardown at startMu has its turn.  A feed whose context is         *)
(* cancelled closes its sink, which releases a blocked write (feed.go      *)
(* ticks); one whose template is finished reaches EOF, that is, its sink   *)
(* takes what is left: a device that does not is severed by its stall      *)
(* guard.  A reader whose gate is cancelled or whose mix has ended leaves. *)
(* Nothing makes a client, a source or a process act, or a reopen succeed. *)
(***************************************************************************)
MaxJobs == Cardinality(Caller) + MaxCreate * (1 + Cardinality(PushId))

Fairness ==
  /\ \A s \in Slug : WF_vars(LaneWorks(s)) /\ SF_vars(FinishSnapshot(s) \/ stopSession(s))
  /\ \A t \in Thread : WF_vars(CallWorks(t)) /\ SF_vars(beginStart(t))
  /\ \A r \in Creation : WF_vars(ReplayWorks(r))
  /\ \A g \in 1 .. MaxJobs : WF_vars(JobWorks(g))
  /\ \A l \in Listener :
       /\ WF_vars(CloseStream(l))
       /\ WF_vars(StreamMustEnd(l) /\ StreamEnds(l))

FairSpec == Spec /\ Fairness

-----------------------------------------------------------------------------
(* Properties.                                                             *)

CallPc == {"off", "dispatch", "begin", "cancel", "reap", "start", "admit", "remember", "end"}

Call == [pc : CallPc, id : JobId \cup {<<>>}, seen : Nat, stale : BOOLEAN, old : Nat,
         answer : {"none", "started", "notReady", "noAudio", "refused"}]

Job == [id : JobId, template : Nat, cancelled : BOOLEAN,
        pc : {"feed", "eof", "reopen", "restart", "ended", "done", "gone"}]

LanePc == {"off", "create", "hls", "live", "finish", "playing", "played",
           "retire", "drain", "lock", "reap", "forget"}

Lane == [pc : LanePc, todo : SUBSET Lang, drop : BOOLEAN, gate : Nat,
         jobs : SUBSET Nat, streams : SUBSET Listener]

Replay == [pc : {"none", "list", "next", "end"}, gate : Nat,
           pair : Pair \cup {<<>>}, todo : SUBSET PushId]

Stream == [pc : {"off", "open", "done", "gone"}, gate : Nat,
           pair : Pair \cup {<<>>}, template : Nat]

\* The shape of every variable.
TypeOK ==
  /\ gates \in [Slug -> Nat] /\ dead \subseteq Nat /\ finishing \subseteq Nat
  /\ nextGate \in Nat /\ nextJob \in Nat /\ creates \in Nat /\ teardowns \in Nat
  /\ pairs \in [Pair -> Nat]
  /\ jobs \in [JobId -> Nat]
  /\ routes \subseteq PushId
  /\ streams \subseteq Listener
  /\ job \in [Gens -> Job]
  /\ lane \in [Slug -> Lane]
  /\ call \in [Thread -> Call]
  /\ replay \in [Creation -> Replay]
  /\ stream \in [Listener -> Stream]
  /\ dying \subseteq PushId

\* launchMixFedJob, launchSelfFedJob: a target has one process at work, though
\* pushes, replays and device recoveries of the same target race.  No two jobs feed
\* it, no two launches hold a process for it, and none does while a job feeds it.
\* A process that launchSelfFedJob has cancelled and waits for no more is not at
\* work, and may run beside the next one until it dies (see OneProcessPerTarget).
OneProcessAtWork ==
  /\ \A g, h \in Gens : Alive(g) /\ Alive(h) /\ job[g].id = job[h].id => g = h
  /\ \A t, u \in Thread :
       call[t].pc = "admit" /\ call[u].pc = "admit" /\ call[t].id = call[u].id => t = u
  /\ \A g \in Gens, t \in Thread : Alive(g) /\ call[t].pc = "admit" => job[g].id # call[t].id

\* retireJob, beginStart: a job that works on without being cancelled is the one
\* registered under its identity, or its replacement is about to cancel it.
NoJobEscapes ==
  \A g \in Gens :
    job[g].pc \in {"feed", "eof", "reopen", "restart"} /\ ~job[g].cancelled =>
      \/ jobs[job[g].id] = g
      \/ \E t \in Thread : call[t].pc = "cancel" /\ call[t].old = g

\* launchMixFedJob and launchSelfFedJob, when an admission is refused: whatever the
\* registry lets run without a job is a native video's, which was cancelled; a
\* process fed from the mix has been waited for.
OnlyVideoIsLeftToDie == \A id \in dying : SelfFed(id)

\* Reset: once it has returned, until the next Create, no job of the session is
\* left, no launch past its admission and no replay; of its processes, at most
\* native videos that refused launches cancelled (see NothingRunsAfterReset).
QuietAfterReset ==
  \A s \in Slug :
    gates[s] = 0 /\ lane[s].pc \in {"off", "create", "forget"} =>
      /\ \A g \in Gens : SlugOf(job[g].id) = s => JobClosed(g)
      /\ \A t \in Thread : call[t].pc \in Holding => SlugOf(call[t].id) # s
      /\ \A r \in Creation : replay[r].pc \notin {"none", "end"} => replay[r].pair[1] # s
      /\ \A id \in dying : SlugOf(id) = s => SelfFed(id)

\* One process at work per push target, owned by the registry until it is gone, and
\* no job left when a Reset returns, whichever launches, restarts and deaths
\* overlap; what outlives its owner is a cancelled native video.
JobsAreOwned ==
  TypeOK /\ OneProcessAtWork /\ NoJobEscapes /\ OnlyVideoIsLeftToDie /\ QuietAfterReset

\* WaitPlayout: when it returns without an error, every mix-fed job and every
\* reader of the session has finished its sink, and none can join before the Drop.
PlayoutComplete ==
  \A s \in Slug :
    lane[s].pc = "played" =>
      /\ \A g \in Gens : SlugOf(job[g].id) = s /\ ~SelfFed(job[g].id) => JobClosed(g)
      /\ \A l \in Listener : stream[l].pc = "open" => stream[l].gate # gates[s]
      /\ \A t \in Thread : call[t].pc \in {"start", "admit"} => SlugOf(call[t].id) # s

\* rememberPush: a push that a Drop of its session ran through is remembered only
\* if the session was created again.
DroppedPushForgotten ==
  [][\A t \in Thread :
       /\ call[t].pc = "remember" /\ call[t].stale
       /\ call'[t].pc = "end"
       /\ routes' # routes
       => gates[SlugOf(call[t].id)] # 0]_vars

\* WaitPlayout, Reset and Drop return, whatever launches, replays, jobs and readers
\* they meet: the lock order, and a device that cannot be reopened.
TeardownEnds ==
  \A s \in Slug :
    lane[s].pc \in {"finish", "playing", "played", "retire", "drain", "lock", "reap", "forget"}
      ~> lane[s].pc = "off"

-----------------------------------------------------------------------------
(* What comments and tests claim and the code does not do.                 *)

\* audio.go:299 "maxPushTargetsPerPair bounds how many push targets one pair
\* admits": jobs and routes together never exceed it.
TargetsAreBounded ==
  \A p \in Pair : Cardinality(PushTargets(p)) <= MaxTargets

\* audio.go:569-571 and audio_internal_test.go:468 "an accepted push must always
\* be remembered": unless its own session was dropped meanwhile.
AcceptedIsRemembered ==
  [][\A t \in Thread :
       /\ call[t].pc = "remember" /\ ~call[t].stale
       /\ call'[t].pc = "end"
       /\ admitPushTargetLocked(call[t].id)
       => call[t].id \in routes']_vars

\* audio_internal_test.go:680 "want 0: the push re-recorded its intent after the
\* sweep": a push that a Drop ran through is not recorded.
DroppedStaysForgotten ==
  [][\A t \in Thread :
       /\ call[t].pc = "remember" /\ call[t].stale
       /\ call'[t].pc = "end"
       => routes' = routes]_vars

\* audio_internal_test.go:694 "want the not-ready intent kept for the lane to
\* replay": an intent recorded because the pair was missing finds no pair yet, or
\* one whose replay has still to list the routes.
KeptForTheLane ==
  [][\A t \in Thread :
       LET p == PairOf(call[t].id)
       IN  /\ call[t].pc = "remember" /\ call[t].answer = "noAudio"
           /\ call'[t].pc = "end" /\ routes' # routes
           => pairGone(p) \/ replay[pairs[p]].pc = "list"]_vars

\* audio_internal_test.go:595 "Drop returned before the encoder stopped", and
\* audio.go:481-483 of Reset, which takes startMu "or a launch parked between its
\* two lock phases would leak the process it already started": no process is left
\* when it has returned.
NothingRunsAfterReset ==
  \A s \in Slug :
    gates[s] = 0 /\ lane[s].pc = "off" => \A id \in dying : SlugOf(id) # s

\* audio.go:766-797: a launch of a native video awaits the job it replaces, and so
\* should find no process of an earlier launch on the device it opens.
OneProcessPerTarget ==
  /\ OneProcessAtWork
  /\ \A id \in dying :
       /\ \A g \in Gens : Alive(g) => job[g].id # id
       /\ \A t \in Thread : call[t].pc = "admit" => call[t].id # id
=============================================================================
