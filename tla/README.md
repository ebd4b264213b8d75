# TLA+ models of Prukka

Prukka is a daemon that takes live audio, transcribes it, translates it and
dubs it into other languages. These modules model the parts of it whose
correctness lies in the order in which goroutines, callbacks, channels, files
and processes act, and check and prove what must hold in every such order. Each
definition names the function of `src/` it is translated from; `PROJECT.json`
gives the lines, and lists the hazards with the properties that are about them.

## 1. Inventory

| Component | State it keeps | Operations | Talks to |
|---|---|---|---|
| Session store (`core/session/store.go`, `status.go`) | definitions by slug, each with a revision, a status and the lane generation bound to it; subscribers' channels | Create, updateLangs, Delete, bindRuntime, setRuntime, Subscribe | the control API writes; the runtime binds and reports; events are dropped when a buffer is full |
| Session runtime (`core/session/runtime.go`) | one registration per slug, the generation counter, one goroutine per lane, a reload signal | Run's select loop, launch, stop, stopAndWait, reconcile, reconfigure, scheduleRetry | store, lanes, outputs |
| Definitions (`core/session/flags.go`, `session.go`, `control/convert.go`, `providers/pivot`) | what a session asks for, on the wire and in the store | parse, default, validate, render, dub selection, admission | clients, store, configuration |
| Lane assembly (`lane/`) | its slot, engines, warm-up tasks, lazy source, outputs | start, warm, publish, drain, drop or scrub, close | runtime, registries, providers |
| Streaming lane (`core/realtime/`) | the transcription, a bounded queue and a worker per target, the committed prefix of a hypothesis | pump, consume, commit, fan out, translate, speak, flush | provider ports, sinks |
| Timeline and call queue (`core/pipeline/`) | spans on a track, cursors, the playout group; a queue with a head per sink | append, window, trim, wait, release, shed | sinks append, consumers read |
| Audio registry (`media/egress/audio/`) | per session: gate, playout templates, jobs, remembered routes, streams | Create, Push, ServeTS, WaitPlayout, Reset, Drop | lane, HTTP readers, media processes |
| Captions and HLS (`media/egress/hls`, `vtt`) | cue windows, parts, playlist, overlay file | cues, Write, Schedule, evict, Drop | caption sinks, players |
| Providers (`providers/`, `dispatch`) | a worker pool over a bounded queue, warm helpers, voice turns, STT sessions | Submit, Translate, Speak, Close, acquire, abort | streaming lane, helper processes |
| Speech helpers (`speechengine/`) | sound not yet transcribed, the decode queue, the whisper server, the request loops | accumulate, take, submit, serve | the daemon through stdio |
| Ingest and media processes (`media/ingest/`, `media/ffmpeg/`) | a file's position, a capture attempt, a child with its reap result | Open, Next, Close, retry, drain, reap | the lane |
| Outputs of the machine (`media/discover`, `feed.go`) | a cached catalogue, the picker's inventory, the index a push plays on | refresh, list, resolve, watch | CoreAudio, pickers, pushes |
| Configuration (`core/config/`) | a snapshot behind a pointer, the file | Load, Save, Update, Reload | settings, engine operations, SIGHUP, lanes |
| Control plane (`control/`) | token, socket, keypair; the engine's operation and catalogue; event streams | start, serve, shut down; install, remove, catalogue; subscribe | clients, store, holder, installers |
| Installers (`speech/`, `media/ffmpeg/install.go`, `update/`, `devices/`) | staged and published trees, records, markers, locks | stage, verify, publish, carry, record, remove | the file system |
| The rest (Windows playback, process groups, downloads, service managers, doctor, tray, web, native programs) | see `PROJECT.json`, components | | |

What is hard, and what makes each part correct:

* **Sessions.** API writes, lossy events, a reload, retries and a shutdown
  interleave with lanes that start, end, fail and drain. Lanes of one session
  take turns; a status is the word of the bound lane; what an event lost is
  healed; a deleted session goes quiet; a shutdown ends.
* **Streaming lane and providers.** Bounded queues between a pump, a consumer
  and workers: nobody waits on nobody for ever, a segment reaches each target
  once and in order, one failure ends all, and an end is told for what it is.
  A call is answered by its own answer, a lane that closed has no call left.
* **What is heard and read.** Words are committed to once; a take is played
  whole, in its place and before the tail is cut; a process at work has one
  owner, whom a teardown waits for; a listed caption part is there.
* **Configuration, starts and installs.** Several writers, several daemons, and
  a crash between any two file operations leave the old or the new state, never
  a mixture that is taken for valid.

## 2. Modules

Three ways of composing. Parts that call each other through a port are composed
by contract: a module of what the part promises, over which its user is
modelled and which the part is shown to implement. Parts that share state
extend one another. Parts that share none (a machine's configuration and its
ffmpeg, a voice's helper and a capture) are put side by side in a module that
picks one of them, its `subject`, at the start and lets it behave: the states
are the sum of the parts', not their product. A part that is not picked keeps
its initial state, so a promise about it is asked only where it is picked
(`Of(part, promise)`).

| Module | Models | Checked in |
|---|---|---|
| `SessionStore`, `SessionRuntime` | store and runtime, every section under a lock a step | `SR_*` |
| `SessionContract` | what clients see: one definition, one owner at a time, owners in order | refined by `SessionRuntime` |
| `SessionRuntimeProofs`, `SessionContractProofs` | proofs about the session core, the second on top of the first (section 5) | |
| `Transcription` | the port of the speech-to-text provider | refined by `SttSession` |
| `StreamLane` over it, `StreamContract` | pump, consumer, workers; what sinks are promised | `SL_*` |
| `SttSession` | the adapter over a helper process | `ST_session` |
| `StreamLaneProofs`, `SttSessionProofs`, `AudioRegistryProofs` | proofs about these three (section 5) | |
| `AudioRegistry` | gates, pairs, jobs, routes, streams under two locks | `AR_ends`, `MD_media` |
| `Playout` = `Committer`, `DubTimeline`, `CallQueue`, `Captions`, `AudioRegistry` | what a lane commits to, and what listeners and readers get of it | `MD_*` |
| `PlayoutProofs` | proofs about the queue of a call, and about the registry as a part (section 5) | |
| `LaneParts` = `SttHelper`, `VoiceTurn`, `EngineHelper`, `ProviderCalls`, `DeviceCapture`, `MediaProcess`, `WavSource`, `LaneStart` | what one lane is made of, each part with its deaths, hangs and cancellations | `LP_parts` |
| `LanePartsProofs` | proofs about the translation calls (section 5) | |
| `Host` = `DaemonStart`, `ConfigHolder`, `EngineOps`, `SessionApi`, `DeviceRoutes`, `EventBridge`, `Installs` | the machine the lanes run on | `HO_host` |
| `Installs` = `ManagedInstall`, `FfmpegInstall`, `SelfUpdate`, `DriverBundles`, `KernelModules` | what installers leave on disk | `HO_host` |
| `HostProofs` | proofs about the machine (section 5) | |
| `MC*` | values of the constants, and conjunctions named for a run | |

### The session core

`SessionStore`'s variables are `sessions` (slug to definition or `NoSession`),
`nextRev`, and for the runtime's subscription `events` and `sub`. Each write
method is one action, since it is one critical section under `Store.mu`. What a
definition says is abstracted here to the revision the store stamps on it;
`SessionApi` has its contents. In `SessionRuntime` the loop's program counter
`loop.pc` names the place in the code; one step is one store call, one section
under `Runtime.mu`, or one blocking receive:

| `loop.pc` | code |
|---|---|
| `start`, `list`, `boot` | Run: subscribe, list, launch what is stored |
| `idle` | the select: `TakeEvent`, `Tick`, `TakeReload`, `EventsClosed` |
| `deleted`, `sync` | apply, syncCurrent |
| `stop`, `launch`, `bind` | stop, launch, and the bind that follows it |
| `halt`, `wait`, `clean` | stopAndWait and clean |
| `heal`, `sweep` | reconcile over the listing, then its orphans |
| `filter`, `replace` | reconfigurable, reconfigure |
| `stopAll`, `drain`, `cleanList`, `cleanStored`, `done` | the shutdown |

Every lane is a record by generation; its `pc` follows `runLane` and the phases
of `lane.go`'s run. `reg` is `Runtime.lanes`, `prev` the channel a replacement
waits on, `outputs[s]` the lanes whose published outputs still stand,
`intents[s]` the revision a remembered push was made under. The retry instant is
the event `reg[s].due`.

### The audio registry

One section under `live.mu` is one step; `startMu`, which a launch holds from
`beginStart` to its admission and a Reset while it reaps jobs, is derived
(`StartMuFree`). `gates`, `dead` and `finishing` are the gates with their
contexts and admission; `lane[s]` the one actor that calls Create, StartHLS,
WaitPlayout, Reset and Drop for a session (one at a time: `OneLanePerSlug` and
`DropAfterLanes` of the session core); `call[t]` a launch in progress;
`replay[r]` the goroutine Create starts; `job[g]` a job goroutine with its feed,
recovery and reopening; `stream[l]` a ServeTS request; `dying` the processes that
a refused launch cancelled and does not wait for, which are native video's: it is
the one thing the registry lets go of (section 6). This daemon's lanes reset a session
before they create its pairs again; Create's contract allows more ("a
re-registered pair means a (re)started lane"), and `MD_media` lets it happen
(`MayRebuild`).

### The streaming lane and its transcription

`Transcription` has one action per call of the port, per return, and for the
session's own steps. `StreamLane` takes its steps where the code makes the
calls; `SttSession!ImplementsPort` maps the adapter to it, with every caller the
port allows. `main`, `result`, `groupErr` and `told` are Run, `pump` and
`consumer` its two goroutines, `in[t]`, `stage[t]`, `jobs[t]` and `voice[t]` the
queues and loops of a target, `captions[t]` and `takes[t]` what reached its
sinks. One step is one channel operation, provider call or read; a `select` is
an alternative for each ready case. Here the committer is how many clauses an
update commits. In `SttSession` the helper is external: it may print any line,
stop reading, close its output and live on, and exit with any status.

### What is committed, heard and read

`Committer` takes partials of a sentence it does not know: words re-tokenized,
tails misheard. A token carries the position it was heard for, so that saying a
word twice, or never, can be told from the same word occurring twice.
`DubTimeline` is the bed and one voice on one clock with the cursors of its
sinks, the trim and the wait for the tail; `CallQueue` numbers the samples ever
queued, so that a head is wrong if it passes a sample twice or skips one that
was not shed. `Captions` lays a text out in cues, writes parts, playlist and
overlay one file operation at a time, any of which may fail (`tree.behind`: the
files whose last write did), and drops and makes its tree again under timers that
are goroutines of their own.

### The parts of a lane

`SttHelper` takes sound one read at a time. A read is cut into frames and, where
it ends inside one, a shorter chunk, each voiced or not by its own loudness: the
segments depend on where reads end, as they do in the code. Windows are queued for
a worker that may die in any place. The second half is the start of
whisper-server, with the reservation, loss and retry of a port that somebody else
may hold, answer on, or leave hanging; `EngineHelper` a helper's loop over its own
child; `VoiceTurn` a spoken clause from the lane to a helper and back with what a
cancelled turn leaves behind; `ProviderCalls` the pool, a lane's admission and
close, the cache of warm helpers and one request on one. In both, a request
cancelled before it is written leaves its helper in the cache, one cancelled later
ends it. `DeviceCapture` is the retry of a device that fails before its first
frame, `MediaProcess` the reap of an ffmpeg child at either end, `WavSource` a
file whose headers lie, that shrinks and loops. `LaneStart` is the starter with
everything it took before it failed.

### The machine

`DaemonStart` claims token, socket, keypair, port and media tree one file or
socket operation after the other, beside a daemon that does the same and with a
kill between any two. `ConfigHolder` has every writer of the configuration: its
file operations, edit lock and signals. A language has one voice there
(`OneVoiceEach`), of one release or another, and an installation replaces it;
voices are spoken or off. `EngineOps` is the slot, the catalogue
cache and the events of engine operations; `EventBridge` the dashboard's stream
with its drops and snapshots, and the gauges. `SessionApi` follows a definition
from the wire to the store, through edits, and back; its source is write-only, and
a client reads a label. `DeviceRoutes` has CoreAudio
renumber outputs between the steps of a refresh, a listing and a push.
`Installs` runs each installer with a kill, or a failing operation, anywhere; two
installers of ffmpeg share one directory with no lock, found absent, broken or ready.

## 3. The runs

| Run | Question | Checked |
|---|---|---|
| `SR_reload` | one session, two definitions, a push, a reload, a failing lane | `TypeOK`, `OneLanePerSlug`, `LaneOrder`, `StatusIsTheLanes`, `RestartsAreDue` |
| `SR_pair` | two sessions or a call, most events lost; does it implement the contract | `RunningIsLive`, `ImplementsContract` |
| `SR_live` | lost events, the context ends anywhere, fair scheduler | `DropAfterLanes`, `EveryDefinitionGetsALane`, `EndsQuietly` |
| `AR_ends` | a rendition, a device or native video push and a reader when the source ends | `JobsAreOwned`, `PlayoutComplete`, `TeardownEnds` |
| `ST_session` | a session over a helper that does what it likes, a consumer that may not receive | `EndIsTrue`, `ImplementsPort`, `SessionReturns` |
| `SL_lane` | a dubbed and a captioned target behind short queues, every failure | `RunIsJoined`, `ImplementsContract` |
| `SL_ends` | frames and updates that move the clock; how the run ends | `CleanEndIsTheSources`, `RunReturns` |
| `MD_media` | partials, two sinks on a timeline and on a call, a tree made again, the processes of one device | `TakesAreHeard`, `OnlyTheStalestIsShed`, `ListedPartsAreThere`, `JobsAreOwned`, `ClearsOnlyItself`, `DroppedPushForgotten` |
| `LP_parts` | the parts of a lane with their deaths, hangs and cancellations | `SpeechIsFaithful`, `NothingLeftBehind`, `EndIsTold`, `CallsStayApart`, `TimeGoesOn`, `PartsEnd` |
| `HO_host` | starts, configuration, engine operations, definitions, devices, event streams, installers | `OneDaemonServes`, `ConfigurationIsConsistent`, `ClientsSeeTheTruth`, `LastGoodCopySurvives`, `RecordsTellTheTruth`, `ReadyStaysReady`, `WaitsEnd`, `DevicesAreFollowed` |
| `SR_lostreload`, `MD_cue` | the findings of section 6 | each violated |

A promise of `Host`, `LaneParts` or `Playout` is a conjunction with one conjunct
per part it is about; the comment above each says what it means there.

### Bounds

**Session core.** `MaxRev = 2` definitions: one more than the least with which a
lane can be displaced, stale or recreated; every race found or excluded is
between a definition and the next. `Buffer = 1` (subscriberBuffer is larger) so
that loss happens in few steps. One reload, one failure: each makes one more
lane, hence three lanes on one slug and a chain of two `prev` waits, with an
abandoned or never-started lane in the middle. One slug suffices for everything
but the loop being away on another session, and the two ends of a call, which
`SR_pair` adds (without a push, a reload or a failing lane: those are `SR_reload`'s). Lanes and generations are bounded by these counters.

**Audio registry.** Each request is made once: two on one target is the least
with which a launch meets a predecessor, and the replay of the second Create is
the third. The requests of `MD_media` are alike and declared symmetric (no
liveness is checked there). Two creations are what a rebuilt pair needs. One
session suffices for what sessions share only through `startMu`.

**Streaming lane, session.** Queues, pipes and the Events channel hold one
element: full is where they block. `SL_lane` commits three segments, one in work
and one in each queue, so that the fan-out blocks on one target while the other
has received; time adds nothing there, so no frame is pushed. `SL_ends` pushes a
frame, so that updates cover 0 or 1 and the clock trails them, and commits up to
two clauses at once. `ST_session` has two frames, so that a second write blocks
on a full pipe, and three lines: the handshake and two updates, one of which
fills the channel.

**`MD_media`.** Four partials of sentences with a splittable word, a closing
word and repeated words: enough for a commit, a re-tokenization of what was
committed, and a commit after it; `maxClause` is 4 instead of 8 so that the cap
is met. A misheard tail is no longer than `holdTail`, the length the rule is
made for, partials do not shrink, and `Stable` is never set on a partial, as the
provider never sets it. `Keep` and `Slack` are small, so that the track trims
within four frames and two takes; a queue of six samples with a lead of three
sheds and shows both heads behind. A tree is dropped and made once more, with
three cues in the first and one in the second (`MaxCues \div tree.n`), and one
write fails anywhere, after which everything promised is still asked. The device
plays sound (`Camera = {}`): a native video is pushed in `AR_ends`, and the
theorems hold for both.

**`LP_parts`.** A frame is two units of sound and five are heard, in reads that
end on a frame or inside one. Every fault comes once, alone and after another: a
bad decode and a cancelled one, a port lost and its retry, a cancelled turn and
the next, a hung lane beside a healthy one (`MCPlans`), a capture that ends before
its first frame one time more than it is retried, and ten WAV files each with one
defect.

**`HO_host`.** Two daemons, one kill: what a dead start left meets a live one.
Updates of a configuration, its file edited or not, with calls of every kind
(`MaxCalls`), over two languages of which one has two releases of its voice. Two
engine operations beside one subscriber of one event. Nine definitions as they
come on the wire, five edits, two configurations. Four sets of outputs among which
a push's device is renumbered, doubled by name or gone, and one move at any step
of a refresh. Three changes of the store behind a one-event subscription.
Installers: kills or failing operations, anywhere, but not both in one behaviour
(`MCFaultPlans`, `MCKillOrOne`, `MCKillOrFail`, `MCKillOrTwo`): two kills of an
engine install, so that its recovery is killed too, one of each other installer;
one failing operation, two of the bundles', whose rollback can fail.

Deadlock is checked where a system may not stop: in the session core, the audio
registry and both lane runs (a lane that has returned idles), which without
fairness is what shows that no two of pump, consumer, stages and voice loops
wait on each other. It is off where a client need not call or a part comes to its
end.

## 4. Fairness and assumptions

* **Session runtime.** What the loop does outside the select is weakly fair. In
  the select, Go picks uniformly among ready cases: a case that is ready again
  and again is taken, which is strong fairness for `TakeEvent`, `TakeReload` and
  `EventsClosed`; the ticker is weak. A lane's goroutine is scheduled outside
  `start`, and `start` returns once its context is cancelled. The retry instant
  arrives. Nothing forces the API, a source or the context.
* **Audio registry.** All goroutines are scheduled; a waiter at `startMu` gets it
  (Go's mutex hands over to one that has waited a millisecond): strong fairness
  for the three steps that take it. A feed ends when its context is cancelled
  and when its template has ended; a device that takes nothing is severed by the
  stall guard. No process is assumed to die, no device to open.
* **Streaming lane.** Goroutines are scheduled. Nothing is asked of source and
  providers until the context is cancelled; from then on each returns, as its
  port requires. The second half of `RunReturns` assumes in its own statement
  that providers answer. In `ST_session` the helper and the consumer owe
  nothing; a killed process is reaped.
* **`LaneParts`.** Weak fairness of `Progress`, the disjunction of the steps a
  part's goroutines, timers and deadlines owe; none of them undoes another, so a
  part that owes steps takes all of them.
* **`Host`.** An engine operation ends (it has a deadline, and the engine's end
  cancels it) and so does Shutdown's wait; refreshes, scans and listings take
  their steps, the watch ticks; an event stream's select passes over neither
  channel nor heartbeat (strong), and a client connects again.

Assumed of what is outside the modules: closing a child's stdin ends a pending
read of it, and kill and wait of a process tree are one step; timers are
goroutines that run at or after their time; Schedule of all cues of one segment
is one step; an output is opened by its index by the native player; of pickers and pushes one
at a time deals with the device cache, at one rate. `ReadyStaysReady` and
`OneDaemonServes` do not assume that starts are ordered, except for the second
conjunct of the latter, which says so.

## 5. What is proved

TLAPS checks the theorems below for every value of the constants. What they
assume of them is in the modules that declare them: sizes and bounds are
naturals, capacities of queues and pipes are at least one where the code makes
them so, the targets of a lane are finite in number, and the sets of slugs,
pairs and requests are any sets (`StoreAssumption`, `RuntimeAssumption`, `AudioAssumption`, `LaneAssumption`,
`SttAssumption`, `PlayoutAssumption`). Of the machine: no daemon has the name that
stands for none, there is a voice, and no pack is both a voice and a pair
(`NamesAssumption`); the calls lanes make are finite in number, each belongs to a
lane of its plan, and none has the name that stands for none (`PlansAssumption`);
there are a pack, a release, a device and a kernel, and fault
plans count (`PacksAssumption`, `DevicesAssumption`). The model bounds stay in the models, but each is any number.

### The session core

* `SessionRuntimeProofs!TypeCorrect`: `Spec => []TypeOK`. Inductive as it stands.
* `SessionRuntimeProofs`: `LanesAreOrdered`, `OneLaneAtWork`, `DropsComeLast`.
  `OneLanePerSlug` is not inductive: that two lanes are not inside together
  follows from *why* the second waits. `LaneOrder` says it: a slug's
  registration is its youngest lane; of two lanes of a slug the older has
  ended, or the younger still waits and its `prev` is at least the older; and
  what the loop remembers between two steps (`bind`, `wait`) is still true.
  `LaneOrder` with `TypeOK`, and the fact that the shutdown has seen all lanes
  close, is inductive; each step of the loop or a lane disturbs one of its
  parts only, and the proof has one step per action.
* `SessionRuntimeProofs!StatusIsBound`: `Spec => []StatusIsTheLanes`, on top of
  `LaneOrder`: a report is accepted only from the bound lane, of which the
  invariant knows the phase.
* `SessionContractProofs!RuntimeKeepsContract`: `Spec => ImplementsContract`.
  Every step of store, loop and lanes is a step of `SessionContract` or a
  stutter. The owner of a slug is its oldest lane inside; that it is unique is
  `OneLanePerSlug`, that owners come in order is `LaneOrder`, and that there is
  a least one is the well-foundedness of the naturals.
* `SessionContractProofs!RestartsKeepToWhatIsDue`: `Spec => RestartsAreDue`, two
  action properties: a lane that ended on its own stays down until its
  definition changes, and a restart keeps the push routes its session was given.
  No reload takes a finished lane up. What is left out is the one reload that had
  read the session as running, is on its way to replace it (`Replacing`) and does:
  from there it goes on, as section 6 has it. It needs to know that nothing
  the loop acts on is stale: revisions of the lanes of a slug grow with their
  generations, what the loop holds between two steps is the current definition
  or older than it, and a slug without a registration is one that no lane
  serves.
* `SessionContractProofs!RunningLanesAreLive`: `Spec => [](reloads = 0 =>
  RunningIsLive)`. A session shown as running while the loop rests has a lane at
  work, the registered one, not cancelled. `Attended` has four parts: the loop
  is on a reload's way only after a signal, and stops all only once the context
  has ended, so that otherwise it stops a lane only for a definition that is gone
  (`NothingUnasked`); what it is about to bind is the registered lane, and nobody
  told it to stop (`LaunchedIsRegistered`); a registration of the current
  definition is of the lane its status is about, but for the moment before it is
  bound (`RegisteredIsBound`); and that lane was not told to stop and leaves only
  with a word of its own (`BoundIsLive`). The hypothesis `reloads = 0` is not for convenience: after a
  reload the property is false (finding 1), and `SR_pair`, which checks it,
  allows none.

### The audio registry

* `AudioRegistryProofs`: `RegistryInvariant`, `TheRegistryOwnsItsJobs`
  (`JobsAreOwned`), `PlayoutsAreComplete` (`PlayoutComplete`). The inductive
  invariant `AInv` says who is responsible: `startMu` has one holder; a job that
  is not closed is in the registry's map, or awaited by the launch that displaces
  it or by the Reset that reaps it; a session whose gate is gone has no launch
  about to admit and, past its Reset, no job; and a playout that is waited for
  admits nobody and misses no job or reader of its session. Owned are jobs and what
  is at work: of the processes a refused launch leaves (`dying`) it is proved that
  they are native video's and cancelled (`OnlyVideoIsLeftToDie`), and no more, since no
  more is true. The steps are divided into those that touch no gate, count or owner,
  which one lemma dismisses, and the rest, one by one.
* `AudioRegistryProofs!DroppedPushesAreForgotten`: `Spec => DroppedPushForgotten`,
  an action property. A push a Drop ran through carries a count of teardowns below
  the current one (`Counted`): it read the count before that Drop raised it, and
  nothing lowers it. Without a gate the two counts then differ, which is what
  `rememberPush` asks.

### The streaming lane

* `StreamLaneProofs`: `LaneInvariant`, `NothingOutlivesTheRun` (`RunIsJoined`),
  `CleanEndsAreTheSources` (`CleanEndIsTheSources`) and `LaneKeepsContract`
  (`Spec => ImplementsContract`). The inductive invariant `LInv` has these parts:
  where Run is tells where its goroutines and the transcription are; a goroutine
  that has ended says how; a failure is the group's before the group can be
  waited for; between the fan-out and a sink a segment is in one place (in work,
  in the queue or sent: `CaptionedAt`, `SpokenAt`), so that what a sink has is
  a prefix of what was committed; and the spans of the segments are chained. A
  step of the consumer is first reduced to one of five effects (it commits,
  sends, waits, rests or quits), since the invariant cannot tell more apart.
* `SttSessionProofs`: `SessionInvariant`, `EndsTellTheTruth` (`EndIsTrue`) and
  `SessionKeepsPort` (`Spec => ImplementsPort`). The argument is about who may
  have ended a session: that it is stopped has a cause its caller knows, the
  cause of a failed write is recorded before the input is closed for it, and the
  read pump decides whether the end was expected before it closes the input
  itself. The helper has no part in it: it may print and exit as it likes.

The last two compose: the lane is proved over the port, for every transcription
that `Transcription` allows, and the adapter is proved to be one. Their safety
therefore holds of a lane over a helper process without a state space of both.

### The playout of a lane

* `PlayoutProofs!CallsShedTheStalest`: `Spec => []OnlyTheStalestIsShed` of
  `Playout`, for any number of sinks, any lead and any window. The inductive
  invariant `CallInv` adds to the property that a cursor never stands past the
  end of the queue, that one which has not registered has played nothing, and
  that a queue with a lead is never longer than it. The step that matters is
  `Append`: what it drops as consumed every live cursor has played (the least of
  the heads, by well-foundedness), so that a head it clamps can only have been
  passed by what was shed for the lead. The other parts of `Playout` do not touch
  the queue.
* `PlayoutProofs!TargetsAreOwned` and `DroppedStayForgotten`: `JobsAreOwned` and
  `DroppedPushForgotten` of `Playout`. They are the registry's, proved in
  `AudioRegistryProofs` of its own module; here that module is instantiated, its
  assumption follows from `RegistryAssumption`, and every step of a `Playout` is
  shown to be a step of that instance or to leave its variables alone
  (`RegistryRefines`).

### The calls of lanes

* `LanePartsProofs!CallsAreApart`: `Spec => []CallsStayApart`, for any number of
  lanes, calls, workers and helpers and every plan of who hangs and who cancels.
  `CallsInv` has these parts:
  * `Counted`: a worker runs exactly the calls that are in a job, `Pool.inflight`
    and each lane's `tasks` are the numbers of calls that are where they are counted
    (`CountsHold`, by the library's facts on cardinalities); a job is in the queue
    once, and waits; so that what Close and `Pool.Close` wait for, a count of zero,
    means that nobody is left (`ClosedHolds`).
  * `Numbered`: a call is on a helper its lane has spawned. `Serving`: the helper
    that takes input is the one in the cache, which makes it one per route, and a
    closed lane has none: no call that could spawn another is left.
  * `Piped`: who holds a helper's gate is the one call that is on it (`GatesHold`);
    what is in the pipes of a helper that a call awaits is that call's own request
    or its answer (`PipesHold`); and a helper still in use has in its pipes
    nothing but what its holder awaits (`LiveHold`). The last is why the second is
    inductive: a call that gives up between its request and the answer aborts the
    helper before it lets go of the gate, so whoever takes a live helper finds
    both pipes empty.
  * `Told`: a call that ended well got its own answer.

  Each step of `ProviderCalls` has a lemma per part; the other subjects of
  `LaneParts` leave these variables alone (`CallsRest`).

### The machine

* `HostProofs!OneServes`: `Spec => []OneDaemonServes`, for any number of daemons.
  That at most one serves is the port's doing: it is held from the bind until the
  HTTP server is shut down (`PortHeld`). That orderly starts end with a daemon that
  clients reach needs to know what every start in between leaves: as long as no
  two overlap, one daemon rises at a time (`OneRises`) and has at each stage the
  socket, the token and the keypair it took so far (`HasSocket`, `HasToken`,
  `HasKeypair`).
* `HostProofs!WhatIsReadyStays`: `Spec => ReadyStaysReady`, an action property. The
  media tree is reset only by a daemon that has the port, so that none is serving.
  Of an ffmpeg directory that was never damaged from outside it is proved that it
  is absent or ready: whoever is refused the rename, which takes a directory that is
  there, finds it complete, so that no installer comes to remove it.
* `HostProofs!ConfigurationStays`: `Spec => []ConfigurationIsConsistent`. `ConfigInv`
  has these parts: the edit lock has one holder, the writer whose place says so
  (`LockHeld`); what is written or loaded is valid (`StaysValid`); readers see the
  file, but for a transaction between its save and its reload (`InStep`); a
  transaction changes only what its writer may: the settings no voice, an install
  leaves no language unspoken and adds a pack that is on disk, a removal takes the
  voice of a language whose files are gone (`TransactionsKeep`);
  what the engine's operation has done so far is where its writer stands
  (`OperationHolds`); and a lane that speaks a language or translates a pair the live
  configuration has not, or differs from it in its model or in whether voices are
  spoken, is to be restarted, or the writer that changed it has yet to say so
  (`LaneToldOf`). That it has the very voice of the configuration is not true
  (section 6).
  The last four hold while nobody edits the file by hand and no file operation of
  a writer fails. `ApiInv` remembers of a session the pairs it was admitted under,
  which is what its routes ran through.
* `HostProofs!LastGoodCopyStays` and `RecordsAreTrue`: `Spec => []LastGoodCopySurvives`
  and `Spec => []RecordsTellTheTruth`, for any number of packs, releases, devices,
  modules, kernels, kills and reboots. Both assume `OneFailure`: the engine's
  installer meets any number of kills or one failing file operation, and the updater
  at most one failing operation beside any number of kills; the drivers' and
  modules' installers may fail as often as they like. Without it the first is false
  (`PacksSurviveUpgrade`, section 6): the hypothesis is what the installers are
  written for. The parts of the invariant `InstallsInv`:
  * `EngineInv`: the live and the retired tree share no entry of `models/`
    (`TreesAreApart`), so that a carry that has nothing left to move leaves nothing
    behind; what is recorded is in one of them (`RecordedIsKept`) and no older than
    its record (`RecordsAge`), so that a runtime or pack that is planned to be there
    is of this release; and a retired tree is met by an operation that plans only if
    a failure came before (`RetiredIsHealed`), which is where the hypothesis
    enters. `EngineAt` says what an operation has done from where it is.
  * `ProgramInv`: which of the three images is the program at each step of the
    update, and that no second failure meets the rollback.
  * `BundlesInv`, `LinuxInv`: a marker of this release beside a payload means that
    payload (`BundlesFiles`, `LinuxFiles`), and the devices a command has passed are
    done (`BundlesBehind`, `LinuxWork`), which at the last device is what success
    claims. Of a module they except the copy torn under the marker of an earlier
    install, which the code reports as current too (section 6), and of a driver's
    backup that a kill has left behind they claim nothing.

### What is only model-checked

Everything else. The liveness properties (and with them every property that
uses fairness) are out of the prover's reach, and so is what the folds and the
recursive functions of `Committer`, `Captions`, `SttHelper`, `SessionApi` and
`WavSource` compute for inputs of every length. Of `ClientsSeeTheTruth`
the engine's part stands on the length of event streams and the definitions' on
conversions that fold over lists. `SpeechIsFaithful` and `NothingLeftBehind` stand
on the segments `SttHelper` folds; `EndIsTold` of `LaneParts`, and `TakesAreHeard` and
`ListedPartsAreThere` of `Playout`, on parts that have no theorem yet.

## 6. Findings

Shown by a run of its own:

1. **A reload can lose a session** (`SR_lostreload`, `ReloadReplacesWhatItStops`).
   `reconfigure` stops a lane and launches its replacement in two critical
   sections. A lane that leaves between them turns its registration from
   stopping to exited with the same revision, and launch takes it for a lane
   that already runs.
2. **A cue is never shown** (`MD_cue`, `ShownInItsWindow`). `Schedule` takes the
   overlay over when a cue is scheduled, not when it is shown: the second cue of
   a segment disowns the first before its timer fires.

Stated in the modules and refuted by TLC, without a run of their own. Each is a
schedule or a sequence of legal calls of the model:

| Property | Where | What happens |
|---|---|---|
| `SaidOnce` (`Committer`) | `commit.go:102-120` | a committed word re-tokenized into two and then misheard lines the rest up wrongly, and words are spoken twice |
| `CleanSparesTheRecreated` (`SessionRuntime`) | `runtime.go:175`, `:437` | the deletion path drops outputs after a wait in which the slug was created and pushed again |
| `ReloadLeavesFinishedDown` | `runtime.go:218` | the state `reconfigure` decides from is read before the stop; a source that finishes meanwhile restarts |
| `RestartingLaneKeepsRoutes` | `lane.go`'s drain | a lane cancelled while its tail drains takes the path of a finished one and forgets the routes |
| `AcceptedIsRemembered` (`AudioRegistry`) | `audio.go:569-571`, `:596` | the teardown count is the registry's: another session's Drop discards an accepted push |
| `KeptForTheLane` | `push.go:47` | that the pair is missing and the record of the intent are two sections; a replay may list the routes in between |
| `TargetsAreBounded` | `audio.go:599` | a push is admitted in one section and counted in a later one |
| `DroppedStaysForgotten` | `audio.go:596` | with a gate present the count is not compared, and a dropped push is recorded for the next session of that name |
| `NothingRunsAfterReset` | `audio.go:481-483`, `:793-797` | a native video process refused at admission is cancelled and not awaited: it may run when Reset has returned |
| `OneProcessPerTarget` | `audio.go:766-797` | that process may still run beside the next one on its device |
| `ConsumersAreFenced` (`DubTimeline`) | `track.go:80` | the fence is one floor for all sinks, raised by the one that is furthest: the trim takes from a slower one what it has not played |
| `PlayersNeverMiss` (`Captions`) | `segmenter.go:124`, `:146-147` | eviction runs after a playlist that could not be written too, and takes parts the old playlist lists |
| `PlaysOnItsDevice` (`DeviceRoutes`) | `push.go:206`, `feed.go:59` | an index resolved from one generation of the catalogue is opened in another, and the watch takes the new one for its baseline |
| `InstallsOnlyAdd` (`ConfigHolder`) | `engine.go:419-426` | the voice that is installed replaces the one of its language; the transition is dropped as additive, and a running lane goes on with the old one |
| `PromisedVoicesAreInstalled` | `engine.go:221`, `:428` | the pack is removed before the configuration is retired, in a transition of its own that can fail: the voice stays promised without its model |
| `PacksSurviveUpgrade` (`Installs`) | `install.go:77` | with two failing operations (`MCTwoFailures`) the carried packs are lost with the bundle they came from |
| `ReadyIsNeverTaken` (`FfmpegInstall`) | `install.go:395`, `:406` | two installers find the directory broken; one publishes, and the other, which judged it before, removes what is now ready |
| `NoDecodeAfterACancelledOne` (`SttHelper`) | `stt.go:178`, `:314` | a decode that outlives its timeout is followed by another one on the same server |
| `ServerIsReachable` (`DaemonStart`) | `ipc_unix.go:44` | of two daemons started at once the one that serves can have lost its socket to the other |
| `InstalledIsLoaded` (`KernelModules`) | `install_linux.go:33` | a module of an earlier release can stay loaded while the new one is reported as installed |
| `CurrentIsWhole` | `install_linux.go:328`, `:453-463` | a reinstall whose copy fails half way leaves a torn module under the marker of the install before, which is all status asks for |

## 7. Not modelled

Parts that are modelled in part, and what is left out of them: the native video
push and the command lines of ffmpeg; capture devices and the enumerations of
Windows and Linux; the Windows SetupAPI calls of the driver installer; the HTTP
routes and their guards; the commands, which are clients of the control plane.

Parts without a module: process groups and the tail of stderr, Windows playback,
downloads, redaction, strict JSON and paths, service managers, doctor, tray and
metrics, generated code, the dashboard, the C++ MT helper and the platform
drivers. They are pure functions over text and files, calls into an operating
system whose state belongs to it, or other programs; `PROJECT.json` has the reason
for each.

Left out of what is modelled: in the session core the order in which a scan
visits sessions (any order is allowed), bindRuntime's second condition on an
error text, which never differs when the first holds, and the length of a retry's
delay. In the audio registry PCM and pacing, what a process prints, the caption
overlay of a push, and the daemon's own end (all jobs derive from its context).
In the streaming lane text and languages, the short-circuit for a target in the
source's language, metrics, the bed's samples, the playout settings, an error of
Close itself. In the transcription the wording of errors and sample rates. In
the installers what an archive contains beyond its parts, signatures and
checksums beyond whether they match, and disk space.

## 8. What comes next

Proofs: `DubTimeline` (what a sink passes and what the trim takes) and the
ends `LaneParts` tells (`EndIsTold`). Models: the native video push, and the enumeration of devices on Linux
and Windows beside that of macOS. Larger compositions: a lane with its
`AudioRegistry` and `SessionRuntime` in one state space is out of TLC's reach and
would be done by a contract of the registry, as for the transcription.
