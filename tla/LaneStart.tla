----------------------------- MODULE LaneStart -----------------------------
(***************************************************************************)
(* The start and the end of one lane (internal/lane): a slot, the          *)
(* providers, their warm-up through the pool every lane shares, the        *)
(* outputs, the streaming lane over a source opened at its first read, and *)
(* what each failure or cancellation on the way has to give back.          *)
(* The streaming lane itself (StreamLane) is here its pump and its end.    *)
(***************************************************************************)
EXTENDS Naturals, FiniteSets

CONSTANTS MTTasks, TTSTasks,  \* the model initializations of a start
          Workers, QueueSize, \* of the dispatch pool
          MaxOthers           \* model bound: jobs of other lanes in it

VARIABLES start,    \* the starter: where it is, its error, the pool jobs of others, run and ever
          slot,     \* Slots: held by this lane, or free
          provider, \* translator and synth: none, off, open, closed
          task,     \* task[t]: todo, queued, running, done
          warm,     \* runWarmTasks: its first error, whether taskCtx is done
          lane,     \* Lane.Run: where it is, its error, whether gctx is done
          lazy,     \* lazyFrames: the opener, ctxErr, frames, closed, the source behind
          outputs,  \* captions (documents and tree) and audio: none, live, dropped
          told      \* the lane's context is cancelled
startVars == <<start, slot, provider, task, warm, lane, lazy, outputs, told>>

WarmTasks == MTTasks \cup TTSTasks
TaskOf(t) == IF t \in TTSTasks THEN "synth" ELSE "translator"

StartInit ==
    /\ start = [pc |-> "slot", err |-> FALSE, running |-> FALSE, others |-> 0, came |-> 0]
    /\ slot = "free"
    /\ provider = [translator |-> "none", synth |-> "none"]
    /\ task = [t \in WarmTasks |-> "todo"]
    /\ warm = [err |-> FALSE, done |-> FALSE]
    /\ lane = [pc |-> "off", err |-> FALSE, gctx |-> FALSE, close |-> "no"]
    /\ lazy = [pc |-> "off", source |-> "none", late |-> FALSE, published |-> FALSE, closed |-> FALSE]
    /\ outputs = [captions |-> "none", audio |-> "none"]
    /\ told = FALSE

Goto(pc) == start' = [start EXCEPT !.pc = pc]
Abort == start' = [start EXCEPT !.pc = "giveBack", !.err = TRUE]
TaskDone == told \/ warm.done
Unrun == UNCHANGED <<lane, lazy, outputs>>

CancelLane == ~told /\ told' = TRUE /\ UNCHANGED <<start, slot, provider, task, warm, lane, lazy, outputs>>

\* Slots.Acquire.
Acquire == /\ start.pc = "slot"
           /\ \/ slot' = "held" /\ Goto("build")
              \/ told /\ Abort /\ UNCHANGED slot
           /\ UNCHANGED <<provider, task, warm, told>> /\ Unrun

\* buildProviders: the transcriber, which holds nothing yet, the translator, and
\* the synthesizer unless voices are off; each may be refused.
BuildTranslator == /\ start.pc = "build"
                   /\ \/ Abort /\ UNCHANGED provider
                      \/ provider' = [provider EXCEPT !.translator = "open"] /\ Goto("buildSynth")
                   /\ UNCHANGED <<slot, task, warm, told>> /\ Unrun
BuildSynth == /\ start.pc = "buildSynth"
              /\ \/ Abort /\ UNCHANGED provider
                 \/ \E s \in {"open", "off"} : provider' = [provider EXCEPT !.synth = s] /\ Goto("warm")
              /\ UNCHANGED <<slot, task, warm, told>> /\ Unrun

\* runWarmTasks: each task waits for room in the pool's queue, or for the end of
\* its context; the first failure ends the context of the others.
Due == {t \in WarmTasks : provider[TaskOf(t)] = "open"}
InPool == {t \in WarmTasks : task[t] \in {"queued", "running"}}
Queued == {t \in WarmTasks : task[t] = "queued"}
Running == {t \in WarmTasks : task[t] = "running"}
Fails == warm' = [err |-> TRUE, done |-> TRUE]
Submit == /\ start.pc = "warm"
          /\ \E t \in Due : task[t] = "todo" /\ Cardinality(Queued) < QueueSize /\ task' = [task EXCEPT ![t] = "queued"]
          /\ UNCHANGED <<start, slot, provider, warm, told>> /\ Unrun
SubmitStops == /\ start.pc = "warm" /\ TaskDone /\ \E t \in Due : task[t] = "todo"
               /\ Fails /\ Goto("join")
               /\ UNCHANGED <<slot, provider, task, told>> /\ Unrun
Submitted == /\ start.pc = "warm" /\ \A t \in Due : task[t] # "todo"
             /\ Goto("join") /\ UNCHANGED <<slot, provider, task, warm, told>> /\ Unrun
\* The warm-up's deadline.
WarmTimeout == /\ start.pc \in {"warm", "join"} /\ ~warm.done
               /\ warm' = [warm EXCEPT !.done = TRUE]
               /\ UNCHANGED <<start, slot, provider, task, told>> /\ Unrun
WorkerTakes == /\ start.others + Cardinality(Running) < Workers
               /\ \E t \in Queued : task' = [task EXCEPT ![t] = "running"]
               /\ UNCHANGED <<start, slot, provider, warm, told>> /\ Unrun
TaskEnds == /\ \E t \in Running : task' = [task EXCEPT ![t] = "done"]
            /\ \/ ~TaskDone /\ UNCHANGED warm
               \/ Fails
            /\ UNCHANGED <<start, slot, provider, told>> /\ Unrun
\* Jobs of other lanes in the same pool.
OthersWork == /\ InPool # {} /\ start.came < MaxOthers /\ start.others + Cardinality(Running) < Workers
              /\ start' = [start EXCEPT !.others = @ + 1, !.came = @ + 1]
              /\ UNCHANGED <<slot, provider, task, warm, told>> /\ Unrun
OthersEnd == /\ start.others > 0 /\ start' = [start EXCEPT !.others = @ - 1]
             /\ UNCHANGED <<slot, provider, task, warm, told>> /\ Unrun
Join == /\ start.pc = "join" /\ InPool = {}
        /\ IF warm.err THEN Abort ELSE Goto("ingress")
        /\ UNCHANGED <<slot, provider, task, warm, told>> /\ Unrun

\* ingressFor and the bed level may be refused; then the outputs are created.
Outputs == /\ start.pc = "ingress"
           /\ \/ Abort /\ UNCHANGED <<outputs, lane>>
              \/ /\ outputs' = [captions |-> "live", audio |-> IF provider.synth = "open" THEN "live" ELSE "none"]
                 /\ Goto("run") /\ lane' = [lane EXCEPT !.pc = "open"]
           /\ UNCHANGED <<slot, provider, task, warm, lazy, told>>

-----------------------------------------------------------------------------
\* Lane.Run opens the transcription, then its pump reads, which opens the source.
Group == told \/ lane.gctx
Unstarted == UNCHANGED <<slot, provider, task, warm, outputs, told>>
LaneOpens == /\ lane.pc = "open"
             /\ \/ lane' = [lane EXCEPT !.pc = "end", !.err = TRUE] /\ UNCHANGED lazy
                \/ lane' = [lane EXCEPT !.pc = "group"] /\ lazy' = [lazy EXCEPT !.pc = "next"]
             /\ Unstarted /\ UNCHANGED start
PumpEnds(err) == /\ lane' = [lane EXCEPT !.pc = "joined", !.gctx = TRUE, !.err = @ \/ err]
                 /\ lazy' = [lazy EXCEPT !.pc = "done"]
                 /\ UNCHANGED start

\* lazyFrames.Next: the context, the first open, then what that open left.
LazyNext == /\ lazy.pc = "next"
            /\ IF Group THEN PumpEnds(TRUE)
               ELSE /\ lazy' = [lazy EXCEPT !.pc = IF lazy.closed THEN "refused" ELSE "opening"]
                    /\ UNCHANGED <<lane, start>>
            /\ Unstarted
\* ingress.Open answers late, or not, whatever happened meanwhile; then the context
\* is looked at, before the lock is taken.
IngressOpens == /\ lazy.pc = "opening"
                /\ \/ lazy' = [lazy EXCEPT !.pc = "decide", !.source = "open", !.late = Group]
                   \/ lazy' = [lazy EXCEPT !.pc = "refused"]
                /\ Unstarted /\ UNCHANGED <<start, lane>>
\* Under one lock: closeSource is installed, and the source published or abandoned.
Install(keep) == lazy' = [lazy EXCEPT !.pc = IF keep THEN "read" ELSE "abandon", !.published = keep]
\* A Publish that would not look whether the lane was closed meanwhile.
PublishAnyway == /\ lazy.pc = "decide" /\ Install(~lazy.late) /\ Unstarted /\ UNCHANGED <<start, lane>>

Publish == /\ lazy.pc = "decide" /\ Install(~lazy.late /\ ~lazy.closed) /\ Unstarted /\ UNCHANGED <<start, lane>>
Abandon == /\ lazy.pc = "abandon"
           /\ lazy' = [lazy EXCEPT !.source = "closed", !.pc = "refused"]
           /\ Unstarted /\ UNCHANGED <<start, lane>>
Refused == lazy.pc = "refused" /\ PumpEnds(TRUE) /\ Unstarted
\* observedFrames: the first frame says the lane is running.
Reads == /\ lazy.pc = "read" /\ lazy.source = "open" /\ ~Group
         /\ start' = [start EXCEPT !.running = TRUE]
         /\ Unstarted /\ UNCHANGED <<lane, lazy>>
ReadEnds(err) == /\ lazy.pc = "read" /\ (Group \/ lazy.source = "closed" => err)
                 /\ PumpEnds(err) /\ Unstarted
\* Another goroutine of the group fails.
StageFails == /\ lane.pc = "group" /\ ~lane.gctx
              /\ lane' = [lane EXCEPT !.gctx = TRUE, !.err = TRUE] /\ Unstarted /\ UNCHANGED <<start, lazy>>

\* frameOwner: closed for the cancelled context, or at the end of Run, once.
CloseFrames == /\ lane.close = "no" /\ (lane.pc \in {"joined", "end"} \/ (lane.pc = "group" /\ Group))
               /\ lane' = [lane EXCEPT !.close = IF lazy.pc \in {"off", "next", "opening", "decide"} THEN "done" ELSE "close"]
               /\ lazy' = [lazy EXCEPT !.closed = TRUE]
               /\ Unstarted /\ UNCHANGED start
CloseSource == /\ lane.close = "close"
               /\ lane' = [lane EXCEPT !.close = "done"]
               /\ lazy' = [lazy EXCEPT !.source = IF @ = "open" THEN "closed" ELSE @]
               /\ Unstarted /\ UNCHANGED start
LaneReturns == /\ lane.pc \in {"joined", "end"} /\ lane.close = "done"
               /\ lane' = [lane EXCEPT !.pc = "returned"]
               /\ Unstarted /\ UNCHANGED <<start, lazy>>

\* After it: a cancel or an error drops the tree and rebuilds the audio; a clean
\* end keeps the captions and drains the dub.
Scrubbed == [captions |-> "dropped", audio |-> IF outputs.audio = "live" THEN "dropped" ELSE outputs.audio]
AfterRun == /\ start.pc = "run" /\ lane.pc = "returned"
            /\ IF told \/ lane.err
               THEN outputs' = Scrubbed /\ Abort
               ELSE Goto("playout") /\ UNCHANGED outputs
            /\ UNCHANGED <<slot, provider, task, warm, lane, lazy, told>>
WaitPlayout == /\ start.pc = "playout"
               /\ outputs' = [outputs EXCEPT !.audio = IF @ = "live" THEN "dropped" ELSE @]
               /\ \/ Goto("giveBack")
                  \/ told /\ Abort
               /\ UNCHANGED <<slot, provider, task, warm, lane, lazy, told>>

\* The deferred closes, then the slot.
GiveBack == /\ start.pc = "giveBack"
            /\ provider' = [p \in DOMAIN provider |-> IF provider[p] = "open" THEN "closed" ELSE provider[p]]
            /\ slot' = "free"
            /\ Goto("returned")
            /\ UNCHANGED <<task, warm, told>> /\ Unrun

Assemble == \/ Acquire \/ BuildTranslator \/ BuildSynth \/ Submit \/ SubmitStops \/ Submitted
            \/ Join \/ Outputs \/ AfterRun \/ WaitPlayout \/ GiveBack
PoolStep == WorkerTakes \/ TaskEnds \/ OthersEnd
PumpStep == \/ LaneOpens \/ LazyNext \/ IngressOpens \/ Publish \/ Abandon \/ Refused
            \/ CloseFrames \/ CloseSource \/ LaneReturns
StartNext == \/ CancelLane \/ Assemble \/ PoolStep \/ OthersWork \/ WarmTimeout
             \/ PumpStep \/ Reads \/ StageFails \/ \E err \in BOOLEAN : ReadEnds(err)
\* Go runs what can run; jobs and opens end; a read whose context is done or whose
\* source is closed returns.
StartProgress == \/ Assemble \/ PoolStep \/ PumpStep
                 \/ (Group \/ lazy.source = "closed") /\ ReadEnds(TRUE)
-----------------------------------------------------------------------------
StartTypeOK ==
    /\ slot \in {"free", "held"}
    /\ provider.translator \in {"none", "open", "closed"} /\ provider.synth \in {"none", "off", "open", "closed"}
    /\ task \in [WarmTasks -> {"todo", "queued", "running", "done"}]
    /\ lazy.source \in {"none", "open", "closed"}
    /\ start.others \in 0 .. Workers

\* A start that has returned left nothing behind, wherever it failed or was
\* cancelled: no provider's process, no slot, no warm-up in the pool, no source
\* opened late; and no warm-up ever runs on a provider that is closed.
StartLeavesNothing ==
    /\ \A t \in InPool : provider[TaskOf(t)] = "open"
    /\ start.pc = "returned" =>
          /\ slot = "free" /\ InPool = {} /\ lazy.source # "open"
          /\ "open" \notin {provider[p] : p \in DOMAIN provider}

\* Only a lane whose media ended cleanly keeps its captions, and no end keeps the dub.
OutputsFollowTheEnd ==
    start.pc = "returned" =>
        /\ outputs.audio # "live"
        /\ outputs.captions = "live" => ~lane.err
        /\ outputs.captions = "dropped" => lane.err \/ told

\* A start returns: cancelled, or at the end of its media.
StartEnded == told => start.pc = "returned"
=============================================================================
