---------------------------- MODULE ProviderCalls ----------------------------
(***************************************************************************)
(* Translation calls from a lane down to a helper process: the worker pool *)
(* every lane shares (dispatch), the lifecycle that admits a lane's calls  *)
(* (providers/bounded), the cache of warm helpers (native/process.go) and  *)
(* one request on a helper (native/mt.go).  A lane translates one route,   *)
(* so its cache has one key; helpers are numbered as they are spawned.     *)
(***************************************************************************)
EXTENDS Naturals, Sequences, FiniteSets

CONSTANTS Lanes, Calls,
          QueueSize, \* dispatch.queue
          MaxSpawn,  \* bound: helpers spawned per lane
          Plans      \* who calls, dispatch.workers, helpers spawned, who hangs, ...

VARIABLES call,    \* call[c]: where it is, on which helper, and its context
          queue,   \* accepted jobs no worker has taken
          running, \* jobs the workers run
          inflight,\* Pool.inflight
          tasks,   \* tasks[l]: lifecycle.tasks
          closing, \* closing[l]: the lane's Close
          helper,  \* helper[l][n]: state, gate, request and reply of helper n
          cached,  \* cached[l]: the helper in the cache, 0 for none
          spawned, \* spawned[l]: helpers spawned
          poolEnd, \* Pool.Close
          plan     \* laneOf: the lane of each call; workers; spawns, at most
                   \* MaxSpawn; hung: the lanes whose helpers may never answer;
                   \* stops: the pool is closed too; cancels: whose contexts end
vars == <<call, queue, running, inflight, tasks, closing, helper, cached, spawned, poolEnd, plan>>

Pool == <<queue, running, inflight, poolEnd>>
Lifecycle == <<tasks, closing>>
Cache == <<helper, cached, spawned>>

NoCall == "none"
Unborn == [at |-> "unborn", gate |-> NoCall, asked |-> NoCall, reply |-> NoCall]
Idle == [pc |-> "idle", proc |-> 0, stale |-> 0, attempt |-> 0, ctx |-> TRUE, end |-> "none", got |-> NoCall]

Init ==
    /\ call = [c \in Calls |-> Idle]
    /\ queue = <<>> /\ running = {} /\ inflight = 0 /\ poolEnd = "open"
    /\ tasks = [l \in Lanes |-> 0] /\ closing = [l \in Lanes |-> "open"]
    /\ helper = [l \in Lanes |-> [n \in 1 .. MaxSpawn |-> Unborn]]
    /\ cached = [l \in Lanes |-> 0] /\ spawned = [l \in Lanes |-> 0]
    /\ plan \in Plans

LaneOf(c) == plan.laneOf[c]
At(c, pc) == call[c].pc = pc
Goto(c, pc) == call' = [call EXCEPT ![c].pc = pc]
Mine(c) == helper[LaneOf(c)][call[c].proc]
Set(l, n, h) == helper' = [helper EXCEPT ![l][n] = h]
Unusable(h) == h.at \in {"stopping", "done"}
\* abort closes the helper's input; it happens once.
Aborted(h) == IF h.at = "live" THEN [h EXCEPT !.at = "stopping"] ELSE h

-----------------------------------------------------------------------------
(* Admission: lifecycle.submit, then Pool.Submit *)

\* Rejected or abandoned calls give their place in both counts back.
Submit(c) ==
    /\ At(c, "idle")
    /\ IF closing[LaneOf(c)] # "open"
         THEN /\ call' = [call EXCEPT ![c].pc = "returned", ![c].end = "closed"]
              /\ UNCHANGED tasks
         ELSE /\ Goto(c, "admit")
              /\ tasks' = [tasks EXCEPT ![LaneOf(c)] = @ + 1]
    /\ UNCHANGED <<Pool, closing, Cache, plan>>

Admit(c) ==
    /\ At(c, "admit")
    /\ IF poolEnd # "open"
         THEN /\ call' = [call EXCEPT ![c].pc = "returned", ![c].end = "closed"]
              /\ tasks' = [tasks EXCEPT ![LaneOf(c)] = @ - 1] /\ UNCHANGED inflight
         ELSE Goto(c, "enqueue") /\ inflight' = inflight + 1 /\ UNCHANGED tasks
    /\ UNCHANGED <<queue, running, poolEnd, closing, Cache, plan>>

Enqueue(c) ==
    /\ At(c, "enqueue")
    /\ \/ /\ Len(queue) < QueueSize /\ queue' = Append(queue, c) /\ Goto(c, "queued")
          /\ UNCHANGED <<inflight, tasks>>
       \/ /\ ~call[c].ctx
          /\ call' = [call EXCEPT ![c].pc = "returned", ![c].end = "cancelled"]
          /\ inflight' = inflight - 1 /\ tasks' = [tasks EXCEPT ![LaneOf(c)] = @ - 1]
          /\ UNCHANGED queue
    /\ UNCHANGED <<running, poolEnd, closing, Cache, plan>>

\* The caller's context ends: the caller goes, an accepted job stays.
Cancel(c) ==
    /\ c \in plan.cancels /\ call[c].ctx /\ call[c].pc \notin {"idle", "returned"}
    /\ call' = [call EXCEPT ![c].ctx = FALSE]
    /\ UNCHANGED <<Pool, Lifecycle, Cache, plan>>

Take ==
    /\ queue # <<>> /\ Cardinality(running) < plan.workers /\ poolEnd # "done"
    /\ queue' = Tail(queue) /\ running' = running \union {Head(queue)}
    /\ call' = [call EXCEPT ![Head(queue)].pc = "get", ![Head(queue)].attempt = 1]
    /\ UNCHANGED <<inflight, poolEnd, Lifecycle, Cache, plan>>

\* The job ends; of its result and the end of the context, the caller's select
\* takes either.
Finish(c, end, got) ==
    /\ \E e \in {end, IF call[c].ctx THEN end ELSE "cancelled"} :
         call' = [call EXCEPT ![c] = [Idle EXCEPT !.pc = "returned", !.end = e,
                                                  !.got = IF e = "ok" THEN got ELSE NoCall]]
    /\ running' = running \ {c} /\ inflight' = inflight - 1
    /\ tasks' = [tasks EXCEPT ![LaneOf(c)] = @ - 1]
    /\ UNCHANGED <<queue, poolEnd, closing, plan>>

-----------------------------------------------------------------------------
(* procCache.get: get or spawn under the lock, reap the stale one outside it *)

Refused(c) ==
    /\ At(c, "get") /\ closing[LaneOf(c)] \in {"reaping", "closed"}
    /\ Finish(c, "closed", NoCall) /\ UNCHANGED Cache

Get(c) ==
    /\ At(c, "get")
    /\ LET l == LaneOf(c) n == cached[l] IN
       /\ closing[l] \in {"open", "admitted"}
       /\ \/ ~call[c].ctx /\ Finish(c, "cancelled", NoCall) /\ UNCHANGED Cache
          \/ /\ call[c].ctx /\ n # 0 /\ ~Unusable(helper[l][n])
             /\ call' = [call EXCEPT ![c].pc = "gate", ![c].proc = n, ![c].stale = 0]
             /\ UNCHANGED <<Pool, Lifecycle, Cache, plan>>
          \/ /\ call[c].ctx
             /\ n # 0 => Unusable(helper[l][n])
             /\ spawned[l] < plan.spawns
             /\ LET new == spawned[l] + 1 IN
                /\ Set(l, new, [Unborn EXCEPT !.at = "live"])
                /\ cached' = [cached EXCEPT ![l] = new] /\ spawned' = [spawned EXCEPT ![l] = new]
                /\ call' = [call EXCEPT ![c].pc = "reap", ![c].proc = new, ![c].stale = n]
             /\ UNCHANGED <<Pool, Lifecycle, plan>>

\* A spawn that fails takes the stale helper out of the cache.
SpawnFails(c) ==
    /\ At(c, "get") /\ call[c].ctx /\ closing[LaneOf(c)] \in {"open", "admitted"}
    /\ LET l == LaneOf(c) n == cached[l] IN
       /\ n # 0 => Unusable(helper[l][n])
       /\ cached' = [cached EXCEPT ![l] = 0]
       /\ call' = [call EXCEPT ![c].pc = "reap", ![c].proc = 0, ![c].stale = n]
    /\ UNCHANGED <<Pool, Lifecycle, helper, spawned, plan>>

\* close waits for the reap of the stale helper, which is stopping already.
Reaped(c) ==
    /\ At(c, "reap")
    /\ call[c].stale \in {0} \union {n \in 1 .. MaxSpawn : helper[LaneOf(c)][n].at = "done"}
    /\ IF call[c].proc = 0
         THEN Finish(c, "failed", NoCall) /\ UNCHANGED Cache
         ELSE /\ call' = [call EXCEPT ![c].pc = "gate", ![c].stale = 0]
              /\ UNCHANGED <<Pool, Lifecycle, Cache, plan>>

-----------------------------------------------------------------------------
(* pairProc.translate on one helper *)

\* acquire: of the gate, the helper's end and the context, any that is ready.
Acquire(c) ==
    /\ At(c, "gate")
    /\ \/ Mine(c).gate = NoCall /\ Goto(c, "write")
          /\ Set(LaneOf(c), call[c].proc, [Mine(c) EXCEPT !.gate = c])
       \/ (Mine(c).at = "done" \/ ~call[c].ctx) /\ Goto(c, "failed") /\ UNCHANGED helper
    /\ UNCHANGED <<Pool, Lifecycle, cached, spawned, plan>>

\* A request is written whole to a helper that takes input, or the helper is
\* aborted: one cancelled in the write may be in the pipe already.  One cancelled
\* before it writes leaves the helper as it is.
WriteLine(c) ==
    /\ At(c, "write")
    /\ LET h == Mine(c) IN
       \/ /\ call[c].ctx /\ h.at = "live" /\ Goto(c, "await")
          /\ Set(LaneOf(c), call[c].proc, [h EXCEPT !.asked = c])
       \/ /\ ~call[c].ctx \/ h.at # "live"
          /\ \E asked \in {h.asked, IF h.at = "live" THEN c ELSE h.asked} :
               Set(LaneOf(c), call[c].proc, [Aborted(h) EXCEPT !.asked = asked])
          /\ Goto(c, IF call[c].ctx THEN "wait" ELSE "release")
       \/ ~call[c].ctx /\ Goto(c, "release") /\ UNCHANGED helper
    /\ UNCHANGED <<Pool, Lifecycle, cached, spawned, plan>>

\* writeFailure waits for the reap.
WriteFailed(c) ==
    /\ At(c, "wait") /\ Mine(c).at = "done" /\ Goto(c, "release")
    /\ UNCHANGED <<Pool, Lifecycle, Cache, plan>>

\* A Await that would leave the cancelled request in its helper.
AwaitWithoutAbort(c) ==
    /\ At(c, "await")
    /\ LET h == Mine(c) IN
       \/ /\ h.reply # NoCall /\ Set(LaneOf(c), call[c].proc, [h EXCEPT !.reply = NoCall])
          /\ call' = [call EXCEPT ![c].pc = "translated", ![c].got = h.reply]
       \/ h.at = "done" /\ h.reply = NoCall /\ Goto(c, "release") /\ UNCHANGED helper
       \/ ~call[c].ctx /\ Goto(c, "release") /\ UNCHANGED helper
    /\ UNCHANGED <<Pool, Lifecycle, cached, spawned, plan>>

\* A line that does not decode, and the end of the context, abort the helper.
Await(c) ==
    /\ At(c, "await")
    /\ LET h == Mine(c) IN
       \/ /\ h.reply # NoCall
          /\ \/ /\ Set(LaneOf(c), call[c].proc, [h EXCEPT !.reply = NoCall])
                /\ call' = [call EXCEPT ![c].pc = "translated", ![c].got = h.reply]
             \/ /\ Set(LaneOf(c), call[c].proc, [Aborted(h) EXCEPT !.reply = NoCall])
                /\ Goto(c, "release")
       \/ h.at = "done" /\ h.reply = NoCall /\ Goto(c, "release") /\ UNCHANGED helper
       \/ ~call[c].ctx /\ Goto(c, "release") /\ Set(LaneOf(c), call[c].proc, Aborted(h))
    /\ UNCHANGED <<Pool, Lifecycle, cached, spawned, plan>>

\* The gate is given back on every path, then a success returns.
Opened(c) == [Mine(c) EXCEPT !.gate = NoCall]
Translated(c) ==
    /\ At(c, "translated") /\ Set(LaneOf(c), call[c].proc, Opened(c))
    /\ Finish(c, "ok", call[c].got) /\ UNCHANGED <<cached, spawned>>
Release(c) ==
    /\ At(c, "release") /\ Goto(c, "failed") /\ Set(LaneOf(c), call[c].proc, Opened(c))
    /\ UNCHANGED <<Pool, Lifecycle, cached, spawned, plan>>

\* A failure on a helper that still serves is final; one that stopped is
\* dropped from the cache, if it is still the one there, and reaped.
Discard(c) ==
    /\ At(c, "failed")
    /\ IF Unusable(Mine(c))
         THEN /\ cached' = [cached EXCEPT ![LaneOf(c)] = IF @ = call[c].proc THEN 0 ELSE @]
              /\ Goto(c, "discard") /\ UNCHANGED <<Pool, Lifecycle, helper, spawned, plan>>
         ELSE Finish(c, "failed", NoCall) /\ UNCHANGED Cache

\* Translation is idempotent: it is tried once more, on another helper, unless
\* the helper could not be cleaned up.
Retry(c) ==
    /\ At(c, "discard") /\ Mine(c).at = "done"
    /\ \/ /\ call[c].ctx /\ call[c].attempt = 1
          /\ call' = [call EXCEPT ![c].pc = "get", ![c].attempt = 2, ![c].proc = 0]
          /\ UNCHANGED <<Pool, Lifecycle, Cache, plan>>
       \/ Finish(c, "failed", NoCall) /\ UNCHANGED Cache

-----------------------------------------------------------------------------
(* The helper processes *)

\* The pump reads a reply when the one before was taken, or the helper stops.
Reply(l, n) ==
    /\ helper[l][n].asked # NoCall /\ helper[l][n].reply = NoCall
    /\ helper[l][n].at \in {"live", "stopping"}
    /\ Set(l, n, [helper[l][n] EXCEPT !.reply = helper[l][n].asked, !.asked = NoCall])
    /\ UNCHANGED <<call, Pool, Lifecycle, cached, spawned, plan>>
Exit(l, n) ==
    /\ helper[l][n].at = "live" /\ Set(l, n, Aborted(helper[l][n]))
    /\ UNCHANGED <<call, Pool, Lifecycle, cached, spawned, plan>>
\* Within the grace, or killed with its tree, an aborted helper is reaped.
Reap(l, n) ==
    /\ helper[l][n].at = "stopping"
    /\ Set(l, n, [helper[l][n] EXCEPT !.at = "done", !.asked = NoCall])
    /\ UNCHANGED <<call, Pool, Lifecycle, cached, spawned, plan>>

-----------------------------------------------------------------------------
(* lifecycle.release, and Pool.Close *)

CloseLane(l) ==
    /\ closing[l] = "open" /\ closing' = [closing EXCEPT ![l] = "admitted"]
    /\ UNCHANGED <<call, Pool, tasks, Cache, plan>>

\* closeAll empties the cache and aborts: the cached helper, and through the
\* cache's context every other.  Tasks are waited for only after that.
CloseAll(l) ==
    /\ closing[l] = "admitted" /\ closing' = [closing EXCEPT ![l] = "reaping"]
    /\ cached' = [cached EXCEPT ![l] = 0]
    /\ helper' = [helper EXCEPT ![l] = [n \in 1 .. MaxSpawn |-> Aborted(helper[l][n])]]
    /\ UNCHANGED <<call, Pool, tasks, spawned, plan>>

Drained(l) ==
    /\ closing[l] = "reaping" /\ tasks[l] = 0
    /\ \A n \in 1 .. MaxSpawn : helper[l][n].at \in {"unborn", "done"}
    /\ closing' = [closing EXCEPT ![l] = "closed"]
    /\ UNCHANGED <<call, Pool, tasks, Cache, plan>>

ClosePool == /\ poolEnd = "open" /\ plan.stops /\ poolEnd' = "closing"
             /\ UNCHANGED <<call, queue, running, inflight, Lifecycle, Cache, plan>>
PoolDrained == /\ poolEnd = "closing" /\ inflight = 0 /\ poolEnd' = "done"
               /\ UNCHANGED <<call, queue, running, inflight, Lifecycle, Cache, plan>>

Job(c) == \/ Refused(c) \/ Get(c) \/ SpawnFails(c) \/ Reaped(c) \/ Acquire(c) \/ WriteLine(c)
          \/ WriteFailed(c) \/ Await(c) \/ Translated(c) \/ Release(c) \/ Discard(c) \/ Retry(c)
Closing(l) == CloseAll(l) \/ Drained(l)

Next ==
    \/ \E c \in Calls : Submit(c) \/ Admit(c) \/ Enqueue(c) \/ Cancel(c) \/ Job(c)
    \/ \E l \in Lanes, n \in 1 .. MaxSpawn : Reply(l, n) \/ Exit(l, n) \/ Reap(l, n)
    \/ \E l \in Lanes : CloseLane(l) \/ Closing(l)
    \/ Take \/ ClosePool \/ PoolDrained

\* Go runs what is ready, and an aborted helper is killed after its grace; a
\* helper answers or exits, except that of a hung lane.
CallsProgress ==
    \/ Take \/ PoolDrained
    \/ \E c \in Calls : Admit(c) \/ Enqueue(c) \/ Job(c)
    \/ \E l \in Lanes : Closing(l)
    \/ \E l \in Lanes, n \in 1 .. MaxSpawn : Reap(l, n) \/ (l \notin plan.hung /\ Reply(l, n))
-----------------------------------------------------------------------------
InJob == {"get", "reap", "gate", "write", "wait", "await", "translated", "release", "failed", "discard"}

\* The counts Close waits on count exactly the accepted calls.
TypeOK ==
    /\ running = {c \in Calls : call[c].pc \in InJob} /\ Cardinality(running) <= plan.workers
    /\ inflight = Cardinality({c \in Calls : call[c].pc \in InJob \union {"enqueue", "queued"}})
    /\ \A l \in Lanes : tasks[l] = Cardinality({c \in Calls : LaneOf(c) = l /\
                              call[c].pc \in InJob \union {"admit", "enqueue", "queued"}})

\* A caller gets the translation of its own text: the answer to a cancelled
\* request, still in a pipe, is never taken for the next one's.
ReplyIsForRequest == \A c \in Calls : call[c].end = "ok" => call[c].got = c

\* One helper serves a route: the one it replaces no longer takes input.
OneHelperPerRoute ==
    \A l \in Lanes : \A n, m \in 1 .. MaxSpawn :
        helper[l][n].at = "live" /\ helper[l][m].at = "live" => n = m

\* A lane that closed has no job left anywhere and no process alive, and a pool
\* that closed left no accepted job unrun; before that one helper at most serves.
ClosedIsEmpty ==
    /\ OneHelperPerRoute
    /\ \A l \in Lanes : closing[l] = "closed" =>
         /\ \A c \in Calls : LaneOf(c) = l => call[c].pc \in {"idle", "returned"}
         /\ \A n \in 1 .. MaxSpawn : helper[l][n].at \in {"unborn", "done"}
    /\ poolEnd = "done" => queue = <<>> /\ running = {}

\* A lane closes though its own helper hangs and the pool is full of its calls;
\* only another lane's hung helper can hold it up, by holding the workers.
CloseReturns == \A l \in Lanes : closing[l] # "open" /\ plan.hung \subseteq {l} => closing[l] = "closed"
=============================================================================
