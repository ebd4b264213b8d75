--------------------------- MODULE SessionRuntime ---------------------------
(***************************************************************************)
(* The session runtime (internal/core/session/runtime.go) over the session *)
(* store: one event loop starts, replaces, retries and stops one media     *)
(* lane per session, while the control API keeps writing to the store.     *)
(*                                                                         *)
(* Processes and where they interleave:                                    *)
(*   - the API writes to the store at any time (ApiStep, Reconfigure,      *)
(*     RecordPush);                                                        *)
(*   - the loop (Run) is one goroutine.  Each store call, each section     *)
(*     under Runtime.mu and each blocking receive is a step of its own,    *)
(*     so the API and the lanes run in between;                            *)
(*   - every lane is a goroutine (runLane or abandonLane) numbered by its  *)
(*     generation;                                                         *)
(*   - the daemon's context ends at any time (Shutdown).                   *)
(*                                                                         *)
(* What a lane publishes (internal/lane/lane.go) is abstracted to the set  *)
(* outputs[s] of the lanes whose output trees are still registered under   *)
(* the slug, and intents[s]: the revision a remembered push was made under.*)
(* Time is abstracted to reg[s].due: the retry instant has been reached.   *)
(***************************************************************************)
EXTENDS SessionStore

CONSTANTS
  Pushable,   \* model bound: the slugs a client pushes
  MaxReload,  \* model bound: Reconfigure signals
  MaxFail,    \* model bound: lanes that end with an error of their own
  MayStop     \* model bound: whether the daemon's context ever ends

ASSUME RuntimeAssumption ==
  /\ Pushable \subseteq Slug
  /\ MaxReload \in Nat /\ MaxFail \in Nat
  /\ MayStop \in BOOLEAN

VARIABLES
  reg,      \* Runtime.lanes: the registered lane of each slug, or NoReg
  nextGen,  \* Runtime.nextGen
  lanes,    \* every lane goroutine ever launched, by generation
  loop,     \* where the event loop is
  reload,   \* Runtime.reload holds a signal (its capacity is one)
  ctxDone,  \* the context Run was given has ended
  outputs,  \* slug -> lanes whose published outputs are still there
  intents,  \* slug -> the definition whose push route is remembered, or 0
  reloads,  \* signals sent so far   (bounded by MaxReload)
  failures  \* own failures so far   (bounded by MaxFail)

runtimeVars == <<reg, nextGen, lanes, loop, reload, ctxDone, outputs, intents, reloads, failures>>
vars == <<storeVars, runtimeVars>>

NoReg == [gen |-> 0, rev |-> 0, state |-> "none", due |-> FALSE]

Reg == [gen : Nat \ {0}, rev : Nat,
        state : {"running", "stopping", "exited"}, due : BOOLEAN]

LanePc == {"new", "await", "abandon", "prestart", "inside", "open", "announced",
           "drain", "finish", "error", "fail", "schedule", "leave", "close", "closed"}

Lane == [slug : Slug, rev : Nat, prev : Nat, scrub : BOOLEAN,
         cancelled : BOOLEAN, pc : LanePc]

\* The scans of the loop, to which it returns after each session it visits.
ScanPc == {"boot", "heal", "sweep", "replace", "idle"}

LoopPc == ScanPc \cup {"start", "list", "filter", "deleted", "sync",
                       "stop", "launch", "bind", "halt", "wait", "clean",
                       "stopAll", "drain", "cleanList", "cleanStored", "done"}

Listing == [Slug -> Session \cup {NoSession}]

Loop == [pc : LoopPc, back : ScanPc, todo : SUBSET Slug, list : Listing,
         slug : Slug \cup {NoSlug}, snap : Session \cup {NoSession},
         scrub : BOOLEAN, gen : Nat]

NoListing == [s \in Slug |-> NoSession]

At(pc) ==
  [pc |-> pc, back |-> "idle", todo |-> {}, list |-> NoListing,
   slug |-> NoSlug, snap |-> NoSession, scrub |-> FALSE, gen |-> 0]

Gens == 1 .. nextGen

Cancelled(g) == ctxDone \/ lanes[g].cancelled

\* A DoneClosed that would take a cancelled lane for one that has ended.
DoneCancelled(g) == g \in Gens => Cancelled(g)

\* A lane without a predecessor (0) waits for nobody.
DoneClosed(g) == g \in Gens => lanes[g].pc = "closed"

\* The lane has left start for good: it publishes and clears nothing any more.
Ended(g) == lanes[g].pc \in {"close", "closed"}

\* The lane's own code may be touching the outputs of its slug.
InStart(g) == lanes[g].pc \in {"prestart", "inside", "open", "announced", "drain"}

LaneStops(g, pc) == lanes' = [lanes EXCEPT ![g].pc = pc]

Init ==
  /\ StoreInit
  /\ reg = [s \in Slug |-> NoReg]
  /\ nextGen = 0
  /\ lanes = [g \in {} |-> NoReg]
  /\ loop = At("start")
  /\ reload = FALSE
  /\ ctxDone = FALSE
  /\ outputs = [s \in Slug |-> {}]
  /\ intents = [s \in Slug |-> 0]
  /\ reloads = 0
  /\ failures = 0

-----------------------------------------------------------------------------
(* The environment: the control API, the clock and the daemon's context.   *)

Api == ApiStep /\ UNCHANGED runtimeVars

\* A second signal before the loop takes the first coalesces with it.
Reconfigure ==
  /\ reloads < MaxReload
  /\ reloads' = reloads + 1
  /\ reload' = TRUE
  /\ UNCHANGED <<storeVars, reg, nextGen, lanes, loop, ctxDone, outputs, intents, failures>>

\* An accepted push of a stored session is remembered until a Drop.
RecordPush(s) ==
  /\ s \in Pushable
  /\ Stored(s)
  /\ intents[s] = 0
  /\ intents' = [intents EXCEPT ![s] = sessions[s].rev]
  /\ UNCHANGED <<storeVars, reg, nextGen, lanes, loop, reload, ctxDone, outputs, reloads, failures>>

RetryDue(s) ==
  /\ reg[s] # NoReg
  /\ ~reg[s].due
  /\ reg' = [reg EXCEPT ![s].due = TRUE]
  /\ UNCHANGED <<storeVars, nextGen, lanes, loop, reload, ctxDone, outputs, intents, reloads, failures>>

Shutdown ==
  /\ MayStop
  /\ ~ctxDone
  /\ ctxDone' = TRUE
  /\ UNCHANGED <<storeVars, reg, nextGen, lanes, loop, reload, outputs, intents, reloads, failures>>

\* Store.Subscribe's goroutine.
SubscriptionEnds ==
  /\ ctxDone
  /\ Unregister \/ CloseEvents
  /\ UNCHANGED runtimeVars

-----------------------------------------------------------------------------
(* The loop: visiting one session.                                         *)

\* Continue the current scan, or go back to the select.
EndVisit ==
  loop' = IF loop.back = "idle" THEN At("idle")
          ELSE [At(loop.back) EXCEPT !.back = loop.back, !.todo = loop.todo,
                                     !.list = loop.list]

Goto(pc) == loop' = [loop EXCEPT !.pc = pc]

\* A StopReg that would overwrite what is stopping already.
StopRegUnchecked(s) ==
  IF reg[s].state = "exited" THEN [reg EXCEPT ![s] = NoReg]
                             ELSE [reg EXCEPT ![s].state = "stopping"]

\* Runtime.stop: cancel a running lane, forget an exited one.
StopReg(s) ==
  CASE reg[s].state = "running" -> [reg EXCEPT ![s].state = "stopping"]
    [] reg[s].state = "exited"  -> [reg EXCEPT ![s] = NoReg]
    [] OTHER                    -> reg

\* A StopLanes that would cancel nothing.
StopLanesNot(s) == lanes

StopLanes(s) ==
  IF reg[s].state = "running" THEN [lanes EXCEPT ![reg[s].gen].cancelled = TRUE] ELSE lanes

\* syncCurrent: the store's newest definition against the registered lane.
SyncCurrent ==
  LET s == loop.slug
      now == sessions[s]
      replace == reg[s] # NoReg /\ reg[s].rev # now.rev
  IN  /\ loop.pc = "sync"
      /\ loop' = IF ~Stored(s) THEN [loop EXCEPT !.pc = "halt"]
                 ELSE [loop EXCEPT !.pc = IF replace THEN "stop" ELSE "launch",
                                   !.snap = now, !.scrub = replace]
      /\ UNCHANGED <<storeVars, reg, nextGen, lanes, reload, ctxDone, outputs, intents, reloads, failures>>

\* A DeletedGet that would not look at the store again.
DeletedHalts ==
  /\ loop.pc = "deleted"
  /\ Goto("halt")
  /\ UNCHANGED <<storeVars, reg, nextGen, lanes, reload, ctxDone, outputs, intents, reloads, failures>>

\* apply(EventDeleted): a stale delete must not stop a recreated session.
DeletedGet ==
  /\ loop.pc = "deleted"
  /\ Goto(IF Stored(loop.slug) THEN "sync" ELSE "halt")
  /\ UNCHANGED <<storeVars, reg, nextGen, lanes, reload, ctxDone, outputs, intents, reloads, failures>>

Stop ==
  /\ loop.pc = "stop"
  /\ reg' = StopReg(loop.slug)
  /\ lanes' = StopLanes(loop.slug)
  /\ Goto("launch")
  /\ UNCHANGED <<storeVars, nextGen, reload, ctxDone, outputs, intents, reloads, failures>>

\* laneDisposition: a draining lane is never "this lane already runs".
Same(s) == reg[s].state \in {"running", "exited"} /\ reg[s].rev = loop.snap.rev

Retrying(s) ==
  /\ Same(s)
  /\ reg[s].state = "exited"
  /\ loop.snap.state = "failed"
  /\ reg[s].due

LaunchRefused ==
  /\ loop.pc = "launch"
  /\ Same(loop.slug) /\ ~Retrying(loop.slug)
  /\ EndVisit
  /\ UNCHANGED <<storeVars, reg, nextGen, lanes, reload, ctxDone, outputs, intents, reloads, failures>>

\* The replacement waits for the lane it displaces (prev).
Launch ==
  LET s == loop.slug
      g == nextGen + 1
      lane == [slug |-> s, rev |-> loop.snap.rev, prev |-> reg[s].gen,
               scrub |-> loop.scrub, cancelled |-> FALSE, pc |-> "new"]
  IN  /\ loop.pc = "launch"
      /\ ~Same(s) \/ Retrying(s)
      /\ nextGen' = g
      /\ lanes' = [h \in Gens \cup {g} |-> IF h = g THEN lane ELSE lanes[h]]
      /\ reg' = [reg EXCEPT ![s] =
           [gen |-> g, rev |-> loop.snap.rev, state |-> "running", due |-> TRUE]]
      /\ loop' = [loop EXCEPT !.pc = "bind", !.snap = NoSession, !.gen = g]
      /\ UNCHANGED <<storeVars, reload, ctxDone, outputs, intents, reloads, failures>>

Bind ==
  LET g == loop.gen
  IN  /\ loop.pc = "bind"
      /\ \/ /\ bindRuntime(loop.slug, lanes[g].rev, g)
            /\ lanes' = [lanes EXCEPT ![g].pc = "await"]
         \/ /\ ~bindAccepted(loop.slug, lanes[g].rev, g)
            /\ lanes' = [lanes EXCEPT ![g].pc = "abandon", ![g].cancelled = TRUE]
            /\ UNCHANGED storeVars
      /\ EndVisit
      /\ UNCHANGED <<reg, nextGen, reload, ctxDone, outputs, intents, reloads, failures>>

\* stopAndWait, then clean: the end of a session.
Halt ==
  LET s == loop.slug
  IN  /\ loop.pc = "halt"
      /\ reg' = StopReg(s)
      /\ lanes' = StopLanes(s)
      /\ loop' = [loop EXCEPT !.pc = IF reg[s] = NoReg THEN "clean" ELSE "wait",
                              !.gen = reg[s].gen]
      /\ UNCHANGED <<storeVars, nextGen, reload, ctxDone, outputs, intents, reloads, failures>>

HaltWait ==
  LET s == loop.slug
  IN  /\ loop.pc = "wait"
      /\ DoneClosed(loop.gen)
      /\ reg' = IF reg[s].gen = loop.gen /\ reg[s].state = "exited"
                  THEN [reg EXCEPT ![s] = NoReg] ELSE reg
      /\ Goto("clean")
      /\ UNCHANGED <<storeVars, nextGen, lanes, reload, ctxDone, outputs, intents, reloads, failures>>

\* LaneOutputs.Drop removes every output of the slug and its push routes.
Clean ==
  /\ loop.pc = "clean"
  /\ outputs' = [outputs EXCEPT ![loop.slug] = {}]
  /\ intents' = [intents EXCEPT ![loop.slug] = 0]
  /\ EndVisit
  /\ UNCHANGED <<storeVars, reg, nextGen, lanes, reload, ctxDone, reloads, failures>>

-----------------------------------------------------------------------------
(* The loop: choosing what to do.                                          *)

Scan(pc, slugs, list) ==
  loop' = [At(pc) EXCEPT !.back = pc, !.todo = slugs, !.list = list]

\* Visit one listed session: from here the loop is at step pc for it.
Visit(s, pc, snap, scrub) ==
  loop' = [loop EXCEPT !.pc = pc, !.todo = @ \ {s}, !.slug = s,
                       !.snap = snap, !.scrub = scrub]

Skip(s) == loop' = [loop EXCEPT !.todo = @ \ {s}]

RunSubscribe ==
  /\ loop.pc = "start"
  /\ Subscribe
  /\ Goto("list")
  /\ UNCHANGED <<reg, nextGen, lanes, reload, ctxDone, outputs, intents, reloads, failures>>

RunList ==
  /\ loop.pc = "list"
  /\ Scan("boot", StoredSlugs, sessions)
  /\ UNCHANGED <<storeVars, reg, nextGen, lanes, reload, ctxDone, outputs, intents, reloads, failures>>

BootVisit(s) ==
  /\ loop.pc = "boot"
  /\ s \in loop.todo
  /\ Visit(s, "launch", loop.list[s], FALSE)
  /\ UNCHANGED <<storeVars, reg, nextGen, lanes, reload, ctxDone, outputs, intents, reloads, failures>>

\* apply: status events never change the lane definition.
TakeEvent ==
  LET e == Head(events)
  IN  /\ loop.pc = "idle"
      /\ events # <<>>
      /\ events' = Tail(events)
      /\ loop' = CASE e.type = "status"  -> loop
                   [] e.type = "deleted" -> [loop EXCEPT !.pc = "deleted", !.slug = e.slug]
                   [] OTHER              -> [loop EXCEPT !.pc = "sync", !.slug = e.slug]
      /\ UNCHANGED <<sessions, nextRev, sub, reg, nextGen, lanes, reload, ctxDone, outputs, intents, reloads, failures>>

\* reconcile heals what dropped events left behind.
Tick ==
  /\ loop.pc = "idle"
  /\ Scan("heal", StoredSlugs, sessions)
  /\ UNCHANGED <<storeVars, reg, nextGen, lanes, reload, ctxDone, outputs, intents, reloads, failures>>

\* A Heal that would only retry what failed.
HealRetriesOnly(s) ==
  /\ loop.pc = "heal"
  /\ s \in loop.todo
  /\ IF reg[s].state = "exited" /\ loop.list[s].state = "failed" /\ reg[s].due
       THEN Visit(s, "launch", loop.list[s], TRUE) ELSE Skip(s)
  /\ UNCHANGED <<storeVars, reg, nextGen, lanes, reload, ctxDone, outputs, intents, reloads, failures>>

Heal(s) ==
  LET listed == loop.list[s]
      retry == reg[s].state = "exited" /\ listed.state = "failed" /\ reg[s].due
  IN  /\ loop.pc = "heal"
      /\ s \in loop.todo
      /\ IF reg[s] = NoReg              THEN Visit(s, "launch", listed, FALSE)
         ELSE IF reg[s].rev # listed.rev THEN Visit(s, "stop", listed, TRUE)
         ELSE IF retry                   THEN Visit(s, "launch", listed, TRUE)
         ELSE Skip(s)
      /\ UNCHANGED <<storeVars, reg, nextGen, lanes, reload, ctxDone, outputs, intents, reloads, failures>>

\* orphans: lanes without a listed session; a draining one waits for the next pass.
Orphans ==
  LET gone == {s \in Slug : loop.list[s] = NoSession}
  IN  /\ loop.pc = "heal"
      /\ loop.todo = {}
      /\ Scan("sweep", {s \in gone : reg[s].state \in {"running", "exited"}}, NoListing)
      /\ reg' = [s \in Slug |->
           IF s \in gone /\ reg[s].state = "exited" THEN NoReg ELSE reg[s]]
      /\ UNCHANGED <<storeVars, nextGen, lanes, reload, ctxDone, outputs, intents, reloads, failures>>

Sweep(s) ==
  /\ loop.pc = "sweep"
  /\ s \in loop.todo
  /\ Visit(s, "halt", NoSession, FALSE)
  /\ UNCHANGED <<storeVars, reg, nextGen, lanes, reload, ctxDone, outputs, intents, reloads, failures>>

\* A restartable that would also take sessions that finished.
restartableFinished == {"starting", "running", "failed", "finished"}
restartable == {"starting", "running", "failed"}

TakeReload ==
  /\ loop.pc = "idle"
  /\ reload
  /\ reload' = FALSE
  /\ loop' = [At("filter") EXCEPT !.list = sessions]
  /\ UNCHANGED <<storeVars, reg, nextGen, lanes, ctxDone, outputs, intents, reloads, failures>>

Reconfigurable ==
  /\ loop.pc = "filter"
  /\ Scan("replace",
          {s \in Slug : /\ loop.list[s] # NoSession
                        /\ reg[s].state \in {"running", "exited"}
                        /\ loop.list[s].state \in restartable},
          NoListing)
  /\ UNCHANGED <<storeVars, reg, nextGen, lanes, reload, ctxDone, outputs, intents, reloads, failures>>

Replace(s) ==
  /\ loop.pc = "replace"
  /\ s \in loop.todo
  /\ IF ~Stored(s)                                THEN Visit(s, "halt", NoSession, FALSE)
     ELSE IF sessions[s].state \in restartable THEN Visit(s, "stop", sessions[s], TRUE)
     ELSE Skip(s)
  /\ UNCHANGED <<storeVars, reg, nextGen, lanes, reload, ctxDone, outputs, intents, reloads, failures>>

ScanDone ==
  /\ loop.pc \in {"boot", "sweep", "replace"}
  /\ loop.todo = {}
  /\ loop' = At("idle")
  /\ UNCHANGED <<storeVars, reg, nextGen, lanes, reload, ctxDone, outputs, intents, reloads, failures>>

-----------------------------------------------------------------------------
(* The loop: the subscription is closed and drained.                       *)

EventsClosed ==
  /\ loop.pc = "idle"
  /\ sub = "closed" /\ events = <<>>
  /\ loop' = At("stopAll")
  /\ UNCHANGED <<storeVars, reg, nextGen, lanes, reload, ctxDone, outputs, intents, reloads, failures>>

StopAll ==
  LET running == {s \in Slug : reg[s].state = "running"}
  IN  /\ loop.pc = "stopAll"
      /\ reg' = [s \in Slug |-> IF s \in running THEN [reg[s] EXCEPT !.state = "stopping"]
                                ELSE reg[s]]
      /\ lanes' = [g \in Gens |-> IF \E s \in running : reg[s].gen = g
                                  THEN [lanes[g] EXCEPT !.cancelled = TRUE] ELSE lanes[g]]
      /\ Goto("drain")
      /\ UNCHANGED <<storeVars, nextGen, reload, ctxDone, outputs, intents, reloads, failures>>

\* Runtime.wg counts the lane goroutines that have not returned.
AwaitLanes ==
  /\ loop.pc = "drain"
  /\ \A g \in Gens : lanes[g].pc = "closed"
  /\ Goto("cleanList")
  /\ UNCHANGED <<storeVars, reg, nextGen, lanes, reload, ctxDone, outputs, intents, reloads, failures>>

CleanList ==
  /\ loop.pc = "cleanList"
  /\ loop' = [At("cleanStored") EXCEPT !.todo = StoredSlugs]
  /\ UNCHANGED <<storeVars, reg, nextGen, lanes, reload, ctxDone, outputs, intents, reloads, failures>>

CleanStored(s) ==
  /\ loop.pc = "cleanStored"
  /\ s \in loop.todo
  /\ outputs' = [outputs EXCEPT ![s] = {}]
  /\ intents' = [intents EXCEPT ![s] = 0]
  /\ Skip(s)
  /\ UNCHANGED <<storeVars, reg, nextGen, lanes, reload, ctxDone, reloads, failures>>

RunReturns ==
  /\ loop.pc = "cleanStored"
  /\ loop.todo = {}
  /\ loop' = At("done")
  /\ UNCHANGED <<storeVars, reg, nextGen, lanes, reload, ctxDone, outputs, intents, reloads, failures>>

-----------------------------------------------------------------------------
(* One lane goroutine.                                                     *)

\* Lane step that only moves the lane's own program counter.
LaneMoves(g, from, to) ==
  /\ lanes[g].pc = from
  /\ LaneStops(g, to)
  /\ UNCHANGED <<storeVars, reg, nextGen, loop, reload, ctxDone, outputs, intents, reloads, failures>>

\* runLane: wait the predecessor out, then look at the context once.
LaneEnter(g) ==
  /\ DoneClosed(lanes[g].prev)
  /\ \/ Cancelled(g) /\ LaneMoves(g, "await", "leave")
     \/ ~Cancelled(g) /\ lanes[g].scrub /\ LaneMoves(g, "await", "prestart")
     \/ ~Cancelled(g) /\ ~lanes[g].scrub /\ LaneMoves(g, "await", "inside")

abandonLane(g) == DoneClosed(lanes[g].prev) /\ LaneMoves(g, "abandon", "leave")

LanePreStart(g) ==
  /\ lanes[g].pc = "prestart"
  /\ LaneStops(g, "inside")
  /\ outputs' = [outputs EXCEPT ![lanes[g].slug] = {}]
  /\ UNCHANGED <<storeVars, reg, nextGen, loop, reload, ctxDone, intents, reloads, failures>>

\* start has its slot and its engines and publishes the session's outputs.
LanePublish(g) ==
  /\ lanes[g].pc = "inside"
  /\ LaneStops(g, "open")
  /\ outputs' = [outputs EXCEPT ![lanes[g].slug] = @ \cup {g}]
  /\ UNCHANGED <<storeVars, reg, nextGen, loop, reload, ctxDone, intents, reloads, failures>>

\* The running callback fires once, at the first media frame.
LaneAnnounce(g) ==
  LET l == lanes[g]
  IN  /\ l.pc = "open"
      /\ LaneStops(g, "announced")
      /\ \/ setRuntime(l.slug, l.rev, g, "running")
         \/ ~setAccepted(l.slug, l.rev, g, "running") /\ UNCHANGED storeVars
      /\ UNCHANGED <<reg, nextGen, loop, reload, ctxDone, outputs, intents, reloads, failures>>

\* The source ended cleanly: the delayed dub tail plays out before start returns.
LaneSourceEnds(g) ==
  /\ ~Cancelled(g)
  /\ \E from \in {"open", "announced"} : LaneMoves(g, from, "drain")

\* WaitPlayout returns, the tail played or the lane cancelled; audio.Drop then
\* forgets the push routes, the captions stay.  Closing an engine can still fail.
LaneDrained(g) ==
  /\ lanes[g].pc = "drain"
  /\ \/ LaneStops(g, "finish") /\ UNCHANGED failures
     \/ Cancelled(g) /\ LaneStops(g, "error") /\ UNCHANGED failures
     \/ failures < MaxFail /\ failures' = failures + 1 /\ LaneStops(g, "error")
  /\ intents' = [intents EXCEPT ![lanes[g].slug] = 0]
  /\ UNCHANGED <<storeVars, reg, nextGen, loop, reload, ctxDone, outputs, reloads>>

\* A lane that has published scrubs its slug on a cancel or an error; one that
\* has not (no slot, no engine) leaves the outputs alone.
LeavesOutputs(g) ==
  outputs' = IF lanes[g].pc = "inside" THEN outputs
             ELSE [outputs EXCEPT ![lanes[g].slug] = {}]

LaneCancelReturn(g) ==
  /\ lanes[g].pc \in {"inside", "open", "announced"}
  /\ Cancelled(g)
  /\ \/ LaneStops(g, "error")
     \/ lanes[g].pc # "inside" /\ LaneStops(g, "finish")
  /\ LeavesOutputs(g)
  /\ UNCHANGED <<storeVars, reg, nextGen, loop, reload, ctxDone, intents, reloads, failures>>

LaneFails(g) ==
  /\ lanes[g].pc \in {"inside", "open", "announced"}
  /\ failures < MaxFail
  /\ failures' = failures + 1
  /\ LaneStops(g, "error")
  /\ LeavesOutputs(g)
  /\ UNCHANGED <<storeVars, reg, nextGen, loop, reload, ctxDone, intents, reloads>>

\* finishLane, its three branches.
LaneFinished(g) ==
  LET l == lanes[g]
  IN  /\ l.pc = "finish"
      /\ LaneStops(g, "leave")
      /\ \/ setRuntime(l.slug, l.rev, g, "finished")
         \/ ~setAccepted(l.slug, l.rev, g, "finished") /\ UNCHANGED storeVars
      /\ UNCHANGED <<reg, nextGen, loop, reload, ctxDone, outputs, intents, reloads, failures>>

LaneErrored(g) ==
  \/ Cancelled(g) /\ LaneMoves(g, "error", "leave")
  \/ ~Cancelled(g) /\ LaneMoves(g, "error", "fail")

LaneFailed(g) ==
  LET l == lanes[g]
  IN  /\ l.pc = "fail"
      /\ \/ setRuntime(l.slug, l.rev, g, "failed") /\ LaneStops(g, "schedule")
         \/ /\ ~setAccepted(l.slug, l.rev, g, "failed")
            /\ LaneStops(g, "leave")
            /\ UNCHANGED storeVars
      /\ UNCHANGED <<reg, nextGen, loop, reload, ctxDone, outputs, intents, reloads, failures>>

\* A Registered that would compare no lanes.
RegisteredSlug(g) == reg[lanes[g].slug] # NoReg

\* The slug's registration is still this lane's, not its replacement's.
Registered(g) == reg[lanes[g].slug].gen = g

scheduleRetry(g) ==
  LET s == lanes[g].slug
  IN  /\ lanes[g].pc = "schedule"
      /\ LaneStops(g, "leave")
      /\ reg' = IF Registered(g) THEN [reg EXCEPT ![s].due = FALSE] ELSE reg
      /\ UNCHANGED <<storeVars, nextGen, loop, reload, ctxDone, outputs, intents, reloads, failures>>

\* The deferred cancel runs first, then the registration is marked exited.
forget(g) ==
  LET s == lanes[g].slug
  IN  /\ lanes[g].pc = "leave"
      /\ lanes' = [lanes EXCEPT ![g].pc = "close", ![g].cancelled = TRUE]
      /\ reg' = IF Registered(g) THEN [reg EXCEPT ![s].state = "exited"] ELSE reg
      /\ UNCHANGED <<storeVars, nextGen, loop, reload, ctxDone, outputs, intents, reloads, failures>>

LaneCloses(g) == LaneMoves(g, "close", "closed")

-----------------------------------------------------------------------------
(* The specification.                                                      *)

Environment ==
  \/ Api
  \/ Reconfigure
  \/ \E s \in Slug : RecordPush(s) \/ RetryDue(s)
  \/ Shutdown
  \/ SubscriptionEnds

LoopSelect == TakeEvent \/ Tick \/ TakeReload \/ EventsClosed

LoopWorks ==
  \/ RunSubscribe \/ RunList
  \/ \E s \in Slug : BootVisit(s) \/ Heal(s) \/ Sweep(s) \/ Replace(s) \/ CleanStored(s)
  \/ Orphans \/ Reconfigurable \/ ScanDone
  \/ DeletedGet \/ SyncCurrent \/ Stop \/ LaunchRefused \/ Launch \/ Bind
  \/ Halt \/ HaltWait \/ Clean
  \/ StopAll \/ AwaitLanes \/ CleanList \/ RunReturns

LaneWorks(g) ==
  \/ LaneEnter(g) \/ abandonLane(g) \/ LanePreStart(g)
  \/ LaneCancelReturn(g)
  \/ LaneFinished(g) \/ LaneErrored(g) \/ LaneFailed(g)
  \/ scheduleRetry(g) \/ forget(g) \/ LaneCloses(g)

\* What the source does to a lane, at no particular time.
LaneMedia(g) ==
  LanePublish(g) \/ LaneAnnounce(g) \/ LaneSourceEnds(g) \/ LaneDrained(g) \/ LaneFails(g)

Next ==
  \/ Environment
  \/ LoopSelect
  \/ LoopWorks
  \/ \E g \in Gens : LaneWorks(g) \/ LaneMedia(g)

Spec == Init /\ [][Next]_vars

(***************************************************************************)
(* The loop's goroutine is scheduled; Go's select picks uniformly among    *)
(* the ready cases, so a case that is ready again and again is taken.  A   *)
(* lane goroutine is scheduled outside start, and start returns once its   *)
(* context is cancelled.  The retry instant arrives.  Nothing makes the    *)
(* API, a source or the daemon's context act.  The lanes take finitely     *)
(* many such steps in all, so fairness to their union is fairness to each. *)
(***************************************************************************)
Fairness ==
  /\ WF_vars(LoopWorks)
  /\ SF_vars(TakeEvent)
  /\ WF_vars(Tick)
  /\ SF_vars(TakeReload)
  /\ SF_vars(EventsClosed)
  /\ WF_vars(SubscriptionEnds)
  /\ WF_vars(\E s \in Slug : RetryDue(s))
  /\ WF_vars(\E g \in Gens : LaneWorks(g) \/ (Cancelled(g) /\ LaneDrained(g)))

FairSpec == Spec /\ Fairness

-----------------------------------------------------------------------------
(* Properties.                                                             *)

\* The shape of every variable.
TypeOK ==
  /\ StoreTypeOK
  /\ reg \in [Slug -> Reg \cup {NoReg}]
  /\ nextGen \in Nat
  /\ lanes \in [Gens -> Lane]
  /\ loop \in Loop
  /\ reload \in BOOLEAN /\ ctxDone \in BOOLEAN
  /\ outputs \in [Slug -> SUBSET Gens]
  /\ intents \in [Slug -> Nat]
  /\ reloads \in Nat /\ failures \in Nat

\* runtime.go launch/runLane: whatever the API, retries, reloads and shutdown do,
\* two lanes of one session are never inside their starter at the same time.
OneLanePerSlug ==
  \A g, h \in Gens :
    InStart(g) /\ InStart(h) /\ lanes[g].slug = lanes[h].slug => g = h

\* The order of the lanes of one slug, which both properties around it rest on.
Waiting(g) == lanes[g].pc \in {"new", "await", "abandon"}

LanesOf(s) == {g \in Gens : lanes[g].slug = s}

\* The registration is the youngest lane's; a slug without one has no lane left.
RegistrationIsYoungest ==
  \A s \in Slug :
    /\ reg[s] # NoReg => reg[s].gen \in LanesOf(s)
    /\ reg[s].state = "exited" => Ended(reg[s].gen)
    /\ \A g \in LanesOf(s) : IF reg[s] = NoReg THEN Ended(g) ELSE g <= reg[s].gen

\* runtime.go launch: the prev chain.  Two lanes of a slug overlap only while the
\* younger one still waits, directly or through the lanes between, for the older.
WaitsItsTurn ==
  \A h \in Gens :
    /\ lanes[h].prev # 0 => lanes[h].prev \in LanesOf(lanes[h].slug) /\ lanes[h].prev < h
    /\ \A g \in LanesOf(lanes[h].slug) :
         g < h => Ended(g) \/ (Waiting(h) /\ g <= lanes[h].prev)

\* What the loop holds on to between two of its steps.
LoopHoldsALane ==
  /\ loop.pc = "bind" => loop.gen \in LanesOf(loop.slug) /\ lanes[loop.gen].pc = "new"
  /\ loop.pc = "wait" => /\ loop.gen \in LanesOf(loop.slug)
                         /\ \A g \in LanesOf(loop.slug) : g <= loop.gen

LaneOrder == RegistrationIsYoungest /\ WaitsItsTurn /\ LoopHoldsALane

\* runtime.go stopAndWait/clean and Run's shutdown: when a session's outputs are
\* dropped, no lane of that slug can still publish any.
DropAfterLanes ==
  /\ loop.pc = "clean" => \A g \in LanesOf(loop.slug) : Ended(g)
  /\ loop.pc \in {"cleanList", "cleanStored"} => \A g \in Gens : Ended(g)

\* store.go bindRuntime/setRuntime: the status of a definition is the last word of
\* the lane bound to it, and only of that lane.
StatusIsTheLanes ==
  \A s \in StoredSlugs :
    LET st == sessions[s].state
        g  == sessions[s].gen
    IN  /\ g = 0 => st = "starting"
        /\ g # 0 => /\ g \in Gens
                    /\ lanes[g].slug = s
                    /\ lanes[g].rev = sessions[s].rev
                    /\ st = "running"  => lanes[g].pc \in LanePc \
                         {"new", "await", "abandon", "prestart", "inside", "open"}
                    /\ st = "finished" => lanes[g].pc \in {"leave", "close", "closed"}
                    /\ st = "failed"   => lanes[g].pc \in
                                            {"schedule", "leave", "close", "closed"}

\* A session shown as running while the loop rests has a lane at work: it is the
\* registered one, it was not cancelled and it has not gone without a word.
RunningIsLive ==
  loop.pc = "idle" /\ ~ctxDone =>
    \A s \in StoredSlugs :
      LET g == sessions[s].gen
      IN  sessions[s].state = "running" =>
            /\ reg[s].gen = g
            /\ ~lanes[g].cancelled
            /\ lanes[g].pc \in {"announced", "drain", "finish", "error", "fail"}

\* reconfigure has read s as restartable and is about to put a lane in its place.
Replacing(s) == loop.back = "replace" /\ loop.slug = s /\ loop.pc \in {"stop", "launch", "bind"}

FinishedDown(s) == Stored(s) /\ sessions[s].state = "finished" /\ ~Replacing(s)

\* runtime.go forget/reconcile/restartable: a lane that ended on its own stays down
\* until its definition changes.  Nothing takes it up again, a reload neither: only one
\* that was replacing the lane already when its source ended displaces it.
FinishedStaysDown ==
  [][\A s \in Slug : FinishedDown(s) /\ sessions'[s].rev = sessions[s].rev => FinishedDown(s)']_vars

\* LaneOutputs: restarts scrub and keep the push routes of the live definition;
\* they are forgotten where a session ends or when its source has ended.
RestartsKeepPushRoutes ==
  [][\A s \in Slug :
       /\ Stored(s) /\ intents[s] = sessions[s].rev /\ intents'[s] = 0
       => \/ loop.pc \in {"clean", "cleanStored"}
          \/ \E g \in Gens : lanes[g].slug = s /\ lanes[g].pc = "drain"]_vars

\* What the runtime starts again is due: a source that finished stays down, and a
\* restart keeps the push routes its session was given.
RestartsAreDue == FinishedStaysDown /\ RestartsKeepPushRoutes

\* The tick heals what a full buffer lost: every definition gets a lane of its own.
EveryDefinitionGetsALane ==
  \A s \in Slug :
    Stored(s) /\ sessions[s].gen = 0
      ~> ~Stored(s) \/ sessions[s].gen # 0 \/ ctxDone

\* A deleted session goes quiet: its lanes end and its outputs are dropped.
DeletedGoesQuiet ==
  \A s \in Slug :
    ~Stored(s)
      ~> \/ Stored(s) \/ ctxDone
         \/ outputs[s] = {} /\ \A g \in LanesOf(s) : Ended(g)

\* Run returns after the context ends, whatever the loop was waiting for.
ShutdownCompletes == ctxDone ~> loop.pc = "done"

\* What is deleted comes to an end, and so does the whole runtime when told to.
EndsQuietly == DeletedGoesQuiet /\ ShutdownCompletes

\* The store and the runtime implement the contract: a lane is at work from its
\* preStart until start returns.
AtWork(s) == {g \in LanesOf(s) : InStart(g)}

\* The youngest incarnation whose turn has come.
LatestTurn(s) ==
  LET turned == {g \in LanesOf(s) : ~Waiting(g)}
  IN  CHOOSE g \in turned \cup {0} : \A h \in turned : h <= g

Contract == INSTANCE SessionContract WITH
  rev    <- [s \in Slug |-> sessions[s].rev],
  status <- [s \in Slug |-> sessions[s].state],
  owner  <- [s \in Slug |-> sessions[s].gen],
  active <- [s \in Slug |-> AtWork(s)],
  latest <- [s \in Slug |-> LatestTurn(s)]

ImplementsContract == Contract!Spec

-----------------------------------------------------------------------------
(* What comments in the code claim and the code does not do.               *)

\* runtime.go:111 "Reconfigure restarts active and failed lanes": once a reload has
\* stopped a lane, it launches the replacement.
ReloadReplacesWhatItStops ==
  [][loop.back = "replace" /\ loop.pc = "launch" => nextGen' = nextGen + 1]_loop

\* runtime.go:204 "replaces lanes whose session is active or failed": a lane the
\* reload is about to replace has not finished its source meanwhile.
ReloadLeavesFinishedDown ==
  loop.pc = "stop" /\ loop.back = "replace" =>
    LET s == loop.slug
    IN  Stored(s) /\ sessions[s].rev = loop.snap.rev => sessions[s].state \in restartable

\* runtime.go:437 "clean() must never race a recreated session's registrations".
CleanSparesTheRecreated ==
  loop.pc = "clean" /\ Stored(loop.slug) =>
    intents[loop.slug] # sessions[loop.slug].rev

\* audio.go:460 "the session is over. A restarting lane calls Reset instead": the
\* lane that forgets the push routes was not cancelled for a replacement.
RestartingLaneKeepsRoutes ==
  [][\A g \in Gens :
       /\ lanes[g].pc = "drain" /\ lanes'[g].pc # "drain"
       /\ Stored(lanes[g].slug) /\ ~ctxDone
       /\ intents[lanes[g].slug] = sessions[lanes[g].slug].rev
       => ~lanes[g].cancelled \/ intents' = intents]_vars
=============================================================================
