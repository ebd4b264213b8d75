------------------------ MODULE SessionRuntimeProofs ------------------------
(***************************************************************************)
(* Theorems about the session runtime, for every set of slugs, every buffer*)
(* size and every bound.                                                   *)
(***************************************************************************)
EXTENDS SessionRuntime, TLAPS

USE DEF Gens

\* The steps of the loop at which it is working on one session.
VisitPc == {"deleted", "sync", "stop", "launch", "bind", "halt", "wait", "clean"}

\* While the loop visits a session it knows which one.
LoopSlugOK == loop.pc \in VisitPc => loop.slug \in Slug

LEMMA NotifyType ==
  ASSUME NEW queue \in Seq(Event), NEW type \in EventType, NEW s \in Slug
  PROVE  notify(queue, type, s) \in Seq(Event)
<1>1. [type |-> type, slug |-> s] \in Event
  BY DEF Event
<1>2. Append(queue, [type |-> type, slug |-> s]) \in Seq(Event)
  BY <1>1
<1>3. QED
  BY <1>2 DEF notify

LEMMA FreshType ==
  ASSUME nextRev \in Nat, NEW pair \in Slug \cup {NoSlug}
  PROVE  Fresh(pair) \in Session
BY DEF Fresh, Session, RuntimeState

LEMMA StoreTypeApi ==
  ASSUME StoreTypeOK, ApiStep
  PROVE  StoreTypeOK'
<1> USE DEF StoreTypeOK
<1>1. ASSUME NEW s \in Slug, NEW pair \in Slug \cup {NoSlug}, Create(s, pair)
      PROVE  StoreTypeOK'
  <2>1. notify(events, "created", s) \in Seq(Event)
    BY NotifyType DEF EventType
  <2>2. Fresh(pair) \in Session
    BY FreshType
  <2>3. QED
    BY <1>1, <2>1, <2>2 DEF Create
<1>2. ASSUME NEW s \in Slug, updateLangs(s)
      PROVE  StoreTypeOK'
  <2>1. notify(events, "updated", s) \in Seq(Event)
    BY NotifyType DEF EventType
  <2>2. sessions[s].pair \in Slug \cup {NoSlug}
    BY <1>2 DEF updateLangs, Stored, Session
  <2>3. Fresh(sessions[s].pair) \in Session
    BY <2>2, FreshType
  <2>4. QED
    BY <1>2, <2>1, <2>3 DEF updateLangs
<1>3. ASSUME NEW s \in Slug, Delete(s)
      PROVE  StoreTypeOK'
  <2>1. notify(events, "deleted", s) \in Seq(Event)
    BY NotifyType DEF EventType
  <2>2. CASE sessions' = [sessions EXCEPT ![s] = NoSession] /\ events' = notify(events, "deleted", s)
    BY <1>3, <2>1, <2>2 DEF Delete
  <2>3. ASSUME NEW p \in Slug,
               sessions' = [sessions EXCEPT ![s] = NoSession, ![p] = NoSession],
               events' = notify(notify(events, "deleted", s), "deleted", p)
        PROVE  StoreTypeOK'
    <3>1. notify(notify(events, "deleted", s), "deleted", p) \in Seq(Event)
      BY <2>1, NotifyType DEF EventType
    <3>2. QED
      BY <1>3, <2>3, <3>1 DEF Delete
  <2>4. QED
    BY <1>3, <2>2, <2>3 DEF Delete
<1>4. QED
  BY <1>1, <1>2, <1>3 DEF ApiStep

LEMMA StoreTypeBind ==
  ASSUME StoreTypeOK, NEW s \in Slug, NEW rev, NEW g \in Nat, bindRuntime(s, rev, g)
  PROVE  StoreTypeOK'
<1>1. events' \in Seq(Event)
  BY NotifyType DEF bindRuntime, StoreTypeOK, EventType
<1>2. sessions[s] \in Session
  BY DEF StoreTypeOK, bindRuntime, bindAccepted, Stored
<1>3. [sessions[s] EXCEPT !.state = "starting", !.gen = g] \in Session
  BY <1>2 DEF Session, RuntimeState
<1>4. sessions' = [sessions EXCEPT ![s] = [sessions[s] EXCEPT !.state = "starting", !.gen = g]]
  BY DEF bindRuntime, StoreTypeOK
<1>5. QED
  BY <1>1, <1>3, <1>4 DEF bindRuntime, StoreTypeOK

LEMMA StoreTypeSet ==
  ASSUME StoreTypeOK, NEW s \in Slug, NEW rev, NEW g, NEW st \in RuntimeState,
         setRuntime(s, rev, g, st)
  PROVE  StoreTypeOK'
<1>1. events' \in Seq(Event)
  BY NotifyType DEF setRuntime, StoreTypeOK, EventType
<1>2. sessions[s] \in Session
  BY DEF StoreTypeOK, setRuntime, setAccepted, Stored
<1>3. [sessions[s] EXCEPT !.state = st] \in Session
  BY <1>2 DEF Session
<1>4. sessions' = [sessions EXCEPT ![s] = [sessions[s] EXCEPT !.state = st]]
  BY DEF setRuntime, StoreTypeOK
<1>5. QED
  BY <1>1, <1>3, <1>4 DEF setRuntime, StoreTypeOK

-----------------------------------------------------------------------------
(* The shapes of the loop and of the lanes.                                *)

LEMMA AtType ==
  ASSUME NEW pc \in LoopPc
  PROVE  At(pc) \in Loop
BY DEF At, Loop, ScanPc, Listing, NoListing

LEMMA EndVisitType ==
  ASSUME loop \in Loop, EndVisit
  PROVE  /\ loop' \in Loop
         /\ loop'.pc \in ScanPc
BY DEF EndVisit, At, Loop, LoopPc, ScanPc, Listing, NoListing

LEMMA ScanType ==
  ASSUME NEW pc \in ScanPc, NEW slugs \in SUBSET Slug, NEW list \in Listing,
         Scan(pc, slugs, list)
  PROVE  /\ loop' \in Loop
         /\ loop'.pc \in ScanPc
BY DEF Scan, At, Loop, LoopPc, NoListing, ScanPc

LEMMA VisitType ==
  ASSUME loop \in Loop, NEW s \in Slug, NEW pc \in LoopPc, NEW scrub \in BOOLEAN,
         NEW snap \in Session \cup {NoSession}, Visit(s, pc, snap, scrub)
  PROVE  /\ loop' \in Loop
         /\ loop'.slug = s /\ loop'.pc = pc
BY DEF Visit, Loop

LEMMA LoopUpdateType ==
  ASSUME loop \in Loop, NEW pc \in LoopPc, NEW g \in Nat,
         loop' = [loop EXCEPT !.pc = pc, !.snap = NoSession, !.gen = g]
  PROVE  /\ loop' \in Loop
         /\ loop'.slug = loop.slug
BY DEF Loop

LEMMA LaneUpdateType ==
  ASSUME lanes \in [Gens -> Lane], NEW g \in Gens, NEW pc \in LanePc,
         LaneStops(g, pc)
  PROVE  lanes' \in [Gens -> Lane]
BY DEF LaneStops, Lane

LEMMA LaneCancelType ==
  ASSUME lanes \in [Gens -> Lane], NEW g \in Gens, NEW pc \in LanePc
  PROVE  [lanes EXCEPT ![g].pc = pc, ![g].cancelled = TRUE] \in [Gens -> Lane]
<1>1. lanes[g] \in Lane
  OBVIOUS
<1>2. [lanes[g] EXCEPT !.pc = pc, !.cancelled = TRUE] \in Lane
  BY <1>1 DEF Lane
<1>3. [lanes EXCEPT ![g].pc = pc, ![g].cancelled = TRUE]
        = [lanes EXCEPT ![g] = [lanes[g] EXCEPT !.pc = pc, !.cancelled = TRUE]]
  BY <1>1 DEF Lane
<1>4. QED
  BY <1>2, <1>3

LEMMA RegUpdateType ==
  ASSUME reg \in [Slug -> Reg \cup {NoReg}], NEW s \in Slug, reg[s].gen # 0
  PROVE  /\ [reg EXCEPT ![s].state = "exited"] \in [Slug -> Reg \cup {NoReg}]
         /\ [reg EXCEPT ![s].due = FALSE] \in [Slug -> Reg \cup {NoReg}]
<1>1. reg[s] \in Reg
  BY DEF NoReg
<1>2. /\ [reg[s] EXCEPT !.state = "exited"] \in Reg
      /\ [reg[s] EXCEPT !.due = FALSE] \in Reg
  BY <1>1 DEF Reg
<1>3. QED
  BY <1>2

LEMMA StopType ==
  ASSUME reg \in [Slug -> Reg \cup {NoReg}], lanes \in [Gens -> Lane], NEW s \in Slug
  PROVE  /\ StopReg(s) \in [Slug -> Reg \cup {NoReg}]
         /\ StopLanes(s) \in [Gens -> Lane]
<1>1. StopReg(s) \in [Slug -> Reg \cup {NoReg}]
  BY DEF StopReg, Reg, NoReg
<1>2. StopLanes(s) \in [Gens -> Lane]
  BY DEF StopLanes, Lane
<1>3. QED
  BY <1>1, <1>2

-----------------------------------------------------------------------------
(* Type correctness, one lemma per process.                                *)

TInv == TypeOK /\ LoopSlugOK

LEMMA TypeInit == Init => TInv
<1> SUFFICES ASSUME Init PROVE TInv
  OBVIOUS
<1>1. StoreTypeOK
  BY DEF Init, StoreInit, StoreTypeOK
<1>2. loop \in Loop
  BY AtType DEF Init, LoopPc
<1>3. lanes \in [Gens -> Lane]
  BY DEF Init
<1>4. LoopSlugOK
  BY DEF Init, At, LoopSlugOK, VisitPc
<1>5. QED
  BY <1>1, <1>2, <1>3, <1>4 DEF Init, TInv, TypeOK

LEMMA TypeEnvironment ==
  ASSUME TInv, Environment
  PROVE  TInv'
<1> USE DEF TInv, TypeOK, LoopSlugOK
<1>1. CASE Api
  BY <1>1, StoreTypeApi DEF Api, runtimeVars
<1>2. CASE Reconfigure
  BY <1>2 DEF Reconfigure, storeVars, StoreTypeOK
<1>3. ASSUME NEW s \in Slug, RecordPush(s) PROVE TInv'
  <2>1. sessions[s].rev \in Nat
    BY <1>3 DEF StoreTypeOK, Session, NoSession
  <2>2. QED
    BY <1>3, <2>1 DEF RecordPush, storeVars, StoreTypeOK
<1>4. ASSUME NEW s \in Slug, RetryDue(s) PROVE TInv'
  <2>1. reg' \in [Slug -> Reg \cup {NoReg}]
    BY <1>4 DEF RetryDue, Reg, NoReg
  <2>2. QED
    BY <1>4, <2>1 DEF RetryDue, storeVars, StoreTypeOK
<1>5. CASE Shutdown
  BY <1>5 DEF Shutdown, storeVars, StoreTypeOK
<1>6. CASE SubscriptionEnds
  BY <1>6 DEF SubscriptionEnds, Unregister, CloseEvents, runtimeVars, StoreTypeOK
<1>7. QED
  BY <1>1, <1>2, <1>3, <1>4, <1>5, <1>6 DEF Environment

LEMMA TypeLane ==
  ASSUME TInv, NEW g \in Gens, LaneWorks(g) \/ LaneMedia(g)
  PROVE  TInv'
<1> USE DEF TInv, TypeOK, LoopSlugOK
<1>0. lanes[g].slug \in Slug /\ lanes[g].rev \in Nat
  BY DEF Lane
<1>1. ASSUME NEW from, NEW to \in LanePc, LaneMoves(g, from, to) PROVE TInv'
  BY <1>1, LaneUpdateType DEF LaneMoves, storeVars, StoreTypeOK
<1>2. CASE LaneEnter(g)
  BY <1>1, <1>2 DEF LaneEnter, LanePc
<1>3. CASE abandonLane(g)
  BY <1>1, <1>3 DEF abandonLane, LanePc
<1>4. CASE LanePreStart(g)
  BY <1>0, <1>4, LaneUpdateType DEF LanePreStart, LanePc, storeVars, StoreTypeOK
<1>5. CASE LaneCancelReturn(g)
  <2>1. lanes' \in [Gens -> Lane]
    BY <1>5, LaneUpdateType DEF LaneCancelReturn, LanePc
  <2>2. outputs' \in [Slug -> SUBSET Gens]
    BY <1>5 DEF LaneCancelReturn, LeavesOutputs
  <2>3. QED
    BY <1>5, <2>1, <2>2 DEF LaneCancelReturn, storeVars, StoreTypeOK
<1>6. CASE LaneFinished(g)
  <2>1. lanes' \in [Gens -> Lane]
    BY <1>6, LaneUpdateType DEF LaneFinished, LanePc
  <2>2. StoreTypeOK'
    BY <1>0, <1>6, StoreTypeSet DEF LaneFinished, RuntimeState, storeVars, StoreTypeOK
  <2>3. QED
    BY <1>6, <2>1, <2>2 DEF LaneFinished
<1>7. CASE LaneErrored(g)
  BY <1>1, <1>7 DEF LaneErrored, LanePc
<1>8. CASE LaneFailed(g)
  <2>1. lanes' \in [Gens -> Lane]
    BY <1>8, LaneUpdateType DEF LaneFailed, LanePc
  <2>2. StoreTypeOK'
    BY <1>0, <1>8, StoreTypeSet DEF LaneFailed, RuntimeState, storeVars, StoreTypeOK
  <2>3. QED
    BY <1>8, <2>1, <2>2 DEF LaneFailed
<1>9. CASE scheduleRetry(g)
  <2>1. reg' \in [Slug -> Reg \cup {NoReg}]
    <3>1. CASE reg[lanes[g].slug].gen = g
      <4>1. reg[lanes[g].slug].gen # 0
        BY <3>1
      <4>2. QED
        BY <1>0, <1>9, <3>1, <4>1, RegUpdateType DEF scheduleRetry, Registered
    <3>2. CASE reg[lanes[g].slug].gen # g
      BY <1>9, <3>2 DEF scheduleRetry, Registered
    <3>3. QED
      BY <3>1, <3>2
  <2>2. QED
    BY <1>9, <2>1, LaneUpdateType DEF scheduleRetry, LanePc, storeVars, StoreTypeOK
<1>10. CASE forget(g)
  <2>1. reg' \in [Slug -> Reg \cup {NoReg}]
    <3>1. CASE reg[lanes[g].slug].gen = g
      <4>1. reg[lanes[g].slug].gen # 0
        BY <3>1
      <4>2. QED
        BY <1>0, <1>10, <3>1, <4>1, RegUpdateType DEF forget, Registered
    <3>2. CASE reg[lanes[g].slug].gen # g
      BY <1>10, <3>2 DEF forget, Registered
    <3>3. QED
      BY <3>1, <3>2
  <2>2. lanes' \in [Gens -> Lane]
    <3>1. "close" \in LanePc
      BY DEF LanePc
    <3>2. QED
      BY <1>10, <3>1, LaneCancelType DEF forget
  <2>3. QED
    BY <1>10, <2>1, <2>2 DEF forget, storeVars, StoreTypeOK
<1>11. CASE LaneCloses(g)
  BY <1>1, <1>11 DEF LaneCloses, LanePc
<1>12. CASE LanePublish(g)
  BY <1>0, <1>12, LaneUpdateType DEF LanePublish, LanePc, storeVars, StoreTypeOK
<1>13. CASE LaneAnnounce(g)
  <2>1. lanes' \in [Gens -> Lane]
    BY <1>13, LaneUpdateType DEF LaneAnnounce, LanePc
  <2>2. StoreTypeOK'
    BY <1>0, <1>13, StoreTypeSet DEF LaneAnnounce, RuntimeState, storeVars, StoreTypeOK
  <2>3. QED
    BY <1>13, <2>1, <2>2 DEF LaneAnnounce
<1>14. CASE LaneSourceEnds(g)
  BY <1>1, <1>14 DEF LaneSourceEnds, LanePc
<1>15. CASE LaneDrained(g)
  <2>1. lanes' \in [Gens -> Lane]
    BY <1>15, LaneUpdateType DEF LaneDrained, LanePc
  <2>2. QED
    BY <1>0, <1>15, <2>1 DEF LaneDrained, storeVars, StoreTypeOK
<1>16. CASE LaneFails(g)
  <2>1. outputs' \in [Slug -> SUBSET Gens]
    BY <1>16 DEF LaneFails, LeavesOutputs
  <2>2. lanes' \in [Gens -> Lane]
    BY <1>16, LaneUpdateType DEF LaneFails, LanePc
  <2>3. QED
    BY <1>16, <2>1, <2>2 DEF LaneFails, storeVars, StoreTypeOK
<1>17. QED
  BY <1>2, <1>3, <1>4, <1>5, <1>6, <1>7, <1>8, <1>9, <1>10, <1>11, <1>12, <1>13,
     <1>14, <1>15, <1>16 DEF LaneWorks, LaneMedia

LEMMA TypeLoopSelect ==
  ASSUME TInv, LoopSelect
  PROVE  TInv'
<1> USE DEF TInv, TypeOK, LoopSlugOK
<1>0. sessions \in Listing /\ StoredSlugs \in SUBSET Slug
  BY DEF StoreTypeOK, Listing, StoredSlugs
<1>1. CASE TakeEvent
  <2>1. Head(events) \in Event /\ Tail(events) \in Seq(Event)
    BY <1>1 DEF TakeEvent, StoreTypeOK
  <2>2. Head(events).slug \in Slug
    BY <2>1 DEF Event
  <2>3. loop' \in Loop /\ (loop'.pc \in VisitPc => loop'.slug \in Slug)
    BY <1>1, <2>2 DEF TakeEvent, Loop, LoopPc, VisitPc
  <2>4. QED
    BY <1>1, <2>1, <2>3 DEF TakeEvent, StoreTypeOK
<1>2. CASE Tick
  <2>1. Scan("heal", StoredSlugs, sessions)
    BY <1>2 DEF Tick
  <2>2. loop' \in Loop /\ loop'.pc \in ScanPc
    BY <1>0, <2>1, ScanType DEF ScanPc
  <2>3. QED
    BY <1>2, <2>2 DEF Tick, storeVars, StoreTypeOK, VisitPc, ScanPc
<1>3. CASE TakeReload
  <2>1. loop' \in Loop /\ loop'.pc = "filter"
    BY <1>0, <1>3 DEF TakeReload, At, Loop, LoopPc, ScanPc, NoListing
  <2>2. QED
    BY <1>3, <2>1 DEF TakeReload, storeVars, StoreTypeOK, VisitPc
<1>4. CASE EventsClosed
  <2>1. loop' \in Loop /\ loop'.pc = "stopAll"
    BY <1>4, AtType DEF EventsClosed, LoopPc, At
  <2>2. QED
    BY <1>4, <2>1 DEF EventsClosed, storeVars, StoreTypeOK, VisitPc
<1>5. QED
  BY <1>1, <1>2, <1>3, <1>4 DEF LoopSelect

LEMMA TypeLoopWorks ==
  ASSUME TInv, LoopWorks
  PROVE  TInv'
<1> USE DEF TInv, TypeOK, LoopSlugOK
<1>0. /\ sessions \in Listing /\ StoredSlugs \in SUBSET Slug
      /\ \A s \in Slug : loop.list[s] \in Session \cup {NoSession}
      /\ loop.todo \in SUBSET Slug
      /\ loop.list \in Listing
      /\ loop.snap.rev \in Nat
      /\ NoListing \in Listing
  BY DEF StoreTypeOK, Listing, StoredSlugs, Loop, Session, NoSession, NoListing
<1>1. ASSUME loop' \in Loop, loop'.pc \in VisitPc => loop'.slug \in Slug,
             UNCHANGED <<storeVars, reg, nextGen, lanes, reload, ctxDone, outputs, intents,
                         reloads, failures>>
      PROVE  TInv'
  BY <1>1 DEF storeVars, StoreTypeOK
<1>2. CASE RunSubscribe
  <2>1. loop' \in Loop /\ loop'.pc \notin VisitPc
    BY <1>2 DEF RunSubscribe, Goto, Loop, LoopPc, VisitPc
  <2>2. QED
    BY <1>2, <2>1 DEF RunSubscribe, Subscribe, StoreTypeOK
<1>3. CASE RunList
  <2>1. Scan("boot", StoredSlugs, sessions)
    BY <1>3 DEF RunList
  <2>2. loop' \in Loop /\ loop'.pc \in ScanPc
    BY <1>0, <2>1, ScanType DEF ScanPc
  <2>3. QED
    BY <1>1, <1>3, <2>2 DEF RunList, VisitPc, ScanPc
<1>4. ASSUME NEW s \in Slug, BootVisit(s) PROVE TInv'
  <2>1. loop' \in Loop /\ loop'.slug = s
    BY <1>0, <1>4, VisitType DEF BootVisit, LoopPc
  <2>2. QED
    BY <1>1, <1>4, <2>1 DEF BootVisit
<1>5. ASSUME NEW s \in Slug, Heal(s) PROVE TInv'
  <2>1. ASSUME Skip(s) PROVE loop' \in Loop /\ loop'.pc \notin VisitPc
    BY <1>0, <1>5, <2>1 DEF Heal, Skip, Loop, VisitPc
  <2>2. ASSUME NEW pc \in {"launch", "stop"}, NEW scrub \in BOOLEAN,
               Visit(s, pc, loop.list[s], scrub)
        PROVE  loop' \in Loop /\ loop'.slug = s
    BY <1>0, <2>2, VisitType DEF LoopPc
  <2>3. QED
    BY <1>1, <1>5, <2>1, <2>2 DEF Heal
<1>6. ASSUME NEW s \in Slug, Sweep(s) PROVE TInv'
  <2>1. loop' \in Loop /\ loop'.slug = s
    BY <1>0, <1>6, VisitType DEF Sweep, LoopPc
  <2>2. QED
    BY <1>1, <1>6, <2>1 DEF Sweep
<1>7. ASSUME NEW s \in Slug, Replace(s) PROVE TInv'
  <2>1. ASSUME Skip(s) PROVE loop' \in Loop /\ loop'.pc \notin VisitPc
    BY <1>0, <1>7, <2>1 DEF Replace, Skip, Loop, VisitPc
  <2>2. ASSUME NEW pc \in {"halt", "stop"}, NEW scrub \in BOOLEAN,
               NEW snap \in Session \cup {NoSession}, Visit(s, pc, snap, scrub)
        PROVE  loop' \in Loop /\ loop'.slug = s
    BY <1>0, <2>2, VisitType, ZenonT(40) DEF LoopPc
  <2>3. sessions[s] \in Session \cup {NoSession}
    BY DEF StoreTypeOK
  <2>4. QED
    BY <1>1, <1>7, <2>1, <2>2, <2>3 DEF Replace
<1>8. ASSUME NEW s \in Slug, CleanStored(s) PROVE TInv'
  <2>1. loop' \in Loop /\ loop'.pc \notin VisitPc
    BY <1>0, <1>8 DEF CleanStored, Skip, Loop, VisitPc
  <2>2. QED
    BY <1>8, <2>1 DEF CleanStored, storeVars, StoreTypeOK
<1>9. CASE Orphans
  <2>1. loop' \in Loop /\ loop'.pc \in ScanPc
    BY <1>0, <1>9, ScanType DEF Orphans, ScanPc
  <2>2. reg' \in [Slug -> Reg \cup {NoReg}]
    BY <1>9 DEF Orphans
  <2>3. QED
    BY <1>9, <2>1, <2>2 DEF Orphans, storeVars, StoreTypeOK, VisitPc, ScanPc
<1>10. CASE Reconfigurable
  <2>1. loop' \in Loop /\ loop'.pc \in ScanPc
    BY <1>0, <1>10, ScanType DEF Reconfigurable, ScanPc
  <2>2. QED
    BY <1>1, <1>10, <2>1 DEF Reconfigurable, VisitPc, ScanPc
<1>11. CASE ScanDone
  <2>1. loop' \in Loop /\ loop'.pc = "idle"
    BY <1>11, AtType DEF ScanDone, At, LoopPc, ScanPc
  <2>2. QED
    BY <1>1, <1>11, <2>1 DEF ScanDone, VisitPc
<1>12. CASE DeletedGet
  <2>1. loop' \in Loop /\ loop'.slug = loop.slug /\ loop.slug \in Slug
    BY <1>12 DEF DeletedGet, Goto, Loop, LoopPc, VisitPc
  <2>2. QED
    BY <1>1, <1>12, <2>1 DEF DeletedGet
<1>13. CASE SyncCurrent
  <2>1. loop' \in Loop /\ loop'.slug = loop.slug /\ loop.slug \in Slug
    BY <1>13 DEF SyncCurrent, Loop, LoopPc, VisitPc, StoreTypeOK
  <2>2. QED
    BY <1>1, <1>13, <2>1 DEF SyncCurrent
<1>14. CASE Stop
  <2>1. loop' \in Loop /\ loop'.slug = loop.slug /\ loop.slug \in Slug
    BY <1>14 DEF Stop, Goto, Loop, LoopPc, VisitPc
  <2>2. QED
    BY <1>14, <2>1, StopType DEF Stop, storeVars, StoreTypeOK
<1>15. CASE LaunchRefused
  <2>1. loop' \in Loop /\ loop'.pc \in ScanPc
    BY <1>15, EndVisitType DEF LaunchRefused
  <2>2. QED
    BY <1>1, <1>15, <2>1 DEF LaunchRefused, VisitPc, ScanPc
<1>16. CASE Launch
  <2>1. loop' \in Loop /\ loop'.slug = loop.slug /\ loop.slug \in Slug
    <3>1. loop.slug \in Slug
      BY <1>16 DEF Launch, VisitPc
    <3>2. loop' = [loop EXCEPT !.pc = "bind", !.snap = NoSession, !.gen = nextGen + 1]
      BY <1>16 DEF Launch
    <3>3. nextGen + 1 \in Nat /\ "bind" \in LoopPc
      BY DEF LoopPc
    <3>4. QED
      BY <3>1, <3>2, <3>3, LoopUpdateType
  <2>2. nextGen' = nextGen + 1 /\ nextGen' \in Nat
    BY <1>16 DEF Launch
  <2>3. lanes' \in [1 .. nextGen + 1 -> Lane]
    <3>1. reg[loop.slug].gen \in Nat
      BY <2>1 DEF Reg, NoReg
    <3>2. [slug |-> loop.slug, rev |-> loop.snap.rev, prev |-> reg[loop.slug].gen,
           scrub |-> loop.scrub, cancelled |-> FALSE, pc |-> "new"] \in Lane
      BY <1>0, <2>1, <3>1 DEF Lane, LanePc, Loop
    <3>3. QED
      BY <1>16, <3>2 DEF Launch
  <2>4. reg' \in [Slug -> Reg \cup {NoReg}]
    <3>1. [gen |-> nextGen + 1, rev |-> loop.snap.rev, state |-> "running", due |-> TRUE] \in Reg
      BY <1>0 DEF Reg
    <3>2. QED
      BY <1>16, <3>1 DEF Launch
  <2>5. outputs' \in [Slug -> SUBSET (1 .. nextGen + 1)]
    BY <1>16 DEF Launch
  <2>6. QED
    BY <1>16, <2>1, <2>2, <2>3, <2>4, <2>5 DEF Launch, storeVars, StoreTypeOK
<1>17. CASE Bind
  <2>1. loop' \in Loop /\ loop'.pc \in ScanPc
    BY <1>17, EndVisitType DEF Bind
  <2>2. loop.slug \in Slug /\ loop.gen \in Nat
    BY <1>17 DEF Bind, VisitPc, Loop
  <2>3. StoreTypeOK'
    BY <1>17, <2>2, StoreTypeBind DEF Bind, storeVars, StoreTypeOK
  <2>4. lanes' \in [Gens -> Lane]
    <3>1. ASSUME lanes' = [lanes EXCEPT ![loop.gen].pc = "await"]
          PROVE  lanes' \in [Gens -> Lane]
      BY <3>1, ZenonT(40) DEF Lane, LanePc
    <3>2. ASSUME lanes' = [lanes EXCEPT ![loop.gen].pc = "abandon", ![loop.gen].cancelled = TRUE]
          PROVE  lanes' \in [Gens -> Lane]
      <4>1. CASE loop.gen \in Gens
        BY <3>2, <4>1, LaneCancelType DEF LanePc
      <4>2. CASE loop.gen \notin Gens
        BY <3>2, <4>2
      <4>3. QED
        BY <4>1, <4>2
    <3>3. nextGen' = nextGen
      BY <1>17 DEF Bind
    <3>4. QED
      BY <1>17, <3>1, <3>2 DEF Bind
  <2>5. QED
    BY <1>17, <2>1, <2>3, <2>4 DEF Bind, VisitPc, ScanPc
<1>18. CASE Halt
  <2>1. reg[loop.slug].gen \in Nat /\ loop.slug \in Slug
    BY <1>18 DEF Halt, VisitPc, Reg, NoReg
  <2>2. loop' \in Loop /\ loop'.slug = loop.slug
    BY <1>18, <2>1 DEF Halt, Loop, LoopPc
  <2>3. QED
    BY <1>18, <2>1, <2>2, StopType DEF Halt, storeVars, StoreTypeOK
<1>19. CASE HaltWait
  <2>1. loop' \in Loop /\ loop'.slug = loop.slug /\ loop.slug \in Slug
    BY <1>19 DEF HaltWait, Goto, Loop, LoopPc, VisitPc
  <2>2. reg' \in [Slug -> Reg \cup {NoReg}]
    BY <1>19 DEF HaltWait
  <2>3. QED
    BY <1>19, <2>1, <2>2 DEF HaltWait, storeVars, StoreTypeOK
<1>20. CASE Clean
  <2>1. loop' \in Loop /\ loop'.pc \in ScanPc
    BY <1>20, EndVisitType DEF Clean
  <2>2. QED
    BY <1>20, <2>1 DEF Clean, storeVars, StoreTypeOK, VisitPc, ScanPc
<1>21. CASE StopAll
  <2>1. loop' \in Loop /\ loop'.pc = "drain"
    BY <1>21 DEF StopAll, Goto, Loop, LoopPc
  <2>2. reg' \in [Slug -> Reg \cup {NoReg}]
    <3>1. ASSUME NEW s \in Slug, reg[s].state = "running"
          PROVE  [reg[s] EXCEPT !.state = "stopping"] \in Reg
      <4>1. reg[s] \in Reg
        BY <3>1 DEF NoReg
      <4>2. QED
        BY <4>1 DEF Reg
    <3>2. QED
      BY <1>21, <3>1 DEF StopAll
  <2>3. lanes' \in [Gens -> Lane]
    BY <1>21, ZenonT(40) DEF StopAll, Lane
  <2>4. QED
    BY <1>21, <2>1, <2>2, <2>3 DEF StopAll, storeVars, StoreTypeOK, VisitPc
<1>22. CASE AwaitLanes
  <2>1. loop' \in Loop /\ loop'.pc = "cleanList"
    BY <1>22 DEF AwaitLanes, Goto, Loop, LoopPc
  <2>2. QED
    BY <1>1, <1>22, <2>1 DEF AwaitLanes, VisitPc
<1>23. CASE CleanList
  <2>1. loop' \in Loop /\ loop'.pc = "cleanStored"
    BY <1>0, <1>23 DEF CleanList, At, Loop, LoopPc, ScanPc, NoListing
  <2>2. QED
    BY <1>1, <1>23, <2>1 DEF CleanList, VisitPc
<1>24. CASE RunReturns
  <2>1. loop' \in Loop /\ loop'.pc = "done"
    BY <1>24, AtType DEF RunReturns, At, LoopPc
  <2>2. QED
    BY <1>1, <1>24, <2>1 DEF RunReturns, VisitPc
<1>25. QED
  BY <1>2, <1>3, <1>4, <1>5, <1>6, <1>7, <1>8, <1>9, <1>10, <1>11, <1>12, <1>13, <1>14,
     <1>15, <1>16, <1>17, <1>18, <1>19, <1>20, <1>21, <1>22, <1>23, <1>24 DEF LoopWorks

LEMMA TypeStep ==
  ASSUME TInv, [Next]_vars
  PROVE  TInv'
<1>1. CASE Next
  BY <1>1, TypeEnvironment, TypeLoopSelect, TypeLoopWorks, TypeLane DEF Next
<1>2. CASE UNCHANGED vars
  BY <1>2 DEF vars, storeVars, runtimeVars, TInv, TypeOK, StoreTypeOK, LoopSlugOK
<1>3. QED
  BY <1>1, <1>2

\* Every variable keeps its shape, for every choice of the constants.
THEOREM TypeCorrect == Spec => []TypeOK
<1>1. TInv => TypeOK
  BY DEF TInv
<1>2. QED
  BY <1>1, TypeInit, TypeStep, PTL DEF Spec

-----------------------------------------------------------------------------
(* Why two lanes of one session never overlap, and why a status is always  *)
(* the word of the lane bound to it, for every set of slugs and every      *)
(* bound.  The inductive invariant is LaneOrder: a slug's registration is  *)
(* its youngest lane's, and a lane younger than one that has not ended is  *)
(* still waiting, along the prev chain, for it.                            *)

OInv == TInv /\ LaneOrder /\ DropAfterLanes

\* How any step but Launch may change the lanes.
LanesStep ==
  /\ nextGen' = nextGen
  /\ lanes' \in [Gens -> Lane]
  /\ \A g \in Gens : /\ lanes'[g].slug = lanes[g].slug /\ lanes'[g].prev = lanes[g].prev
                     /\ Ended(g) => Ended(g)'
                     /\ Waiting(g) => Waiting(g)' \/ DoneClosed(lanes[g].prev)

\* How any step but Launch may change a registration.
RegStep(s) ==
  \/ reg'[s] = reg[s]
  \/ reg[s].state = "exited" /\ reg'[s] = NoReg
  \/ /\ reg[s] # NoReg /\ reg'[s] # NoReg
     /\ reg'[s].gen = reg[s].gen
     /\ reg'[s].state = "exited" =>
          reg[s].state = "exited" \/ lanes'[reg[s].gen].pc \in {"close", "closed"}

\* A lane that the loop has not bound yet does not move by itself.
NewStays == \A g \in Gens : lanes[g].pc = "new" => lanes'[g].pc = "new"

\* A lane waits for the one before it while the lanes advance,
LEMMA WaitsKept ==
  ASSUME OInv, LanesStep
  PROVE  WaitsItsTurn'
<1> USE DEF LanesStep
<1>1. ASSUME NEW h \in Gens
      PROVE  lanes'[h].prev # 0 =>
               lanes'[h].prev \in LanesOf(lanes[h].slug)' /\ lanes'[h].prev < h
  BY DEF OInv, LaneOrder, WaitsItsTurn, LanesOf
<1>2. ASSUME NEW h \in Gens, NEW g \in Gens, lanes[g].slug = lanes[h].slug, g < h
      PROVE  Ended(g)' \/ (Waiting(h)' /\ g <= lanes'[h].prev)
  <2>1. Ended(g) \/ (Waiting(h) /\ g <= lanes[h].prev)
    BY <1>2 DEF OInv, LaneOrder, WaitsItsTurn, LanesOf
  <2>2. CASE Ended(g)
    BY <2>2
  <2>3. CASE Waiting(h) /\ g <= lanes[h].prev /\ ~DoneClosed(lanes[h].prev)
    BY <2>3
  <2>4. CASE Waiting(h) /\ g <= lanes[h].prev /\ DoneClosed(lanes[h].prev)
    <3> DEFINE p == lanes[h].prev
    <3>1. p \in Gens /\ lanes[p].slug = lanes[h].slug
      BY <2>4, SMTT(20) DEF OInv, TInv, TypeOK, Lane, LaneOrder, WaitsItsTurn, LanesOf
    <3>2. lanes[p].pc = "closed"
      BY <2>4, <3>1 DEF DoneClosed
    <3>3. Ended(p) /\ ~Waiting(p)
      BY <3>2 DEF Ended, Waiting
    <3>4. Ended(g)
      <4>1. CASE g = p
        BY <3>3, <4>1
      <4>2. CASE g < p
        BY <1>2, <3>1, <3>3, <4>2 DEF OInv, LaneOrder, WaitsItsTurn, LanesOf
      <4>3. QED
        BY <2>4, <3>1, <4>1, <4>2
    <3>5. QED
      BY <3>4
  <2>5. QED
    BY <2>1, <2>2, <2>3, <2>4
<1>3. QED
  BY <1>1, <1>2 DEF WaitsItsTurn, LanesOf

\* and the registration stays the youngest.
LEMMA RegistrationKept ==
  ASSUME OInv, LanesStep, \A s \in Slug : RegStep(s)
  PROVE  RegistrationIsYoungest'
<1>1. SUFFICES ASSUME NEW s \in Slug
      PROVE  /\ reg'[s] # NoReg => reg'[s].gen \in LanesOf(s)'
             /\ reg'[s].state = "exited" => lanes'[reg'[s].gen].pc \in {"close", "closed"}
             /\ reg'[s] = NoReg =>
                  \A g \in LanesOf(s)' : lanes'[g].pc \in {"close", "closed"}
             /\ reg'[s] # NoReg => \A g \in LanesOf(s)' : g <= reg'[s].gen
  BY DEF RegistrationIsYoungest, Ended
<1>2. LanesOf(s)' = LanesOf(s) /\ LanesOf(s) \subseteq Gens
  BY DEF LanesStep, LanesOf
<1>0. ASSUME NEW g \in LanesOf(s), Ended(g)
      PROVE  lanes'[g].pc \in {"close", "closed"}
  BY <1>0, <1>2 DEF LanesStep, Ended
<1>3. /\ reg[s] # NoReg => reg[s].gen \in LanesOf(s)
      /\ reg[s].state = "exited" => Ended(reg[s].gen)
      /\ reg[s] = NoReg => \A g \in LanesOf(s) : Ended(g)
      /\ reg[s] # NoReg => \A g \in LanesOf(s) : g <= reg[s].gen
  BY DEF OInv, LaneOrder, RegistrationIsYoungest
<1>4. reg[s].state = "exited" => reg[s] # NoReg
  BY DEF NoReg
<1>5. CASE reg'[s] = reg[s]
  BY <1>0, <1>2, <1>3, <1>4, <1>5
<1>6. CASE reg[s].state = "exited" /\ reg'[s] = NoReg
  <2>1. reg[s].gen \in LanesOf(s) /\ Ended(reg[s].gen) /\ ~Waiting(reg[s].gen)
    BY <1>3, <1>4, <1>6 DEF Ended, Waiting
  <2>2. \A g \in LanesOf(s) : Ended(g)
    <3>1. ASSUME NEW g \in LanesOf(s) PROVE Ended(g)
      <4>1. g \in Gens /\ reg[s].gen \in Gens /\ lanes[reg[s].gen].slug = s
        BY <2>1 DEF LanesOf
      <4>2. g <= reg[s].gen
        BY <1>3, <1>4, <1>6
      <4>3. g = reg[s].gen \/ g < reg[s].gen
        BY <4>1, <4>2
      <4>4. QED
        BY <2>1, <4>1, <4>3 DEF OInv, LaneOrder, WaitsItsTurn
    <3>2. QED
      BY <3>1
  <2>3. QED
    BY <1>0, <1>2, <1>6, <2>2 DEF NoReg
<1>7. CASE /\ reg[s] # NoReg /\ reg'[s] # NoReg
           /\ reg'[s].gen = reg[s].gen
           /\ reg'[s].state = "exited" =>
                reg[s].state = "exited" \/ lanes'[reg[s].gen].pc \in {"close", "closed"}
  BY <1>0, <1>2, <1>3, <1>7
<1>8. QED
  BY <1>5, <1>6, <1>7 DEF RegStep

\* A step that leaves the loop where it is.
LEMMA LoopStands ==
  ASSUME OInv, LanesStep, NewStays, loop' = loop
  PROVE  LoopHoldsALane' /\ DropAfterLanes'
<1>1. LoopHoldsALane'
  BY DEF OInv, LaneOrder, LoopHoldsALane, LanesStep, NewStays, LanesOf
<1>2. DropAfterLanes'
  BY DEF OInv, DropAfterLanes, LanesStep, LanesOf
<1>3. QED
  BY <1>1, <1>2

\* A step of the loop to a place where it holds nothing.
LEMMA LoopHoldsNothing ==
  ASSUME loop'.pc \notin {"bind", "wait", "clean", "cleanList", "cleanStored"}
  PROVE  LoopHoldsALane' /\ DropAfterLanes'
BY DEF LoopHoldsALane, DropAfterLanes

LEMMA LanesStand ==
  ASSUME OInv, UNCHANGED <<nextGen, lanes>>
  PROVE  LanesStep /\ NewStays
BY DEF OInv, TInv, TypeOK, LanesStep, NewStays, Ended, Waiting

-----------------------------------------------------------------------------
(* The processes.                                                          *)

\* A runtime without lanes is in order.
LEMMA OrderInit == Init => OInv
<1> SUFFICES ASSUME Init PROVE OInv
  OBVIOUS
<1>1. TInv
  BY TypeInit
<1>2. Gens = {} /\ loop.pc = "start" /\ \A s \in Slug : reg[s] = NoReg
  BY DEF Init, At
<1>3. LaneOrder
  BY <1>2 DEF LaneOrder, RegistrationIsYoungest, WaitsItsTurn, LoopHoldsALane, LanesOf, NoReg
<1>4. DropAfterLanes
  BY <1>2 DEF DropAfterLanes
<1>5. QED
  BY <1>1, <1>3, <1>4 DEF OInv

\* A lane that advances, cancelled or not, disturbs no other's turn.
LEMMA LaneAdvances ==
  ASSUME OInv, NEW g \in Gens, NEW pc \in LanePc,
         lanes' = [lanes EXCEPT ![g].pc = pc] \/
         lanes' = [lanes EXCEPT ![g].pc = pc, ![g].cancelled = TRUE],
         nextGen' = nextGen,
         lanes[g].pc # "new" ,
         Ended(g) => pc = "closed",
         lanes[g].pc \in {"await", "abandon"} => DoneClosed(lanes[g].prev)
  PROVE  LanesStep /\ NewStays
<1>1. lanes \in [Gens -> Lane]
  BY DEF OInv, TInv, TypeOK
<1>2. lanes' \in [Gens -> Lane]
  <2>1. CASE lanes' = [lanes EXCEPT ![g].pc = pc]
    BY <1>1, <2>1, LaneUpdateType DEF LaneStops
  <2>2. CASE lanes' = [lanes EXCEPT ![g].pc = pc, ![g].cancelled = TRUE]
    BY <1>1, <2>2, LaneCancelType
  <2>3. QED
    BY <2>1, <2>2
<1>3. /\ lanes'[g].slug = lanes[g].slug /\ lanes'[g].prev = lanes[g].prev
      /\ lanes'[g].pc = pc
      /\ \A h \in Gens : h # g => lanes'[h] = lanes[h]
  BY <1>1, ZenonT(40) DEF Lane
<1>4. QED
  BY <1>2, <1>3 DEF LanesStep, NewStays, Ended, Waiting

\* The steps of the lanes, of the environment and of the select move no lane back.
LEMMA OrderLane ==
  ASSUME OInv, NEW g \in Gens, LaneWorks(g) \/ LaneMedia(g)
  PROVE  /\ LanesStep /\ NewStays /\ loop' = loop
         /\ \A s \in Slug : RegStep(s)
<1> USE DEF LaneStops
<1>1. ASSUME NEW from \in LanePc \ {"new", "closed"}, NEW to \in LanePc,
             LaneMoves(g, from, to),
             from = "close" => to = "closed",
             from \in {"await", "abandon"} => DoneClosed(lanes[g].prev)
      PROVE  /\ LanesStep /\ NewStays /\ loop' = loop
             /\ \A s \in Slug : RegStep(s)
  BY <1>1, LaneAdvances DEF LaneMoves, Ended, RegStep
<1>2. CASE LaneEnter(g)
  BY <1>1, <1>2 DEF LaneEnter, LanePc
<1>3. CASE abandonLane(g)
  BY <1>1, <1>3 DEF abandonLane, LanePc
<1>4. CASE LanePreStart(g)
  BY <1>4, LaneAdvances DEF LanePreStart, LanePc, Ended, RegStep
<1>5. CASE LaneCancelReturn(g)
  BY <1>5, LaneAdvances DEF LaneCancelReturn, LanePc, Ended, RegStep
<1>6. CASE LaneFinished(g)
  BY <1>6, LaneAdvances DEF LaneFinished, LanePc, Ended, RegStep
<1>7. CASE LaneErrored(g)
  <2>1. ASSUME NEW to \in {"leave", "fail"}, LaneMoves(g, "error", to)
        PROVE  /\ LanesStep /\ NewStays /\ loop' = loop
               /\ \A s \in Slug : RegStep(s)
    BY <1>1, <2>1 DEF LanePc
  <2>2. QED
    BY <1>7, <2>1 DEF LaneErrored
<1>8. CASE LaneFailed(g)
  BY <1>8, LaneAdvances DEF LaneFailed, LanePc, Ended, RegStep
<1>9. CASE scheduleRetry(g)
  <2>1. LanesStep /\ NewStays /\ loop' = loop
    BY <1>9, LaneAdvances DEF scheduleRetry, LanePc, Ended
  <2>2. ASSUME NEW s \in Slug PROVE RegStep(s)
    BY <1>9 DEF scheduleRetry, Registered, RegStep, OInv, TInv, TypeOK, Reg, NoReg
  <2>3. QED
    BY <2>1, <2>2
<1>10. CASE forget(g)
  <2>1. LanesStep /\ NewStays /\ loop' = loop
    BY <1>10, LaneAdvances DEF forget, LanePc, Ended
  <2>2. ASSUME NEW s \in Slug PROVE RegStep(s)
    <3>1. lanes'[g].pc = "close"
      BY <1>10 DEF forget, OInv, TInv, TypeOK, Lane
    <3>2. CASE reg'[s] = reg[s]
      BY <3>2 DEF RegStep
    <3>3. CASE reg'[s] # reg[s]
      <4>1. reg[s].gen = g /\ reg'[s] = [reg[s] EXCEPT !.state = "exited"]
        BY <1>10, <3>3 DEF forget, Registered, OInv, TInv, TypeOK
      <4>2. reg[s] \in Reg
        BY <4>1 DEF OInv, TInv, TypeOK, NoReg
      <4>3. QED
        BY <3>1, <4>1, <4>2 DEF RegStep, Reg, NoReg
    <3>4. QED
      BY <3>2, <3>3
  <2>3. QED
    BY <2>1, <2>2
<1>11. CASE LaneCloses(g)
  BY <1>1, <1>11 DEF LaneCloses, LanePc
<1>12. CASE LanePublish(g)
  BY <1>12, LaneAdvances DEF LanePublish, LanePc, Ended, RegStep
<1>13. CASE LaneAnnounce(g)
  BY <1>13, LaneAdvances DEF LaneAnnounce, LanePc, Ended, RegStep
<1>14. CASE LaneSourceEnds(g)
  BY <1>1, <1>14 DEF LaneSourceEnds, LanePc
<1>15. CASE LaneDrained(g)
  BY <1>15, LaneAdvances DEF LaneDrained, LanePc, Ended, RegStep
<1>16. CASE LaneFails(g)
  BY <1>16, LaneAdvances DEF LaneFails, LanePc, Ended, RegStep
<1>17. QED
  BY <1>2, <1>3, <1>4, <1>5, <1>6, <1>7, <1>8, <1>9, <1>10, <1>11, <1>12, <1>13,
     <1>14, <1>15, <1>16 DEF LaneWorks, LaneMedia

LEMMA OrderEnvironment ==
  ASSUME OInv, Environment
  PROVE  /\ UNCHANGED <<nextGen, lanes, loop>>
         /\ \A s \in Slug : RegStep(s)
<1>1. ASSUME NEW t \in Slug, RetryDue(t), NEW s \in Slug
      PROVE  RegStep(s)
  <2>1. CASE s # t
    BY <1>1, <2>1 DEF RetryDue, RegStep, OInv, TInv, TypeOK
  <2>2. CASE s = t
    <3>1. reg[s] \in Reg /\ reg'[s] = [reg[s] EXCEPT !.due = TRUE]
      BY <1>1, <2>2 DEF RetryDue, OInv, TInv, TypeOK
    <3>2. QED
      BY <1>1, <2>2, <3>1 DEF RetryDue, RegStep, Reg, NoReg
  <2>3. QED
    BY <2>1, <2>2
<1>2. QED
  BY <1>1 DEF Environment, Api, Reconfigure, RecordPush, RetryDue, Shutdown, SubscriptionEnds,
     runtimeVars, RegStep

\* The steps of the loop that launch, bind or wait for no lane.
Elsewhere == loop'.pc \notin {"bind", "wait", "clean", "cleanList", "cleanStored"}

LEMMA OrderLoopSelect ==
  ASSUME OInv, LoopSelect
  PROVE  UNCHANGED <<nextGen, lanes, reg>> /\ Elsewhere
<1>1. CASE TakeEvent
  BY <1>1 DEF TakeEvent, Elsewhere, OInv, TInv, TypeOK, Loop
<1>2. CASE Tick
  BY <1>2 DEF Tick, Scan, At, Elsewhere
<1>3. CASE TakeReload
  BY <1>3 DEF TakeReload, At, Elsewhere
<1>4. CASE EventsClosed
  BY <1>4 DEF EventsClosed, At, Elsewhere
<1>5. QED
  BY <1>1, <1>2, <1>3, <1>4 DEF LoopSelect

\* Stopping a registered lane, as both stop and stopAndWait do.
LEMMA OrderStop ==
  ASSUME OInv, NEW s \in Slug, reg' = StopReg(s), lanes' = StopLanes(s), nextGen' = nextGen
  PROVE  LanesStep /\ NewStays /\ \A t \in Slug : RegStep(t)
<1>0. lanes \in [Gens -> Lane] /\ reg \in [Slug -> Reg \cup {NoReg}]
  BY DEF OInv, TInv, TypeOK
<1>1. lanes' \in [Gens -> Lane]
  BY <1>0, StopType
<1>2. ASSUME NEW g \in Gens
      PROVE  /\ lanes'[g].slug = lanes[g].slug /\ lanes'[g].prev = lanes[g].prev
             /\ lanes'[g].pc = lanes[g].pc
  BY <1>0 DEF StopLanes, Lane
<1>3. LanesStep /\ NewStays
  BY <1>1, <1>2 DEF LanesStep, NewStays, Ended, Waiting
<1>4. ASSUME NEW t \in Slug PROVE RegStep(t)
  <2>1. CASE reg[s].state = "running"
    <3>1. reg[s] \in Reg /\ reg' = [reg EXCEPT ![s].state = "stopping"]
      BY <1>0, <2>1 DEF StopReg, NoReg
    <3>2. QED
      BY <1>0, <3>1 DEF RegStep, Reg, NoReg
  <2>2. CASE reg[s].state # "running"
    BY <1>0, <2>2 DEF StopReg, RegStep
  <2>3. QED
    BY <2>1, <2>2
<1>5. QED
  BY <1>3, <1>4

\* A launch is the youngest, and waits for the one it replaces.
LEMMA OrderLaunch ==
  ASSUME OInv, Launch, TInv'
  PROVE  OInv'
<1> DEFINE s == loop.slug
           n == nextGen + 1
<1>0. /\ s \in Slug /\ nextGen \in Nat /\ lanes \in [Gens -> Lane]
      /\ reg \in [Slug -> Reg \cup {NoReg}]
  BY DEF Launch, OInv, TInv, TypeOK, LoopSlugOK, VisitPc
<1>1. /\ nextGen' = n
      /\ lanes'[n].slug = s /\ lanes'[n].prev = reg[s].gen /\ lanes'[n].pc = "new"
      /\ \A g \in Gens : lanes'[g] = lanes[g]
  BY <1>0 DEF Launch
<1>2. /\ \A t \in Slug : t # s => reg'[t] = reg[t]
      /\ reg'[s].gen = n /\ reg'[s].state = "running" /\ reg'[s] # NoReg
  BY <1>0 DEF Launch, NoReg
<1>3. loop'.pc = "bind" /\ loop'.slug = s /\ loop'.gen = n
  BY DEF Launch, OInv, TInv, TypeOK, Loop
<1>4. \A t \in Slug : LanesOf(t)' = IF t = s THEN LanesOf(s) \cup {n} ELSE LanesOf(t)
  BY <1>0, <1>1 DEF LanesOf
<1>5. RegistrationIsYoungest'
  <2> SUFFICES ASSUME NEW t \in Slug
      PROVE  /\ reg'[t] # NoReg => reg'[t].gen \in LanesOf(t)'
             /\ reg'[t].state = "exited" => lanes'[reg'[t].gen].pc \in {"close", "closed"}
             /\ reg'[t] = NoReg => \A g \in LanesOf(t)' : lanes'[g].pc \in {"close", "closed"}
             /\ reg'[t] # NoReg => \A g \in LanesOf(t)' : g <= reg'[t].gen
    BY DEF RegistrationIsYoungest, Ended
  <2>1. CASE t = s
    <3>1. LanesOf(s) \subseteq Gens
      BY DEF LanesOf
    <3>2. QED
      BY <1>0, <1>2, <1>4, <2>1, <3>1
  <2>2. CASE t # s
    <3>1. /\ reg[t] # NoReg => reg[t].gen \in LanesOf(t)
          /\ reg[t].state = "exited" => lanes[reg[t].gen].pc \in {"close", "closed"}
          /\ reg[t] = NoReg => \A g \in LanesOf(t) : lanes[g].pc \in {"close", "closed"}
          /\ reg[t] # NoReg => \A g \in LanesOf(t) : g <= reg[t].gen
      BY DEF OInv, LaneOrder, RegistrationIsYoungest, Ended
    <3>2. LanesOf(t) \subseteq Gens /\ (reg[t].state = "exited" => reg[t] # NoReg)
      BY DEF LanesOf, NoReg
    <3>3. QED
      BY <1>1, <1>2, <1>4, <2>2, <3>1, <3>2
  <2>3. QED
    BY <2>1, <2>2
<1>6. WaitsItsTurn'
  <2> SUFFICES ASSUME NEW h \in 1 .. n
      PROVE  /\ lanes'[h].prev # 0 =>
                  lanes'[h].prev \in 1 .. n /\ lanes'[lanes'[h].prev].slug = lanes'[h].slug
                  /\ lanes'[h].prev < h
             /\ \A g \in 1 .. n : lanes'[g].slug = lanes'[h].slug =>
                  (g < h => \/ lanes'[g].pc \in {"close", "closed"}
                            \/ /\ lanes'[h].pc \in {"new", "await", "abandon"}
                               /\ g <= lanes'[h].prev)
    BY <1>1 DEF WaitsItsTurn, LanesOf, Ended, Waiting
  <2>1. CASE h = n
    <3>1. reg[s] # NoReg => reg[s].gen \in Gens /\ lanes[reg[s].gen].slug = s
      BY <1>0 DEF OInv, LaneOrder, RegistrationIsYoungest, LanesOf
    <3>2. ASSUME NEW g \in Gens, lanes[g].slug = s
          PROVE  lanes[g].pc \in {"close", "closed"} \/ g <= reg[s].gen
      BY <1>0, <3>2 DEF OInv, LaneOrder, RegistrationIsYoungest, LanesOf, Ended
    <3>3. reg[s].gen # 0 => reg[s] # NoReg
      BY DEF NoReg
    <3>4. QED
      BY <1>0, <1>1, <2>1, <3>1, <3>2, <3>3
  <2>2. CASE h \in Gens
    <3>1. /\ lanes[h].prev # 0 =>
               lanes[h].prev \in Gens /\ lanes[lanes[h].prev].slug = lanes[h].slug
               /\ lanes[h].prev < h
          /\ \A g \in Gens : lanes[g].slug = lanes[h].slug =>
               (g < h => \/ lanes[g].pc \in {"close", "closed"}
                         \/ /\ lanes[h].pc \in {"new", "await", "abandon"}
                            /\ g <= lanes[h].prev)
      BY <2>2 DEF OInv, LaneOrder, WaitsItsTurn, LanesOf, Ended, Waiting
    <3>2. \A g \in 1 .. n : g < h => g \in Gens
      BY <1>0, <2>2
    <3>3. QED
      BY <1>0, <1>1, <2>2, <3>1, <3>2
  <2>3. QED
    BY <1>0, <2>1, <2>2
<1>7. LoopHoldsALane' /\ DropAfterLanes'
  BY <1>0, <1>1, <1>3 DEF LoopHoldsALane, DropAfterLanes, LanesOf
<1>8. QED
  BY <1>5, <1>6, <1>7 DEF OInv, LaneOrder

\* A step of the loop that leaves lanes and registrations alone and goes elsewhere.
LEMMA OrderElsewhere ==
  ASSUME OInv, TInv', UNCHANGED <<nextGen, lanes>>, \A s \in Slug : RegStep(s), Elsewhere
  PROVE  OInv'
BY LanesStand, WaitsKept, RegistrationKept, LoopHoldsNothing DEF OInv, LaneOrder, Elsewhere

\* What the loop holds between two steps is still true after the next.
LEMMA OrderLoopWorks ==
  ASSUME OInv, LoopWorks, TInv'
  PROVE  OInv'
<1>0. loop \in Loop /\ reg \in [Slug -> Reg \cup {NoReg}]
  BY DEF OInv, TInv, TypeOK
<1>1. reg' = reg => \A s \in Slug : RegStep(s)
  BY DEF RegStep
<1>2. EndVisit => Elsewhere
  BY <1>0, EndVisitType DEF Elsewhere, ScanPc
<1>3. ASSUME Elsewhere, UNCHANGED <<nextGen, lanes, reg>> PROVE OInv'
  BY <1>1, <1>3, OrderElsewhere
<1>4. ASSUME NEW s \in Slug, BootVisit(s) \/ Heal(s) \/ Sweep(s) \/ Replace(s) PROVE OInv'
  <2>1. ASSUME NEW pc, NEW snap, NEW scrub, Visit(s, pc, snap, scrub)
        PROVE  loop'.pc = pc
    BY <1>0, <2>1 DEF Visit, Loop
  <2>2. Skip(s) => loop'.pc = loop.pc
    BY <1>0 DEF Skip, Loop
  <2>3. CASE BootVisit(s)
    BY <1>3, <2>1, <2>3 DEF BootVisit, Elsewhere
  <2>4. CASE Heal(s)
    BY <1>3, <2>1, <2>2, <2>4 DEF Heal, Elsewhere
  <2>5. CASE Sweep(s)
    BY <1>3, <2>1, <2>5 DEF Sweep, Elsewhere
  <2>6. CASE Replace(s)
    BY <1>3, <2>1, <2>2, <2>6 DEF Replace, Elsewhere
  <2>7. QED
    BY <1>4, <2>3, <2>4, <2>5, <2>6
<1>5. ASSUME NEW s \in Slug, CleanStored(s) PROVE OInv'
  <2>1. LanesStep /\ NewStays /\ \A t \in Slug : RegStep(t)
    BY <1>1, <1>5, LanesStand DEF CleanStored
  <2>2. loop'.pc = "cleanStored" /\ loop.pc = "cleanStored"
    BY <1>0, <1>5 DEF CleanStored, Skip, Loop
  <2>3. LoopHoldsALane' /\ DropAfterLanes'
    BY <1>5, <2>2 DEF LoopHoldsALane, DropAfterLanes, OInv, CleanStored, Ended
  <2>4. QED
    BY <2>1, <2>3, WaitsKept, RegistrationKept DEF OInv, LaneOrder
<1>6. CASE RunSubscribe \/ RunList \/ Reconfigurable \/ ScanDone \/ RunReturns
  <2>1. CASE RunSubscribe
    BY <1>0, <1>3, <2>1 DEF RunSubscribe, Goto, Elsewhere, Loop
  <2>2. CASE RunList
    BY <1>3, <2>2 DEF RunList, Scan, At, Elsewhere
  <2>3. CASE Reconfigurable
    BY <1>3, <2>3 DEF Reconfigurable, Scan, At, Elsewhere
  <2>4. CASE ScanDone
    BY <1>3, <2>4 DEF ScanDone, At, Elsewhere
  <2>5. CASE RunReturns
    BY <1>3, <2>5 DEF RunReturns, At, Elsewhere
  <2>6. QED
    BY <1>6, <2>1, <2>2, <2>3, <2>4, <2>5
<1>7. CASE DeletedGet \/ SyncCurrent \/ LaunchRefused
  BY <1>0, <1>2, <1>3, <1>7 DEF DeletedGet, SyncCurrent, LaunchRefused, Goto, Elsewhere, Loop
<1>8. CASE Clean
  BY <1>2, <1>3, <1>8 DEF Clean
<1>9. CASE Orphans
  <2>1. \A s \in Slug : RegStep(s)
    BY <1>9 DEF Orphans, RegStep
  <2>2. Elsewhere
    BY <1>9 DEF Orphans, Scan, At, Elsewhere
  <2>3. QED
    BY <1>9, <2>1, <2>2, OrderElsewhere DEF Orphans
<1>10. CASE Stop
  <2>1. LanesStep /\ NewStays /\ \A t \in Slug : RegStep(t)
    BY <1>10, OrderStop DEF Stop, OInv, TInv, LoopSlugOK, VisitPc
  <2>2. LoopHoldsALane' /\ DropAfterLanes'
    BY <1>0, <1>10, LoopHoldsNothing DEF Stop, Goto, Loop
  <2>3. QED
    BY <2>1, <2>2, WaitsKept, RegistrationKept DEF OInv, LaneOrder
<1>11. CASE Launch
  BY <1>11, OrderLaunch
<1>12. CASE Bind
  <2>1. loop.gen \in Gens /\ lanes[loop.gen].pc = "new"
    BY <1>12 DEF Bind, OInv, LaneOrder, LoopHoldsALane, LanesOf
  <2>2. LanesStep
    <3>1. lanes \in [Gens -> Lane] /\ lanes' \in [Gens -> Lane]
      BY <1>12 DEF Bind, OInv, TInv, TypeOK
    <3>2. \A g \in Gens : /\ lanes'[g].slug = lanes[g].slug /\ lanes'[g].prev = lanes[g].prev
                          /\ \/ lanes'[g].pc = lanes[g].pc
                             \/ lanes[g].pc = "new" /\ lanes'[g].pc \in {"await", "abandon"}
      BY <1>12, <2>1, <3>1, SMTT(20) DEF Bind, Lane
    <3>3. nextGen' = nextGen
      BY <1>12 DEF Bind
    <3>4. QED
      BY <3>1, <3>2, <3>3 DEF LanesStep, Ended, Waiting
  <2>3. QED
    BY <1>1, <1>2, <1>12, <2>2, LoopHoldsNothing, WaitsKept, RegistrationKept
    DEF Bind, Elsewhere, OInv, LaneOrder
<1>13. CASE Halt
  <2> DEFINE s == loop.slug
  <2>1. LanesStep /\ NewStays /\ \A t \in Slug : RegStep(t)
    BY <1>13, OrderStop DEF Halt, OInv, TInv, LoopSlugOK, VisitPc
  <2>2. /\ loop'.slug = s /\ s \in Slug /\ LanesOf(s)' = LanesOf(s) /\ nextGen' = nextGen
        /\ loop'.pc \in {"clean", "wait"} /\ loop'.gen = reg[s].gen
        /\ loop'.pc = "clean" <=> reg[s] = NoReg
    BY <1>0, <1>13, <2>1 DEF Halt, Loop, LanesStep, LanesOf, OInv, TInv, LoopSlugOK, VisitPc
  <2>3. CASE reg[s] = NoReg
    <3>1. \A g \in LanesOf(s) : g \in Gens /\ Ended(g)
      BY <2>2, <2>3 DEF OInv, LaneOrder, RegistrationIsYoungest, LanesOf
    <3>2. LoopHoldsALane' /\ DropAfterLanes'
      BY <2>1, <2>2, <2>3, <3>1 DEF LoopHoldsALane, DropAfterLanes, LanesStep
    <3>3. QED
      BY <2>1, <3>2, WaitsKept, RegistrationKept DEF OInv, LaneOrder
  <2>4. CASE reg[s] # NoReg
    <3>1. reg[s].gen \in LanesOf(s) /\ \A g \in LanesOf(s) : g <= reg[s].gen
      BY <2>2, <2>4 DEF OInv, LaneOrder, RegistrationIsYoungest
    <3>2. LoopHoldsALane' /\ DropAfterLanes'
      BY <2>2, <2>4, <3>1 DEF LoopHoldsALane, DropAfterLanes
    <3>3. QED
      BY <2>1, <3>2, WaitsKept, RegistrationKept DEF OInv, LaneOrder
  <2>5. QED
    BY <2>3, <2>4
<1>14. CASE HaltWait
  <2> DEFINE s == loop.slug
  <2>1. LanesStep /\ NewStays
    BY <1>14, LanesStand DEF HaltWait
  <2>2. /\ loop'.pc = "clean" /\ loop'.slug = s /\ LanesOf(s)' = LanesOf(s)
        /\ loop.gen \in LanesOf(s) /\ loop.gen \in Gens /\ lanes[loop.gen].slug = s
        /\ \A g \in LanesOf(s) : g <= loop.gen
    BY <1>0, <1>14, <2>1 DEF HaltWait, Goto, Loop, LanesStep, LanesOf, OInv, LaneOrder, LoopHoldsALane
  <2>3. lanes[loop.gen].pc = "closed" /\ Ended(loop.gen) /\ ~Waiting(loop.gen)
    BY <1>14, <2>2 DEF HaltWait, DoneClosed, Ended, Waiting
  <2>4. \A g \in LanesOf(s) : Ended(g)
    <3>1. ASSUME NEW g \in LanesOf(s) PROVE Ended(g)
      <4>1. g \in Gens /\ (g = loop.gen \/ g < loop.gen)
        BY <2>2 DEF LanesOf
      <4>2. QED
        BY <2>2, <2>3, <4>1 DEF OInv, LaneOrder, WaitsItsTurn
    <3>2. QED
      BY <3>1
  <2>5. LoopHoldsALane' /\ DropAfterLanes'
    BY <1>14, <2>2, <2>4 DEF LoopHoldsALane, DropAfterLanes, HaltWait, Ended
  <2>6. \A t \in Slug : RegStep(t)
    BY <1>0, <1>14 DEF HaltWait, RegStep
  <2>7. QED
    BY <2>1, <2>5, <2>6, WaitsKept, RegistrationKept DEF OInv, LaneOrder
<1>15. CASE StopAll
  <2>1. lanes \in [Gens -> Lane] /\ lanes' \in [Gens -> Lane] /\ nextGen' = nextGen
    BY <1>15 DEF StopAll, OInv, TInv, TypeOK
  <2>2. \A g \in Gens : /\ lanes'[g].slug = lanes[g].slug /\ lanes'[g].prev = lanes[g].prev
                        /\ lanes'[g].pc = lanes[g].pc
    BY <1>15, <2>1 DEF StopAll, Lane
  <2>3. LanesStep
    BY <2>1, <2>2 DEF LanesStep, Ended, Waiting
  <2>4. ASSUME NEW s \in Slug PROVE RegStep(s)
    <3>1. CASE reg[s].state = "running"
      <4>1. reg[s] \in Reg /\ reg'[s] = [reg[s] EXCEPT !.state = "stopping"]
        BY <1>0, <1>15, <3>1 DEF StopAll, NoReg
      <4>2. QED
        BY <4>1 DEF RegStep, Reg, NoReg
    <3>2. CASE reg[s].state # "running"
      BY <1>15, <3>2 DEF StopAll, RegStep
    <3>3. QED
      BY <3>1, <3>2
  <2>5. LoopHoldsALane' /\ DropAfterLanes'
    BY <1>0, <1>15, LoopHoldsNothing DEF StopAll, Goto, Loop
  <2>6. QED
    BY <2>3, <2>4, <2>5, WaitsKept, RegistrationKept DEF OInv, LaneOrder
<1>16. CASE AwaitLanes \/ CleanList
  <2>1. /\ UNCHANGED <<nextGen, lanes, reg>>
        /\ loop'.pc \in {"cleanList", "cleanStored"}
        /\ \A g \in Gens : Ended(g)
    BY <1>0, <1>16 DEF AwaitLanes, CleanList, Goto, At, Loop, Ended, OInv, DropAfterLanes
  <2>2. LoopHoldsALane' /\ DropAfterLanes'
    BY <2>1 DEF LoopHoldsALane, DropAfterLanes, Ended
  <2>3. QED
    BY <1>1, <2>1, <2>2, LanesStand, WaitsKept, RegistrationKept DEF OInv, LaneOrder
<1>17. QED
  BY <1>4, <1>5, <1>6, <1>7, <1>8, <1>9, <1>10, <1>11, <1>12, <1>13, <1>14, <1>15, <1>16
  DEF LoopWorks

-----------------------------------------------------------------------------
(* The theorems.                                                           *)

\* The invariant is inductive, action by action.
LEMMA OrderStep ==
  ASSUME OInv, [Next]_vars
  PROVE  OInv'
<1>0. TInv'
  BY TypeStep DEF OInv
<1>1. CASE Environment
  BY <1>0, <1>1, OrderEnvironment, LanesStand, LoopStands, WaitsKept, RegistrationKept
  DEF OInv, LaneOrder
<1>2. CASE LoopSelect
  BY <1>0, <1>2, OrderLoopSelect, OrderElsewhere DEF RegStep
<1>3. CASE LoopWorks
  BY <1>0, <1>3, OrderLoopWorks
<1>4. ASSUME NEW g \in Gens, LaneWorks(g) \/ LaneMedia(g) PROVE OInv'
  BY <1>0, <1>4, OrderLane, LoopStands, WaitsKept, RegistrationKept DEF OInv, LaneOrder
<1>5. CASE UNCHANGED vars
  BY <1>0, <1>5, LanesStand, LoopStands, WaitsKept, RegistrationKept
  DEF OInv, LaneOrder, RegStep, vars, runtimeVars
<1>6. QED
  BY <1>1, <1>2, <1>3, <1>4, <1>5 DEF Next

\* The registration of a slug is its youngest lane's, and lanes of a slug take turns
\* in launch order, whatever the API, retries, reloads and the shutdown do.
THEOREM LanesAreOrdered == Spec => []LaneOrder
<1>1. OInv => LaneOrder
  BY DEF OInv
<1>2. QED
  BY <1>1, OrderInit, OrderStep, PTL DEF Spec

\* runtime.go launch/runLane: two lanes of one session are never inside their
\* starter at the same time.
THEOREM OneLaneAtWork == Spec => []OneLanePerSlug
<1>1. OInv => OneLanePerSlug
  <2> SUFFICES ASSUME OInv, NEW g \in Gens, NEW h \in Gens, g < h,
                      InStart(g), InStart(h), lanes[g].slug = lanes[h].slug
               PROVE  FALSE
    BY DEF OneLanePerSlug, OInv, TInv, TypeOK
  <2>1. Ended(g) \/ Waiting(h)
    BY DEF OInv, LaneOrder, WaitsItsTurn, LanesOf
  <2>2. QED
    BY <2>1 DEF InStart, Ended, Waiting
<1>2. QED
  BY <1>1, OrderInit, OrderStep, PTL DEF Spec

\* runtime.go stopAndWait/clean: outputs are dropped only once no lane of the slug
\* can publish any more.
THEOREM DropsComeLast == Spec => []DropAfterLanes
<1>1. OInv => DropAfterLanes
  BY DEF OInv
<1>2. QED
  BY <1>1, OrderInit, OrderStep, PTL DEF Spec

-----------------------------------------------------------------------------
(* Why the status a client reads is always the word of the one lane bound  *)
(* to the definition it reads.  StatusIsTheLanes is inductive on top of    *)
(* LaneOrder, which says that the loop binds the lane it has just launched.*)

SInv == OInv /\ StatusIsTheLanes

Early == {"new", "await", "abandon", "prestart", "inside", "open"}
Gone == {"leave", "close", "closed"}

\* A lane's place only moves on.
PcAdvances(g) ==
  /\ lanes[g].pc \notin Early => lanes'[g].pc \notin Early
  /\ lanes[g].pc \in Gone => lanes'[g].pc \in Gone
  /\ lanes[g].pc \in {"schedule"} \cup Gone => lanes'[g].pc \in {"schedule"} \cup Gone

LanesKeepNames ==
  \A g \in Gens : /\ g \in Gens' /\ lanes'[g] \in Lane
                 /\ lanes'[g].slug = lanes[g].slug /\ lanes'[g].rev = lanes[g].rev

\* What StatusIsTheLanes says of one stored session, bound to lane g in state st.
Matches(s, st, g, rev, l) ==
  /\ g = 0 => st = "starting"
  /\ g # 0 => /\ l.slug = s /\ l.rev = rev
              /\ st = "running"  => l.pc \notin Early
              /\ st = "finished" => l.pc \in Gone
              /\ st = "failed"   => l.pc \in {"schedule"} \cup Gone

\* The property in terms of the one lane that a status is about.
LEMMA MatchesIsStatus ==
  ASSUME TypeOK
  PROVE  StatusIsTheLanes <=>
           \A s \in Slug : Stored(s) =>
             /\ sessions[s].gen # 0 => sessions[s].gen \in Gens
             /\ Matches(s, sessions[s].state, sessions[s].gen, sessions[s].rev,
                        lanes[sessions[s].gen])
<1>1. \A g \in Gens : lanes[g].pc \in LanePc
  BY DEF TypeOK, Lane
<1>2. QED
  BY <1>1 DEF StatusIsTheLanes, StoredSlugs, Matches, Early, Gone

LEMMA MatchesIsStatusNext ==
  ASSUME TypeOK',
         \A s \in Slug : sessions'[s] # NoSession =>
           /\ sessions'[s].gen # 0 => sessions'[s].gen \in Gens'
           /\ Matches(s, sessions'[s].state, sessions'[s].gen, sessions'[s].rev,
                      lanes'[sessions'[s].gen])
  PROVE  StatusIsTheLanes'
<1>1. \A g \in Gens' : lanes'[g].pc \in LanePc
  BY DEF TypeOK, Lane
<1>2. QED
  BY <1>1 DEF StatusIsTheLanes, StoredSlugs, Stored, Matches, Early, Gone

\* Every session stands, is bound to nobody, or moves with its lane.
LEMMA StatusKept ==
  ASSUME SInv, TInv', LanesKeepNames, \A g \in Gens : PcAdvances(g),
         \A s \in Slug : sessions'[s] # NoSession =>
           \/ sessions'[s] = sessions[s]
           \/ sessions'[s].gen = 0 /\ sessions'[s].state = "starting"
           \/ /\ sessions'[s].gen \in Gens'
              /\ Matches(s, sessions'[s].state, sessions'[s].gen, sessions'[s].rev,
                         lanes'[sessions'[s].gen])
  PROVE  StatusIsTheLanes'
<1>1. ASSUME NEW s \in Slug, sessions'[s] # NoSession
      PROVE  /\ sessions'[s].gen # 0 => sessions'[s].gen \in Gens'
             /\ Matches(s, sessions'[s].state, sessions'[s].gen, sessions'[s].rev,
                        lanes'[sessions'[s].gen])
  <2>1. CASE sessions'[s] = sessions[s]
    <3>1. /\ sessions[s].gen # 0 => sessions[s].gen \in Gens
          /\ Matches(s, sessions[s].state, sessions[s].gen, sessions[s].rev,
                     lanes[sessions[s].gen])
      BY <1>1, <2>1, MatchesIsStatus DEF SInv, OInv, TInv, Stored
    <3>2. QED
      BY <2>1, <3>1 DEF LanesKeepNames, PcAdvances, Matches
  <2>2. CASE sessions'[s].gen = 0 /\ sessions'[s].state = "starting"
    BY <2>2 DEF Matches
  <2>3. QED
    BY <1>1, <2>1, <2>2
<1>2. QED
  BY <1>1, MatchesIsStatusNext DEF TInv

\* A lane keeps its slug and revision when it advances.
LEMMA LaneKeepsNames ==
  ASSUME OInv, NEW g \in Gens, NEW pc \in LanePc, nextGen' = nextGen,
         lanes' = [lanes EXCEPT ![g].pc = pc] \/
         lanes' = [lanes EXCEPT ![g].pc = pc, ![g].cancelled = TRUE],
         TInv'
  PROVE  /\ LanesKeepNames /\ lanes'[g].pc = pc
         /\ \A h \in Gens : h # g => PcAdvances(h)
<1>1. lanes \in [Gens -> Lane] /\ lanes' \in [Gens -> Lane]
  BY DEF OInv, TInv, TypeOK
<1>2. /\ lanes'[g].slug = lanes[g].slug /\ lanes'[g].rev = lanes[g].rev
      /\ lanes'[g].pc = pc
      /\ \A h \in Gens : h # g => lanes'[h] = lanes[h]
  BY <1>1 DEF Lane
<1>3. QED
  BY <1>1, <1>2 DEF LanesKeepNames, PcAdvances

\* The three places where a lane reports, and where it goes from there.
Reports(st, from, to) ==
  \/ st = "running" /\ from = "open" /\ to = "announced"
  \/ st = "finished" /\ from = "finish" /\ to = "leave"
  \/ st = "failed" /\ from = "fail" /\ to \in {"schedule", "leave"}

\* The bound lane reports, or a stale one is refused.
LEMMA StatusReported ==
  ASSUME SInv, TInv', NEW g \in Gens, NEW pc \in LanePc, NEW st \in RuntimeState,
         \/ setRuntime(lanes[g].slug, lanes[g].rev, g, st)
         \/ UNCHANGED sessions,
         lanes' = [lanes EXCEPT ![g].pc = pc], nextGen' = nextGen,
         Reports(st, lanes[g].pc, pc)
  PROVE  StatusIsTheLanes'
<1>0. g # 0 /\ lanes[g].slug \in Slug
  BY DEF SInv, OInv, TInv, TypeOK, Lane
<1>1. /\ LanesKeepNames /\ lanes'[g].pc = pc
      /\ \A h \in Gens : h # g => PcAdvances(h)
  BY LaneKeepsNames DEF SInv
<1>2. \A h \in Gens : PcAdvances(h)
  BY <1>1 DEF PcAdvances, Early, Gone, Reports
<1>3. CASE UNCHANGED sessions
  BY <1>1, <1>2, <1>3, StatusKept
<1>4. CASE setRuntime(lanes[g].slug, lanes[g].rev, g, st)
  <2> DEFINE s == lanes[g].slug
  <2>1. sessions[s] \in Session /\ sessions[s].gen = g /\ sessions[s].rev = lanes[g].rev
    BY <1>0, <1>4 DEF setRuntime, setAccepted, Stored, SInv, OInv, TInv, TypeOK, StoreTypeOK
  <2>2. /\ sessions'[s].gen = g /\ sessions'[s].rev = lanes[g].rev /\ sessions'[s].state = st
        /\ \A t \in Slug : t # s => sessions'[t] = sessions[t]
    BY <1>0, <1>4, <2>1 DEF setRuntime, SInv, OInv, TInv, TypeOK, StoreTypeOK, Session
  <2>3. Matches(s, st, g, lanes[g].rev, lanes'[g])
    BY <1>0, <1>1 DEF Matches, LanesKeepNames, Early, Gone, Reports
  <2>4. g \in Gens'
    BY <1>1 DEF LanesKeepNames
  <2>5. QED
    BY <1>1, <1>2, <2>2, <2>3, <2>4, StatusKept
<1>5. QED
  BY <1>3, <1>4

\* A lane reports what it does, and only the bound one is heard.
LEMMA StatusLane ==
  ASSUME SInv, TInv', NEW g \in Gens, LaneWorks(g) \/ LaneMedia(g)
  PROVE  StatusIsTheLanes'
<1> USE DEF LaneStops
<1>0. OInv /\ lanes[g].slug \in Slug
  BY DEF SInv, OInv, TInv, TypeOK, Lane
<1>1. ASSUME NEW pc \in LanePc, nextGen' = nextGen, UNCHANGED sessions,
             lanes' = [lanes EXCEPT ![g].pc = pc] \/
             lanes' = [lanes EXCEPT ![g].pc = pc, ![g].cancelled = TRUE],
             lanes[g].pc \notin Early => pc \notin Early,
             lanes[g].pc \in Gone => pc \in Gone,
             lanes[g].pc = "schedule" => pc \in Gone
      PROVE  StatusIsTheLanes'
  <2>1. /\ LanesKeepNames /\ lanes'[g].pc = pc
        /\ \A h \in Gens : h # g => PcAdvances(h)
    BY <1>0, <1>1, LaneKeepsNames
  <2>2. \A h \in Gens : PcAdvances(h)
    BY <1>1, <2>1 DEF PcAdvances
  <2>3. QED
    BY <1>1, <2>1, <2>2, StatusKept
<1>2. ASSUME NEW from \in LanePc, NEW to \in LanePc, LaneMoves(g, from, to),
             from \notin Early => to \notin Early,
             from \in Gone => to \in Gone,
             from # "schedule"
      PROVE  StatusIsTheLanes'
  BY <1>1, <1>2 DEF LaneMoves, storeVars
<1>3. CASE LaneEnter(g)
  BY <1>2, <1>3 DEF LaneEnter, LanePc, Early, Gone
<1>4. CASE abandonLane(g)
  BY <1>2, <1>4 DEF abandonLane, LanePc, Early, Gone
<1>5. CASE LanePreStart(g)
  BY <1>1, <1>5 DEF LanePreStart, LanePc, Early, Gone, storeVars
<1>6. CASE LaneCancelReturn(g)
  BY <1>1, <1>6 DEF LaneCancelReturn, LanePc, Early, Gone, storeVars
<1>7. CASE LaneFinished(g)
  <2>1. \/ setRuntime(lanes[g].slug, lanes[g].rev, g, "finished")
        \/ UNCHANGED sessions
    BY <1>7 DEF LaneFinished, storeVars
  <2>2. /\ lanes[g].pc = "finish" /\ nextGen' = nextGen
        /\ lanes' = [lanes EXCEPT ![g].pc = "leave"]
    BY <1>7 DEF LaneFinished
  <2>3. "leave" \in LanePc /\ "finished" \in RuntimeState /\ Reports("finished", "finish", "leave")
    BY DEF LanePc, RuntimeState, Reports
  <2>4. QED
    BY <2>1, <2>2, <2>3, StatusReported
<1>8. CASE LaneErrored(g)
  <2>1. ASSUME NEW to \in {"leave", "fail"}, LaneMoves(g, "error", to) PROVE StatusIsTheLanes'
    BY <1>2, <2>1 DEF LanePc, Early, Gone
  <2>2. QED
    BY <1>8, <2>1 DEF LaneErrored
<1>9. CASE LaneFailed(g)
  <2>1. /\ lanes[g].pc = "fail" /\ nextGen' = nextGen
        /\ setRuntime(lanes[g].slug, lanes[g].rev, g, "failed") \/ UNCHANGED sessions
        /\ \E to \in {"schedule", "leave"} : lanes' = [lanes EXCEPT ![g].pc = to]
    BY <1>9 DEF LaneFailed, storeVars
  <2>2. \A to \in {"schedule", "leave"} : to \in LanePc /\ Reports("failed", "fail", to)
    BY DEF LanePc, Reports
  <2>3. "failed" \in RuntimeState
    BY DEF RuntimeState
  <2>4. QED
    BY <2>1, <2>2, <2>3, StatusReported
<1>10. CASE scheduleRetry(g)
  BY <1>1, <1>10 DEF scheduleRetry, LanePc, Early, Gone, storeVars
<1>11. CASE forget(g)
  BY <1>1, <1>11 DEF forget, LanePc, Early, Gone, storeVars
<1>12. CASE LaneCloses(g)
  BY <1>2, <1>12 DEF LaneCloses, LanePc, Early, Gone
<1>13. CASE LanePublish(g)
  BY <1>1, <1>13 DEF LanePublish, LanePc, Early, Gone, storeVars
<1>14. CASE LaneAnnounce(g)
  <2>1. \/ setRuntime(lanes[g].slug, lanes[g].rev, g, "running")
        \/ UNCHANGED sessions
    BY <1>14 DEF LaneAnnounce, storeVars
  <2>2. /\ lanes[g].pc = "open" /\ nextGen' = nextGen
        /\ lanes' = [lanes EXCEPT ![g].pc = "announced"]
    BY <1>14 DEF LaneAnnounce
  <2>3. "announced" \in LanePc /\ "running" \in RuntimeState /\ Reports("running", "open", "announced")
    BY DEF LanePc, RuntimeState, Reports
  <2>4. QED
    BY <2>1, <2>2, <2>3, StatusReported
<1>15. CASE LaneSourceEnds(g)
  <2>1. ASSUME NEW from \in {"open", "announced"}, LaneMoves(g, from, "drain")
        PROVE  StatusIsTheLanes'
    BY <1>2, <2>1 DEF LanePc, Early, Gone
  <2>2. QED
    BY <1>15, <2>1 DEF LaneSourceEnds
<1>16. CASE LaneDrained(g)
  BY <1>1, <1>16 DEF LaneDrained, LanePc, Early, Gone, storeVars
<1>17. CASE LaneFails(g)
  BY <1>1, <1>17 DEF LaneFails, LanePc, Early, Gone, storeVars
<1>18. QED
  BY <1>3, <1>4, <1>5, <1>6, <1>7, <1>8, <1>9, <1>10, <1>11, <1>12, <1>13,
     <1>14, <1>15, <1>16, <1>17 DEF LaneWorks, LaneMedia

LEMMA LanesStandStatus ==
  ASSUME SInv, UNCHANGED <<nextGen, lanes>>
  PROVE  LanesKeepNames /\ \A g \in Gens : PcAdvances(g)
BY DEF SInv, OInv, TInv, TypeOK, LanesKeepNames, PcAdvances

\* A write leaves a definition nobody is bound to.
LEMMA StatusApi ==
  ASSUME SInv, TInv', Api
  PROVE  StatusIsTheLanes'
<1>1. sessions \in [Slug -> Session \cup {NoSession}]
  BY DEF SInv, OInv, TInv, TypeOK, StoreTypeOK
<1>2. ASSUME NEW s \in Slug, sessions'[s] # NoSession
      PROVE  \/ sessions'[s] = sessions[s]
             \/ sessions'[s].gen = 0 /\ sessions'[s].state = "starting"
  <2>1. ASSUME NEW t \in Slug, NEW pair \in Slug \cup {NoSlug}, Create(t, pair)
        PROVE  \/ sessions'[s] = sessions[s]
               \/ sessions'[s].gen = 0 /\ sessions'[s].state = "starting"
    BY <1>1, <2>1 DEF Create, Fresh
  <2>2. ASSUME NEW t \in Slug, updateLangs(t)
        PROVE  \/ sessions'[s] = sessions[s]
               \/ sessions'[s].gen = 0 /\ sessions'[s].state = "starting"
    BY <1>1, <2>2 DEF updateLangs, Fresh
  <2>3. ASSUME NEW t \in Slug, Delete(t) PROVE sessions'[s] = sessions[s]
    <3>1. CASE sessions' = [sessions EXCEPT ![t] = NoSession]
      BY <1>1, <1>2, <3>1
    <3>2. ASSUME NEW p \in Slug, sessions' = [sessions EXCEPT ![t] = NoSession, ![p] = NoSession]
          PROVE  sessions'[s] = sessions[s]
      BY <1>1, <1>2, <3>2
    <3>3. QED
      BY <2>3, <3>1, <3>2 DEF Delete
  <2>4. QED
    BY <2>1, <2>2, <2>3 DEF Api, ApiStep
<1>3. QED
  BY <1>2, LanesStandStatus, StatusKept DEF Api, runtimeVars

\* A launched lane is not yet bound.
LEMMA StatusLaunch ==
  ASSUME SInv, TInv', Launch
  PROVE  StatusIsTheLanes'
<1>1. nextGen \in Nat /\ lanes \in [Gens -> Lane] /\ lanes' \in [Gens' -> Lane]
  BY DEF SInv, OInv, TInv, TypeOK
<1>2. nextGen' = nextGen + 1 /\ \A g \in Gens : lanes'[g] = lanes[g]
  BY <1>1 DEF Launch
<1>3. LanesKeepNames /\ \A g \in Gens : PcAdvances(g)
  BY <1>1, <1>2 DEF LanesKeepNames, PcAdvances
<1>4. QED
  BY <1>3, StatusKept DEF Launch, storeVars

\* An accepted bind hands the session to a lane of its slug and its revision.
LEMMA StatusBind ==
  ASSUME SInv, TInv', Bind
  PROVE  StatusIsTheLanes'
<1> DEFINE g == loop.gen
           s == loop.slug
<1>0. OInv /\ s \in Slug /\ sessions \in [Slug -> Session \cup {NoSession}]
  BY DEF Bind, SInv, OInv, TInv, LoopSlugOK, VisitPc, TypeOK, StoreTypeOK
<1>1. g \in Gens /\ g # 0 /\ lanes[g].slug = s /\ lanes[g].pc = "new"
  BY DEF Bind, SInv, OInv, LaneOrder, LoopHoldsALane, LanesOf, TInv, TypeOK
<1>2. LanesKeepNames /\ \A h \in Gens : PcAdvances(h)
  <2>1. ASSUME NEW pc \in {"await", "abandon"},
               lanes' = [lanes EXCEPT ![g].pc = pc] \/
               lanes' = [lanes EXCEPT ![g].pc = pc, ![g].cancelled = TRUE]
        PROVE  LanesKeepNames /\ \A h \in Gens : PcAdvances(h)
    <3>1. pc \in LanePc /\ nextGen' = nextGen
      BY DEF LanePc, Bind
    <3>2. LanesKeepNames /\ \A h \in Gens : h # g => PcAdvances(h)
      BY <1>0, <1>1, <2>1, <3>1, LaneKeepsNames
    <3>3. PcAdvances(g)
      BY <1>1 DEF PcAdvances, Early, Gone
    <3>4. QED
      BY <3>2, <3>3
  <2>2. QED
    BY <2>1 DEF Bind
<1>3. CASE bindRuntime(s, lanes[g].rev, g)
  <2>1. sessions[s] \in Session /\ sessions[s].rev = lanes[g].rev
    BY <1>0, <1>3 DEF bindRuntime, bindAccepted, Stored
  <2>2. /\ sessions'[s].state = "starting" /\ sessions'[s].gen = g
        /\ sessions'[s].rev = lanes[g].rev
        /\ \A t \in Slug : t # s => sessions'[t] = sessions[t]
    BY <1>0, <1>3, <2>1 DEF bindRuntime, Session
  <2>3. g \in Gens' /\ Matches(s, "starting", g, lanes[g].rev, lanes'[g])
    BY <1>1, <1>2 DEF Matches, LanesKeepNames
  <2>4. QED
    BY <1>2, <2>2, <2>3, StatusKept
<1>4. CASE UNCHANGED storeVars
  BY <1>2, <1>4, StatusKept DEF storeVars
<1>5. QED
  BY <1>3, <1>4 DEF Bind

\* The other steps of the loop move no lane and touch no session.
LEMMA StatusLoop ==
  ASSUME SInv, LoopSelect \/ LoopWorks, ~Launch, ~Bind
  PROVE  /\ UNCHANGED <<sessions, nextGen>>
         /\ \/ UNCHANGED lanes
            \/ lanes' = StopLanes(loop.slug)
            \/ StopAll
<1>1. CASE LoopSelect
  BY <1>1 DEF LoopSelect, TakeEvent, Tick, TakeReload, EventsClosed, storeVars
<1>2. CASE LoopWorks
  <2>1. CASE RunSubscribe
    BY <2>1 DEF RunSubscribe, Subscribe
  <2>2. CASE \E s \in Slug : BootVisit(s) \/ Heal(s) \/ Sweep(s) \/ Replace(s) \/ CleanStored(s)
    BY <2>2 DEF BootVisit, Heal, Sweep, Replace, CleanStored, storeVars
  <2>3. CASE \/ RunList \/ Orphans \/ Reconfigurable \/ ScanDone \/ DeletedGet \/ SyncCurrent
             \/ LaunchRefused
    BY <2>3 DEF RunList, Orphans, Reconfigurable, ScanDone, DeletedGet, SyncCurrent,
       LaunchRefused, storeVars
  <2>4. CASE Stop \/ Halt \/ HaltWait \/ Clean \/ StopAll \/ AwaitLanes \/ CleanList \/ RunReturns
    BY <2>4 DEF Stop, Halt, HaltWait, Clean, StopAll, AwaitLanes, CleanList, RunReturns, storeVars
  <2>5. QED
    BY <1>2, <2>1, <2>2, <2>3, <2>4 DEF LoopWorks
<1>3. QED
  BY <1>1, <1>2

\* The invariant is inductive, action by action.
LEMMA StatusStep ==
  ASSUME SInv, [Next]_vars
  PROVE  SInv'
<1>0. OInv' /\ TInv'
  BY OrderStep, TypeStep DEF SInv, OInv
<1> SUFFICES StatusIsTheLanes'
  BY <1>0 DEF SInv
<1>1. lanes \in [Gens -> Lane] /\ reg \in [Slug -> Reg \cup {NoReg}] /\ lanes' \in [Gens' -> Lane]
  BY <1>0 DEF SInv, OInv, TInv, TypeOK
<1>2. ASSUME UNCHANGED <<sessions, nextGen>>,
             \A g \in Gens : /\ lanes'[g].slug = lanes[g].slug /\ lanes'[g].rev = lanes[g].rev
                             /\ lanes'[g].pc = lanes[g].pc
      PROVE  StatusIsTheLanes'
  BY <1>0, <1>1, <1>2, StatusKept DEF LanesKeepNames, PcAdvances
<1>3. CASE Environment
  <2>1. CASE Api
    BY <1>0, <2>1, StatusApi
  <2>2. CASE ~Api
    BY <1>2, <1>3, <2>2 DEF Environment, Reconfigure, RecordPush, RetryDue, Shutdown,
       SubscriptionEnds, Unregister, CloseEvents, storeVars, runtimeVars
  <2>3. QED
    BY <2>1, <2>2
<1>4. CASE Launch
  BY <1>0, <1>4, StatusLaunch
<1>5. CASE Bind
  BY <1>0, <1>5, StatusBind
<1>6. CASE (LoopSelect \/ LoopWorks) /\ ~Launch /\ ~Bind
  <2>1. UNCHANGED <<sessions, nextGen>>
    BY <1>6, StatusLoop
  <2>2. CASE UNCHANGED lanes
    BY <1>2, <2>1, <2>2
  <2>3. CASE lanes' = StopLanes(loop.slug)
    BY <1>1, <1>2, <2>1, <2>3 DEF StopLanes, Lane
  <2>4. CASE StopAll
    BY <1>1, <1>2, <2>1, <2>4 DEF StopAll, Lane
  <2>5. QED
    BY <1>6, <2>2, <2>3, <2>4, StatusLoop
<1>7. ASSUME NEW g \in Gens, LaneWorks(g) \/ LaneMedia(g) PROVE StatusIsTheLanes'
  BY <1>0, <1>7, StatusLane
<1>8. CASE UNCHANGED vars
  BY <1>2, <1>8 DEF vars, storeVars, runtimeVars
<1>9. QED
  BY <1>0, <1>3, <1>4, <1>5, <1>6, <1>7, <1>8 DEF Next

\* store.go bindRuntime/setRuntime: the status of a definition is the last word of
\* the lane bound to it, which has its slug and its revision, and only of that lane.
THEOREM StatusIsBound == Spec => []StatusIsTheLanes
<1>1. Init => SInv
  BY OrderInit DEF SInv, StatusIsTheLanes, StoredSlugs, Stored, Init, StoreInit
<1>2. SInv => StatusIsTheLanes
  BY DEF SInv
<1>3. QED
  BY <1>1, <1>2, StatusStep, PTL DEF Spec
=============================================================================
