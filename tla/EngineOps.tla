------------------------------ MODULE EngineOps ------------------------------
(***************************************************************************)
(* The engine surface of the control plane (internal/control/engine.go):   *)
(* one operation slot, asynchronous installs and a synchronous removal,    *)
(* the catalogue cache, the progress fan-out to the dashboard's            *)
(* subscribers, and the shutdown that joins the operation in flight.       *)
(***************************************************************************)
EXTENDS Naturals, Sequences, FiniteSets

CONSTANTS Requests,    \* RPCs a client sends
          Subscribers, \* SSE connections
          EventBuffer, \* engineEventBuffer
          MaxProgress, \* bound: progress reports of one operation
          MaxCatalog   \* bound: catalogues the source publishes

VARIABLES request,   \* request[r]: where the RPC and its operation are
          slot,      \* opActive and op: the operation shown, and whether it runs
          joined,    \* the WaitGroup's counter
          halted,    \* the engine's life has ended
          closing,   \* Shutdown: "no", "joining", "drained" or "late"
          channel,   \* channel[s]: events a subscriber has not received
          attached,  \* attached[s]: "never", "on" or "off"
          published, \* the catalogue the source offers
          cached,    \* the cached catalogue, 0 for none
          fresh      \* its age is below engineCatalogTTL
vars == <<request, slot, joined, halted, closing, channel, attached, published, cached, fresh>>

Catalogs == <<published, cached, fresh>>
Feeds == <<channel, attached>>
NoOp == [by |-> "nobody", active |-> FALSE, phase |-> "none"]
Fresh == [kind |-> "none", pc |-> "idle", catalog |-> 0, reports |-> 0, phase |-> "none", reply |-> "none"]

Init ==
    /\ request = [r \in Requests |-> Fresh] /\ slot = NoOp /\ joined = 0
    /\ halted = FALSE /\ closing = "no"
    /\ channel = [s \in Subscribers |-> <<>>] /\ attached = [s \in Subscribers |-> "never"]
    /\ published = 1 /\ cached = 0 /\ fresh = FALSE

At(r, pc) == request[r].pc = pc
Goto(r, pc) == request' = [request EXCEPT ![r].pc = pc]
\* The catalogue has served once the installer has it.
Admit(r) == request' = [request EXCEPT ![r].pc = "run", ![r].catalog = 0]
Answer(r, reply) == request' = [request EXCEPT ![r].pc = "done", ![r].reply = reply, ![r].catalog = 0]

Call(r, kind) ==
    /\ At(r, "idle")
    /\ request' = [request EXCEPT ![r].kind = kind,
                                  ![r].pc = IF kind = "remove" THEN "begin" ELSE "catalog"]
    /\ UNCHANGED <<slot, joined, halted, closing, Feeds, Catalogs>>

-----------------------------------------------------------------------------
(* cachedCatalog: the lock is not held while the source answers *)

CachedCatalog(r) ==
    /\ At(r, "catalog")
    /\ IF cached # 0 /\ fresh
         THEN request' = [request EXCEPT ![r].pc = "begin", ![r].catalog = cached]
         ELSE Goto(r, "fetching")
    /\ UNCHANGED <<slot, joined, halted, closing, Feeds, Catalogs>>

SourceAnswers(r) ==
    /\ At(r, "fetching")
    /\ request' = [request EXCEPT ![r].pc = "store", ![r].catalog = published]
    /\ UNCHANGED <<slot, joined, halted, closing, Feeds, Catalogs>>
StoreCatalog(r) ==
    /\ At(r, "store") /\ Goto(r, "begin")
    /\ cached' = request[r].catalog /\ fresh' = TRUE
    /\ UNCHANGED <<slot, joined, halted, closing, Feeds, published>>
\* A failed fetch: the stale catalogue still names verifiable artifacts.
FetchFails(r) ==
    /\ At(r, "fetching")
    /\ IF cached = 0 THEN Answer(r, "unavailable")
                     ELSE request' = [request EXCEPT ![r].pc = "begin", ![r].catalog = cached]
    /\ UNCHANGED <<slot, joined, halted, closing, Feeds, Catalogs>>

Expire == /\ fresh /\ fresh' = FALSE
          /\ UNCHANGED <<request, slot, joined, halted, closing, Feeds, published, cached>>
PublishCatalog == /\ published < MaxCatalog /\ published' = published + 1
                  /\ UNCHANGED <<request, slot, joined, halted, closing, Feeds, cached, fresh>>

-----------------------------------------------------------------------------
(* The slot *)

\* A Begin that would not ask whether the slot is taken.
BeginUnguarded(r) ==
    /\ At(r, "begin")
    /\ IF slot.active THEN Answer(r, "aborted") /\ UNCHANGED <<slot, joined>>
       ELSE /\ slot' = [by |-> r, active |-> TRUE, phase |-> "download"]
            /\ joined' = joined + 1 /\ Admit(r)
    /\ UNCHANGED <<halted, closing, Feeds, Catalogs>>

Begin(r) ==
    /\ At(r, "begin")
    /\ CASE halted -> Answer(r, "unavailable") /\ UNCHANGED <<slot, joined>>
         [] ~halted /\ slot.active -> Answer(r, "aborted") /\ UNCHANGED <<slot, joined>>
         [] OTHER -> /\ slot' = [by |-> r, active |-> TRUE, phase |-> "download"]
                     /\ joined' = joined + 1 /\ Admit(r)
    /\ UNCHANGED <<halted, closing, Feeds, Catalogs>>

\* The installer reports; the report changes the slot under the lock and is
\* broadcast after it.  Only installs report.
Progress(r) ==
    /\ At(r, "run") /\ request[r].kind # "remove" /\ request[r].reports < MaxProgress
    /\ slot.active /\ slot' = [slot EXCEPT !.phase = "verify"]
    /\ request' = [request EXCEPT ![r].pc = "report", ![r].reports = @ + 1]
    /\ UNCHANGED <<joined, halted, closing, Feeds, Catalogs>>

\* broadcast: a full subscriber misses the event, nobody waits for it.
Deliver(event) ==
    channel' = [s \in Subscribers |->
                  IF attached[s] = "on" /\ Len(channel[s]) < EventBuffer
                  THEN Append(channel[s], event) ELSE channel[s]]
BroadcastProgress(r) ==
    /\ At(r, "report") /\ Deliver(<<r, "verify">>) /\ Goto(r, "run")
    /\ UNCHANGED <<slot, joined, halted, closing, attached, Catalogs>>

\* The installer's run ends: with success, an error, or, for the installs,
\* because the engine's life cancelled its context.
RunEnds(r) ==
    /\ At(r, "run")
    /\ \E phase \in {"done", "error"} :
         request' = [request EXCEPT ![r].pc = "finish", ![r].phase = phase]
    /\ UNCHANGED <<slot, joined, halted, closing, Feeds, Catalogs>>

\* finish: the slot is free before the terminal event is broadcast; ops.Done
\* is deferred to the end.
Finish(r) ==
    /\ At(r, "finish") /\ Goto(r, "announce")
    /\ slot' = [slot EXCEPT !.active = FALSE, !.phase = request[r].phase]
    /\ UNCHANGED <<joined, halted, closing, Feeds, Catalogs>>
Announce(r) ==
    /\ At(r, "announce") /\ Goto(r, "leave") /\ Deliver(<<r, request[r].phase>>)
    /\ UNCHANGED <<slot, joined, halted, closing, attached, Catalogs>>
LeaveGroup(r) ==
    /\ At(r, "leave") /\ joined' = joined - 1 /\ Answer(r, request[r].phase)
    /\ UNCHANGED <<slot, halted, closing, Feeds, Catalogs>>

-----------------------------------------------------------------------------
(* Shutdown and the subscribers *)

Halt == /\ ~halted /\ halted' = TRUE /\ closing' = "joining"
        /\ UNCHANGED <<request, slot, joined, Feeds, Catalogs>>
Drained == /\ closing = "joining" /\ joined = 0 /\ closing' = "drained"
           /\ UNCHANGED <<request, slot, joined, halted, Feeds, Catalogs>>
DrainTimeout == /\ closing = "joining" /\ joined # 0 /\ closing' = "late"
                /\ UNCHANGED <<request, slot, joined, halted, Feeds, Catalogs>>

Subscribe(s) ==
    /\ attached[s] = "never" /\ attached' = [attached EXCEPT ![s] = "on"]
    /\ UNCHANGED <<request, slot, joined, halted, closing, channel, Catalogs>>
Receive(s) ==
    /\ channel[s] # <<>> /\ channel' = [channel EXCEPT ![s] = Tail(@)]
    /\ UNCHANGED <<request, slot, joined, halted, closing, attached, Catalogs>>
\* Deleted from the set under the lock broadcast sends under, then closed.
Unsubscribe(s) ==
    /\ attached[s] = "on" /\ attached' = [attached EXCEPT ![s] = "off"]
    /\ channel' = [channel EXCEPT ![s] = <<>>]
    /\ UNCHANGED <<request, slot, joined, halted, closing, Catalogs>>

Next ==
    \/ \E r \in Requests :
         \/ Call(r, "install") \/ Call(r, "remove") \/ CachedCatalog(r) \/ SourceAnswers(r)
         \/ StoreCatalog(r) \/ FetchFails(r) \/ Begin(r) \/ Progress(r)
         \/ BroadcastProgress(r) \/ RunEnds(r) \/ Finish(r) \/ Announce(r) \/ LeaveGroup(r)
    \/ \E s \in Subscribers : Subscribe(s) \/ Receive(s) \/ Unsubscribe(s)
    \/ Expire \/ PublishCatalog \/ Halt \/ Drained \/ DrainTimeout

\* An operation that runs ends (its context has a deadline and the engine's
\* life cancels it), and Shutdown's own deadline passes.
Fairness ==
    /\ \A r \in Requests : WF_vars(RunEnds(r) \/ BroadcastProgress(r) \/ Finish(r)
                                   \/ Announce(r) \/ LeaveGroup(r))
    /\ WF_vars(Drained \/ DrainTimeout)

Spec == Init /\ [][Next]_vars
FairSpec == Spec /\ Fairness
-----------------------------------------------------------------------------
Running == {"run", "report", "finish"}

TypeOK ==
    /\ joined \in 0 .. Cardinality(Requests)
    /\ cached \in 0 .. published
    /\ \A s \in Subscribers : Len(channel[s]) <= EventBuffer /\ (attached[s] # "on" => channel[s] = <<>>)

\* One operation at a time, and the slot shows the one that runs: between
\* begin and finish no other request gets past begin, whoever races it.
OneOperation ==
    /\ \A r, q \in Requests : request[r].pc \in Running /\ request[q].pc \in Running => r = q
    /\ \A r \in Requests : request[r].pc \in Running => slot.active /\ slot.by = r
    /\ ~slot.active => slot.phase \in {"none", "done", "error"}

\* A shutdown that reports the join left nothing behind: no operation runs, no
\* event is still to be sent, and none begins afterwards.
DrainedIsQuiet ==
    closing = "drained" => \A r \in Requests : request[r].pc \notin Running \union {"announce", "leave"}

\* What a subscriber gets of one operation ends with its terminal event.
TerminalIsLast ==
    \A s \in Subscribers : \A i, j \in DOMAIN channel[s] :
        i < j /\ channel[s][i][1] = channel[s][j][1] => channel[s][i][2] \notin {"done", "error"}

\* Shutdown never waits for good: joined, or given up at its deadline.
ShutdownReturned == closing # "joining"
=============================================================================
