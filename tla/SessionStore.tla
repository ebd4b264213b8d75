---------------------------- MODULE SessionStore ----------------------------
(***************************************************************************)
(* The session store (internal/core/session/store.go, status.go): the      *)
(* definitions of the live sessions, the runtime status the media lanes    *)
(* report, and the buffered channel through which the one subscriber that  *)
(* matters to the runtime learns of changes.                               *)
(*                                                                         *)
(* Every operation of the store holds its mutex from beginning to end, so  *)
(* each is one atomic action.  The data of a definition (languages, source,*)
(* delay) is abstracted to its revision: the store stamps a fresh revision *)
(* on every accepted write, so two definitions with the same revision are  *)
(* the same definition.  Only Pair is kept, because Delete follows it.     *)
(*                                                                         *)
(* A definition followed by one whose name extends it with a suffix (Any-, *)
(* -Cancelled, ...) has a plausible mistake beside it: the mutants that    *)
(* PROJECT.json pairs with the properties.                                 *)
(***************************************************************************)
EXTENDS Naturals, Sequences, FiniteSets

CONSTANTS
  Slug,      \* the names a session can have
  NoSlug,    \* the empty Pair
  Capacity,  \* Store.max; 0 means unlimited
  Buffer,    \* subscriberBuffer (16 in the code)
  MaxRev     \* model bound: how many definitions are ever accepted

ASSUME StoreAssumption ==
  /\ NoSlug \notin Slug
  /\ Capacity \in Nat
  /\ Buffer \in Nat \ {0}
  /\ MaxRev \in Nat

VARIABLES
  sessions,  \* Store.sessions, NoSession where the map has no entry
  nextRev,   \* Store.nextRev
  events,    \* the runtime's subscription channel, head first
  sub        \* the life of that subscription: none, open, removed, closed

storeVars == <<sessions, nextRev, events, sub>>

RuntimeState == {"starting", "running", "finished", "failed"}

Session ==
  [rev : Nat \ {0}, pair : Slug \cup {NoSlug}, state : RuntimeState, gen : Nat]

NoSession == [rev |-> 0, pair |-> NoSlug, state |-> "starting", gen |-> 0]

EventType == {"created", "updated", "deleted", "status"}

Event == [type : EventType, slug : Slug]

Stored(s) == sessions[s] # NoSession

StoredSlugs == {s \in Slug : Stored(s)}

\* RuntimeStatus transitions; finished and failed are terminal until a rebind.
validRuntimeTransition ==
  {<<"starting", "running">>, <<"starting", "finished">>, <<"starting", "failed">>,
   <<"running", "finished">>, <<"running", "failed">>}

\* notify never blocks: a full subscriber misses the event.
notify(queue, type, s) ==
  IF sub = "open" /\ Len(queue) < Buffer
    THEN Append(queue, [type |-> type, slug |-> s])
    ELSE queue

StoreInit ==
  /\ sessions = [s \in Slug |-> NoSession]
  /\ nextRev = 0
  /\ events = <<>>
  /\ sub = "none"

\* What every accepted write stores: a new revision that no lane is bound to.
Fresh(pair) == [rev |-> nextRev + 1, pair |-> pair, state |-> "starting", gen |-> 0]

-----------------------------------------------------------------------------
(* The control API's writes.                                               *)

Create(s, pair) ==
  /\ nextRev < MaxRev
  /\ pair # s
  /\ ~Stored(s)
  /\ Capacity = 0 \/ Cardinality(StoredSlugs) < Capacity
  /\ nextRev' = nextRev + 1
  /\ sessions' = [sessions EXCEPT ![s] = Fresh(pair)]
  /\ events' = notify(events, "created", s)
  /\ UNCHANGED sub

\* The definition changes, so whatever lane was bound to it no longer is.
updateLangs(s) ==
  /\ nextRev < MaxRev
  /\ Stored(s)
  /\ nextRev' = nextRev + 1
  /\ sessions' = [sessions EXCEPT ![s] = Fresh(sessions[s].pair)]
  /\ events' = notify(events, "updated", s)
  /\ UNCHANGED sub

\* A reciprocal pair is one call: deleting either end deletes both.
Delete(s) ==
  LET p == sessions[s].pair
      paired == p \in Slug /\ Stored(p) /\ sessions[p].pair = s
  IN  /\ Stored(s)
      /\ \/ /\ ~paired
            /\ sessions' = [sessions EXCEPT ![s] = NoSession]
            /\ events' = notify(events, "deleted", s)
         \/ /\ paired
            /\ sessions' = [sessions EXCEPT ![s] = NoSession, ![p] = NoSession]
            /\ events' = notify(notify(events, "deleted", s), "deleted", p)
      /\ UNCHANGED <<nextRev, sub>>

-----------------------------------------------------------------------------
(* The runtime's writes.  A refused write changes nothing.                 *)

\* A bindAccepted that would bind a lane to a definition written since.
bindAcceptedAnyRev(s, rev, gen) == Stored(s) /\ gen > sessions[s].gen

bindAccepted(s, rev, gen) ==
  Stored(s) /\ sessions[s].rev = rev /\ gen > sessions[s].gen

\* Visible state that is already starting needs no event.
bindRuntime(s, rev, gen) ==
  /\ bindAccepted(s, rev, gen)
  /\ sessions' = [sessions EXCEPT ![s].state = "starting", ![s].gen = gen]
  /\ events' = IF sessions[s].state # "starting"
                 THEN notify(events, "status", s) ELSE events
  /\ UNCHANGED <<nextRev, sub>>

setAccepted(s, rev, gen, state) ==
  /\ Stored(s)
  /\ sessions[s].rev = rev
  /\ sessions[s].gen = gen
  /\ <<sessions[s].state, state>> \in validRuntimeTransition

setRuntime(s, rev, gen, state) ==
  /\ setAccepted(s, rev, gen, state)
  /\ sessions' = [sessions EXCEPT ![s].state = state]
  /\ events' = notify(events, "status", s)
  /\ UNCHANGED <<nextRev, sub>>

-----------------------------------------------------------------------------
(* The subscription: opened once by the runtime; when its context ends a   *)
(* goroutine first unregisters it under the mutex and then closes it.      *)

Subscribe ==
  /\ sub = "none"
  /\ sub' = "open"
  /\ UNCHANGED <<sessions, nextRev, events>>

Unregister ==
  /\ sub = "open"
  /\ sub' = "removed"
  /\ UNCHANGED <<sessions, nextRev, events>>

CloseEvents ==
  /\ sub = "removed"
  /\ sub' = "closed"
  /\ UNCHANGED <<sessions, nextRev, events>>

ApiStep ==
  \/ \E s \in Slug, pair \in Slug \cup {NoSlug} : Create(s, pair)
  \/ \E s \in Slug : updateLangs(s)
  \/ \E s \in Slug : Delete(s)

StoreTypeOK ==
  /\ sessions \in [Slug -> Session \cup {NoSession}]
  /\ nextRev \in Nat
  /\ events \in Seq(Event)
  /\ sub \in {"none", "open", "removed", "closed"}
=============================================================================
