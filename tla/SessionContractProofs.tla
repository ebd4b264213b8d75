------------------------ MODULE SessionContractProofs -----------------------
(***************************************************************************)
(* Why the store and the runtime together keep the promise SessionContract *)
(* makes to the rest of the daemon.  Under the mapping a session is its    *)
(* revision, its state and its owner, the lanes at work, and the youngest  *)
(* lane whose turn has come.  A write of the API is Define or Remove, a    *)
(* bind is Own, a lane's status write is Report, a lane passing its        *)
(* predecessor is StartWork or Retire, and the return of start is StopWork;*)
(* every other step of the loop, the clock or a lane stutters.             *)
(***************************************************************************)
EXTENDS SessionRuntimeProofs, WellFoundedInduction

USE DEF Gens

\* Revisions only grow: none that is stored is younger than the last one given out.
RevisionsAge == \A s \in Slug : sessions[s].rev <= nextRev

CInv == SInv /\ RevisionsAge

\* The lanes of a slug whose turn has come.
Turned(s) == {g \in LanesOf(s) : ~Waiting(g)}

\* A set of naturals that is not empty has a least member.
LEMMA LeastNatural ==
  ASSUME NEW T \in SUBSET Nat, T # {}
  PROVE  \E k \in T : \A j \in T : k <= j
<1> DEFINE R == OpToRel(<, Nat)
<1>1. IsWellFoundedOn(R, Nat)
  BY NatLessThanWellFounded
<1>2. ASSUME NEW j \in Nat, NEW k \in Nat, <<j, k>> \notin R PROVE ~(j < k)
  BY <1>2 DEF OpToRel
<1> HIDE DEF R
<1>3. T \subseteq Nat
  OBVIOUS
<1>4. \E k \in T : \A j \in T : ~(<<j, k>> \in R)
  BY <1>1, <1>3, WFMin, Zenon
<1>5. PICK k \in T : \A j \in T : <<j, k>> \notin R
  BY <1>4, Zenon
<1>6. ASSUME NEW j \in T PROVE k <= j
  <2>1. ~(j < k)
    BY <1>2, <1>3, <1>5, Zenon
  <2>2. QED
    BY <1>3, <2>1
<1>7. QED
  BY <1>6

\* The youngest lane whose turn has come is well defined: there is one, because a
\* slug has had finitely many lanes.
LEMMA LatestIsYoungest ==
  ASSUME nextGen \in Nat, NEW s \in Slug
  PROVE  /\ LatestTurn(s) \in Turned(s) \cup {0}
         /\ \A h \in Turned(s) : h <= LatestTurn(s)
<1> DEFINE older == {k \in Nat : \E g \in Turned(s) : g + k = nextGen}
<1>1. Turned(s) \subseteq 1 .. nextGen
  BY DEF Turned, LanesOf
<1>2. \E g \in Turned(s) \cup {0} : \A h \in Turned(s) : h <= g
  <2>1. CASE Turned(s) = {}
    BY <2>1
  <2>2. CASE Turned(s) # {}
    <3>1. older \in SUBSET Nat /\ older # {}
      <4>1. PICK g \in Turned(s) : TRUE
        BY <2>2
      <4>2. nextGen - g \in Nat /\ g + (nextGen - g) = nextGen
        BY <1>1, <4>1
      <4>3. QED
        BY <4>1, <4>2
    <3>2. PICK k \in older : \A j \in older : k <= j
      BY <3>1, LeastNatural
    <3>3. PICK g \in Turned(s) : g + k = nextGen
      BY <3>2
    <3>4. ASSUME NEW h \in Turned(s) PROVE h <= g
      <4>1. nextGen - h \in older
        BY <1>1, <3>4
      <4>2. QED
        BY <1>1, <3>2, <3>3, <3>4, <4>1
    <3>5. QED
      BY <3>3, <3>4
  <2>3. QED
    BY <2>1, <2>2
<1>3. QED
  BY <1>2 DEF LatestTurn, Turned

\* A step that keeps the set of those lanes keeps the youngest of them.
LEMMA LatestKept ==
  ASSUME NEW s \in Slug, Turned(s)' = Turned(s)
  PROVE  LatestTurn(s)' = LatestTurn(s)
BY DEF LatestTurn, Turned

\* A lane that is younger than all of them and joins them is the youngest.
LEMMA LatestJoins ==
  ASSUME TypeOK, TypeOK', NEW s \in Slug, NEW g \in Gens,
         Turned(s)' = Turned(s) \cup {g}, \A h \in Turned(s) : h < g
  PROVE  LatestTurn(s)' = g /\ g > LatestTurn(s)
<1>1. /\ LatestTurn(s)' \in Turned(s)' \cup {0}
      /\ \A h \in Turned(s)' : h <= LatestTurn(s)'
  <2>1. (nextGen \in Nat => /\ LatestTurn(s) \in Turned(s) \cup {0}
                            /\ \A h \in Turned(s) : h <= LatestTurn(s))'
    BY LatestIsYoungest, PTL
  <2>2. QED
    BY <2>1 DEF TypeOK
<1>2. Turned(s) \subseteq Gens /\ nextGen \in Nat
  BY DEF Turned, LanesOf, TypeOK
<1>3. LatestTurn(s) \in Turned(s) \cup {0}
  BY <1>2, LatestIsYoungest
<1>4. QED
  BY <1>1, <1>2, <1>3

-----------------------------------------------------------------------------
(* What a step does to the lanes at work and to those whose turn has come. *)

Working == {"prestart", "inside", "open", "announced", "drain"}
Standing == {"new", "await", "abandon"}

\* No lane starts, stops or takes its turn.
Rests == \A s \in Slug : AtWork(s)' = AtWork(s) /\ Turned(s)' = Turned(s)

\* A step that changes no lane leaves the owners and their order alone.
LEMMA LanesRest ==
  ASSUME nextGen' = nextGen,
         \A g \in Gens : lanes'[g].slug = lanes[g].slug /\ lanes'[g].pc = lanes[g].pc
  PROVE  Rests
BY DEF Rests, AtWork, Turned, LanesOf, InStart, Waiting

\* One lane moves, and every other one stays where it is.
LEMMA OneMoves ==
  ASSUME TypeOK, NEW g \in Gens, NEW pc \in LanePc, nextGen' = nextGen,
         lanes' = [lanes EXCEPT ![g].pc = pc] \/
         lanes' = [lanes EXCEPT ![g].pc = pc, ![g].cancelled = TRUE],
         NEW s \in Slug
  PROVE  /\ lanes[g].slug # s => AtWork(s)' = AtWork(s) /\ Turned(s)' = Turned(s)
         /\ lanes[g].slug = s =>
              /\ AtWork(s)' = IF pc \in Working THEN AtWork(s) \cup {g} ELSE AtWork(s) \ {g}
              /\ Turned(s)' = IF pc \in Standing THEN Turned(s) \ {g} ELSE Turned(s) \cup {g}
              /\ g \in AtWork(s) <=> lanes[g].pc \in Working
              /\ g \in Turned(s) <=> lanes[g].pc \notin Standing
<1>1. lanes \in [Gens -> Lane]
  BY DEF TypeOK
<1>2. /\ lanes'[g].slug = lanes[g].slug /\ lanes'[g].pc = pc
      /\ \A h \in Gens : h # g => lanes'[h] = lanes[h]
  BY <1>1 DEF Lane
<1>3. Gens' = Gens
  OBVIOUS
<1>4. QED
  BY <1>2, <1>3 DEF AtWork, Turned, LanesOf, InStart, Waiting, Working, Standing

\* A lane that moves within its start, before its turn or after its end.
LEMMA MovesAtRest ==
  ASSUME TypeOK, NEW g \in Gens, NEW pc \in LanePc, nextGen' = nextGen,
         lanes' = [lanes EXCEPT ![g].pc = pc] \/
         lanes' = [lanes EXCEPT ![g].pc = pc, ![g].cancelled = TRUE],
         pc \in Working <=> lanes[g].pc \in Working,
         pc \in Standing <=> lanes[g].pc \in Standing
  PROVE  Rests
<1> SUFFICES ASSUME NEW s \in Slug
             PROVE  AtWork(s)' = AtWork(s) /\ Turned(s)' = Turned(s)
  BY DEF Rests
<1>1. QED
  BY OneMoves

\* runtime.go runLane: when the predecessor of a waiting lane has closed, no lane of
\* the slug is at work and none that has taken its turn is younger.
LEMMA TurnComes ==
  ASSUME OInv, NEW g \in Gens, lanes[g].pc \in {"await", "abandon"},
         DoneClosed(lanes[g].prev)
  PROVE  /\ AtWork(lanes[g].slug) = {}
         /\ \A h \in Turned(lanes[g].slug) : h < g
<1> DEFINE s == lanes[g].slug
           p == lanes[g].prev
<1>1. ~Ended(g) /\ Waiting(g) /\ nextGen \in Nat /\ p \in Nat
  BY DEF Ended, Waiting, OInv, TInv, TypeOK, Lane
<1>2. ASSUME NEW h \in Turned(s) PROVE h < g /\ Ended(h)
  <2>1. h \in Gens /\ lanes[h].slug = s /\ ~Waiting(h)
    BY <1>2 DEF Turned, LanesOf
  <2>2. ~(g < h)
    BY <1>1, <2>1 DEF OInv, LaneOrder, WaitsItsTurn, LanesOf
  <2>3. h < g
    BY <1>1, <2>1, <2>2
  <2>4. Ended(h) \/ h <= p
    BY <2>1, <2>3 DEF OInv, LaneOrder, WaitsItsTurn, LanesOf
  <2>5. ASSUME h <= p PROVE Ended(h)
    <3>1. p \in Gens /\ lanes[p].slug = s
      BY <1>1, <2>1, <2>5 DEF OInv, LaneOrder, WaitsItsTurn, LanesOf
    <3>2. Ended(p) /\ ~Waiting(p)
      BY <3>1 DEF DoneClosed, Ended, Waiting
    <3>3. h = p \/ h < p
      BY <1>1, <2>1, <2>5
    <3>4. QED
      BY <2>1, <3>1, <3>2, <3>3 DEF OInv, LaneOrder, WaitsItsTurn, LanesOf
  <2>6. QED
    BY <2>3, <2>4, <2>5
<1>3. AtWork(s) = {}
  BY <1>2 DEF AtWork, Turned, InStart, Waiting, Ended
<1>4. QED
  BY <1>2, <1>3

\* A lane that has taken its turn and has not ended is the youngest to have taken it.
LEMMA TurnIsLatest ==
  ASSUME OInv, NEW g \in Gens, ~Waiting(g), ~Ended(g)
  PROVE  LatestTurn(lanes[g].slug) = g
<1> DEFINE s == lanes[g].slug
<1>1. s \in Slug /\ nextGen \in Nat /\ g \in Turned(s)
  BY DEF OInv, TInv, TypeOK, Lane, Turned, LanesOf
<1>2. ASSUME NEW h \in Turned(s) PROVE h <= g
  <2>1. h \in Gens /\ lanes[h].slug = s /\ ~Waiting(h)
    BY <1>2 DEF Turned, LanesOf
  <2>2. ~(g < h)
    BY <2>1 DEF OInv, LaneOrder, WaitsItsTurn, LanesOf
  <2>3. QED
    BY <1>1, <2>1, <2>2
<1>3. LatestTurn(s) \in Turned(s) \cup {0} /\ g <= LatestTurn(s)
  BY <1>1, LatestIsYoungest
<1>4. Turned(s) \subseteq Nat
  BY <1>1 DEF Turned, LanesOf
<1>5. QED
  BY <1>1, <1>2, <1>3, <1>4

-----------------------------------------------------------------------------
(* The steps of the contract.                                              *)

\* Steps that neither write a definition nor move a lane are stutters.
LEMMA Stutters ==
  ASSUME Rests, UNCHANGED sessions
  PROVE  UNCHANGED Contract!contractVars
<1>1. \A s \in Slug : AtWork(s)' = AtWork(s) /\ LatestTurn(s)' = LatestTurn(s)
  BY LatestKept DEF Rests
<1>2. QED
  BY <1>1 DEF Contract!contractVars

\* A waiting lane whose predecessor has closed goes to work, or leaves unworked.
LEMMA TakesTurn ==
  ASSUME OInv, TypeOK', NEW g \in Gens, NEW pc \in {"prestart", "inside", "leave"},
         lanes[g].pc \in {"await", "abandon"}, DoneClosed(lanes[g].prev),
         lanes' = [lanes EXCEPT ![g].pc = pc], nextGen' = nextGen, UNCHANGED sessions
  PROVE  \E s \in Slug : Contract!StartWork(s) \/ Contract!Retire(s)
<1>0. PICK s \in Slug : s = lanes[g].slug
  BY DEF OInv, TInv, TypeOK, Lane
<1>1. TypeOK /\ pc \in LanePc /\ pc \notin Standing
  BY DEF OInv, TInv, LanePc, Standing
<1>2. AtWork(s) = {} /\ \A h \in Turned(s) : h < g
  BY <1>0, TurnComes
<1>3. /\ \A t \in Slug : t # s => AtWork(t)' = AtWork(t) /\ Turned(t)' = Turned(t)
      /\ AtWork(s)' = IF pc \in Working THEN {g} ELSE {}
      /\ Turned(s)' = Turned(s) \cup {g}
  BY <1>0, <1>1, <1>2, OneMoves
<1>4. LatestTurn(s)' = g /\ g > LatestTurn(s)
  BY <1>1, <1>2, <1>3, LatestJoins
<1>5. \A t \in Slug : t # s => LatestTurn(t)' = LatestTurn(t)
  BY <1>3, LatestKept
<1>6. CASE pc \in Working
  <2>1. Contract!StartWork(s)
    BY <1>2, <1>3, <1>4, <1>5, <1>6 DEF Contract!StartWork
  <2>2. QED
    BY <2>1
<1>7. CASE pc \notin Working
  <2>1. Contract!Retire(s)
    BY <1>2, <1>3, <1>4, <1>5, <1>7 DEF Contract!Retire
  <2>2. QED
    BY <2>1
<1>8. QED
  BY <1>6, <1>7

\* start returns.
LEMMA Returns ==
  ASSUME OInv, NEW g \in Gens, NEW pc \in {"finish", "error"}, lanes[g].pc \in Working,
         lanes' = [lanes EXCEPT ![g].pc = pc], nextGen' = nextGen, UNCHANGED sessions
  PROVE  \E s \in Slug : Contract!StopWork(s)
<1>0. PICK s \in Slug : s = lanes[g].slug
  BY DEF OInv, TInv, TypeOK, Lane
<1>1. TypeOK /\ pc \in LanePc /\ pc \notin Standing /\ pc \notin Working
  BY DEF OInv, TInv, LanePc, Standing, Working
<1>2. ASSUME NEW h \in AtWork(s) PROVE h = g
  <2>1. h \in Gens /\ lanes[h].slug = s /\ ~Waiting(h) /\ ~Ended(h)
    BY <1>2 DEF AtWork, LanesOf, InStart, Waiting, Ended
  <2>2. ~Waiting(g) /\ ~Ended(g)
    BY DEF Working, Waiting, Ended
  <2>3. QED
    BY <1>0, <2>1, <2>2, TurnIsLatest
<1>3. /\ \A t \in Slug : t # s => AtWork(t)' = AtWork(t) /\ Turned(t)' = Turned(t)
      /\ g \in AtWork(s) /\ AtWork(s)' = AtWork(s) \ {g}
      /\ Turned(s)' = Turned(s)
  <2>1. lanes[g].pc \notin Standing
    BY DEF Working, Standing
  <2>2. \A t \in Slug : t # s => AtWork(t)' = AtWork(t) /\ Turned(t)' = Turned(t)
    BY <1>0, <1>1, OneMoves
  <2>3. /\ AtWork(s)' = AtWork(s) \ {g} /\ Turned(s)' = Turned(s) \cup {g}
        /\ g \in AtWork(s) /\ g \in Turned(s)
    BY <1>0, <1>1, <2>1, OneMoves
  <2>4. QED
    BY <2>2, <2>3
<1>4. \A t \in Slug : LatestTurn(t)' = LatestTurn(t)
  BY <1>3, LatestKept
<1>5. AtWork(s) # {} /\ AtWork(s)' = {}
  BY <1>2, <1>3
<1>6. Contract!StopWork(s)
  BY <1>3, <1>4, <1>5 DEF Contract!StopWork
<1>7. QED
  BY <1>6

\* An accepted status write is the owner's: running while it is at work, the rest
\* once it has returned and before a younger lane's turn comes.
LEMMA OwnerReports ==
  ASSUME OInv, Rests, NEW g \in Gens, NEW st \in {"running", "finished", "failed"},
         setRuntime(lanes[g].slug, lanes[g].rev, g, st),
         IF st = "running" THEN lanes[g].pc = "open" ELSE lanes[g].pc \in {"finish", "fail"}
  PROVE  \E s \in Slug : Contract!Report(s)
<1>0. PICK s \in Slug : s = lanes[g].slug
  BY DEF OInv, TInv, TypeOK, Lane
<1>1. sessions \in [Slug -> Session \cup {NoSession}] /\ nextGen \in Nat /\ g # 0
  BY DEF OInv, TInv, TypeOK, StoreTypeOK
<1>2. sessions[s] \in Session /\ sessions[s].rev # 0 /\ sessions[s].gen = g
  BY <1>0, <1>1 DEF setRuntime, setAccepted, Stored, Session
<1>3. /\ st = "running" => sessions[s].state = "starting"
      /\ st # "running" => sessions[s].state \in {"starting", "running"}
  BY <1>0 DEF setRuntime, setAccepted, validRuntimeTransition
<1>4. /\ sessions'[s].rev = sessions[s].rev /\ sessions'[s].gen = g /\ sessions'[s].state = st
      /\ \A t \in Slug : t # s => sessions'[t] = sessions[t]
  BY <1>0, <1>1, <1>2 DEF setRuntime, Session
<1>5. IF st = "running" THEN g \in AtWork(s) ELSE g \notin AtWork(s) /\ g = LatestTurn(s)
  <2>1. ~Waiting(g) /\ ~Ended(g)
    BY DEF Waiting, Ended
  <2>2. QED
    BY <1>0, <2>1, TurnIsLatest DEF AtWork, LanesOf, InStart
<1>6. \A t \in Slug : AtWork(t)' = AtWork(t) /\ LatestTurn(t)' = LatestTurn(t)
  BY LatestKept DEF Rests
<1>7. Contract!Report(s)
  BY <1>1, <1>2, <1>3, <1>4, <1>5, <1>6 DEF Contract!Report
<1>8. QED
  BY <1>7

\* A created or updated definition is younger than every other and nobody's.
LEMMA Defines ==
  ASSUME CInv, Rests, NEW s \in Slug, NEW pair \in Slug \cup {NoSlug},
         sessions' = [sessions EXCEPT ![s] = Fresh(pair)]
  PROVE  Contract!Define(s)
<1>1. sessions \in [Slug -> Session \cup {NoSession}] /\ nextRev \in Nat
  BY DEF CInv, SInv, OInv, TInv, TypeOK, StoreTypeOK
<1>2. \A t \in Slug : /\ sessions[t].rev \in Nat /\ sessions[t].gen \in Nat
                      /\ sessions[t].state \in RuntimeState
  BY <1>1 DEF Session, NoSession, RuntimeState
<1>3. /\ sessions'[s].rev = nextRev + 1 /\ sessions'[s].state = "starting" /\ sessions'[s].gen = 0
      /\ \A t \in Slug : t # s => sessions'[t] = sessions[t]
  BY <1>1 DEF Fresh
<1>4. \A t \in Slug : nextRev + 1 > sessions[t].rev
  BY <1>1, <1>2 DEF CInv, RevisionsAge
<1>5. \A t \in Slug : AtWork(t)' = AtWork(t) /\ LatestTurn(t)' = LatestTurn(t)
  BY LatestKept DEF Rests
<1>6. \E r \in {[t \in Slug |-> sessions'[t].rev][s]} :
        \A t \in Slug : r > [u \in Slug |-> sessions[u].rev][t]
  BY <1>3, <1>4
<1>7. /\ [t \in Slug |-> sessions'[t].rev]
           = [[t \in Slug |-> sessions[t].rev] EXCEPT ![s] = [t \in Slug |-> sessions'[t].rev][s]]
      /\ [t \in Slug |-> sessions'[t].state]
           = [[t \in Slug |-> sessions[t].state] EXCEPT ![s] = "starting"]
      /\ [t \in Slug |-> sessions'[t].gen]
           = [[t \in Slug |-> sessions[t].gen] EXCEPT ![s] = 0]
  BY <1>1, <1>2, <1>3
<1>8. QED
  BY <1>5, <1>6, <1>7 DEF Contract!Define

\* A delete removes one session or the two ends of a call.
LEMMA Removes ==
  ASSUME CInv, Rests, NEW s \in Slug, Delete(s)
  PROVE  \E p \in Slug : Contract!Remove(s, p)
<1>1. sessions \in [Slug -> Session \cup {NoSession}]
  BY DEF CInv, SInv, OInv, TInv, TypeOK, StoreTypeOK
<1>2. \A t \in Slug : AtWork(t)' = AtWork(t) /\ LatestTurn(t)' = LatestTurn(t)
  BY LatestKept DEF Rests
<1>3. PICK p \in Slug : /\ Stored(s) /\ Stored(p)
                        /\ sessions' = [sessions EXCEPT ![s] = NoSession, ![p] = NoSession]
  <2>1. CASE sessions' = [sessions EXCEPT ![s] = NoSession]
    BY <1>1, <2>1 DEF Delete
  <2>2. QED
    BY <2>1 DEF Delete
<1>4. \A t \in Slug : /\ sessions[t].rev \in Nat /\ sessions[t].gen \in Nat
                      /\ sessions[t].state \in RuntimeState
  BY <1>1 DEF Session, NoSession, RuntimeState
<1>5. sessions[s].rev # 0 /\ sessions[p].rev # 0
  BY <1>1, <1>3 DEF Stored, Session
<1>6. /\ sessions'[s] = NoSession /\ sessions'[p] = NoSession
      /\ \A t \in Slug : t \notin {s, p} => sessions'[t] = sessions[t]
  BY <1>1, <1>3
<1>7. /\ NoSession.rev = 0 /\ NoSession.state = "starting" /\ NoSession.gen = 0
  BY DEF NoSession
<1>8. /\ [t \in Slug |-> sessions'[t].rev]
           = [[t \in Slug |-> sessions[t].rev] EXCEPT ![s] = 0, ![p] = 0]
      /\ [t \in Slug |-> sessions'[t].state]
           = [[t \in Slug |-> sessions[t].state] EXCEPT ![s] = "starting", ![p] = "starting"]
      /\ [t \in Slug |-> sessions'[t].gen]
           = [[t \in Slug |-> sessions[t].gen] EXCEPT ![s] = 0, ![p] = 0]
  BY <1>4, <1>6, <1>7
<1>9. Contract!Remove(s, p)
  BY <1>2, <1>5, <1>8 DEF Contract!Remove
<1>10. QED
  BY <1>9

\* A bind gives the definition to a younger lane, and nobody has reported yet.
LEMMA Owns ==
  ASSUME OInv, Rests, NEW s \in Slug, NEW rev, NEW g \in Nat, bindRuntime(s, rev, g)
  PROVE  Contract!Own(s)
<1>1. sessions \in [Slug -> Session \cup {NoSession}]
  BY DEF OInv, TInv, TypeOK, StoreTypeOK
<1>2. sessions[s] \in Session /\ sessions[s].rev # 0 /\ g > sessions[s].gen
  BY <1>1 DEF bindRuntime, bindAccepted, Stored, Session
<1>3. /\ sessions'[s].rev = sessions[s].rev /\ sessions'[s].gen = g
      /\ sessions'[s].state = "starting"
      /\ \A t \in Slug : t # s => sessions'[t] = sessions[t]
  BY <1>1, <1>2 DEF bindRuntime, Session
<1>4. \A t \in Slug : AtWork(t)' = AtWork(t) /\ LatestTurn(t)' = LatestTurn(t)
  BY LatestKept DEF Rests
<1>5. QED
  BY <1>2, <1>3, <1>4 DEF Contract!Own

-----------------------------------------------------------------------------
(* Every step of the program is one of the contract's, or none.            *)

\* A lane's step takes ownership, gives it up, or stutters.
LEMMA ContractLane ==
  ASSUME OInv, TypeOK', NEW g \in Gens, LaneWorks(g) \/ LaneMedia(g)
  PROVE  [Contract!Next]_(Contract!contractVars)
<1> USE DEF LaneStops
<1>0. TypeOK /\ lanes[g].slug \in Slug
  BY DEF OInv, TInv, TypeOK, Lane
<1>1. ASSUME NEW from \in LanePc, NEW to \in LanePc, lanes[g].pc = from,
             nextGen' = nextGen, UNCHANGED sessions,
             lanes' = [lanes EXCEPT ![g].pc = to] \/
             lanes' = [lanes EXCEPT ![g].pc = to, ![g].cancelled = TRUE],
             from \in Working <=> to \in Working, from \in Standing <=> to \in Standing
      PROVE  UNCHANGED Contract!contractVars
  BY <1>0, <1>1, MovesAtRest, Stutters
<1>2. ASSUME NEW pc \in {"prestart", "inside", "leave"},
             lanes[g].pc \in {"await", "abandon"}, DoneClosed(lanes[g].prev),
             LaneMoves(g, lanes[g].pc, pc)
      PROVE  Contract!Next
  <2>1. \E s \in Slug : Contract!StartWork(s) \/ Contract!Retire(s)
    BY <1>2, TakesTurn DEF LaneMoves, storeVars
  <2>2. QED
    BY <2>1 DEF Contract!Next
<1>3. ASSUME NEW pc \in {"finish", "error"}, lanes[g].pc \in Working,
             lanes' = [lanes EXCEPT ![g].pc = pc], nextGen' = nextGen, UNCHANGED sessions
      PROVE  Contract!Next
  <2>1. \E s \in Slug : Contract!StopWork(s)
    BY <1>3, Returns
  <2>2. QED
    BY <2>1 DEF Contract!Next
<1>4. ASSUME NEW st \in {"running", "finished", "failed"},
             setRuntime(lanes[g].slug, lanes[g].rev, g, st),
             IF st = "running" THEN lanes[g].pc = "open" ELSE lanes[g].pc \in {"finish", "fail"},
             NEW pc \in {"announced", "leave", "schedule"},
             pc = "announced" <=> st = "running",
             lanes' = [lanes EXCEPT ![g].pc = pc], nextGen' = nextGen
      PROVE  Contract!Next
  <2>1. Rests
    BY <1>0, <1>4, MovesAtRest DEF LanePc, Working, Standing
  <2>2. \E s \in Slug : Contract!Report(s)
    BY <1>4, <2>1, OwnerReports
  <2>3. QED
    BY <2>2 DEF Contract!Next
<1>5. CASE LaneEnter(g)
  BY <1>2, <1>5 DEF LaneEnter, LaneMoves
<1>6. CASE abandonLane(g)
  BY <1>2, <1>6 DEF abandonLane, LaneMoves
<1>7. CASE LanePreStart(g)
  BY <1>1, <1>7 DEF LanePreStart, LanePc, Working, Standing, storeVars
<1>8. CASE LaneCancelReturn(g)
  BY <1>3, <1>8 DEF LaneCancelReturn, Working, storeVars
<1>9. CASE LaneFinished(g)
  BY <1>1, <1>4, <1>9 DEF LaneFinished, LanePc, Working, Standing, storeVars
<1>10. CASE LaneErrored(g)
  <2>1. ASSUME NEW to \in {"leave", "fail"}, LaneMoves(g, "error", to)
        PROVE  UNCHANGED Contract!contractVars
    BY <1>1, <2>1 DEF LaneMoves, LanePc, Working, Standing, storeVars
  <2>2. QED
    BY <1>10, <2>1 DEF LaneErrored
<1>11. CASE LaneFailed(g)
  BY <1>1, <1>4, <1>11 DEF LaneFailed, LanePc, Working, Standing, storeVars
<1>12. CASE scheduleRetry(g)
  BY <1>1, <1>12 DEF scheduleRetry, LanePc, Working, Standing, storeVars
<1>13. CASE forget(g)
  BY <1>1, <1>13 DEF forget, LanePc, Working, Standing, storeVars
<1>14. CASE LaneCloses(g)
  BY <1>1, <1>14 DEF LaneCloses, LaneMoves, LanePc, Working, Standing, storeVars
<1>15. CASE LanePublish(g)
  BY <1>1, <1>15 DEF LanePublish, LanePc, Working, Standing, storeVars
<1>16. CASE LaneAnnounce(g)
  BY <1>1, <1>4, <1>16 DEF LaneAnnounce, LanePc, Working, Standing, storeVars
<1>17. CASE LaneSourceEnds(g)
  <2>1. ASSUME NEW from \in {"open", "announced"}, LaneMoves(g, from, "drain")
        PROVE  UNCHANGED Contract!contractVars
    BY <1>1, <2>1 DEF LaneMoves, LanePc, Working, Standing, storeVars
  <2>2. QED
    BY <1>17, <2>1 DEF LaneSourceEnds
<1>18. CASE LaneDrained(g)
  BY <1>3, <1>18 DEF LaneDrained, Working, storeVars
<1>19. CASE LaneFails(g)
  BY <1>3, <1>19 DEF LaneFails, Working, storeVars
<1>20. QED
  BY <1>5, <1>6, <1>7, <1>8, <1>9, <1>10, <1>11, <1>12, <1>13, <1>14, <1>15, <1>16,
     <1>17, <1>18, <1>19 DEF LaneWorks, LaneMedia

\* A write of the API is the contract's write.
LEMMA ContractApi ==
  ASSUME CInv, Api
  PROVE  Contract!Next
<1>1. Rests
  BY LanesRest DEF Api, runtimeVars
<1>2. sessions \in [Slug -> Session \cup {NoSession}]
  BY DEF CInv, SInv, OInv, TInv, TypeOK, StoreTypeOK
<1>3. ASSUME NEW s \in Slug, NEW pair \in Slug \cup {NoSlug}, Create(s, pair)
      PROVE  Contract!Next
  <2>1. Contract!Define(s)
    BY <1>1, <1>3, Defines DEF Create
  <2>2. QED
    BY <2>1 DEF Contract!Next
<1>4. ASSUME NEW s \in Slug, updateLangs(s) PROVE Contract!Next
  <2>1. sessions[s].pair \in Slug \cup {NoSlug}
    BY <1>2, <1>4 DEF updateLangs, Stored, Session
  <2>2. Contract!Define(s)
    BY <1>1, <1>4, <2>1, Defines DEF updateLangs
  <2>3. QED
    BY <2>2 DEF Contract!Next
<1>5. ASSUME NEW s \in Slug, Delete(s) PROVE Contract!Next
  <2>1. \E p \in Slug : Contract!Remove(s, p)
    BY <1>1, <1>5, Removes
  <2>2. QED
    BY <2>1 DEF Contract!Next
<1>6. QED
  BY <1>3, <1>4, <1>5 DEF Api, ApiStep

\* A launch is no turn yet.
LEMMA ContractLaunch ==
  ASSUME OInv, Launch
  PROVE  UNCHANGED Contract!contractVars
<1>1. nextGen \in Nat /\ lanes \in [Gens -> Lane]
  BY DEF OInv, TInv, TypeOK
<1>2. /\ nextGen' = nextGen + 1 /\ lanes'[nextGen + 1].pc = "new"
      /\ \A g \in Gens : lanes'[g] = lanes[g]
      /\ UNCHANGED sessions
  BY <1>1 DEF Launch, storeVars
<1>3. Rests
  BY <1>1, <1>2 DEF Rests, AtWork, Turned, LanesOf, InStart, Waiting
<1>4. QED
  BY <1>2, <1>3, Stutters

\* A bind makes the lane the owner of the definition, or finds it stale.
LEMMA ContractBind ==
  ASSUME OInv, Bind
  PROVE  [Contract!Next]_(Contract!contractVars)
<1>1. /\ loop.gen \in Gens /\ loop.slug \in Slug /\ lanes[loop.gen].pc = "new"
      /\ loop.gen \in Nat /\ TypeOK
  BY DEF Bind, OInv, LaneOrder, LoopHoldsALane, LanesOf, TInv, TypeOK, LoopSlugOK, VisitPc, Loop
<1>2. Rests
  BY <1>1, MovesAtRest DEF Bind, LanePc, Working, Standing
<1>3. CASE bindRuntime(loop.slug, lanes[loop.gen].rev, loop.gen)
  <2>1. PICK s \in Slug, rev \in {lanes[loop.gen].rev}, g \in Nat : bindRuntime(s, rev, g)
    BY <1>1, <1>3
  <2>2. Contract!Own(s)
    BY <1>1, <1>2, <2>1, Owns DEF OInv
  <2>3. QED
    BY <2>2 DEF Contract!Next
<1>4. CASE UNCHANGED storeVars
  BY <1>2, <1>4, Stutters DEF storeVars
<1>5. QED
  BY <1>3, <1>4 DEF Bind

\* Every step of store and runtime is a step of the contract or a stutter.
LEMMA ContractStep ==
  ASSUME CInv, [Next]_vars, TypeOK'
  PROVE  [Contract!Next]_(Contract!contractVars)
<1>0. OInv /\ SInv /\ lanes \in [Gens -> Lane]
  BY DEF CInv, SInv, OInv, TInv, TypeOK
<1>1. ASSUME UNCHANGED <<sessions, nextGen>>,
             \A g \in Gens : lanes'[g].slug = lanes[g].slug /\ lanes'[g].pc = lanes[g].pc
      PROVE  UNCHANGED Contract!contractVars
  BY <1>1, LanesRest, Stutters
<1>2. CASE Environment
  <2>1. CASE Api
    BY <2>1, ContractApi
  <2>2. CASE ~Api
    BY <1>1, <1>2, <2>2 DEF Environment, Reconfigure, RecordPush, RetryDue, Shutdown,
       SubscriptionEnds, Unregister, CloseEvents, storeVars, runtimeVars
  <2>3. QED
    BY <2>1, <2>2
<1>3. CASE Launch
  BY <1>0, <1>3, ContractLaunch
<1>4. CASE Bind
  BY <1>0, <1>4, ContractBind
<1>5. CASE (LoopSelect \/ LoopWorks) /\ ~Launch /\ ~Bind
  <2>1. UNCHANGED <<sessions, nextGen>>
    BY <1>0, <1>5, StatusLoop
  <2>2. CASE UNCHANGED lanes
    BY <1>1, <2>1, <2>2
  <2>3. CASE lanes' = StopLanes(loop.slug)
    BY <1>0, <1>1, <2>1, <2>3 DEF StopLanes, Lane
  <2>4. CASE StopAll
    BY <1>0, <1>1, <2>1, <2>4 DEF StopAll, Lane
  <2>5. QED
    BY <1>0, <1>5, <2>2, <2>3, <2>4, StatusLoop
<1>6. ASSUME NEW g \in Gens, LaneWorks(g) \/ LaneMedia(g)
      PROVE  [Contract!Next]_(Contract!contractVars)
  BY <1>0, <1>6, ContractLane
<1>7. CASE UNCHANGED vars
  BY <1>1, <1>7 DEF vars, storeVars, runtimeVars
<1>8. QED
  BY <1>2, <1>3, <1>4, <1>5, <1>6, <1>7 DEF Next

\* Only a write stamps a revision, and it stamps the next one.
LEMMA RevisionsStep ==
  ASSUME CInv, [Next]_vars
  PROVE  RevisionsAge'
<1>0. sessions \in [Slug -> Session \cup {NoSession}] /\ nextRev \in Nat /\ SInv /\ RevisionsAge
  BY DEF CInv, SInv, OInv, TInv, TypeOK, StoreTypeOK
<1>1. \A s \in Slug : sessions[s].rev \in Nat /\ sessions[s].rev <= nextRev
  BY <1>0 DEF Session, NoSession, RevisionsAge
<1>2. ASSUME nextRev' = nextRev, \A s \in Slug : sessions'[s].rev = sessions[s].rev
      PROVE  RevisionsAge'
  BY <1>1, <1>2 DEF RevisionsAge
<1>3. ASSUME NEW s \in Slug, NEW rev, NEW g, NEW st,
             setRuntime(s, rev, g, st) \/ bindRuntime(s, rev, g)
      PROVE  RevisionsAge'
  <2>1. sessions[s] \in Session
    BY <1>0, <1>3 DEF setRuntime, setAccepted, bindRuntime, bindAccepted, Stored
  <2>2. QED
    BY <1>0, <1>2, <1>3, <2>1 DEF setRuntime, bindRuntime, Session
<1>4. CASE Api
  <2>1. ASSUME NEW s \in Slug, NEW pair, sessions' = [sessions EXCEPT ![s] = Fresh(pair)],
               nextRev' = nextRev + 1
        PROVE  RevisionsAge'
    <3>1. \A t \in Slug : sessions'[t].rev = IF t = s THEN nextRev + 1 ELSE sessions[t].rev
      BY <1>0, <2>1 DEF Fresh
    <3>2. QED
      BY <1>0, <1>1, <2>1, <3>1 DEF RevisionsAge
  <2>2. ASSUME NEW s \in Slug, Delete(s) PROVE RevisionsAge'
    <3>1. /\ nextRev' = nextRev
          /\ \A t \in Slug : sessions'[t] = sessions[t] \/ sessions'[t].rev = 0
      BY <1>0, <2>2 DEF Delete, NoSession
    <3>2. QED
      BY <1>0, <1>1, <3>1 DEF RevisionsAge
  <2>3. QED
    BY <1>4, <2>1, <2>2 DEF Api, ApiStep, Create, updateLangs
<1>5. CASE Environment /\ ~Api
  BY <1>2, <1>5 DEF Environment, Reconfigure, RecordPush, RetryDue, Shutdown,
     SubscriptionEnds, Unregister, CloseEvents, storeVars, runtimeVars
<1>6. CASE Bind
  <2>1. loop.slug \in Slug
    BY <1>0, <1>6 DEF Bind, SInv, OInv, TInv, LoopSlugOK, VisitPc
  <2>2. QED
    BY <1>2, <1>3, <1>6, <2>1 DEF Bind, storeVars
<1>7. CASE (LoopSelect \/ LoopWorks) /\ ~Bind
  <2>1. UNCHANGED <<sessions, nextRev>>
    <3>1. CASE LoopSelect
      BY <3>1 DEF LoopSelect, TakeEvent, Tick, TakeReload, EventsClosed, storeVars
    <3>2. CASE LoopWorks
      BY <1>7, <3>2 DEF LoopWorks, RunSubscribe, Subscribe, RunList, BootVisit, Heal, Sweep,
         Replace, CleanStored, Orphans, Reconfigurable, ScanDone, DeletedGet, SyncCurrent, Stop,
         LaunchRefused, Launch, Halt, HaltWait, Clean, StopAll, AwaitLanes, CleanList,
         RunReturns, storeVars
    <3>3. QED
      BY <1>7, <3>1, <3>2
  <2>2. QED
    BY <1>2, <2>1
<1>8. ASSUME NEW g \in Gens, LaneWorks(g) \/ LaneMedia(g) PROVE RevisionsAge'
  <2>1. lanes[g].slug \in Slug
    BY <1>0 DEF SInv, OInv, TInv, TypeOK, Lane
  <2>2. \/ UNCHANGED storeVars
        \/ \E st \in RuntimeState : setRuntime(lanes[g].slug, lanes[g].rev, g, st)
    BY <1>8 DEF LaneWorks, LaneMedia, LaneEnter, abandonLane, LanePreStart, LaneCancelReturn,
       LaneFinished, LaneErrored, LaneFailed, scheduleRetry, forget, LaneCloses, LanePublish,
       LaneAnnounce, LaneSourceEnds, LaneDrained, LaneFails, LaneMoves, RuntimeState
  <2>3. QED
    BY <1>2, <1>3, <2>1, <2>2 DEF storeVars
<1>9. CASE UNCHANGED vars
  BY <1>2, <1>9 DEF vars, storeVars
<1>10. QED
  BY <1>4, <1>5, <1>6, <1>7, <1>8, <1>9 DEF Next

\* session/store.go and runtime.go together: a definition has one revision and at
\* most one owner, the lanes of a session work one at a time in launch order, and
\* each status is the word of the owner, whatever the API, the retries, the reloads
\* and the shutdown do.
THEOREM RuntimeKeepsContract == Spec => ImplementsContract
<1>1. Init => Contract!Init
  <2> SUFFICES ASSUME Init PROVE Contract!Init
    OBVIOUS
  <2>1. \A s \in Slug : AtWork(s) = {} /\ Turned(s) = {} /\ nextGen = 0
    BY DEF Init, AtWork, Turned, LanesOf
  <2>2. \A s \in Slug : LatestTurn(s) = 0
    BY <2>1, LatestIsYoungest
  <2>3. \A s \in Slug : sessions[s] = NoSession
    BY DEF Init, StoreInit
  <2>4. QED
    BY <2>1, <2>2, <2>3 DEF Contract!Init, NoSession
<1>2. Init => CInv
  <2>1. Init => SInv
    BY OrderInit DEF SInv, StatusIsTheLanes, StoredSlugs, Stored, Init, StoreInit
  <2>2. Init => RevisionsAge
    BY DEF Init, StoreInit, RevisionsAge, NoSession
  <2>3. QED
    BY <2>1, <2>2 DEF CInv
<1>3. CInv /\ [Next]_vars => CInv' /\ [Contract!Next]_(Contract!contractVars)
  <2> SUFFICES ASSUME CInv, [Next]_vars
               PROVE  CInv' /\ [Contract!Next]_(Contract!contractVars)
    OBVIOUS
  <2>1. SInv'
    BY StatusStep DEF CInv
  <2>2. TypeOK'
    BY <2>1 DEF SInv, OInv, TInv
  <2>3. QED
    BY <2>1, <2>2, ContractStep, RevisionsStep DEF CInv
<1>4. QED
  BY <1>1, <1>2, <1>3, PTL DEF Spec, ImplementsContract, Contract!Spec

-----------------------------------------------------------------------------
(* Why a lane that ended on its own stays down.  The loop starts a lane    *)
(* from what it read of the store some steps ago, so the argument is about *)
(* how old that may be: revisions of a slug's lanes only grow, what the    *)
(* loop holds of a session is no older than any of its lanes, and a slug   *)
(* without a registration has no lane of its current definition.           *)

\* The current definition of the slug is younger than every lane it has had.
Unserved(s) == Stored(s) => \A g \in LanesOf(s) : lanes[g].rev < sessions[s].rev

\* A definition n read from the store, while its slug waits for the loop's visit.
Current(s, n) ==
  /\ n.rev <= nextRev
  /\ \A g \in LanesOf(s) : lanes[g].rev <= n.rev
  /\ Stored(s) => n.rev <= sessions[s].rev
  /\ Stored(s) /\ sessions[s].rev = n.rev /\ n.state = "failed" => sessions[s].state = "failed"

LanesAge ==
  \A s \in Slug, g \in Gens :
    lanes[g].slug = s =>
      /\ lanes[g].rev <= nextRev
      /\ Stored(s) => lanes[g].rev <= sessions[s].rev
      /\ reg[s] # NoReg => lanes[g].rev <= reg[s].rev

\* Where the loop is in a scan, and what it holds of the sessions still to visit.
ScanHolds ==
  /\ loop.pc \in ScanPc => loop.back = loop.pc
  /\ loop.pc \in {"deleted", "sync", "idle"} => loop.back = "idle"
  /\ loop.pc \in VisitPc => loop.slug \notin loop.todo
  /\ loop.pc = "idle" => loop.todo = {}
  /\ loop.pc \in {"stop", "launch", "bind"} => loop.back # "sweep"
  /\ loop.back \in {"boot", "heal"} =>
       \A s \in loop.todo : loop.list[s] # NoSession /\ Current(s, loop.list[s])
  /\ loop.back = "heal" =>
       /\ \A s \in Slug : loop.list[s] = NoSession => Unserved(s)
       /\ loop.pc \in VisitPc => loop.list[loop.slug] # NoSession
  /\ loop.back = "sweep" => \A s \in loop.todo : Unserved(s)

\* What it holds of the session it visits.
VisitHolds ==
  LET s == loop.slug
  IN  /\ loop.pc \in {"stop", "launch"} => Current(s, loop.snap)
      /\ loop.pc = "stop" /\ loop.back # "replace" =>
           \A g \in LanesOf(s) : lanes[g].rev < loop.snap.rev
      /\ loop.pc = "launch" /\ loop.back # "replace" /\ reg[s].state = "stopping" => Unserved(s)
      /\ loop.pc \in {"halt", "wait"} => Unserved(s)
      /\ loop.pc = "wait" => reg[s] = NoReg \/ reg[s].gen = loop.gen
      /\ loop.pc = "bind" /\ loop.back # "replace" /\ Stored(s) =>
           \/ sessions[s].rev # lanes[loop.gen].rev
           \/ sessions[s].state = "failed"
           \/ \A g \in LanesOf(s) : g # loop.gen => lanes[g].rev < sessions[s].rev

\* What a registration says of the lanes of its slug.
RegHolds ==
  \A s \in Slug :
    /\ reg[s] # NoReg => lanes[reg[s].gen].rev = reg[s].rev
    /\ reg[s] # NoReg /\ Ended(reg[s].gen) => reg[s].state = "exited"
    /\ reg[s] = NoReg => \/ Unserved(s)
                         \/ loop.pc = "launch" /\ loop.back = "replace" /\ loop.slug = s
    /\ reg[s].state = "stopping" =>
         \/ loop.pc \in {"launch", "wait"} /\ loop.slug = s
         \/ loop.pc \in {"drain", "cleanList", "cleanStored", "done"}

Restarts == LanesAge /\ ScanHolds /\ VisitHolds /\ RegHolds

FInv == CInv /\ Restarts

-----------------------------------------------------------------------------
(* Steps during which the loop stands.                                     *)

\* No lane comes, and none changes its slug or its revision.
LanesNamed ==
  /\ nextGen' = nextGen
  /\ \A g \in Gens : lanes'[g].slug = lanes[g].slug /\ lanes'[g].rev = lanes[g].rev

\* A definition goes, stays, or is replaced by a younger one.
DefinitionAges(s) ==
  \/ sessions'[s] = NoSession
  \/ Stored(s) /\ sessions'[s].rev = sessions[s].rev
  \/ sessions'[s].rev > nextRev

\* A failed session stays failed as long as it keeps its revision.
FailureStands(s) ==
  sessions[s].state = "failed" /\ sessions'[s].rev = sessions[s].rev =>
    sessions'[s].state = "failed"

\* A registration may come due and be marked exited, and that no later than its end.
RegNamed(s) ==
  /\ reg'[s] = NoReg <=> reg[s] = NoReg
  /\ reg'[s].gen = reg[s].gen /\ reg'[s].rev = reg[s].rev
  /\ reg'[s].state = reg[s].state \/ reg'[s].state = "exited"
  /\ reg[s] # NoReg /\ lanes'[reg[s].gen].pc \in {"close", "closed"} => reg'[s].state = "exited"

\* The types that the invariant gives its parts.
LEMMA FTypes ==
  ASSUME FInv
  PROVE  /\ TInv /\ OInv /\ SInv /\ LanesAge /\ ScanHolds /\ VisitHolds /\ RegHolds
         /\ sessions \in [Slug -> Session \cup {NoSession}] /\ nextRev \in Nat /\ nextGen \in Nat
         /\ reg \in [Slug -> Reg \cup {NoReg}] /\ lanes \in [Gens -> Lane] /\ loop \in Loop
         /\ \A s \in Slug : sessions[s].rev \in Nat /\ sessions[s].rev <= nextRev
         /\ \A s \in Slug : Stored(s) => sessions[s].rev # 0
         /\ \A g \in Gens : lanes[g].rev \in Nat /\ lanes[g].slug \in Slug
<1>1. TInv /\ OInv /\ SInv /\ RevisionsAge /\ LanesAge /\ ScanHolds /\ VisitHolds /\ RegHolds
  BY DEF FInv, Restarts, CInv, SInv, OInv
<1>2. /\ sessions \in [Slug -> Session \cup {NoSession}] /\ nextRev \in Nat /\ nextGen \in Nat
      /\ reg \in [Slug -> Reg \cup {NoReg}] /\ lanes \in [Gens -> Lane] /\ loop \in Loop
  BY <1>1 DEF TInv, TypeOK, StoreTypeOK
<1>3. ASSUME NEW s \in Slug
      PROVE  sessions[s].rev \in Nat /\ (Stored(s) => sessions[s].rev # 0)
  BY <1>2 DEF Session, NoSession, Stored
<1>4. \A g \in Gens : lanes[g].rev \in Nat /\ lanes[g].slug \in Slug
  BY <1>2 DEF Lane
<1>5. QED
  BY <1>1, <1>2, <1>3, <1>4 DEF RevisionsAge

\* A revision is a natural, stored or not.
LEMMA RevisionsTyped ==
  ASSUME TypeOK'
  PROVE  /\ sessions' \in [Slug -> Session \cup {NoSession}] /\ nextRev' \in Nat
         /\ \A s \in Slug : sessions'[s].rev \in Nat
         /\ \A n \in Session \cup {NoSession} : n.rev \in Nat
<1>1. sessions' \in [Slug -> Session \cup {NoSession}] /\ nextRev' \in Nat
  BY DEF TypeOK, StoreTypeOK
<1>2. \A n \in Session \cup {NoSession} : n.rev \in Nat
  BY DEF Session, NoSession
<1>3. QED
  BY <1>1, <1>2

\* What the loop holds stays true while lanes keep their names and definitions age.
LEMMA UnservedKept ==
  ASSUME FInv, TInv', LanesNamed, NEW s \in Slug, DefinitionAges(s), Unserved(s)
  PROVE  Unserved(s)'
<1>1. LanesOf(s)' = LanesOf(s) /\ \A g \in LanesOf(s) : g \in Gens /\ lanes'[g].rev = lanes[g].rev
  BY DEF LanesNamed, LanesOf
<1>2. \A g \in LanesOf(s) : lanes[g].rev <= nextRev /\ lanes[g].rev \in Nat
  BY FTypes DEF LanesAge, LanesOf
<1>3. sessions'[s].rev \in Nat /\ nextRev \in Nat
  BY FTypes, RevisionsTyped DEF TInv
<1>4. ASSUME sessions'[s] # NoSession, NEW g \in LanesOf(s)
      PROVE  lanes[g].rev < sessions'[s].rev
  BY <1>2, <1>3, <1>4 DEF DefinitionAges, Unserved
<1>5. QED
  BY <1>1, <1>4 DEF Unserved, Stored

LEMMA CurrentKept ==
  ASSUME FInv, TInv', LanesNamed, nextRev' >= nextRev, NEW s \in Slug, DefinitionAges(s),
         FailureStands(s), NEW n \in Session \cup {NoSession}, Current(s, n)
  PROVE  Current(s, n)'
<1>1. LanesOf(s)' = LanesOf(s) /\ \A g \in LanesOf(s) : g \in Gens /\ lanes'[g].rev = lanes[g].rev
  BY DEF LanesNamed, LanesOf
<1>2. /\ n.rev \in Nat /\ n.rev <= nextRev /\ nextRev \in Nat /\ nextRev' \in Nat
      /\ sessions'[s].rev \in Nat /\ sessions[s].rev \in Nat
  BY FTypes, RevisionsTyped DEF Current, TInv
<1>3. n.rev <= nextRev' /\ \A g \in LanesOf(s)' : lanes'[g].rev <= n.rev
  BY <1>1, <1>2 DEF Current
<1>4. ASSUME sessions'[s] # NoSession
      PROVE  /\ n.rev <= sessions'[s].rev
             /\ sessions'[s].rev = n.rev /\ n.state = "failed" => sessions'[s].state = "failed"
  BY <1>2, <1>4 DEF Current, DefinitionAges, FailureStands
<1>5. QED
  BY <1>3, <1>4 DEF Current, Stored

\* No lane outgrows its definition, its registration or the revisions given out.
LEMMA AgesKept ==
  ASSUME FInv, TInv', LanesNamed, nextRev' >= nextRev,
         \A s \in Slug : DefinitionAges(s) /\ RegNamed(s)
  PROVE  LanesAge'
<1>1. ASSUME NEW s \in Slug, NEW g \in Gens, lanes[g].slug = s
      PROVE  /\ lanes'[g].rev <= nextRev'
             /\ sessions'[s] # NoSession => lanes'[g].rev <= sessions'[s].rev
             /\ reg'[s] # NoReg => lanes'[g].rev <= reg'[s].rev
  <2>1. /\ lanes[g].rev \in Nat /\ nextRev \in Nat /\ nextRev' \in Nat
        /\ sessions'[s].rev \in Nat /\ lanes'[g].rev = lanes[g].rev
    BY FTypes, RevisionsTyped DEF TInv, LanesNamed
  <2>2. /\ lanes[g].rev <= nextRev
        /\ Stored(s) => lanes[g].rev <= sessions[s].rev
        /\ reg[s] # NoReg => lanes[g].rev <= reg[s].rev
    BY <1>1, FTypes DEF LanesAge
  <2>3. QED
    BY <2>1, <2>2 DEF DefinitionAges, RegNamed
<1>2. QED
  BY <1>1 DEF LanesAge, LanesNamed, Stored

\* Nothing of the loop's changes, and the rest moves only on.
LEMMA RestartsWhileLoopStands ==
  ASSUME FInv, TInv', loop' = loop, LanesNamed, nextRev' >= nextRev,
         \A s \in Slug : DefinitionAges(s) /\ FailureStands(s) /\ RegNamed(s)
  PROVE  Restarts'
<1>1. \A s \in Slug : /\ Unserved(s) => Unserved(s)'
                      /\ \A n \in Session \cup {NoSession} : Current(s, n) => Current(s, n)'
  BY UnservedKept, CurrentKept
<1>2. /\ \A s \in Slug : loop.list[s] \in Session \cup {NoSession}
      /\ loop.snap \in Session \cup {NoSession} /\ loop.todo \subseteq Slug
      /\ loop.pc \in VisitPc => loop.slug \in Slug
  BY FTypes DEF Loop, Listing, TInv, LoopSlugOK
<1>3. LanesAge'
  BY AgesKept
<1>4. ScanHolds'
  BY <1>1, <1>2, FTypes DEF ScanHolds
<1>5. VisitHolds'
  <2>1. PICK s : s = loop.slug
    OBVIOUS
  <2>2. CASE loop.pc \notin {"stop", "launch", "halt", "wait", "bind"}
    BY <2>2 DEF VisitHolds
  <2>3. CASE loop.pc \in {"stop", "launch", "halt", "wait"}
    <3>1. s \in Slug /\ LanesOf(s)' = LanesOf(s) /\ LanesOf(s) \subseteq Gens
      BY <1>2, <2>1, <2>3 DEF VisitPc, LanesNamed, LanesOf
    <3>2. /\ loop.pc \in {"stop", "launch"} => Current(s, loop.snap)
          /\ loop.pc = "stop" /\ loop.back # "replace" =>
               \A g \in LanesOf(s) : lanes[g].rev < loop.snap.rev
          /\ loop.pc = "launch" /\ loop.back # "replace" /\ reg[s].state = "stopping" => Unserved(s)
          /\ loop.pc \in {"halt", "wait"} => Unserved(s)
          /\ loop.pc = "wait" => reg[s] = NoReg \/ reg[s].gen = loop.gen
      BY <2>1, FTypes DEF VisitHolds
    <3>3. PICK n \in Session \cup {NoSession} : n = loop.snap
      BY <1>2
    <3>4. /\ loop.pc \in {"stop", "launch"} => Current(s, n)'
          /\ loop.pc = "stop" /\ loop.back # "replace" =>
               \A g \in LanesOf(s)' : lanes'[g].rev < loop.snap.rev
          /\ loop.pc = "launch" /\ loop.back # "replace" /\ reg'[s].state = "stopping" => Unserved(s)'
          /\ loop.pc \in {"halt", "wait"} => Unserved(s)'
          /\ loop.pc = "wait" => reg'[s] = NoReg \/ reg'[s].gen = loop.gen
      BY <1>1, <3>1, <3>2, <3>3 DEF RegNamed, LanesNamed
    <3>5. QED
      BY <2>1, <2>3, <3>3, <3>4 DEF VisitHolds
  <2>4. CASE loop.pc = "bind"
    <3> DEFINE r == lanes[loop.gen].rev
    <3>1. /\ s \in Slug /\ LanesOf(s)' = LanesOf(s) /\ LanesOf(s) \subseteq Gens
          /\ loop.gen \in LanesOf(s)
      BY <1>2, <2>1, <2>4, FTypes DEF VisitPc, LanesNamed, LanesOf, OInv, LaneOrder, LoopHoldsALane
    <3>2. /\ \A g \in LanesOf(s) : /\ lanes'[g].rev = lanes[g].rev /\ lanes[g].rev \in Nat
                                   /\ lanes[g].rev <= nextRev
          /\ nextRev \in Nat /\ sessions'[s].rev \in Nat
      BY <3>1, FTypes, RevisionsTyped DEF LanesNamed, LanesAge, LanesOf, TInv
    <3>3. ASSUME loop.back # "replace", sessions'[s] # NoSession
          PROVE  \/ sessions'[s].rev # r
                 \/ sessions'[s].state = "failed"
                 \/ \A g \in LanesOf(s) : g # loop.gen => lanes[g].rev < sessions'[s].rev
      <4>1. CASE sessions'[s].rev > nextRev
        BY <3>1, <3>2, <4>1
      <4>2. CASE Stored(s) /\ sessions'[s].rev = sessions[s].rev
        BY <2>1, <2>4, <3>1, <3>3, <4>2, FTypes DEF VisitHolds, FailureStands
      <4>3. QED
        BY <3>1, <3>3, <4>1, <4>2 DEF DefinitionAges
    <3>4. lanes'[loop.gen].rev = r
      BY <3>1, <3>2
    <3>5. QED
      BY <2>1, <2>4, <3>1, <3>2, <3>3, <3>4 DEF VisitHolds, Stored
  <2>5. QED
    BY <2>2, <2>3, <2>4
<1>6. RegHolds'
  <2> SUFFICES ASSUME NEW s \in Slug
      PROVE  /\ reg'[s] # NoReg => lanes'[reg'[s].gen].rev = reg'[s].rev
             /\ reg'[s] # NoReg /\ lanes'[reg'[s].gen].pc \in {"close", "closed"} =>
                  reg'[s].state = "exited"
             /\ reg'[s] = NoReg =>
                  \/ Unserved(s)'
                  \/ loop.pc = "launch" /\ loop.back = "replace" /\ loop.slug = s
             /\ reg'[s].state = "stopping" =>
                  \/ loop.pc \in {"launch", "wait"} /\ loop.slug = s
                  \/ loop.pc \in {"drain", "cleanList", "cleanStored", "done"}
    BY DEF RegHolds, Ended
  <2>1. reg[s] # NoReg => reg[s].gen \in Gens
    BY FTypes DEF OInv, LaneOrder, RegistrationIsYoungest, LanesOf
  <2>2. QED
    BY <1>1, <2>1, FTypes DEF RegHolds, RegNamed, LanesNamed
<1>7. QED
  BY <1>3, <1>4, <1>5, <1>6 DEF Restarts

LEMMA SessionsStand ==
  ASSUME UNCHANGED sessions, NEW s \in Slug
  PROVE  DefinitionAges(s) /\ FailureStands(s)
BY DEF DefinitionAges, FailureStands, Stored

\* A status write keeps the revision, and none leaves "failed".
LEMMA ReportAges ==
  ASSUME FInv, NEW t \in Slug, NEW rev, NEW g, NEW st, setRuntime(t, rev, g, st), NEW s \in Slug
  PROVE  DefinitionAges(s) /\ FailureStands(s)
<1>1. sessions[t] \in Session /\ sessions[t].state # "failed"
  BY FTypes DEF setRuntime, setAccepted, Stored, validRuntimeTransition
<1>2. sessions'[t].rev = sessions[t].rev /\ (s # t => sessions'[s] = sessions[s])
  BY <1>1, FTypes DEF setRuntime, Session
<1>3. Stored(t)
  BY DEF setRuntime, setAccepted
<1>4. QED
  BY <1>1, <1>2, <1>3 DEF DefinitionAges, FailureStands, Stored

\* A step of a lane moves no revision.
LEMMA LaneAges ==
  ASSUME FInv, TInv', NEW g \in Gens, LaneWorks(g) \/ LaneMedia(g)
  PROVE  /\ loop' = loop /\ LanesNamed /\ nextRev' = nextRev /\ nextRev \in Nat
         /\ \A s \in Slug : DefinitionAges(s) /\ FailureStands(s) /\ RegNamed(s)
<1>0. lanes[g].slug \in Slug /\ lanes \in [Gens -> Lane] /\ nextRev \in Nat
  BY FTypes
<1>1. loop' = loop /\ nextRev' = nextRev
  BY DEF LaneWorks, LaneMedia, LaneEnter, abandonLane, LanePreStart, LaneCancelReturn,
     LaneFinished, LaneErrored, LaneFailed, scheduleRetry, forget, LaneCloses, LanePublish,
     LaneAnnounce, LaneSourceEnds, LaneDrained, LaneFails, LaneMoves, setRuntime, storeVars
<1>2. \/ UNCHANGED sessions
      \/ \E st \in RuntimeState : setRuntime(lanes[g].slug, lanes[g].rev, g, st)
  BY DEF LaneWorks, LaneMedia, LaneEnter, abandonLane, LanePreStart, LaneCancelReturn,
     LaneFinished, LaneErrored, LaneFailed, scheduleRetry, forget, LaneCloses, LanePublish,
     LaneAnnounce, LaneSourceEnds, LaneDrained, LaneFails, LaneMoves, RuntimeState, storeVars
<1>3. ASSUME NEW s \in Slug PROVE DefinitionAges(s) /\ FailureStands(s)
  BY <1>0, <1>2, SessionsStand, ReportAges
<1>4. \/ /\ ~forget(g)
         /\ nextGen' = nextGen
         /\ \E pc \in LanePc : lanes' = [lanes EXCEPT ![g].pc = pc]
                               /\ (pc \in {"close", "closed"} => lanes[g].pc = "close")
         /\ reg' = reg \/ scheduleRetry(g)
      \/ forget(g)
  BY DEF LaneWorks, LaneMedia, LaneEnter, abandonLane, LanePreStart, LaneCancelReturn,
     LaneFinished, LaneErrored, LaneFailed, scheduleRetry, forget, LaneCloses, LanePublish,
     LaneAnnounce, LaneSourceEnds, LaneDrained, LaneFails, LaneMoves, LanePc, LaneStops
<1>5. LanesNamed
  <2>1. nextGen' = nextGen
    BY <1>4 DEF forget
  <2>2. \A h \in Gens : lanes[h] \in Lane
    BY <1>0
  <2>3. CASE forget(g)
    BY <1>0, <2>1, <2>2, <2>3 DEF forget, LanesNamed, Lane
  <2>4. CASE ~forget(g)
    <3>1. PICK pc \in LanePc : lanes' = [lanes EXCEPT ![g].pc = pc]
      BY <1>4, <2>4
    <3>2. QED
      BY <1>0, <2>1, <2>2, <3>1 DEF LanesNamed, Lane
  <2>5. QED
    BY <2>3, <2>4
<1>6. ASSUME NEW s \in Slug PROVE RegNamed(s)
  <2>0. /\ reg \in [Slug -> Reg \cup {NoReg}] /\ reg[s] \in Reg \cup {NoReg}
        /\ reg[s] # NoReg => reg[s].gen \in Gens
        /\ reg[s] # NoReg /\ Ended(reg[s].gen) => reg[s].state = "exited"
    BY FTypes DEF OInv, LaneOrder, RegistrationIsYoungest, LanesOf, RegHolds
  <2>00. Registered(g) => reg[lanes[g].slug] \in Reg
    BY <1>0, FTypes DEF Registered, NoReg
  <2>1. CASE reg' = reg /\ ~forget(g)
    <3>1. PICK pc \in LanePc : /\ lanes' = [lanes EXCEPT ![g].pc = pc]
                               /\ pc \in {"close", "closed"} => lanes[g].pc = "close"
      BY <1>4, <2>1
    <3>2. \A h \in Gens : lanes'[h].pc \in {"close", "closed"} => Ended(h)
      BY <1>0, <3>1 DEF Ended, Lane
    <3>3. QED
      BY <2>0, <2>1, <3>2 DEF RegNamed
  <2>2. CASE scheduleRetry(g)
    <3>1. /\ lanes'[g].pc = "leave" /\ \A h \in Gens : h # g => lanes'[h] = lanes[h]
      BY <1>0, <2>2 DEF scheduleRetry, LaneStops, Lane
    <3>2. \/ reg'[s] = reg[s]
          \/ reg[s] \in Reg /\ reg'[s] = [reg[s] EXCEPT !.due = FALSE]
      <4>1. reg' = reg \/ (Registered(g) /\ reg' = [reg EXCEPT ![lanes[g].slug].due = FALSE])
        BY <2>2 DEF scheduleRetry
      <4>2. QED
        BY <1>0, <2>0, <2>00, <4>1
    <3>3. /\ reg'[s] = NoReg <=> reg[s] = NoReg
          /\ reg'[s].gen = reg[s].gen /\ reg'[s].rev = reg[s].rev /\ reg'[s].state = reg[s].state
      BY <3>2 DEF Reg, NoReg
    <3>4. QED
      BY <2>0, <3>1, <3>3 DEF RegNamed, Ended
  <2>3. CASE forget(g)
    <3>1. /\ lanes'[g].pc = "close" /\ \A h \in Gens : h # g => lanes'[h] = lanes[h]
      BY <1>0, <2>3 DEF forget, Lane
    <3>2. \/ reg'[s] = reg[s] /\ reg[s].gen # g
          \/ reg[s] \in Reg /\ reg'[s] = [reg[s] EXCEPT !.state = "exited"]
      <4>1. reg[s].gen = g => reg[s] \in Reg /\ lanes[g].slug = s
        BY <2>0, FTypes DEF OInv, LaneOrder, RegistrationIsYoungest, LanesOf, NoReg
      <4>2. \/ reg' = reg /\ reg[lanes[g].slug].gen # g
            \/ Registered(g) /\ reg' = [reg EXCEPT ![lanes[g].slug].state = "exited"]
        BY <2>3 DEF forget, Registered
      <4>3. reg[lanes[g].slug].gen = g => reg[lanes[g].slug] \in Reg
        BY <2>00 DEF Registered
      <4>4. CASE lanes[g].slug = s
        BY <2>0, <4>2, <4>3, <4>4 DEF Registered
      <4>5. CASE lanes[g].slug # s
        BY <1>0, <2>0, <4>1, <4>2, <4>5
      <4>6. QED
        BY <4>4, <4>5
    <3>3. /\ reg'[s] = NoReg <=> reg[s] = NoReg
          /\ reg'[s].gen = reg[s].gen /\ reg'[s].rev = reg[s].rev
          /\ reg'[s].state = "exited" \/ (reg'[s] = reg[s] /\ reg[s].gen # g)
      BY <3>2 DEF Reg, NoReg
    <3>4. QED
      BY <2>0, <3>1, <3>3 DEF RegNamed, Ended
  <2>4. QED
    BY <1>4, <2>1, <2>2, <2>3
<1>7. QED
  BY <1>0, <1>1, <1>3, <1>5, <1>6

LEMMA RestartsLane ==
  ASSUME FInv, TInv', NEW g \in Gens, LaneWorks(g) \/ LaneMedia(g)
  PROVE  Restarts'
BY LaneAges, RestartsWhileLoopStands

\* The environment makes registrations due, and leaves the lanes alone.
LEMMA EnvironmentAges ==
  ASSUME FInv, Environment
  PROVE  UNCHANGED <<loop, nextGen, lanes>> /\ LanesNamed /\ \A s \in Slug : RegNamed(s)
<1>0. /\ sessions \in [Slug -> Session \cup {NoSession}] /\ nextRev \in Nat
      /\ reg \in [Slug -> Reg \cup {NoReg}]
  BY FTypes
<1>1. UNCHANGED <<loop, nextGen, lanes>> /\ LanesNamed
  BY DEF Environment, Api, Reconfigure, RecordPush, RetryDue, Shutdown, SubscriptionEnds,
     runtimeVars, LanesNamed
<1>2. ASSUME NEW s \in Slug PROVE RegNamed(s)
  <2>1. /\ reg[s] # NoReg /\ lanes'[reg[s].gen].pc \in {"close", "closed"} => reg[s].state = "exited"
    BY <1>1, FTypes DEF RegHolds, Ended
  <2>2. CASE reg'[s] = reg[s]
    BY <2>1, <2>2 DEF RegNamed
  <2>3. CASE reg'[s] # reg[s]
    <3>1. PICK t \in Slug : RetryDue(t)
      BY <2>3 DEF Environment, Api, Reconfigure, RecordPush, Shutdown, SubscriptionEnds, runtimeVars
    <3>2. t = s /\ reg[s] \in Reg /\ reg' = [reg EXCEPT ![t].due = TRUE]
      BY <1>0, <2>3, <3>1 DEF RetryDue
    <3>3. reg'[s] = [reg[s] EXCEPT !.due = TRUE]
      BY <1>0, <3>2
    <3>4. QED
      BY <2>1, <3>2, <3>3 DEF RegNamed, Reg, NoReg
  <2>4. QED
    BY <2>2, <2>3
<1>3. QED
  BY <1>1, <1>2

\* A write makes a definition younger than every lane and than all that was read.
LEMMA RestartsEnvironment ==
  ASSUME FInv, TInv', Environment
  PROVE  Restarts'
<1>0. sessions \in [Slug -> Session \cup {NoSession}] /\ nextRev \in Nat
  BY FTypes
<1>1. UNCHANGED <<loop, nextGen, lanes>> /\ LanesNamed
  BY EnvironmentAges
<1>2. \A s \in Slug : RegNamed(s)
  BY EnvironmentAges
<1>3. CASE Api
  <2>1. ASSUME NEW t \in Slug, NEW pair, sessions' = [sessions EXCEPT ![t] = Fresh(pair)],
               NEW s \in Slug
        PROVE  DefinitionAges(s) /\ FailureStands(s)
    <3>1. sessions'[s] = sessions[s] \/ sessions'[s].rev = nextRev + 1
      BY <1>0, <2>1 DEF Fresh
    <3>2. sessions[s].rev \in Nat /\ sessions[s].rev <= nextRev
      BY FTypes
    <3>3. QED
      BY <1>0, <3>1, <3>2 DEF DefinitionAges, FailureStands, Stored
  <2>2. ASSUME NEW t \in Slug, Delete(t), NEW s \in Slug
        PROVE  DefinitionAges(s) /\ FailureStands(s)
    <3>1. sessions'[s] = sessions[s] \/ (Stored(s) /\ sessions'[s] = NoSession)
      BY <1>0, <2>2 DEF Delete
    <3>2. Stored(s) => sessions[s].rev # 0
      BY FTypes
    <3>3. QED
      BY <3>1, <3>2 DEF DefinitionAges, FailureStands, Stored, NoSession
  <2>3. nextRev' >= nextRev
    BY <1>0, <1>3 DEF Api, ApiStep, Create, updateLangs, Delete
  <2>4. \A s \in Slug : DefinitionAges(s) /\ FailureStands(s)
    BY <1>3, <2>1, <2>2 DEF Api, ApiStep, Create, updateLangs
  <2>5. QED
    BY <1>1, <1>2, <2>3, <2>4, RestartsWhileLoopStands
<1>4. CASE ~Api
  <2>1. UNCHANGED <<sessions, nextRev>>
    BY <1>4 DEF Environment, Reconfigure, RecordPush, RetryDue, Shutdown, SubscriptionEnds,
       Unregister, CloseEvents, storeVars
  <2>2. QED
    BY <1>0, <1>1, <1>2, <2>1, SessionsStand, RestartsWhileLoopStands
<1>5. QED
  BY <1>3, <1>4

-----------------------------------------------------------------------------
(* Steps of the loop that launch and bind nothing.                         *)

\* The store stands, and the lanes keep all but their cancellation.
LoopOnly ==
  /\ UNCHANGED <<sessions, nextRev, nextGen>>
  /\ \A g \in Gens : /\ lanes'[g].slug = lanes[g].slug /\ lanes'[g].rev = lanes[g].rev
                     /\ lanes'[g].pc = lanes[g].pc

\* What may become of a registration while the loop goes to where it now is.
RegGoes(s) ==
  /\ \/ reg'[s] = reg[s]
     \/ reg'[s] = NoReg
     \/ /\ reg[s] # NoReg /\ reg'[s] # NoReg
        /\ reg'[s].gen = reg[s].gen /\ reg'[s].rev = reg[s].rev
        /\ reg[s].state = "running" /\ reg'[s].state = "stopping"
  /\ reg'[s] = NoReg =>
       \/ Unserved(s)
       \/ loop'.pc = "launch" /\ loop'.back = "replace" /\ loop'.slug = s
  /\ reg'[s].state = "stopping" =>
       \/ loop'.pc \in {"launch", "wait"} /\ loop'.slug = s
       \/ loop'.pc \in {"drain", "cleanList", "cleanStored", "done"}

SameScan == loop'.back = loop.back /\ loop'.todo = loop.todo /\ loop'.list = loop.list

\* What a step of the loop that touches no lane leaves true,
LEMMA LoopKeeps ==
  ASSUME FInv, TInv', LoopOnly, NEW s \in Slug
  PROVE  /\ LanesOf(s)' = LanesOf(s) /\ LanesOf(s) \subseteq Gens
         /\ Unserved(s) => Unserved(s)'
         /\ \A n \in Session \cup {NoSession} : Current(s, n) => Current(s, n)'
<1>1. LanesNamed /\ nextRev' >= nextRev
  BY FTypes DEF LoopOnly, LanesNamed
<1>2. DefinitionAges(s) /\ FailureStands(s)
  BY SessionsStand DEF LoopOnly
<1>3. LanesOf(s)' = LanesOf(s) /\ LanesOf(s) \subseteq Gens
  BY DEF LoopOnly, LanesOf
<1>4. QED
  BY <1>1, <1>2, <1>3, UnservedKept, CurrentKept

\* also of the registrations, when they only go,
LEMMA RegKept ==
  ASSUME FInv, TInv', LoopOnly, \A s \in Slug : RegGoes(s)
  PROVE  LanesAge' /\ RegHolds'
<1>1. LanesAge'
  <2>1. ASSUME NEW s \in Slug, NEW g \in Gens, lanes[g].slug = s
        PROVE  /\ lanes[g].rev <= nextRev
               /\ sessions[s] # NoSession => lanes[g].rev <= sessions[s].rev
               /\ reg'[s] # NoReg => lanes[g].rev <= reg'[s].rev
    BY <2>1, FTypes DEF LanesAge, RegGoes, Stored
  <2>2. QED
    BY <2>1 DEF LanesAge, LoopOnly, Stored
<1>2. RegHolds'
  <2> SUFFICES ASSUME NEW s \in Slug
      PROVE  /\ reg'[s] # NoReg => lanes'[reg'[s].gen].rev = reg'[s].rev
             /\ reg'[s] # NoReg /\ lanes'[reg'[s].gen].pc \in {"close", "closed"} =>
                  reg'[s].state = "exited"
             /\ reg'[s] = NoReg =>
                  \/ Unserved(s)'
                  \/ loop'.pc = "launch" /\ loop'.back = "replace" /\ loop'.slug = s
             /\ reg'[s].state = "stopping" =>
                  \/ loop'.pc \in {"launch", "wait"} /\ loop'.slug = s
                  \/ loop'.pc \in {"drain", "cleanList", "cleanStored", "done"}
    BY DEF RegHolds, Ended
  <2>1. reg[s] # NoReg => reg[s].gen \in Gens
    BY FTypes DEF OInv, LaneOrder, RegistrationIsYoungest, LanesOf
  <2>2. /\ reg[s] # NoReg => lanes[reg[s].gen].rev = reg[s].rev
        /\ reg[s] # NoReg /\ lanes[reg[s].gen].pc \in {"close", "closed"} =>
             reg[s].state = "exited"
    BY FTypes DEF RegHolds, Ended
  <2>3. Unserved(s) => Unserved(s)'
    BY LoopKeeps
  <2>4. reg'[s] # NoReg => reg[s] # NoReg /\ reg'[s].gen = reg[s].gen /\ reg'[s].rev = reg[s].rev
    BY DEF RegGoes
  <2>5. QED
    BY <2>1, <2>2, <2>3, <2>4 DEF RegGoes, LoopOnly
<1>3. QED
  BY <1>1, <1>2

\* The registrations stand, too, and the loop goes where they let it.
LEMMA RegStands ==
  ASSUME FInv, TInv', LoopOnly, UNCHANGED reg,
         loop.pc = "launch" => reg[loop.slug] # NoReg /\ reg[loop.slug].state # "stopping",
         loop.pc # "wait",
         loop.pc \in {"drain", "cleanList", "cleanStored", "done"} =>
           loop'.pc \in {"drain", "cleanList", "cleanStored", "done"}
  PROVE  LanesAge' /\ RegHolds'
<1>1. ASSUME NEW s \in Slug PROVE RegGoes(s)
  <2>1. /\ reg[s] = NoReg => \/ Unserved(s)
                             \/ loop.pc = "launch" /\ loop.back = "replace" /\ loop.slug = s
        /\ reg[s].state = "stopping" =>
             \/ loop.pc \in {"launch", "wait"} /\ loop.slug = s
             \/ loop.pc \in {"drain", "cleanList", "cleanStored", "done"}
    BY FTypes DEF RegHolds
  <2>2. QED
    BY <2>1 DEF RegGoes
<1>2. QED
  BY <1>1, RegKept

\* The scan goes on: what it lists still holds of the sessions it has not visited.
LEMMA ListGoesOn ==
  ASSUME FInv, loop'.back = loop.back, loop'.list = loop.list, loop'.todo \subseteq loop.todo,
         \A s \in Slug : s \in loop'.todo =>
           /\ Unserved(s) => Unserved(s)'
           /\ \A n \in Session \cup {NoSession} : Current(s, n) => Current(s, n)',
         loop.back = "heal" =>
           \A s \in Slug : loop.list[s] = NoSession => (Unserved(s) => Unserved(s)')
  PROVE  /\ loop'.back \in {"boot", "heal"} =>
              \A s \in loop'.todo : loop'.list[s] # NoSession /\ Current(s, loop.list[s])'
         /\ loop'.back = "heal" => \A s \in Slug : loop'.list[s] = NoSession => Unserved(s)'
         /\ loop'.back = "sweep" => \A s \in loop'.todo : Unserved(s)'
<1>1. /\ \A s \in Slug : loop.list[s] \in Session \cup {NoSession}
      /\ loop.todo \subseteq Slug
  BY FTypes DEF Loop, Listing
<1>2. ASSUME NEW s \in loop'.todo, loop'.back \in {"boot", "heal"}
      PROVE  loop'.list[s] # NoSession /\ Current(s, loop.list[s])'
  <2>1. PICK n \in Session \cup {NoSession} : n = loop.list[s]
    BY <1>1
  <2>2. Current(s, n)' /\ n # NoSession
    BY <1>1, <1>2, <2>1, FTypes DEF ScanHolds
  <2>3. QED
    BY <2>1, <2>2
<1>3. loop'.back = "heal" => \A s \in Slug : loop'.list[s] = NoSession => Unserved(s)'
  BY FTypes DEF ScanHolds
<1>4. loop'.back = "sweep" => \A s \in loop'.todo : Unserved(s)'
  BY <1>1, FTypes DEF ScanHolds
<1>5. QED
  BY <1>2, <1>3, <1>4

\* and of the listing it goes through.
LEMMA ListKept ==
  ASSUME FInv, TInv', LoopOnly,
         loop'.back = loop.back, loop'.list = loop.list, loop'.todo \subseteq loop.todo
  PROVE  /\ loop'.back \in {"boot", "heal"} =>
              \A s \in loop'.todo : loop'.list[s] # NoSession /\ Current(s, loop.list[s])'
         /\ loop'.back = "heal" => \A s \in Slug : loop'.list[s] = NoSession => Unserved(s)'
         /\ loop'.back = "sweep" => \A s \in loop'.todo : Unserved(s)'
BY LoopKeeps, ListGoesOn

\* The loop is on its way somewhere with nothing in its hands.
LEMMA HandsFree ==
  ASSUME loop'.back = "idle", loop'.pc \notin VisitPc, loop'.pc \in ScanPc => loop'.pc = "idle",
         loop'.pc = "idle" => loop'.todo = {}
  PROVE  ScanHolds' /\ VisitHolds'
BY DEF ScanHolds, VisitHolds, VisitPc

\* It returns from a session to the scan it came from.
LEMMA EndVisitHolds ==
  ASSUME FInv, TInv', LoopOnly, EndVisit
  PROVE  ScanHolds' /\ VisitHolds' /\ loop'.pc \in ScanPc
<1>0. loop \in Loop
  BY FTypes
<1>1. CASE loop.back = "idle"
  BY <1>1, HandsFree DEF EndVisit, At, ScanPc, VisitPc
<1>2. CASE loop.back # "idle"
  <2>1. /\ loop'.pc = loop.back /\ loop.back \in ScanPc
        /\ loop'.back = loop.back /\ loop'.todo = loop.todo /\ loop'.list = loop.list
    BY <1>0, <1>2 DEF EndVisit, At, Loop
  <2>2. QED
    BY <1>2, <2>1, ListKept DEF ScanHolds, VisitHolds, ScanPc, VisitPc
<1>3. QED
  BY <1>1, <1>2

\* It takes the next session of its scan, or one an event names.
LEMMA VisitBegins ==
  ASSUME FInv, TInv', LoopOnly, NEW s \in Slug, loop'.slug = s,
         loop'.back = loop.back, loop'.list = loop.list, loop'.todo \subseteq loop.todo,
         s \notin loop'.todo, loop'.pc \in VisitPc,
         loop'.pc \in {"deleted", "sync"} => loop.back = "idle",
         loop'.pc \in {"stop", "launch", "bind"} => loop.back # "sweep",
         loop.back = "heal" => loop.list[s] # NoSession
  PROVE  ScanHolds'
BY ListKept DEF ScanHolds, ScanPc, VisitPc

\* A scan begins.
LEMMA ScanBegins ==
  ASSUME FInv, NEW pc \in ScanPc \ {"idle"}, NEW slugs, NEW list, Scan(pc, slugs, list),
         pc \in {"boot", "heal"} =>
           \A s \in slugs : list[s] # NoSession /\ Current(s, list[s])',
         pc = "heal" => \A s \in Slug : list[s] = NoSession => Unserved(s)',
         pc = "sweep" => \A s \in slugs : Unserved(s)'
  PROVE  ScanHolds' /\ VisitHolds' /\ loop'.pc = pc
<1>1. loop'.pc = pc /\ loop'.back = pc /\ loop'.todo = slugs /\ loop'.list = list
  BY DEF Scan, At
<1>2. pc \notin VisitPc \cup {"deleted", "sync", "idle"}
  BY DEF ScanPc, VisitPc
<1>3. ScanHolds'
  BY <1>1, <1>2 DEF ScanHolds, VisitPc
<1>4. VisitHolds'
  BY <1>1, <1>2 DEF VisitHolds, VisitPc
<1>5. QED
  BY <1>1, <1>3, <1>4

\* What the store holds is current.
LEMMA CurrentNow ==
  ASSUME FInv, NEW s \in Slug
  PROVE  Current(s, sessions[s]) \/ ~Stored(s)
<1>1. \A g \in LanesOf(s) : Stored(s) => lanes[g].rev <= sessions[s].rev
  BY FTypes DEF LanesAge, LanesOf
<1>2. QED
  BY <1>1, FTypes DEF Current

\* A slug without a definition is unserved.
LEMMA UnservedOrStored ==
  ASSUME NEW s \in Slug
  PROVE  Stored(s) \/ Unserved(s)
BY DEF Unserved

\* A definition newer than the registered lane's is newer than all the slug's lanes.
LEMMA NewerThanRegistered ==
  ASSUME FInv, NEW s \in Slug, NEW n \in Session \cup {NoSession}, Current(s, n),
         reg[s] # NoReg, reg[s].rev # n.rev
  PROVE  \A g \in LanesOf(s) : lanes[g].rev < n.rev
<1>1. reg[s].gen \in LanesOf(s) /\ lanes[reg[s].gen].rev = reg[s].rev
  BY FTypes DEF OInv, LaneOrder, RegistrationIsYoungest, RegHolds
<1>2. reg[s].rev <= n.rev /\ \A g \in LanesOf(s) : lanes[g].rev <= reg[s].rev
  BY <1>1, FTypes DEF Current, LanesAge, LanesOf
<1>3. n.rev \in Nat /\ reg[s].rev \in Nat /\ \A g \in LanesOf(s) : lanes[g].rev \in Nat
  BY FTypes DEF Session, NoSession, Reg, LanesOf
<1>4. QED
  BY <1>2, <1>3

\* And when the store's definition is no older, the slug is not served.
LEMMA OlderIsUnserved ==
  ASSUME FInv, NEW s \in Slug, NEW n \in Session \cup {NoSession}, Current(s, n),
         \A g \in LanesOf(s) : lanes[g].rev < n.rev
  PROVE  Unserved(s)
<1>1. n.rev \in Nat /\ sessions[s].rev \in Nat /\ \A g \in LanesOf(s) : lanes[g].rev \in Nat
  BY FTypes DEF Session, NoSession, LanesOf
<1>2. QED
  BY <1>1 DEF Unserved, Current

\* Between a stop and its launch, or a halt and its wait, a registration may be stopping.
LEMMA NothingStops ==
  ASSUME FInv, NEW s \in Slug, loop.pc \notin {"launch", "wait", "drain", "cleanList", "cleanStored", "done"}
  PROVE  reg[s].state # "stopping" /\ (reg[s] = NoReg => Unserved(s))
BY FTypes DEF RegHolds

\* The select begins a visit, a scan or the shutdown, with nothing held over.
LEMMA RestartsSelect ==
  ASSUME FInv, TInv', LoopSelect
  PROVE  Restarts'
<1>1. /\ UNCHANGED <<sessions, nextRev, reg, nextGen, lanes>> /\ loop.pc = "idle" /\ LoopOnly
      /\ LanesAge' /\ RegHolds'
  <2>1. UNCHANGED <<sessions, nextRev, reg, nextGen, lanes>> /\ loop.pc = "idle"
    BY DEF LoopSelect, TakeEvent, Tick, TakeReload, EventsClosed, storeVars
  <2>2. LoopOnly
    BY <2>1 DEF LoopOnly
  <2>3. QED
    BY <2>1, <2>2, RegStands
<1>2. loop.back = "idle" /\ loop.todo = {} /\ loop \in Loop
  BY <1>1, FTypes DEF ScanHolds
<1>3. CASE Tick
  <2>1. \A s \in Slug : /\ Stored(s) => Current(s, sessions[s])
                        /\ ~Stored(s) => Unserved(s)
    BY CurrentNow, UnservedOrStored
  <2>2. \A s \in Slug : sessions[s] \in Session \cup {NoSession}
    BY FTypes
  <2>3. \A s \in Slug : /\ Stored(s) => Current(s, sessions[s])'
                        /\ ~Stored(s) => Unserved(s)'
    BY <1>1, <2>1, <2>2 DEF Current, Unserved, Stored, LanesOf
  <2>4. Scan("heal", StoredSlugs, sessions) /\ "heal" \in ScanPc \ {"idle"}
    BY <1>3 DEF Tick, ScanPc
  <2>5. ScanHolds' /\ VisitHolds'
    BY <1>1, <2>3, <2>4, ScanBegins DEF StoredSlugs, Stored
  <2>6. QED
    BY <1>1, <2>5 DEF Restarts
<1>4. CASE TakeReload \/ EventsClosed
  <2>1. loop'.back = "idle" /\ loop'.pc \in {"filter", "stopAll"}
    BY <1>4 DEF TakeReload, EventsClosed, At
  <2>2. ScanHolds' /\ VisitHolds'
    BY <2>1, HandsFree DEF VisitPc, ScanPc
  <2>3. QED
    BY <1>1, <2>2 DEF Restarts
<1>5. CASE TakeEvent
  <2>1. PICK e : e = Head(events)
    OBVIOUS
  <2>2. e \in Event
    BY <1>5, <2>1, FTypes DEF TakeEvent, TInv, TypeOK, StoreTypeOK
  <2>3. CASE loop' = loop
    <3>1. LanesNamed /\ nextRev' >= nextRev
      BY <1>1, FTypes DEF LanesNamed
    <3>2. ASSUME NEW s \in Slug PROVE RegNamed(s)
      BY <1>1, FTypes DEF RegNamed, RegHolds, Ended
    <3>3. QED
      BY <1>1, <2>3, <3>1, <3>2, SessionsStand, RestartsWhileLoopStands
  <2>4. CASE loop' # loop
    <3>1. /\ loop'.pc \in {"deleted", "sync"} /\ loop'.slug = e.slug
          /\ loop'.back = loop.back /\ loop'.todo = loop.todo /\ loop'.list = loop.list
      BY <1>2, <1>5, <2>1, <2>4 DEF TakeEvent, Loop
    <3>2. ScanHolds'
      BY <1>1, <1>2, <2>2, <3>1, VisitBegins DEF Event, VisitPc
    <3>3. VisitHolds'
      BY <3>1 DEF VisitHolds
    <3>4. QED
      BY <1>1, <3>2, <3>3 DEF Restarts
  <2>5. QED
    BY <2>3, <2>4
<1>6. QED
  BY <1>3, <1>4, <1>5 DEF LoopSelect

\* The loop is on its way out of the visits and scans, or at its start.
LEMMA GotoHolds ==
  ASSUME FInv, TInv', LoopOnly, loop'.back = loop.back, loop'.list = loop.list,
         loop'.todo \subseteq loop.todo, loop'.pc \notin VisitPc \cup ScanPc
  PROVE  ScanHolds' /\ VisitHolds'
<1>1. ScanHolds'
  BY ListKept DEF ScanHolds, ScanPc, VisitPc
<1>2. VisitHolds'
  BY DEF VisitHolds, VisitPc
<1>3. QED
  BY <1>1, <1>2

\* Neither the store, the lanes nor the registrations change.
LEMMA RestartsLoopMoves ==
  ASSUME FInv, TInv', UNCHANGED <<sessions, nextRev, reg, nextGen, lanes>>,
         \/ RunSubscribe \/ RunList \/ ScanDone \/ Reconfigurable
         \/ AwaitLanes \/ CleanList \/ RunReturns \/ \E s \in Slug : CleanStored(s)
  PROVE  Restarts'
<1>0. LoopOnly /\ loop \in Loop
  BY FTypes DEF LoopOnly
<1>1. /\ loop.pc \notin {"launch", "wait"}
      /\ loop.pc \in {"drain", "cleanList", "cleanStored", "done"} =>
           loop'.pc \in {"drain", "cleanList", "cleanStored", "done"}
  BY <1>0 DEF RunSubscribe, RunList, ScanDone, Reconfigurable, AwaitLanes, CleanList, RunReturns,
     CleanStored, Goto, Skip, At, Loop
<1>2. LanesAge' /\ RegHolds'
  BY <1>0, <1>1, RegStands
<1>3. CASE RunList
  <2>1. \A s \in StoredSlugs : Stored(s) /\ Current(s, sessions[s])
    BY CurrentNow DEF StoredSlugs
  <2>2. \A s \in StoredSlugs : sessions[s] # NoSession /\ Current(s, sessions[s])'
    BY <2>1 DEF Current, LanesOf, Stored
  <2>3. Scan("boot", StoredSlugs, sessions) /\ "boot" \in ScanPc \ {"idle"}
    BY <1>3 DEF RunList, ScanPc
  <2>4. QED
    BY <1>2, <2>2, <2>3, ScanBegins DEF Restarts
<1>4. CASE Reconfigurable
  <2>1. PICK slugs : Scan("replace", slugs, NoListing)
    BY <1>4 DEF Reconfigurable
  <2>2. "replace" \in ScanPc \ {"idle"}
    BY DEF ScanPc
  <2>3. QED
    BY <1>2, <2>1, <2>2, ScanBegins DEF Restarts
<1>5. CASE ScanDone \/ CleanList \/ RunReturns
  <2>1. loop'.back = "idle" /\ loop'.pc \in {"idle", "cleanStored", "done"}
        /\ (loop'.pc = "idle" => loop'.todo = {})
    BY <1>5 DEF ScanDone, CleanList, RunReturns, At
  <2>2. ScanHolds' /\ VisitHolds'
    BY <2>1, HandsFree DEF VisitPc, ScanPc
  <2>3. QED
    BY <1>2, <2>2 DEF Restarts
<1>6. CASE RunSubscribe \/ AwaitLanes \/ \E s \in Slug : CleanStored(s)
  <2>1. /\ loop'.back = loop.back /\ loop'.list = loop.list /\ loop'.todo \subseteq loop.todo
        /\ loop'.pc \in {"list", "cleanList", "cleanStored"}
    BY <1>0, <1>6 DEF RunSubscribe, AwaitLanes, CleanStored, Goto, Skip, Loop
  <2>2. ScanHolds' /\ VisitHolds'
    BY <1>0, <2>1, GotoHolds DEF VisitPc, ScanPc
  <2>3. QED
    BY <1>2, <2>2 DEF Restarts
<1>7. QED
  BY <1>3, <1>4, <1>5, <1>6

\* The loop takes the next session of its scan, or leaves it as it is.
LEMMA RestartsVisit ==
  ASSUME FInv, TInv', NEW s \in Slug, BootVisit(s) \/ Heal(s) \/ Sweep(s) \/ Replace(s)
  PROVE  Restarts'
<1>0. /\ LoopOnly /\ UNCHANGED <<sessions, nextRev, reg, nextGen, lanes>>
      /\ loop \in Loop /\ s \in loop.todo
      /\ loop.pc \in {"boot", "heal", "sweep", "replace"} /\ loop.back = loop.pc
  BY FTypes DEF BootVisit, Heal, Sweep, Replace, LoopOnly, storeVars, ScanHolds, ScanPc
<1>1. LanesAge' /\ RegHolds'
  BY <1>0, RegStands
<1>2. reg[s].state # "stopping" /\ (reg[s] = NoReg => Unserved(s))
  BY <1>0, NothingStops
<1>3. ASSUME NEW pc \in VisitPc, NEW n \in Session \cup {NoSession}, NEW scrub,
             Visit(s, pc, n, scrub), loop.back = "heal" => loop.list[s] # NoSession,
             pc \in {"stop", "launch", "halt"},
             pc = "halt" => Unserved(s),
             pc # "halt" => loop.back # "sweep" /\ Current(s, n),
             pc = "stop" /\ loop.back # "replace" => \A g \in LanesOf(s) : lanes[g].rev < n.rev
      PROVE  ScanHolds' /\ VisitHolds'
  <2>1. /\ loop'.pc = pc /\ loop'.slug = s /\ loop'.snap = n /\ loop'.back = loop.back
        /\ loop'.list = loop.list /\ loop'.todo = loop.todo \ {s}
    BY <1>0, <1>3 DEF Visit, Loop
  <2>2. ScanHolds'
    BY <1>0, <1>3, <2>1, VisitBegins
  <2>3. /\ LanesOf(s)' = LanesOf(s) /\ (Unserved(s) => Unserved(s)')
        /\ Current(s, n) => Current(s, n)'
    BY <1>0, LoopKeeps
  <2>4. VisitHolds'
    BY <1>0, <1>2, <1>3, <2>1, <2>3 DEF VisitHolds
  <2>5. QED
    BY <2>2, <2>4
<1>4. ASSUME Skip(s) PROVE ScanHolds' /\ VisitHolds'
  <2>1. /\ loop'.pc = loop.pc /\ loop'.back = loop.back
        /\ loop'.list = loop.list /\ loop'.todo \subseteq loop.todo
    BY <1>0, <1>4 DEF Skip, Loop
  <2>2. ScanHolds'
    BY <1>0, <2>1, ListKept DEF ScanHolds, ScanPc, VisitPc
  <2>3. QED
    BY <1>0, <2>1, <2>2 DEF VisitHolds
<1>5. {"stop", "launch", "halt"} \subseteq VisitPc /\ NoSession \in Session \cup {NoSession}
  BY DEF VisitPc
<1>6. PICK n \in Session \cup {NoSession} : n = loop.list[s]
  BY <1>0 DEF Loop, Listing
<1>7. PICK m \in Session \cup {NoSession} : m = sessions[s]
  BY FTypes
<1>8. loop.pc \in {"boot", "heal"} => n # NoSession /\ Current(s, n)
  BY <1>0, <1>6, FTypes DEF ScanHolds
<1>9. CASE BootVisit(s)
  BY <1>0, <1>1, <1>3, <1>5, <1>6, <1>8, <1>9 DEF BootVisit, Restarts
<1>10. CASE Heal(s)
  <2>1. CASE reg[s] = NoReg
    BY <1>0, <1>1, <1>3, <1>5, <1>6, <1>8, <1>10, <2>1 DEF Heal, Restarts
  <2>2. CASE reg[s] # NoReg /\ reg[s].rev # n.rev
    <3>1. \A g \in LanesOf(s) : lanes[g].rev < n.rev
      BY <1>8, <1>10, <2>2, NewerThanRegistered DEF Heal
    <3>2. QED
      BY <1>0, <1>1, <1>3, <1>5, <1>6, <1>8, <1>10, <2>2, <3>1 DEF Heal, Restarts
  <2>3. CASE reg[s] # NoReg /\ reg[s].rev = n.rev
    BY <1>0, <1>1, <1>3, <1>4, <1>5, <1>6, <1>8, <1>10, <2>3 DEF Heal, Restarts
  <2>4. QED
    BY <2>1, <2>2, <2>3
<1>11. CASE Sweep(s)
  <2>1. Unserved(s) /\ loop.back = "sweep"
    BY <1>0, <1>11, FTypes DEF ScanHolds, Sweep
  <2>2. QED
    BY <1>0, <1>1, <1>3, <1>5, <1>11, <2>1 DEF Sweep, Restarts
<1>12. CASE Replace(s)
  <2>1. CASE ~Stored(s)
    BY <1>0, <1>1, <1>3, <1>5, <1>12, <2>1, UnservedOrStored DEF Replace, Restarts
  <2>2. CASE Stored(s)
    <3>1. Current(s, m) /\ loop.back = "replace"
      BY <1>0, <1>7, <1>12, <2>2, CurrentNow DEF Replace
    <3>2. QED
      BY <1>0, <1>1, <1>3, <1>4, <1>5, <1>7, <1>12, <2>2, <3>1 DEF Replace, Restarts
  <2>3. QED
    BY <2>1, <2>2
<1>13. QED
  BY <1>9, <1>10, <1>11, <1>12

\* The loop looks at the store again before it acts on an event.
LEMMA RestartsEventVisit ==
  ASSUME FInv, TInv', DeletedGet \/ SyncCurrent
  PROVE  Restarts'
<1>0. /\ LoopOnly /\ UNCHANGED <<sessions, nextRev, reg, nextGen, lanes>>
      /\ loop \in Loop /\ loop.pc \in {"deleted", "sync"} /\ loop.back = "idle"
      /\ loop.slug \notin loop.todo
      /\ loop'.back = loop.back /\ loop'.list = loop.list /\ loop'.todo = loop.todo
      /\ loop'.slug = loop.slug /\ loop.slug \in Slug
  <2>1. UNCHANGED <<sessions, nextRev, reg, nextGen, lanes>> /\ loop.pc \in {"deleted", "sync"}
    BY DEF DeletedGet, SyncCurrent, storeVars
  <2>2. loop \in Loop /\ loop.back = "idle" /\ loop.slug \in Slug /\ loop.slug \notin loop.todo
    BY <2>1, FTypes DEF ScanHolds, TInv, LoopSlugOK, VisitPc
  <2>3. /\ loop'.back = loop.back /\ loop'.list = loop.list /\ loop'.todo = loop.todo
        /\ loop'.slug = loop.slug
    BY <2>2 DEF DeletedGet, SyncCurrent, Goto, Loop
  <2>4. QED
    BY <2>1, <2>2, <2>3 DEF LoopOnly
<1>1. LanesAge' /\ RegHolds'
  BY <1>0, RegStands
<1>2. PICK s \in Slug : s = loop.slug
  BY <1>0
<1>3. reg[s].state # "stopping" /\ (Unserved(s) => Unserved(s)')
  BY <1>0, NothingStops, LoopKeeps
<1>4. CASE DeletedGet
  <2>1. loop'.pc = (IF Stored(s) THEN "sync" ELSE "halt")
    BY <1>0, <1>2, <1>4 DEF DeletedGet, Goto, Loop
  <2>2. ScanHolds'
    BY <1>0, <2>1, VisitBegins DEF VisitPc
  <2>3. VisitHolds'
    BY <1>0, <1>2, <1>3, <2>1, UnservedOrStored DEF VisitHolds
  <2>4. QED
    BY <1>1, <2>2, <2>3 DEF Restarts
<1>5. CASE SyncCurrent
  <2>1. PICK n \in Session \cup {NoSession} : n = sessions[s]
    BY FTypes
  <2>2. Stored(s) => Current(s, n) /\ Current(s, n)'
    BY <1>0, <2>1, CurrentNow, LoopKeeps
  <2>3. IF Stored(s)
          THEN /\ loop'.pc = IF reg[s] # NoReg /\ reg[s].rev # n.rev THEN "stop" ELSE "launch"
               /\ loop'.snap = n
          ELSE loop'.pc = "halt"
    BY <1>0, <1>2, <1>5, <2>1 DEF SyncCurrent, Loop
  <2>4. loop'.pc \in {"stop", "launch", "halt"}
    BY <2>3
  <2>5. ScanHolds'
    BY <1>0, <2>4, VisitBegins DEF VisitPc
  <2>6. LanesOf(s)' = LanesOf(s) /\ LanesOf(s) \subseteq Gens
    BY <1>0, LoopKeeps
  <2>7. loop'.pc = "stop" => Stored(s) /\ \A g \in LanesOf(s) : lanes[g].rev < n.rev
    BY <2>2, <2>3, NewerThanRegistered
  <2>8. VisitHolds'
    BY <1>0, <1>2, <1>3, <2>2, <2>3, <2>4, <2>6, <2>7, UnservedOrStored DEF VisitHolds
  <2>9. QED
    BY <1>1, <2>5, <2>8 DEF Restarts
<1>6. QED
  BY <1>4, <1>5

\* Runtime.stop leaves a registration stopping or gone.
LEMMA StopLeaves ==
  ASSUME FInv, NEW s \in Slug, reg[s].state # "stopping",
         reg' = StopReg(s), lanes' = StopLanes(s), UNCHANGED <<sessions, nextRev, nextGen>>
  PROVE  /\ LoopOnly
         /\ \A t \in Slug : t # s => reg'[t] = reg[t]
         /\ \/ reg[s] = NoReg /\ reg'[s] = NoReg
            \/ reg[s].state = "exited" /\ reg'[s] = NoReg
            \/ /\ reg[s] # NoReg /\ reg'[s] # NoReg
               /\ reg'[s].gen = reg[s].gen /\ reg'[s].rev = reg[s].rev
               /\ reg[s].state = "running" /\ reg'[s].state = "stopping"
<1>0. /\ reg \in [Slug -> Reg \cup {NoReg}] /\ lanes \in [Gens -> Lane]
      /\ reg[s] \in Reg \/ reg[s] = NoReg
  BY FTypes
<1>1. LoopOnly
  BY <1>0 DEF LoopOnly, StopLanes, Lane
<1>2. CASE reg[s].state = "running"
  <2>1. reg[s] \in Reg /\ reg' = [reg EXCEPT ![s].state = "stopping"]
    BY <1>0, <1>2 DEF StopReg, NoReg
  <2>2. reg'[s] = [reg[s] EXCEPT !.state = "stopping"] /\ \A t \in Slug : t # s => reg'[t] = reg[t]
    BY <1>0, <2>1
  <2>3. QED
    BY <1>1, <1>2, <2>1, <2>2 DEF Reg, NoReg
<1>3. CASE reg[s].state = "exited"
  <2>1. reg' = [reg EXCEPT ![s] = NoReg]
    BY <1>3 DEF StopReg
  <2>2. reg'[s] = NoReg /\ \A t \in Slug : t # s => reg'[t] = reg[t]
    BY <1>0, <2>1
  <2>3. QED
    BY <1>1, <1>3, <2>2
<1>4. CASE reg[s] = NoReg
  <2>1. reg' = reg
    BY <1>4 DEF StopReg, NoReg
  <2>2. QED
    BY <1>1, <1>4, <2>1
<1>5. QED
  BY <1>0, <1>2, <1>3, <1>4 DEF Reg

\* Before a launch the registered lane is told to stop.
LEMMA RestartsStop ==
  ASSUME FInv, TInv', Stop
  PROVE  Restarts'
<1>0. loop \in Loop /\ loop.pc = "stop" /\ loop.slug \in Slug /\ UNCHANGED <<sessions, nextRev, nextGen>>
  BY FTypes DEF Stop, TInv, LoopSlugOK, VisitPc, storeVars
<1>1. /\ loop'.pc = "launch" /\ loop'.back = loop.back /\ loop'.list = loop.list
      /\ loop'.todo = loop.todo /\ loop'.slug = loop.slug /\ loop'.snap = loop.snap
  BY <1>0 DEF Stop, Goto, Loop
<1>2. PICK s \in Slug : s = loop.slug
  BY <1>0
<1>3. PICK n \in Session \cup {NoSession} : n = loop.snap
  BY <1>0 DEF Loop
<1>4. \A t \in Slug : reg[t].state # "stopping" /\ (reg[t] = NoReg => Unserved(t))
  BY <1>0, NothingStops
<1>5. /\ Current(s, n)
      /\ loop.back # "replace" => \A g \in LanesOf(s) : lanes[g].rev < n.rev
  BY <1>0, <1>2, <1>3, FTypes DEF VisitHolds
<1>6. loop.back # "replace" => Unserved(s)
  BY <1>5, OlderIsUnserved
<1>7. /\ LoopOnly
      /\ \A t \in Slug : t # s => reg'[t] = reg[t]
      /\ \/ reg[s] = NoReg /\ reg'[s] = NoReg
         \/ reg[s].state = "exited" /\ reg'[s] = NoReg
         \/ /\ reg[s] # NoReg /\ reg'[s] # NoReg
            /\ reg'[s].gen = reg[s].gen /\ reg'[s].rev = reg[s].rev
            /\ reg[s].state = "running" /\ reg'[s].state = "stopping"
  BY <1>0, <1>2, <1>4, StopLeaves DEF Stop
<1>8. ASSUME NEW t \in Slug PROVE RegGoes(t)
  <2>1. CASE t # s
    BY <1>4, <1>7, <2>1 DEF RegGoes
  <2>2. CASE t = s
    BY <1>1, <1>2, <1>4, <1>6, <1>7, <2>2 DEF RegGoes
  <2>3. QED
    BY <2>1, <2>2
<1>9. LanesAge' /\ RegHolds'
  BY <1>7, <1>8, RegKept
<1>10. ScanHolds'
  BY <1>0, <1>1, <1>7, VisitBegins, FTypes DEF ScanHolds, VisitPc
<1>11. VisitHolds'
  BY <1>1, <1>2, <1>3, <1>5, <1>6, <1>7, LoopKeeps DEF VisitHolds
<1>12. QED
  BY <1>9, <1>10, <1>11 DEF Restarts

\* The end of a session: its lane is told to stop, and awaited.
LEMMA RestartsHalt ==
  ASSUME FInv, TInv', Halt
  PROVE  Restarts'
<1>0. loop \in Loop /\ loop.pc = "halt" /\ loop.slug \in Slug /\ UNCHANGED <<sessions, nextRev, nextGen>>
  BY FTypes DEF Halt, TInv, LoopSlugOK, VisitPc, storeVars
<1>1. PICK s \in Slug : s = loop.slug
  BY <1>0
<1>2. /\ loop'.pc = (IF reg[s] = NoReg THEN "clean" ELSE "wait") /\ loop'.gen = reg[s].gen
      /\ loop'.back = loop.back /\ loop'.list = loop.list
      /\ loop'.todo = loop.todo /\ loop'.slug = loop.slug
  BY <1>0, <1>1 DEF Halt, Loop
<1>3. \A t \in Slug : reg[t].state # "stopping" /\ (reg[t] = NoReg => Unserved(t))
  BY <1>0, NothingStops
<1>4. Unserved(s)
  BY <1>0, <1>1, FTypes DEF VisitHolds
<1>5. /\ LoopOnly
      /\ \A t \in Slug : t # s => reg'[t] = reg[t]
      /\ \/ reg[s] = NoReg /\ reg'[s] = NoReg
         \/ reg[s].state = "exited" /\ reg'[s] = NoReg
         \/ /\ reg[s] # NoReg /\ reg'[s] # NoReg
            /\ reg'[s].gen = reg[s].gen /\ reg'[s].rev = reg[s].rev
            /\ reg[s].state = "running" /\ reg'[s].state = "stopping"
  BY <1>0, <1>1, <1>3, StopLeaves DEF Halt
<1>6. ASSUME NEW t \in Slug PROVE RegGoes(t)
  <2>1. CASE t # s
    BY <1>3, <1>5, <2>1 DEF RegGoes
  <2>2. CASE t = s
    BY <1>1, <1>2, <1>4, <1>5, <2>2 DEF RegGoes, NoReg
  <2>3. QED
    BY <2>1, <2>2
<1>7. LanesAge' /\ RegHolds'
  BY <1>5, <1>6, RegKept
<1>8. ScanHolds'
  BY <1>0, <1>2, <1>5, VisitBegins, FTypes DEF ScanHolds, VisitPc
<1>9. VisitHolds'
  BY <1>1, <1>2, <1>4, <1>5, LoopKeeps DEF VisitHolds
<1>10. QED
  BY <1>7, <1>8, <1>9 DEF Restarts

\* A lane that was waited for leaves its slug without a registration, unserved.
LEMMA RestartsHaltWait ==
  ASSUME FInv, TInv', HaltWait
  PROVE  Restarts'
<1>0. /\ loop \in Loop /\ loop.pc = "wait" /\ loop.slug \in Slug
      /\ UNCHANGED <<sessions, nextRev, nextGen, lanes>> /\ LoopOnly
  BY FTypes DEF HaltWait, TInv, LoopSlugOK, VisitPc, storeVars, LoopOnly
<1>1. PICK s \in Slug : s = loop.slug
  BY <1>0
<1>2. /\ loop'.pc = "clean" /\ loop'.back = loop.back /\ loop'.list = loop.list
      /\ loop'.todo = loop.todo /\ loop'.slug = loop.slug
  BY <1>0, <1>1 DEF HaltWait, Goto, Loop
<1>3. Unserved(s) /\ (reg[s] = NoReg \/ reg[s].gen = loop.gen)
  BY <1>0, <1>1, FTypes DEF VisitHolds
<1>4. reg[s] # NoReg => reg[s].gen = loop.gen /\ reg[s].state = "exited"
  <2>1. loop.gen \in Gens
    BY <1>0, FTypes DEF OInv, LaneOrder, LoopHoldsALane, LanesOf
  <2>2. Ended(loop.gen)
    BY <2>1 DEF HaltWait, DoneClosed, Ended
  <2>3. QED
    BY <1>3, <2>2, FTypes DEF RegHolds
<1>5. reg \in [Slug -> Reg \cup {NoReg}]
  BY FTypes
<1>6. reg'[s] = NoReg /\ \A t \in Slug : t # s => reg'[t] = reg[t]
  <2>1. CASE reg[s] = NoReg
    <3>1. reg' = reg
      BY <1>1, <2>1 DEF HaltWait, NoReg
    <3>2. QED
      BY <2>1, <3>1
  <2>2. CASE reg[s] # NoReg
    <3>1. reg' = [reg EXCEPT ![s] = NoReg]
      BY <1>1, <1>4, <2>2 DEF HaltWait
    <3>2. QED
      BY <1>5, <3>1
  <2>3. QED
    BY <2>1, <2>2
<1>7. ASSUME NEW t \in Slug PROVE RegGoes(t)
  <2>1. t # s => reg[t].state # "stopping" /\ (reg[t] = NoReg => Unserved(t))
    BY <1>0, <1>1, FTypes DEF RegHolds
  <2>2. CASE t # s
    BY <1>6, <2>1, <2>2 DEF RegGoes
  <2>3. CASE t = s
    BY <1>3, <1>6, <2>3 DEF RegGoes, NoReg
  <2>4. QED
    BY <2>2, <2>3
<1>8. LanesAge' /\ RegHolds'
  BY <1>0, <1>7, RegKept
<1>9. ScanHolds'
  BY <1>0, <1>2, VisitBegins, FTypes DEF ScanHolds, VisitPc
<1>10. VisitHolds'
  BY <1>2 DEF VisitHolds
<1>11. QED
  BY <1>8, <1>9, <1>10 DEF Restarts

\* A visit ends with nothing launched.
LEMMA RestartsVisitEnds ==
  ASSUME FInv, TInv', LaunchRefused \/ Clean
  PROVE  Restarts'
<1>0. /\ UNCHANGED <<sessions, nextRev, reg, nextGen, lanes>> /\ LoopOnly /\ EndVisit
      /\ loop.pc \in {"launch", "clean"}
      /\ loop.pc = "launch" => reg[loop.slug].state \in {"running", "exited"}
  BY DEF LaunchRefused, Clean, storeVars, LoopOnly, Same
<1>1. LanesAge' /\ RegHolds'
  BY <1>0, RegStands DEF NoReg
<1>2. QED
  BY <1>0, <1>1, EndVisitHolds DEF Restarts

\* Registrations without a listed session go, or are swept.
LEMMA RestartsOrphans ==
  ASSUME FInv, TInv', Orphans
  PROVE  Restarts'
<1>0. /\ UNCHANGED <<sessions, nextRev, nextGen, lanes>> /\ LoopOnly /\ loop.pc = "heal"
      /\ loop.back = "heal"
  BY FTypes DEF Orphans, storeVars, LoopOnly, ScanHolds, ScanPc
<1>1. \A s \in Slug : /\ loop.list[s] = NoSession => Unserved(s) /\ Unserved(s)'
                      /\ reg[s].state # "stopping" /\ (reg[s] = NoReg => Unserved(s))
  BY <1>0, LoopKeeps, NothingStops, FTypes DEF ScanHolds
<1>2. ASSUME NEW s \in Slug PROVE RegGoes(s)
  <2>1. reg'[s] = reg[s] \/ (reg'[s] = NoReg /\ loop.list[s] = NoSession)
    BY DEF Orphans
  <2>2. QED
    BY <1>1, <2>1 DEF RegGoes, NoReg
<1>3. LanesAge' /\ RegHolds'
  BY <1>0, <1>2, RegKept
<1>4. PICK slugs : /\ Scan("sweep", slugs, NoListing)
                   /\ \A s \in slugs : s \in Slug /\ loop.list[s] = NoSession
  BY DEF Orphans
<1>5. "sweep" \in ScanPc \ {"idle"}
  BY DEF ScanPc
<1>6. QED
  BY <1>1, <1>3, <1>4, <1>5, ScanBegins DEF Restarts

\* Run's shutdown tells every running lane to stop.
LEMMA RestartsStopAll ==
  ASSUME FInv, TInv', StopAll
  PROVE  Restarts'
<1>0. /\ loop \in Loop /\ lanes \in [Gens -> Lane] /\ reg \in [Slug -> Reg \cup {NoReg}]
      /\ UNCHANGED <<sessions, nextRev, nextGen>> /\ loop.pc = "stopAll"
  BY FTypes DEF StopAll, storeVars
<1>1. LoopOnly
  BY <1>0 DEF StopAll, LoopOnly, Lane
<1>2. /\ loop'.pc = "drain" /\ loop'.back = loop.back /\ loop'.list = loop.list
      /\ loop'.todo = loop.todo
  BY <1>0 DEF StopAll, Goto, Loop
<1>3. ASSUME NEW s \in Slug PROVE RegGoes(s)
  <2>1. reg[s].state # "stopping" /\ (reg[s] = NoReg => Unserved(s))
    BY <1>0, NothingStops
  <2>2. CASE reg[s].state = "running"
    <3>1. reg[s] \in Reg /\ reg'[s] = [reg[s] EXCEPT !.state = "stopping"]
      BY <1>0, <2>2 DEF StopAll, NoReg
    <3>2. QED
      BY <1>2, <2>2, <3>1 DEF RegGoes, Reg, NoReg
  <2>3. CASE reg[s].state # "running"
    <3>1. reg'[s] = reg[s]
      BY <2>3 DEF StopAll
    <3>2. QED
      BY <2>1, <3>1 DEF RegGoes
  <2>4. QED
    BY <2>2, <2>3
<1>4. LanesAge' /\ RegHolds'
  BY <1>1, <1>3, RegKept
<1>5. QED
  BY <1>1, <1>2, <1>4, GotoHolds DEF Restarts, VisitPc, ScanPc

-----------------------------------------------------------------------------
(* The launch of a lane and its binding.                                   *)

\* Why the launched lane is the first of its definition, unless it retries what
\* failed or a reload displaced its predecessor.
LEMMA LaunchIsDue ==
  ASSUME FInv, NEW s \in Slug, s = loop.slug, NEW n \in Session \cup {NoSession}, n = loop.snap,
         loop.pc = "launch", loop.back # "replace", ~Same(s) \/ Retrying(s), Stored(s)
  PROVE  \/ sessions[s].rev # n.rev
         \/ sessions[s].state = "failed"
         \/ \A h \in LanesOf(s) : lanes[h].rev < sessions[s].rev
<1>1. Current(s, n)
  BY FTypes DEF VisitHolds
<1>2. CASE Retrying(s)
  BY <1>1, <1>2 DEF Retrying, Current
<1>3. CASE reg[s] = NoReg \/ reg[s].state = "stopping"
  BY <1>3, FTypes DEF RegHolds, VisitHolds, Unserved
<1>4. CASE reg[s] # NoReg /\ reg[s].rev # n.rev
  BY <1>1, <1>4, NewerThanRegistered, OlderIsUnserved DEF Unserved
<1>5. ~Same(s) => reg[s] = NoReg \/ reg[s].state = "stopping" \/ reg[s].rev # n.rev
  <2>1. reg[s] \in Reg \cup {NoReg}
    BY FTypes
  <2>2. QED
    BY <2>1 DEF Same, Reg
<1>6. QED
  BY <1>2, <1>3, <1>4, <1>5

\* A launch takes a definition that no lane of the slug is younger than.
LEMMA RestartsLaunch ==
  ASSUME FInv, TInv', Launch
  PROVE  Restarts'
<1>0. /\ loop \in Loop /\ loop.pc = "launch" /\ loop.slug \in Slug /\ nextGen \in Nat
      /\ UNCHANGED <<sessions, nextRev>> /\ nextRev \in Nat
      /\ reg \in [Slug -> Reg \cup {NoReg}]
  BY FTypes DEF Launch, TInv, LoopSlugOK, VisitPc, storeVars
<1>1. PICK s \in Slug : s = loop.slug
  BY <1>0
<1>2. PICK n \in Session \cup {NoSession} : n = loop.snap
  BY <1>0 DEF Loop
<1>3. PICK g \in Nat : g = nextGen + 1 /\ g \notin Gens
  BY <1>0
<1>4. /\ nextGen' = g /\ Gens' = Gens \cup {g}
      /\ \A h \in Gens : lanes'[h] = lanes[h]
      /\ lanes'[g].slug = s /\ lanes'[g].rev = n.rev /\ lanes'[g].pc = "new"
  BY <1>0, <1>1, <1>2, <1>3 DEF Launch
<1>5. /\ reg'[s] = [gen |-> g, rev |-> n.rev, state |-> "running", due |-> TRUE]
      /\ \A t \in Slug : t # s => reg'[t] = reg[t]
  BY <1>0, <1>1, <1>2, <1>3 DEF Launch
<1>6. /\ loop'.pc = "bind" /\ loop'.back = loop.back /\ loop'.list = loop.list
      /\ loop'.todo = loop.todo /\ loop'.slug = s /\ loop'.gen = g
  BY <1>0, <1>1, <1>3 DEF Launch, Loop
<1>7. Current(s, n)
  BY <1>0, <1>1, <1>2, FTypes DEF VisitHolds
<1>8. /\ LanesOf(s)' = LanesOf(s) \cup {g}
      /\ \A t \in Slug : LanesOf(t) \subseteq Gens /\ (t # s => LanesOf(t)' = LanesOf(t))
  BY <1>4 DEF LanesOf
<1>9. ASSUME NEW t \in Slug, t # s
      PROVE  /\ Unserved(t) => Unserved(t)'
             /\ \A m \in Session \cup {NoSession} : Current(t, m) => Current(t, m)'
  BY <1>0, <1>4, <1>8, <1>9 DEF Unserved, Current, Stored
<1>10. LanesAge'
  <2>1. ASSUME NEW t \in Slug, NEW h \in Gens, lanes[h].slug = t
        PROVE  /\ lanes[h].rev <= nextRev
               /\ sessions[t] # NoSession => lanes[h].rev <= sessions[t].rev
               /\ reg'[t] # NoReg => lanes[h].rev <= reg'[t].rev
    <3>1. /\ lanes[h].rev <= nextRev
          /\ Stored(t) => lanes[h].rev <= sessions[t].rev
          /\ reg[t] # NoReg => lanes[h].rev <= reg[t].rev
      BY <2>1, FTypes DEF LanesAge
    <3>2. t = s => lanes[h].rev <= n.rev
      BY <1>7, <2>1 DEF Current, LanesOf
    <3>3. QED
      BY <1>5, <3>1, <3>2 DEF Stored
  <2>2. /\ n.rev <= nextRev
        /\ sessions[s] # NoSession => n.rev <= sessions[s].rev
        /\ n.rev <= reg'[s].rev
    <3>1. n.rev \in Nat
      BY DEF Session, NoSession
    <3>2. QED
      BY <1>5, <1>7, <3>1 DEF Current, Stored
  <2>3. QED
    BY <1>0, <1>4, <2>1, <2>2 DEF LanesAge, Stored
<1>11. ScanHolds'
  <2>1. /\ s \notin loop.todo /\ loop.back # "sweep"
        /\ loop.back = "heal" => loop.list[s] # NoSession
    BY <1>0, <1>1, FTypes DEF ScanHolds, VisitPc
  <2>2. QED
    BY <1>6, <1>9, <2>1, ListGoesOn DEF ScanHolds, ScanPc, VisitPc
<1>12. VisitHolds'
  <2>1. ASSUME loop.back # "replace", sessions[s] # NoSession
        PROVE  \/ sessions[s].rev # n.rev
               \/ sessions[s].state = "failed"
               \/ \A h \in LanesOf(s) : lanes[h].rev < sessions[s].rev
    BY <1>0, <1>1, <1>2, <2>1, LaunchIsDue DEF Launch, Stored
  <2>2. QED
    BY <1>0, <1>4, <1>6, <1>8, <2>1 DEF VisitHolds, Stored
<1>13. RegHolds'
  <2>1. ASSUME NEW t \in Slug, t # s
        PROVE  /\ reg[t] # NoReg => lanes'[reg[t].gen].rev = reg[t].rev
               /\ reg[t] # NoReg /\ lanes'[reg[t].gen].pc \in {"close", "closed"} =>
                    reg[t].state = "exited"
               /\ reg[t] = NoReg => Unserved(t)'
               /\ reg[t].state # "stopping"
    <3>1. reg[t] # NoReg => reg[t].gen \in Gens
      BY FTypes DEF OInv, LaneOrder, RegistrationIsYoungest, LanesOf
    <3>2. QED
      BY <1>0, <1>1, <1>4, <1>9, <2>1, <3>1, FTypes DEF RegHolds, Ended
  <2>2. QED
    BY <1>4, <1>5, <2>1 DEF RegHolds, Ended, NoReg
<1>14. QED
  BY <1>10, <1>11, <1>12, <1>13 DEF Restarts

\* What a bind finds is the launched definition, a younger one, or none.
LEMMA RestartsBind ==
  ASSUME FInv, TInv', Bind
  PROVE  Restarts'
<1>0. /\ loop \in Loop /\ loop.pc = "bind" /\ loop.slug \in Slug /\ nextRev \in Nat
      /\ UNCHANGED <<nextRev, reg, nextGen>> /\ lanes \in [Gens -> Lane]
      /\ sessions \in [Slug -> Session \cup {NoSession}]
  BY FTypes DEF Bind, TInv, LoopSlugOK, VisitPc, storeVars, bindRuntime
<1>1. PICK s \in Slug : s = loop.slug
  BY <1>0
<1>2. PICK g \in Gens : g = loop.gen /\ lanes[g].pc = "new"
  BY <1>0, FTypes DEF OInv, LaneOrder, LoopHoldsALane, LanesOf
<1>3. /\ LanesNamed /\ nextRev' >= nextRev
      /\ \A h \in Gens : lanes'[h].pc \in {"close", "closed"} => lanes[h].pc \in {"close", "closed"}
  <2>1. \A h \in Gens : lanes[h] \in Lane
    BY <1>0
  <2>2. \E c \in BOOLEAN, pc \in {"await", "abandon"} :
          lanes' = [lanes EXCEPT ![g].pc = pc, ![g].cancelled = c]
    <3>1. CASE lanes' = [lanes EXCEPT ![g].pc = "await"]
      <4>1. lanes' = [lanes EXCEPT ![g].pc = "await", ![g].cancelled = lanes[g].cancelled]
        BY <1>0, <1>2, <2>1, <3>1 DEF Lane
      <4>2. QED
        BY <2>1, <4>1 DEF Lane
    <3>2. QED
      BY <1>2, <3>1 DEF Bind
  <2>3. QED
    BY <1>0, <2>1, <2>2 DEF LanesNamed, Lane
<1>4. \/ sessions' = sessions
      \/ /\ sessions[s] \in Session
         /\ sessions' = [sessions EXCEPT ![s] =
                           [sessions[s] EXCEPT !.state = "starting", !.gen = g]]
  <2>1. CASE bindRuntime(s, lanes[g].rev, g)
    BY <1>0, <2>1 DEF bindRuntime, bindAccepted, Stored
  <2>2. QED
    BY <1>1, <1>2, <2>1 DEF Bind, storeVars
<1>5. /\ \A t \in Slug : DefinitionAges(t)
      /\ \A t \in Slug : t # s => FailureStands(t)
  <2>1. CASE sessions' = sessions
    BY <2>1, SessionsStand
  <2>2. CASE sessions' # sessions
    <3>1. Stored(s) /\ sessions'[s].rev = sessions[s].rev
      <4>1. sessions[s] \in Session /\ sessions'[s] = [sessions[s] EXCEPT !.state = "starting", !.gen = g]
        BY <1>0, <1>4, <2>2
      <4>2. QED
        BY <4>1 DEF Session, NoSession, Stored
    <3>2. \A t \in Slug : t # s => sessions'[t] = sessions[t]
      BY <1>0, <1>4, <2>2
    <3>3. QED
      BY <3>1, <3>2 DEF DefinitionAges, FailureStands, Stored
  <2>3. QED
    BY <2>1, <2>2
<1>6. ASSUME NEW t \in Slug
      PROVE  /\ Unserved(t) => Unserved(t)'
             /\ t # s => \A n \in Session \cup {NoSession} : Current(t, n) => Current(t, n)'
  BY <1>3, <1>5, UnservedKept, CurrentKept
<1>7. \A t \in Slug : RegNamed(t) /\ reg[t].state # "stopping" /\ (reg[t] = NoReg => Unserved(t))
  <2>1. ASSUME NEW t \in Slug PROVE RegNamed(t)
    <3>1. reg[t] # NoReg => reg[t].gen \in Gens
      BY FTypes DEF OInv, LaneOrder, RegistrationIsYoungest, LanesOf
    <3>2. QED
      BY <1>0, <1>3, <3>1, FTypes DEF RegNamed, RegHolds, Ended
  <2>2. QED
    BY <1>0, <2>1, NothingStops
<1>8. LanesAge'
  BY <1>3, <1>5, <1>7, AgesKept
<1>9. RegHolds'
  <2>1. ASSUME NEW t \in Slug
        PROVE  /\ reg[t] # NoReg => lanes'[reg[t].gen].rev = reg[t].rev
               /\ reg[t] # NoReg /\ lanes'[reg[t].gen].pc \in {"close", "closed"} =>
                    reg[t].state = "exited"
               /\ reg[t] = NoReg => Unserved(t)'
               /\ reg[t].state # "stopping"
    <3>1. reg[t] # NoReg => reg[t].gen \in Gens
      BY FTypes DEF OInv, LaneOrder, RegistrationIsYoungest, LanesOf
    <3>2. QED
      BY <1>0, <1>3, <1>6, <1>7, <3>1, FTypes DEF RegHolds, RegNamed, LanesNamed
  <2>2. QED
    BY <1>0, <2>1 DEF RegHolds, Ended
<1>10. ScanHolds' /\ VisitHolds'
  <2>1. CASE loop.back = "idle"
    BY <2>1, HandsFree DEF Bind, EndVisit, At, ScanPc, VisitPc
  <2>2. CASE loop.back # "idle"
    <3>1. /\ loop'.pc = loop.back /\ loop.back \in ScanPc
          /\ loop'.back = loop.back /\ loop'.todo = loop.todo /\ loop'.list = loop.list
      BY <1>0, <2>2 DEF Bind, EndVisit, At, Loop
    <3>2. s \notin loop.todo
      BY <1>0, <1>1, FTypes DEF ScanHolds, VisitPc
    <3>3. QED
      BY <1>6, <2>2, <3>1, <3>2, ListGoesOn DEF ScanHolds, VisitHolds, ScanPc, VisitPc
  <2>3. QED
    BY <2>1, <2>2
<1>11. QED
  BY <1>8, <1>9, <1>10 DEF Restarts

\* The invariant is inductive, action by action.
LEMMA RestartsStep ==
  ASSUME FInv, TInv', [Next]_vars
  PROVE  Restarts'
<1>1. CASE Environment
  BY <1>1, RestartsEnvironment
<1>2. CASE LoopSelect
  BY <1>2, RestartsSelect
<1>3. CASE LoopWorks
  <2>1. CASE \/ RunSubscribe \/ RunList \/ ScanDone \/ Reconfigurable
             \/ AwaitLanes \/ CleanList \/ RunReturns \/ \E s \in Slug : CleanStored(s)
    <3>1. UNCHANGED <<sessions, nextRev, reg, nextGen, lanes>>
      BY <2>1 DEF RunSubscribe, Subscribe, RunList, ScanDone, Reconfigurable, AwaitLanes, CleanList,
         RunReturns, CleanStored, storeVars
    <3>2. QED
      BY <2>1, <3>1, RestartsLoopMoves
  <2>2. CASE \E s \in Slug : BootVisit(s) \/ Heal(s) \/ Sweep(s) \/ Replace(s)
    BY <2>2, RestartsVisit
  <2>3. QED
    BY <1>3, <2>1, <2>2, RestartsEventVisit, RestartsStop, RestartsHalt, RestartsHaltWait,
       RestartsVisitEnds, RestartsOrphans, RestartsStopAll, RestartsLaunch, RestartsBind
       DEF LoopWorks
<1>4. CASE \E g \in Gens : LaneWorks(g) \/ LaneMedia(g)
  BY <1>4, RestartsLane
<1>5. CASE UNCHANGED vars
  <2>1. /\ UNCHANGED <<sessions, nextRev, reg, nextGen, lanes, loop>>
        /\ LanesNamed /\ nextRev' >= nextRev
    BY <1>5, FTypes DEF vars, storeVars, runtimeVars, LanesNamed
  <2>2. ASSUME NEW s \in Slug PROVE RegNamed(s)
    BY <2>1, FTypes DEF RegNamed, RegHolds, Ended
  <2>3. QED
    BY <2>1, <2>2, SessionsStand, RestartsWhileLoopStands
<1>6. QED
  BY <1>1, <1>2, <1>3, <1>4, <1>5 DEF Next

\* A runtime that has not started remembers nothing.
LEMMA RestartsInit == Init => Restarts
<1> SUFFICES ASSUME Init PROVE Restarts
  OBVIOUS
<1>1. /\ \A s \in Slug : sessions[s] = NoSession /\ reg[s] = NoReg
      /\ nextGen = 0 /\ loop = At("start")
  BY DEF Init, StoreInit
<1>2. loop.pc = "start" /\ loop.back = "idle"
  BY <1>1 DEF At
<1>3. LanesAge
  BY <1>1 DEF LanesAge
<1>4. ScanHolds /\ VisitHolds
  BY <1>2 DEF ScanHolds, VisitHolds, ScanPc, VisitPc
<1>5. RegHolds
  BY <1>1 DEF RegHolds, Unserved, Stored, NoReg
<1>6. QED
  BY <1>3, <1>4, <1>5 DEF Restarts

\* The invariant of every behaviour of store and runtime.
LEMMA RestartInvariant == Spec => []FInv
<1>1. Init => FInv
  <2>1. Init => SInv
    BY OrderInit DEF SInv, StatusIsTheLanes, StoredSlugs, Stored, Init, StoreInit
  <2>2. Init => RevisionsAge
    BY DEF Init, StoreInit, RevisionsAge, NoSession
  <2>3. QED
    BY <2>1, <2>2, RestartsInit DEF FInv, CInv
<1>2. FInv /\ [Next]_vars => FInv'
  <2> SUFFICES ASSUME FInv, [Next]_vars PROVE FInv'
    OBVIOUS
  <2>1. SInv' /\ TInv'
    BY StatusStep DEF FInv, CInv, SInv, OInv
  <2>2. QED
    BY <2>1, RevisionsStep, RestartsStep DEF FInv, CInv
<1>3. QED
  BY <1>1, <1>2, PTL DEF Spec

-----------------------------------------------------------------------------
(* The steps that could wake a finished session or forget a push.          *)

FinishedStays(s) ==
  FinishedDown(s) /\ sessions'[s].rev = sessions[s].rev => sessions'[s].state = "finished"

RoutesStay(s) ==
  /\ Stored(s) /\ intents[s] = sessions[s].rev /\ intents'[s] = 0
  => \/ loop.pc \in {"clean", "cleanStored"}
     \/ \E g \in Gens : lanes[g].slug = s /\ lanes[g].pc = "drain"

\* The loop never binds another lane to a definition whose source has finished: its
\* owner would have to be the lane just launched, which has not begun.
LEMMA FinishedBind ==
  ASSUME FInv, Bind, NEW s \in Slug
  PROVE  FinishedStays(s)
<1>0. loop.pc = "bind" /\ loop.slug \in Slug /\ sessions \in [Slug -> Session \cup {NoSession}]
  BY FTypes DEF Bind, TInv, LoopSlugOK, VisitPc
<1>1. PICK g \in Gens : g = loop.gen /\ lanes[g].pc = "new" /\ lanes[g].slug = loop.slug
  BY <1>0, FTypes DEF OInv, LaneOrder, LoopHoldsALane, LanesOf
<1>2. CASE s # loop.slug \/ sessions' = sessions
  <2>1. sessions'[s] = sessions[s]
    <3>1. \/ sessions' = sessions
          \/ sessions' = [sessions EXCEPT ![loop.slug].state = "starting", ![loop.slug].gen = loop.gen]
      BY DEF Bind, bindRuntime, storeVars
    <3>2. QED
      BY <1>0, <1>2, <3>1
  <2>2. QED
    BY <2>1 DEF FinishedStays, FinishedDown
<1>3. CASE s = loop.slug /\ bindRuntime(s, lanes[g].rev, g)
  <2> SUFFICES ASSUME Stored(s), sessions[s].state = "finished", loop.back # "replace"
               PROVE  FALSE
    BY <1>0, <1>3 DEF FinishedStays, FinishedDown, Replacing
  <2>1. sessions[s].rev = lanes[g].rev
    BY <1>3 DEF bindRuntime, bindAccepted
  <2>2. \A h \in LanesOf(s) : h # g => lanes[h].rev < sessions[s].rev
    BY <1>0, <1>1, <1>3, <2>1, FTypes DEF VisitHolds
  <2>3. PICK h \in Gens : /\ h = sessions[s].gen /\ h \in LanesOf(s)
                          /\ lanes[h].rev = sessions[s].rev
                          /\ lanes[h].pc \in {"leave", "close", "closed"}
    BY FTypes DEF SInv, StatusIsTheLanes, StoredSlugs, LanesOf
  <2>4. sessions[s].rev \in Nat
    BY FTypes
  <2>5. QED
    BY <1>1, <2>2, <2>3, <2>4
<1>4. QED
  BY <1>1, <1>2, <1>3 DEF Bind, storeVars

\* No step wakes it.
LEMMA FinishedStep ==
  ASSUME FInv, [Next]_vars, NEW s \in Slug
  PROVE  FinishedStays(s)
<1>0. /\ sessions \in [Slug -> Session \cup {NoSession}] /\ nextRev \in Nat
      /\ \A t \in Slug : sessions[t].rev \in Nat /\ sessions[t].rev <= nextRev
      /\ \A t \in Slug : Stored(t) => sessions[t].rev # 0
  BY FTypes
<1>1. CASE UNCHANGED sessions
  BY <1>1 DEF FinishedStays, FinishedDown
<1>2. CASE Bind
  BY <1>2, FinishedBind
<1>3. CASE Api
  <2>1. ASSUME NEW t \in Slug, NEW pair, sessions' = [sessions EXCEPT ![t] = Fresh(pair)]
        PROVE  FinishedStays(s)
    <3>1. sessions'[s] = sessions[s] \/ sessions'[s].rev = nextRev + 1
      BY <1>0, <2>1 DEF Fresh
    <3>2. sessions[s].rev # nextRev + 1
      BY <1>0
    <3>3. QED
      BY <3>1, <3>2 DEF FinishedStays, FinishedDown
  <2>2. ASSUME NEW t \in Slug, Delete(t) PROVE FinishedStays(s)
    <3>1. sessions'[s] = sessions[s] \/ sessions'[s] = NoSession
      BY <1>0, <2>2 DEF Delete
    <3>2. QED
      BY <1>0, <3>1 DEF FinishedStays, FinishedDown, Stored, NoSession
  <2>3. QED
    BY <1>3, <2>1, <2>2 DEF Api, ApiStep, Create, updateLangs
<1>4. ASSUME NEW g \in Gens, NEW st \in RuntimeState,
             setRuntime(lanes[g].slug, lanes[g].rev, g, st)
      PROVE  FinishedStays(s)
  <2>1. lanes[g].slug \in Slug /\ sessions[lanes[g].slug].state # "finished"
    BY <1>4, FTypes DEF setRuntime, setAccepted, validRuntimeTransition
  <2>2. s = lanes[g].slug \/ sessions'[s] = sessions[s]
    BY <1>0, <1>4, <2>1 DEF setRuntime
  <2>3. QED
    BY <2>1, <2>2 DEF FinishedStays, FinishedDown
<1>5. CASE Environment /\ ~Api
  BY <1>1, <1>5 DEF Environment, Reconfigure, RecordPush, RetryDue, Shutdown, SubscriptionEnds,
     Unregister, CloseEvents, storeVars
<1>6. CASE (LoopSelect \/ LoopWorks) /\ ~Bind
  <2>1. UNCHANGED sessions
    <3>1. CASE LoopSelect
      BY <3>1 DEF LoopSelect, TakeEvent, Tick, TakeReload, EventsClosed, storeVars
    <3>2. CASE LoopWorks
      BY <1>6, <3>2 DEF LoopWorks, RunSubscribe, Subscribe, RunList, BootVisit, Heal, Sweep,
         Replace, CleanStored, Orphans, Reconfigurable, ScanDone, DeletedGet, SyncCurrent, Stop,
         LaunchRefused, Launch, Halt, HaltWait, Clean, StopAll, AwaitLanes, CleanList,
         RunReturns, storeVars
    <3>3. QED
      BY <1>6, <3>1, <3>2
  <2>2. QED
    BY <1>1, <2>1
<1>7. ASSUME NEW g \in Gens, LaneWorks(g) \/ LaneMedia(g) PROVE FinishedStays(s)
  <2>1. \/ UNCHANGED sessions
        \/ \E st \in RuntimeState : setRuntime(lanes[g].slug, lanes[g].rev, g, st)
    BY <1>7 DEF LaneWorks, LaneMedia, LaneEnter, abandonLane, LanePreStart, LaneCancelReturn,
       LaneFinished, LaneErrored, LaneFailed, scheduleRetry, forget, LaneCloses, LanePublish,
       LaneAnnounce, LaneSourceEnds, LaneDrained, LaneFails, LaneMoves, RuntimeState, storeVars
  <2>2. QED
    BY <1>1, <1>4, <2>1
<1>8. CASE UNCHANGED vars
  BY <1>1, <1>8 DEF vars, storeVars
<1>9. QED
  BY <1>2, <1>3, <1>5, <1>6, <1>7, <1>8 DEF Next

\* A scan goes on from where it is.
LEMMA VisitsBegin ==
  ASSUME loop \in Loop,
         NEW s \in Slug, BootVisit(s) \/ Heal(s) \/ Sweep(s) \/ Replace(s) \/ CleanStored(s)
  PROVE  /\ loop'.back = loop.back
         /\ loop'.pc \in {"boot", "heal", "sweep", "replace", "launch", "stop", "halt", "cleanStored"}
<1>1. \/ \E pc \in {"launch", "stop", "halt"} : \E n, b : Visit(s, pc, n, b)
      \/ Skip(s) /\ loop.pc \in {"heal", "replace", "cleanStored"}
  BY Zenon DEF BootVisit, Heal, Sweep, Replace, CleanStored
<1>2. QED
  BY <1>1 DEF Visit, Skip, Loop

\* Nor does the loop take it up: what it replaces it has read as restartable.
LEMMA FinishedLeft ==
  ASSUME FInv, [Next]_vars, NEW s \in Slug, FinishedDown(s)
  PROVE  ~Replacing(s)'
<1>0. loop \in Loop /\ Stored(s) /\ sessions[s].state = "finished" /\ ~Replacing(s)
  BY FTypes DEF FinishedDown
<1>a. /\ loop.pc \in ScanPc => loop.back = loop.pc
      /\ loop.pc \in {"deleted", "sync", "idle"} => loop.back = "idle"
  BY FTypes DEF ScanHolds
<1> SUFFICES ASSUME Replacing(s)' PROVE FALSE
  OBVIOUS
<1>1. loop'.back = "replace" /\ loop'.slug = s /\ loop'.pc \in {"stop", "launch", "bind"}
  BY DEF Replacing
<1>2. CASE UNCHANGED loop
  BY <1>0, <1>2 DEF Replacing
<1>3. CASE LoopSelect
  <2>1. CASE TakeEvent
    <3>1. loop' = loop \/ loop'.pc \in {"deleted", "sync"}
      BY <1>0, <2>1 DEF TakeEvent, Loop
    <3>2. QED
      BY <1>1, <1>2, <3>1
  <2>2. CASE Tick \/ TakeReload \/ EventsClosed
    <3>1. CASE Tick
      <4>1. loop'.pc = "heal"
        BY <3>1 DEF Tick, Scan, At
      <4>2. QED
        BY <1>1, <4>1
    <3>2. CASE TakeReload
      BY <1>1, <3>2 DEF TakeReload, At
    <3>3. CASE EventsClosed
      BY <1>1, <3>3 DEF EventsClosed, At
    <3>4. QED
      BY <2>2, <3>1, <3>2, <3>3
  <2>3. QED
    BY <1>3, <2>1, <2>2 DEF LoopSelect
<1>4. CASE LoopWorks
  <2>1. CASE RunSubscribe \/ RunList \/ Orphans \/ Reconfigurable \/ ScanDone
    <3>1. CASE RunSubscribe
      BY <1>0, <1>1, <3>1 DEF RunSubscribe, Goto, Loop
    <3>2. CASE RunList \/ Orphans \/ Reconfigurable \/ ScanDone
      <4>1. loop'.pc \in {"boot", "sweep", "replace", "idle"}
        <5>1. CASE RunList
          BY <5>1 DEF RunList, Scan, At
        <5>2. CASE Orphans
          BY <5>2 DEF Orphans, Scan, At
        <5>3. CASE Reconfigurable
          BY <5>3 DEF Reconfigurable, Scan, At
        <5>4. CASE ScanDone
          BY <5>4 DEF ScanDone, At
        <5>5. QED
          BY <3>2, <5>1, <5>2, <5>3, <5>4
      <4>2. QED
        BY <1>1, <4>1
    <3>3. QED
      BY <2>1, <3>1, <3>2
  <2>2. CASE \E t \in Slug : Replace(t)
    <3>1. PICK t \in Slug : Replace(t)
      BY <2>2
    <3>2. loop.pc = "replace"
      BY <3>1 DEF Replace
    <3>3. loop'.slug = t
      BY <1>0, <1>1, <3>1, <3>2 DEF Replace, Visit, Skip, Loop
    <3>4. t = s
      BY <1>1, <3>3
    <3>5. QED
      BY <1>0, <1>1, <3>1, <3>2, <3>4 DEF Replace, Skip, restartable, Loop
  <2>3. CASE \E t \in Slug : BootVisit(t) \/ Heal(t) \/ Sweep(t) \/ CleanStored(t)
    <3>1. PICK t \in Slug : BootVisit(t) \/ Heal(t) \/ Sweep(t) \/ CleanStored(t)
      BY <2>3
    <3>2. CASE BootVisit(t) \/ Heal(t) \/ Sweep(t)
      <4>1. loop.pc \in {"boot", "heal", "sweep"}
        BY <3>2 DEF BootVisit, Heal, Sweep
      <4>2. loop'.back = loop.back
        BY <1>0, <3>2, VisitsBegin
      <4>3. QED
        BY <1>1, <1>a, <4>1, <4>2 DEF ScanPc
    <3>3. CASE CleanStored(t)
      BY <1>0, <1>1, <3>3 DEF CleanStored, Skip, Loop
    <3>4. QED
      BY <3>1, <3>2, <3>3
  <2>4. CASE DeletedGet \/ SyncCurrent
    <3>1. loop.back = "idle" /\ loop'.back = loop.back
      BY <1>0, <1>a, <2>4 DEF DeletedGet, SyncCurrent, Goto, Loop
    <3>2. QED
      BY <1>1, <3>1
  <2>5. CASE Stop \/ Launch
    BY <1>0, <1>1, <2>5 DEF Stop, Launch, Goto, Replacing, Loop
  <2>6. CASE LaunchRefused \/ Bind \/ Clean
    <3>1. loop' = At("idle") \/ loop'.pc = loop.back
      BY <1>0, <2>6 DEF LaunchRefused, Bind, Clean, EndVisit, At
    <3>2. loop.back \in ScanPc
      BY <1>0 DEF Loop
    <3>3. QED
      BY <1>1, <3>1, <3>2 DEF At, ScanPc
  <2>7. CASE Halt \/ HaltWait
    BY <1>0, <1>1, <2>7 DEF Halt, HaltWait, Goto, Loop
  <2>8. CASE StopAll \/ AwaitLanes \/ CleanList \/ RunReturns
    BY <1>0, <1>1, <2>8 DEF StopAll, AwaitLanes, CleanList, RunReturns, Goto, Scan, At, Loop
  <2>9. QED
    BY <1>4, <2>1, <2>2, <2>3, <2>4, <2>5, <2>6, <2>7, <2>8 DEF LoopWorks
<1>5. CASE Environment
  BY <1>2, <1>5 DEF Environment, Api, Reconfigure, RecordPush, RetryDue, Shutdown, SubscriptionEnds, runtimeVars
<1>6. ASSUME NEW g \in Gens, LaneWorks(g) \/ LaneMedia(g) PROVE FALSE
  <2>1. UNCHANGED loop
    BY <1>6 DEF LaneWorks, LaneMedia, LaneEnter, abandonLane, LanePreStart, LaneCancelReturn,
       LaneFinished, LaneErrored, LaneFailed, scheduleRetry, forget, LaneCloses, LanePublish,
       LaneAnnounce, LaneSourceEnds, LaneDrained, LaneFails, LaneMoves
  <2>2. QED
    BY <1>2, <2>1
<1>7. CASE UNCHANGED vars
  BY <1>2, <1>7 DEF vars, runtimeVars
<1>8. QED
  BY <1>3, <1>4, <1>5, <1>6, <1>7 DEF Next

\* Remembered routes are forgotten only as RestartsKeepPushRoutes allows.
LEMMA RoutesStep ==
  ASSUME FInv, [Next]_vars, NEW s \in Slug
  PROVE  RoutesStay(s)
<1>0. /\ intents \in [Slug -> Nat]
      /\ \A t \in Slug : Stored(t) => sessions[t].rev # 0
      /\ \A g \in Gens : lanes[g].slug \in Slug
  BY FTypes DEF TInv, TypeOK
<1>1. CASE UNCHANGED intents
  BY <1>0, <1>1 DEF RoutesStay
<1>2. CASE \E t \in Slug : RecordPush(t)
  BY <1>0, <1>2 DEF RecordPush, RoutesStay
<1>3. CASE Clean \/ \E t \in Slug : CleanStored(t)
  BY <1>3 DEF Clean, CleanStored, RoutesStay
<1>4. CASE \E g \in Gens : LaneDrained(g)
  <2>1. PICK g \in Gens : LaneDrained(g)
    BY <1>4
  <2>2. CASE lanes[g].slug = s
    BY <2>1, <2>2 DEF LaneDrained, RoutesStay
  <2>3. CASE lanes[g].slug # s
    <3>1. intents'[s] = intents[s]
      BY <1>0, <2>1, <2>3 DEF LaneDrained
    <3>2. QED
      BY <1>0, <3>1 DEF RoutesStay
  <2>4. QED
    BY <2>2, <2>3
<1>5. CASE Environment /\ ~ \E t \in Slug : RecordPush(t)
  BY <1>1, <1>5 DEF Environment, Api, Reconfigure, RetryDue, Shutdown, SubscriptionEnds, runtimeVars
<1>6. CASE (LoopSelect \/ LoopWorks) /\ ~Clean /\ ~ \E t \in Slug : CleanStored(t)
  <2>1. UNCHANGED intents
    <3>1. CASE LoopSelect
      BY <3>1 DEF LoopSelect, TakeEvent, Tick, TakeReload, EventsClosed
    <3>2. CASE LoopWorks
      BY <1>6, <3>2 DEF LoopWorks, RunSubscribe, RunList, BootVisit, Heal, Sweep,
         Replace, Orphans, Reconfigurable, ScanDone, DeletedGet, SyncCurrent, Stop,
         LaunchRefused, Launch, Bind, Halt, HaltWait, StopAll, AwaitLanes, CleanList, RunReturns
    <3>3. QED
      BY <1>6, <3>1, <3>2
  <2>2. QED
    BY <1>1, <2>1
<1>7. ASSUME NEW g \in Gens, LaneWorks(g) \/ LaneMedia(g), ~LaneDrained(g) PROVE RoutesStay(s)
  <2>1. UNCHANGED intents
    BY <1>7 DEF LaneWorks, LaneMedia, LaneEnter, abandonLane, LanePreStart, LaneCancelReturn,
       LaneFinished, LaneErrored, LaneFailed, scheduleRetry, forget, LaneCloses, LanePublish,
       LaneAnnounce, LaneSourceEnds, LaneFails, LaneMoves
  <2>2. QED
    BY <1>1, <2>1
<1>8. CASE UNCHANGED vars
  BY <1>1, <1>8 DEF vars, runtimeVars
<1>9. QED
  BY <1>2, <1>3, <1>4, <1>5, <1>6, <1>7, <1>8 DEF Next

\* runtime.go forget/reconcile and LaneOutputs: what the runtime starts again is due.
\* A source that finished stays down until its definition changes, and no reload takes
\* it up that was not replacing its lane already; and push routes outlive every restart.
THEOREM RestartsKeepToWhatIsDue == Spec => RestartsAreDue
<1>1. FInv /\ [Next]_vars =>
        [\A s \in Slug : FinishedDown(s) /\ sessions'[s].rev = sessions[s].rev => FinishedDown(s)']_vars
  <2> SUFFICES ASSUME FInv, [Next]_vars, NEW s \in Slug, FinishedDown(s), sessions'[s].rev = sessions[s].rev
               PROVE  FinishedDown(s)'
    OBVIOUS
  <2>1. sessions'[s].state = "finished"
    BY FinishedStep DEF FinishedStays
  <2>2. Stored(s)'
    BY <2>1 DEF Stored, NoSession
  <2>3. QED
    BY <2>1, <2>2, FinishedLeft DEF FinishedDown
<1>2. FInv /\ [Next]_vars => [\A s \in Slug : RoutesStay(s)]_vars
  BY RoutesStep
<1>3. Spec => FinishedStaysDown
  BY <1>1, RestartInvariant, PTL DEF Spec, FinishedStaysDown
<1>4. Spec => RestartsKeepPushRoutes
  BY <1>2, RestartInvariant, PTL DEF Spec, RestartsKeepPushRoutes, RoutesStay
<1>5. QED
  BY <1>3, <1>4 DEF RestartsAreDue

-----------------------------------------------------------------------------
(* Why a session shown as running has a lane at work, until a reload.  The *)
(* loop cancels the lanes of definitions that are gone, and binds what it  *)
(* launches, so that the lane a status is about is the registered one and  *)
(* leaves only with a word of its own.                                     *)

AtItsWork == {"announced", "drain", "finish", "error", "fail"}

\* The loop is on a reload's way only after a signal, and stops all lanes only when
\* the context has ended.
NothingUnasked ==
  /\ reloads = 0 => ~reload /\ loop.back # "replace" /\ loop.pc # "filter"
  /\ sub \in {"removed", "closed"} \/ loop.pc = "stopAll" => ctxDone

\* What the loop is about to bind is the registered lane; no status names it yet,
\* and nobody told it to stop.
LaunchedIsRegistered ==
  loop.pc = "bind" =>
    /\ reg[loop.slug].gen = loop.gen /\ sessions[loop.slug].gen # loop.gen
    /\ ~lanes[loop.gen].cancelled

\* The lane registered for the current definition is bound to it.
RegisteredIsBound ==
  \A s \in Slug :
    Stored(s) /\ reg[s].rev = sessions[s].rev =>
      sessions[s].gen = reg[s].gen \/ (loop.pc = "bind" /\ loop.slug = s)

\* Lane g, bound to a session in state st, was not told to stop, and has not gone
\* without a word.
Attends(l, st) ==
  /\ l.cancelled => l.pc \in {"close", "closed"}
  /\ st = "running" => l.pc \in AtItsWork

BoundIsLive ==
  reloads = 0 /\ ~ctxDone =>
    \A s \in Slug :
      Stored(s) /\ sessions[s].gen # 0 => Attends(lanes[sessions[s].gen], sessions[s].state)

Attended == NothingUnasked /\ LaunchedIsRegistered /\ RegisteredIsBound /\ BoundIsLive

LInv == FInv /\ Attended

\* The lane bound to a session is one of its slug, of its revision and of its past.
LEMMA BoundLane ==
  ASSUME FInv, NEW s \in Slug, Stored(s), sessions[s].gen # 0
  PROVE  /\ sessions[s].gen \in Gens
         /\ lanes[sessions[s].gen].slug = s /\ lanes[sessions[s].gen].rev = sessions[s].rev
BY FTypes DEF SInv, StatusIsTheLanes, StoredSlugs

\* A registration is no younger than the revisions given out.
LEMMA RegisteredLane ==
  ASSUME FInv, NEW s \in Slug
  PROVE  /\ reg[s].rev \in Nat /\ reg[s].rev <= nextRev
         /\ reg[s] # NoReg => /\ reg[s].gen \in Gens /\ lanes[reg[s].gen].slug = s
                              /\ lanes[reg[s].gen].rev = reg[s].rev
<1>1. CASE reg[s] = NoReg
  BY <1>1, FTypes DEF NoReg
<1>2. CASE reg[s] # NoReg
  <2>1. reg[s].gen \in LanesOf(s)
    BY <1>2, FTypes DEF OInv, LaneOrder, RegistrationIsYoungest
  <2>2. reg[s].gen \in Gens /\ lanes[reg[s].gen].slug = s /\ lanes[reg[s].gen].rev = reg[s].rev
    BY <1>2, <2>1, FTypes DEF LanesOf, RegHolds
  <2>3. QED
    BY <2>2, FTypes DEF LanesAge
<1>3. QED
  BY <1>1, <1>2

\* The loop asks for nothing by itself.
LEMMA UnaskedStep ==
  ASSUME FInv, NothingUnasked, [Next]_vars
  PROVE  NothingUnasked'
<1> USE DEF NothingUnasked
<1> DEFINE ScansOn == /\ loop'.pc \in {"boot", "sweep", "replace", "idle"}
                      /\ loop'.back = "replace" => loop.pc = "filter"
<1>0. reloads \in Nat /\ loop \in Loop
  BY FTypes DEF TInv, TypeOK
<1>1. CASE Environment
  BY <1>0, <1>1 DEF Environment, Api, ApiStep, Create, updateLangs, Delete, Reconfigure, RecordPush,
     RetryDue, Shutdown, SubscriptionEnds, Unregister, CloseEvents, storeVars, runtimeVars
<1>2. CASE LoopSelect
  <2>1. CASE TakeEvent
    <3>1. /\ UNCHANGED <<sub, ctxDone, reload, reloads>>
          /\ loop'.back = loop.back /\ loop'.pc \notin {"filter", "stopAll"}
      BY <1>0, <2>1 DEF TakeEvent, Loop
    <3>2. QED
      BY <3>1
  <2>2. CASE Tick
    BY <2>2 DEF Tick, Scan, At, storeVars
  <2>3. CASE TakeReload
    BY <1>0, <2>3 DEF TakeReload, At, storeVars
  <2>4. CASE EventsClosed
    BY <2>4 DEF EventsClosed, At, storeVars
  <2>5. QED
    BY <1>2, <2>1, <2>2, <2>3, <2>4 DEF LoopSelect
<1>3. CASE LoopWorks
  <2>1. CASE RunSubscribe \/ RunList \/ Orphans \/ Reconfigurable \/ ScanDone
    <3>1. UNCHANGED <<ctxDone, reload, reloads>> /\ (sub' = sub \/ sub' = "open")
      BY <2>1 DEF RunSubscribe, Subscribe, RunList, Orphans, Reconfigurable, ScanDone, storeVars
    <3>2. (loop'.pc = "list" /\ loop'.back = loop.back) \/ ScansOn
      <4>1. CASE RunSubscribe
        BY <1>0, <4>1 DEF RunSubscribe, Goto, Loop
      <4>2. CASE RunList
        BY <4>2 DEF RunList, Scan, At
      <4>3. CASE Orphans
        BY <4>3 DEF Orphans, Scan, At
      <4>4. CASE Reconfigurable
        BY <4>4 DEF Reconfigurable, Scan, At
      <4>5. CASE ScanDone
        BY <4>5 DEF ScanDone, At
      <4>6. QED
        BY <2>1, <4>1, <4>2, <4>3, <4>4, <4>5
    <3>3. QED
      BY <3>1, <3>2
  <2>2. CASE \/ \E s \in Slug : BootVisit(s) \/ Heal(s) \/ Sweep(s) \/ Replace(s) \/ CleanStored(s)
             \/ DeletedGet \/ SyncCurrent \/ Stop \/ Launch \/ Halt \/ HaltWait
    <3>1. UNCHANGED <<sub, ctxDone, reload, reloads>>
      BY <2>2 DEF BootVisit, Heal, Sweep, Replace, CleanStored, DeletedGet, SyncCurrent, Stop, Launch,
         Halt, HaltWait, storeVars
    <3>2. /\ loop'.pc \notin {"filter", "stopAll"} /\ loop'.back = loop.back
      <4>1. CASE \E s \in Slug : BootVisit(s) \/ Heal(s) \/ Sweep(s) \/ Replace(s) \/ CleanStored(s)
        BY <1>0, <4>1, VisitsBegin
      <4>2. CASE DeletedGet \/ SyncCurrent
        BY <1>0, <4>2 DEF DeletedGet, SyncCurrent, Goto, Loop
      <4>3. CASE Stop \/ Launch
        BY <1>0, <4>3 DEF Stop, Launch, Goto, Loop
      <4>4. CASE Halt \/ HaltWait
        BY <1>0, <4>4 DEF Halt, HaltWait, Goto, Loop
      <4>5. QED
        BY <2>2, <4>1, <4>2, <4>3, <4>4
    <3>3. QED
      BY <3>1, <3>2
  <2>3. CASE LaunchRefused \/ Bind \/ Clean
    <3>1. EndVisit
      BY <2>3 DEF LaunchRefused, Bind, Clean
    <3>2. loop'.pc \in ScanPc /\ loop'.back = loop.back
      <4>1. CASE loop.back = "idle"
        BY <1>0, <3>1, <4>1 DEF EndVisit, At, ScanPc
      <4>2. CASE loop.back # "idle"
        BY <1>0, <3>1, <4>2 DEF EndVisit, At, Loop
      <4>3. QED
        BY <4>1, <4>2
    <3>3. UNCHANGED <<sub, ctxDone, reload, reloads>>
      BY <2>3 DEF LaunchRefused, Bind, Clean, bindRuntime, storeVars
    <3>4. QED
      BY <3>2, <3>3 DEF ScanPc
  <2>4. CASE StopAll \/ AwaitLanes \/ CleanList \/ RunReturns
    <3>1. CASE StopAll
      BY <1>0, <3>1 DEF StopAll, Goto, At, storeVars, Loop
    <3>2. CASE AwaitLanes
      BY <1>0, <3>2 DEF AwaitLanes, Goto, At, storeVars, Loop
    <3>3. CASE CleanList
      BY <1>0, <3>3 DEF CleanList, Goto, At, storeVars, Loop
    <3>4. CASE RunReturns
      BY <1>0, <3>4 DEF RunReturns, Goto, At, storeVars, Loop
    <3>5. QED
      BY <2>4, <3>1, <3>2, <3>3, <3>4
  <2>5. QED
    BY <1>3, <2>1, <2>2, <2>3, <2>4 DEF LoopWorks
<1>4. ASSUME NEW g \in Gens, LaneWorks(g) \/ LaneMedia(g) PROVE NothingUnasked'
  <2>1. UNCHANGED <<loop, sub, ctxDone, reload, reloads>>
    <3>1. CASE LaneWorks(g)
      BY <3>1 DEF LaneWorks, LaneEnter, abandonLane, LanePreStart, LaneCancelReturn, LaneFinished,
         LaneErrored, LaneFailed, scheduleRetry, forget, LaneCloses, LaneMoves, setRuntime, storeVars
    <3>2. CASE LaneMedia(g)
      BY <3>2 DEF LaneMedia, LanePublish, LaneAnnounce, LaneSourceEnds, LaneDrained, LaneFails,
         LaneMoves, setRuntime, storeVars
    <3>3. QED
      BY <1>4, <3>1, <3>2
  <2>2. QED
    BY <2>1
<1>5. CASE UNCHANGED vars
  BY <1>5 DEF vars, storeVars, runtimeVars
<1>6. QED
  BY <1>1, <1>2, <1>3, <1>4, <1>5 DEF Next

\* What a step of a lane or of the environment does to a session's lane: nothing, or
\* the definition is new and has none.
SessionKeeps(s) ==
  \/ sessions'[s].gen = sessions[s].gen /\ sessions'[s].rev = sessions[s].rev
  \/ sessions'[s].gen = 0 /\ (sessions'[s].rev = 0 \/ sessions'[s].rev > nextRev)

\* What the loop registered stays bound while it stands.
LEMMA BoundWhileLoopStands ==
  ASSUME FInv, LaunchedIsRegistered, RegisteredIsBound, TInv', loop' = loop,
         \A s \in Slug : SessionKeeps(s) /\ RegNamed(s),
         loop.pc = "bind" => lanes'[loop.gen] = lanes[loop.gen]
  PROVE  LaunchedIsRegistered' /\ RegisteredIsBound'
<1>1. LaunchedIsRegistered'
  <2> SUFFICES ASSUME loop.pc = "bind"
      PROVE  /\ reg'[loop.slug].gen = loop.gen /\ sessions'[loop.slug].gen # loop.gen
             /\ ~lanes'[loop.gen].cancelled
    BY DEF LaunchedIsRegistered
  <2>1. loop.slug \in Slug /\ loop.gen \in Gens
    BY FTypes DEF TInv, LoopSlugOK, VisitPc, OInv, LaneOrder, LoopHoldsALane, LanesOf
  <2>2. loop.gen # 0
    BY <2>1, FTypes
  <2>3. QED
    BY <2>1, <2>2 DEF LaunchedIsRegistered, SessionKeeps, RegNamed
<1>2. RegisteredIsBound'
  <2> SUFFICES ASSUME NEW s \in Slug, sessions'[s] # NoSession, reg'[s].rev = sessions'[s].rev
      PROVE  sessions'[s].gen = reg'[s].gen \/ (loop.pc = "bind" /\ loop.slug = s)
    BY DEF RegisteredIsBound, Stored
  <2>1. reg'[s].gen = reg[s].gen /\ reg'[s].rev = reg[s].rev
    BY DEF RegNamed
  <2>2. sessions'[s].rev # 0 /\ sessions'[s].rev \in Nat
    BY DEF TInv, TypeOK, StoreTypeOK, Session
  <2>3. sessions'[s].gen = sessions[s].gen /\ sessions'[s].rev = sessions[s].rev
    <3>1. reg[s].rev \in Nat /\ reg[s].rev <= nextRev /\ nextRev \in Nat
      BY RegisteredLane, FTypes
    <3>2. SessionKeeps(s) /\ reg'[s].rev <= nextRev
      BY <2>1, <3>1
    <3>3. ~(sessions'[s].rev > nextRev)
      BY <2>2, <3>1, <3>2
    <3>4. QED
      BY <2>2, <3>2, <3>3 DEF SessionKeeps
  <2>4. Stored(s)
    BY <2>2, <2>3 DEF Stored, NoSession
  <2>5. QED
    BY <2>1, <2>3, <2>4 DEF RegisteredIsBound
<1>3. QED
  BY <1>1, <1>2

-----------------------------------------------------------------------------
(* The lanes and the environment.                                          *)

\* A lane moves; if a status names it, it attends to its session or is done.
LEMMA LaneAttends ==
  ASSUME FInv, NEW g \in Gens, LaneWorks(g) \/ LaneMedia(g), ~ctxDone, NEW s \in Slug,
         Stored(s), sessions[s].gen = g, Attends(lanes[g], sessions[s].state)
  PROVE  Attends(lanes'[g], sessions'[s].state)
<1> USE DEF LaneStops, AtItsWork
<1>0. /\ lanes \in [Gens -> Lane] /\ lanes[g] \in Lane /\ sessions[s] \in Session
      /\ sessions \in [Slug -> Session \cup {NoSession}]
      /\ lanes[g].slug = s /\ lanes[g].rev = sessions[s].rev /\ s = lanes[g].slug
      /\ sessions[s].gen # 0
  <2>1. sessions[s].gen # 0
    BY FTypes
  <2>2. QED
    BY <2>1, FTypes, BoundLane DEF Stored
<1>1. Cancelled(g) => lanes[g].pc \in {"close", "closed"} /\ sessions[s].state # "running"
  BY DEF Cancelled, Attends
<1>2. ASSUME NEW pc \in LanePc, UNCHANGED sessions, lanes' = [lanes EXCEPT ![g].pc = pc],
             Ended(g) => pc = "closed",
             sessions[s].state = "running" => pc \in AtItsWork
      PROVE  Attends(lanes'[g], sessions'[s].state)
  <2>1. lanes'[g].pc = pc /\ lanes'[g].cancelled = lanes[g].cancelled
    BY <1>0, <1>2 DEF Lane
  <2>2. QED
    BY <1>2, <2>1 DEF Attends, Ended
<1>3. ASSUME NEW pc \in LanePc, NEW st \in RuntimeState, setRuntime(lanes[g].slug, lanes[g].rev, g, st),
             lanes' = [lanes EXCEPT ![g].pc = pc], ~Ended(g),
             st = "running" => pc \in AtItsWork
      PROVE  Attends(lanes'[g], sessions'[s].state)
  <2>1. lanes'[g].pc = pc /\ lanes'[g].cancelled = lanes[g].cancelled
    BY <1>0, <1>3 DEF Lane
  <2>2. sessions'[s].state = st
    BY <1>0, <1>3 DEF setRuntime, Session
  <2>3. QED
    BY <1>3, <2>1, <2>2 DEF Attends, Ended
<1>4. sessions[s].state \in RuntimeState /\ (sessions[s].state = "running" => lanes[g].pc \in AtItsWork)
  BY <1>0 DEF Session, Attends
<1>5. CASE \/ LaneEnter(g) \/ abandonLane(g) \/ LanePreStart(g) \/ scheduleRetry(g) \/ LaneCloses(g)
           \/ LanePublish(g)
  BY <1>1, <1>2, <1>4, <1>5 DEF LaneEnter, abandonLane, LanePreStart, scheduleRetry, LaneCloses,
     LanePublish, LaneMoves, LanePc, Ended, storeVars
<1>6. CASE LaneCancelReturn(g) \/ LaneErrored(g)
  BY <1>1, <1>2, <1>4, <1>6 DEF LaneCancelReturn, LaneErrored, LaneMoves, LanePc, Ended, storeVars
<1>7. CASE LaneSourceEnds(g) \/ LaneDrained(g) \/ LaneFails(g)
  BY <1>2, <1>4, <1>7 DEF LaneSourceEnds, LaneDrained, LaneFails, LaneMoves, LanePc, Ended, storeVars
<1>8. CASE forget(g)
  <2>1. lanes'[g].pc = "close" /\ sessions'[s].state = sessions[s].state /\ sessions[s].state # "running"
    BY <1>0, <1>4, <1>8 DEF forget, Lane, storeVars
  <2>2. QED
    BY <2>1 DEF Attends
<1>9. CASE LaneAnnounce(g)
  <2>1. lanes[g].pc = "open" /\ lanes' = [lanes EXCEPT ![g].pc = "announced"]
    BY <1>9 DEF LaneAnnounce
  <2>2. setRuntime(lanes[g].slug, lanes[g].rev, g, "running") \/ UNCHANGED sessions
    BY <1>9 DEF LaneAnnounce, storeVars
  <2>3. QED
    BY <1>2, <1>3, <2>1, <2>2 DEF LanePc, Ended, RuntimeState
<1>10. CASE LaneFinished(g)
  <2>1. lanes[g].pc = "finish" /\ lanes' = [lanes EXCEPT ![g].pc = "leave"]
    BY <1>10 DEF LaneFinished
  <2>2. \/ setRuntime(lanes[g].slug, lanes[g].rev, g, "finished")
        \/ UNCHANGED sessions /\ sessions[s].state # "running"
    BY <1>0, <1>10 DEF LaneFinished, setAccepted, validRuntimeTransition, storeVars
  <2>3. QED
    BY <1>2, <1>3, <2>1, <2>2 DEF LanePc, Ended, RuntimeState
<1>11. CASE LaneFailed(g)
  <2>1. lanes[g].pc = "fail" /\ \E pc \in {"schedule", "leave"} : lanes' = [lanes EXCEPT ![g].pc = pc]
    BY <1>11 DEF LaneFailed
  <2>2. \/ setRuntime(lanes[g].slug, lanes[g].rev, g, "failed")
        \/ UNCHANGED sessions /\ sessions[s].state # "running"
    BY <1>0, <1>11 DEF LaneFailed, setAccepted, validRuntimeTransition, storeVars
  <2>3. QED
    BY <1>2, <1>3, <2>1, <2>2 DEF LanePc, Ended, RuntimeState
<1>12. QED
  BY <1>5, <1>6, <1>7, <1>8, <1>9, <1>10, <1>11 DEF LaneWorks, LaneMedia

LEMMA AttendedLane ==
  ASSUME LInv, TInv', NEW g \in Gens, LaneWorks(g) \/ LaneMedia(g)
  PROVE  LaunchedIsRegistered' /\ RegisteredIsBound' /\ BoundIsLive'
<1>0. /\ FInv /\ LaunchedIsRegistered /\ RegisteredIsBound /\ BoundIsLive
      /\ sessions \in [Slug -> Session \cup {NoSession}] /\ lanes \in [Gens -> Lane]
      /\ lanes[g].slug \in Slug
  BY FTypes DEF LInv, Attended
<1>1. /\ loop' = loop /\ UNCHANGED <<reloads, ctxDone>>
      /\ lanes[g].pc # "new" /\ \A h \in Gens : h # g => lanes'[h] = lanes[h]
  BY <1>0 DEF LaneWorks, LaneMedia, LaneEnter, abandonLane, LanePreStart, LaneCancelReturn,
     LaneFinished, LaneErrored, LaneFailed, scheduleRetry, forget, LaneCloses, LanePublish,
     LaneAnnounce, LaneSourceEnds, LaneDrained, LaneFails, LaneMoves, LaneStops
<1>2. \/ UNCHANGED sessions
      \/ \E st \in RuntimeState : setRuntime(lanes[g].slug, lanes[g].rev, g, st)
  BY DEF LaneWorks, LaneMedia, LaneEnter, abandonLane, LanePreStart, LaneCancelReturn,
     LaneFinished, LaneErrored, LaneFailed, scheduleRetry, forget, LaneCloses, LanePublish,
     LaneAnnounce, LaneSourceEnds, LaneDrained, LaneFails, LaneMoves, RuntimeState, storeVars
<1> DEFINE Stays(s) ==
             /\ sessions'[s].gen = sessions[s].gen /\ sessions'[s].rev = sessions[s].rev
             /\ sessions'[s] = sessions[s] \/ (Stored(s) /\ sessions[s].gen = g)
<1>3. ASSUME NEW s \in Slug PROVE Stays(s)
  <2>1. CASE UNCHANGED sessions
    BY <2>1
  <2>2. ASSUME NEW st \in RuntimeState, setRuntime(lanes[g].slug, lanes[g].rev, g, st)
        PROVE  Stays(s)
    <3>1. sessions[lanes[g].slug] \in Session /\ sessions[lanes[g].slug].gen = g /\ Stored(lanes[g].slug)
      BY <1>0, <2>2 DEF setRuntime, setAccepted, Stored
    <3>2. QED
      BY <1>0, <2>2, <3>1 DEF setRuntime, Session
  <2>3. QED
    BY <1>2, <2>1, <2>2
<1>4. LaunchedIsRegistered' /\ RegisteredIsBound'
  <2>1. loop.pc = "bind" => lanes'[loop.gen] = lanes[loop.gen]
    BY <1>0, <1>1, FTypes DEF OInv, LaneOrder, LoopHoldsALane, LanesOf
  <2>2. QED
    BY <1>0, <1>1, <1>3, <2>1, LaneAges, BoundWhileLoopStands DEF SessionKeeps
<1>5. BoundIsLive'
  <2> SUFFICES ASSUME reloads = 0, ~ctxDone, NEW s \in Slug, sessions'[s] # NoSession, sessions'[s].gen # 0
               PROVE  Attends(lanes'[sessions'[s].gen], sessions'[s].state)
    BY <1>1 DEF BoundIsLive, Stored
  <2>1. Stored(s) /\ sessions[s].gen # 0
    BY <1>3 DEF Stored
  <2>2. sessions[s].gen \in Gens /\ Attends(lanes[sessions[s].gen], sessions[s].state)
    BY <1>0, <2>1, BoundLane DEF BoundIsLive
  <2>3. CASE sessions[s].gen = g
    BY <1>0, <1>3, <2>1, <2>2, <2>3, LaneAttends
  <2>4. CASE sessions[s].gen # g
    BY <1>1, <1>3, <2>2, <2>4
  <2>5. QED
    BY <2>3, <2>4
<1>6. QED
  BY <1>4, <1>5

\* A write leaves a definition nobody is bound to.
LEMMA AttendedEnvironment ==
  ASSUME LInv, TInv', Environment
  PROVE  LaunchedIsRegistered' /\ RegisteredIsBound' /\ BoundIsLive'
<1>0. /\ FInv /\ LaunchedIsRegistered /\ RegisteredIsBound /\ BoundIsLive
      /\ sessions \in [Slug -> Session \cup {NoSession}] /\ nextRev \in Nat /\ reloads \in Nat
  BY FTypes DEF LInv, Attended, TInv, TypeOK
<1>1. UNCHANGED <<loop, nextGen, lanes>>
  BY DEF Environment, Api, Reconfigure, RecordPush, RetryDue, Shutdown, SubscriptionEnds, runtimeVars
<1>2. (reloads' = 0 => reloads = 0) /\ (~ctxDone' => ~ctxDone)
  BY <1>0 DEF Environment, Api, Reconfigure, RecordPush, RetryDue, Shutdown, SubscriptionEnds, runtimeVars
<1> DEFINE StaysOrIsNew(s) ==
             \/ sessions'[s] = sessions[s]
             \/ sessions'[s].gen = 0 /\ (sessions'[s].rev = 0 \/ sessions'[s].rev > nextRev)
<1>3. ASSUME NEW s \in Slug PROVE StaysOrIsNew(s)
  <2>1. CASE UNCHANGED sessions
    BY <2>1
  <2>2. ASSUME NEW t \in Slug, NEW pair, sessions' = [sessions EXCEPT ![t] = Fresh(pair)]
        PROVE  StaysOrIsNew(s)
    BY <1>0, <2>2 DEF Fresh
  <2>3. ASSUME NEW t \in Slug, Delete(t) PROVE StaysOrIsNew(s)
    <3>1. sessions'[s] = sessions[s] \/ sessions'[s] = NoSession
      BY <1>0, <2>3 DEF Delete
    <3>2. QED
      BY <3>1 DEF NoSession
  <2>4. QED
    BY <2>1, <2>2, <2>3 DEF Environment, Api, ApiStep, Create, updateLangs, Reconfigure, RecordPush,
       RetryDue, Shutdown, SubscriptionEnds, Unregister, CloseEvents, storeVars
<1>4. LaunchedIsRegistered' /\ RegisteredIsBound'
  BY <1>0, <1>1, <1>3, EnvironmentAges, BoundWhileLoopStands DEF SessionKeeps
<1>5. BoundIsLive'
  BY <1>0, <1>1, <1>2, <1>3 DEF BoundIsLive, Stored
<1>6. QED
  BY <1>4, <1>5

-----------------------------------------------------------------------------
(* The loop.                                                               *)

\* It registers what it launches, younger than any lane a status names,
LEMMA AttendedLaunch ==
  ASSUME LInv, TInv', Launch
  PROVE  LaunchedIsRegistered' /\ RegisteredIsBound' /\ BoundIsLive'
<1> DEFINE s == loop.slug
           n == nextGen + 1
<1>0. /\ FInv /\ RegisteredIsBound /\ BoundIsLive /\ nextGen \in Nat /\ s \in Slug /\ loop.pc # "bind"
      /\ reg \in [Slug -> Reg \cup {NoReg}] /\ loop \in Loop
  BY FTypes DEF LInv, Attended, TInv, LoopSlugOK, VisitPc, Launch
<1>1. UNCHANGED <<sessions, reloads, ctxDone>> /\ nextGen' = n
  BY DEF Launch, storeVars
<1>2. loop'.pc = "bind" /\ loop'.slug = s /\ loop'.gen = n
  BY <1>0 DEF Launch, Loop
<1>3. reg'[s].gen = n /\ \A t \in Slug : t # s => reg'[t] = reg[t]
  BY <1>0 DEF Launch
<1>4. ~lanes'[n].cancelled /\ \A g \in Gens : lanes'[g] = lanes[g]
  BY <1>0 DEF Launch
<1>5. \A t \in Slug : Stored(t) /\ sessions[t].gen # 0 => sessions[t].gen \in Gens
  BY <1>0, BoundLane
<1>6. sessions[s].gen # n
  <2>1. CASE Stored(s)
    BY <1>0, <1>5, <2>1
  <2>2. CASE ~Stored(s)
    BY <1>0, <2>2 DEF Stored, NoSession
  <2>3. QED
    BY <2>1, <2>2
<1>7. LaunchedIsRegistered'
  BY <1>1, <1>2, <1>3, <1>4, <1>6 DEF LaunchedIsRegistered
<1>8. RegisteredIsBound'
  BY <1>0, <1>1, <1>2, <1>3 DEF RegisteredIsBound, Stored
<1>9. BoundIsLive'
  BY <1>0, <1>1, <1>4, <1>5 DEF BoundIsLive, Stored
<1>10. QED
  BY <1>7, <1>8, <1>9

\* and binds it, unless the definition it was launched for is no more.
LEMMA AttendedBind ==
  ASSUME LInv, TInv', Bind
  PROVE  LaunchedIsRegistered' /\ RegisteredIsBound' /\ BoundIsLive'
<1> DEFINE s == loop.slug
           g == loop.gen
<1>0. /\ FInv /\ LaunchedIsRegistered /\ RegisteredIsBound /\ BoundIsLive /\ s \in Slug /\ loop.pc = "bind"
      /\ sessions \in [Slug -> Session \cup {NoSession}] /\ lanes \in [Gens -> Lane] /\ nextGen \in Nat
  BY FTypes DEF LInv, Attended, TInv, LoopSlugOK, VisitPc, Bind
<1>1. /\ g \in Gens /\ lanes[g].slug = s /\ g # 0 /\ reg[s].gen = g /\ sessions[s].gen # g
      /\ ~lanes[g].cancelled
  BY <1>0, FTypes DEF OInv, LaneOrder, LoopHoldsALane, LanesOf, LaunchedIsRegistered
<1>2. reg[s] # NoReg /\ lanes[g].rev = reg[s].rev
  BY <1>0, <1>1, RegisteredLane DEF NoReg
<1>3. UNCHANGED <<reg, nextGen, reloads, ctxDone>>
  BY DEF Bind
<1>4. loop'.pc # "bind"
  BY <1>0, FTypes, EndVisitType DEF Bind, ScanPc
<1>5. \A h \in Gens : h # g => lanes'[h] = lanes[h]
  BY <1>0, <1>1 DEF Bind
<1>6. \A t \in Slug : Stored(t) /\ sessions[t].gen # 0 => sessions[t].gen \in Gens /\ sessions[t].gen # g
  BY <1>0, <1>1, BoundLane
<1>7. LaunchedIsRegistered'
  BY <1>4 DEF LaunchedIsRegistered
<1>8. CASE bindRuntime(s, lanes[g].rev, g) /\ lanes' = [lanes EXCEPT ![g].pc = "await"]
  <2>1. sessions[s] \in Session
    BY <1>0, <1>8 DEF bindRuntime, bindAccepted, Stored
  <2>2. /\ sessions'[s].gen = g /\ sessions'[s].state = "starting"
        /\ \A t \in Slug : t # s => sessions'[t] = sessions[t]
    BY <1>0, <1>8, <2>1 DEF bindRuntime, Session
  <2>3. ~lanes'[g].cancelled
    BY <1>0, <1>1, <1>8 DEF Lane
  <2>4. RegisteredIsBound'
    BY <1>0, <1>1, <1>3, <2>2 DEF RegisteredIsBound, Stored
  <2>5. BoundIsLive'
    BY <1>0, <1>3, <1>5, <1>6, <2>2, <2>3 DEF BoundIsLive, Attends, Stored
  <2>6. QED
    BY <1>7, <2>4, <2>5
<1>9. CASE ~bindAccepted(s, lanes[g].rev, g) /\ UNCHANGED sessions
  <2>1. Stored(s) => sessions[s].rev # lanes[g].rev
    <3>1. Stored(s) /\ sessions[s].rev = lanes[g].rev => ~(g > sessions[s].gen)
      BY <1>9 DEF bindAccepted
    <3>2. Stored(s) => sessions[s].gen < g
      <4>1. CASE Stored(s) /\ sessions[s].gen # 0
        <5>1. sessions[s].gen \in LanesOf(s)
          BY <1>0, <4>1, BoundLane DEF LanesOf
        <5>2. sessions[s].gen <= g
          BY <1>0, <1>1, <1>2, <5>1, FTypes DEF OInv, LaneOrder, RegistrationIsYoungest
        <5>3. QED
          BY <1>0, <1>1, <1>6, <4>1, <5>2
      <4>2. CASE sessions[s].gen = 0
        BY <1>0, <1>1, <4>2
      <4>3. QED
        BY <4>1, <4>2
    <3>3. g \in Nat /\ sessions[s].gen \in Nat
      BY <1>0, <1>1 DEF Session, NoSession
    <3>4. QED
      BY <3>1, <3>2, <3>3
  <2>2. RegisteredIsBound'
    BY <1>0, <1>1, <1>2, <1>3, <1>9, <2>1 DEF RegisteredIsBound, Stored
  <2>3. BoundIsLive'
    BY <1>0, <1>3, <1>5, <1>6, <1>9 DEF BoundIsLive, Stored
  <2>4. QED
    BY <1>7, <2>2, <2>3
<1>10. QED
  BY <1>8, <1>9 DEF Bind, storeVars

\* A lane it cancels is of a definition that is gone, until the context ends.
LEMMA CancelsTheOld ==
  ASSUME LInv, Stop \/ Halt, reloads = 0, NEW t \in Slug, Stored(t), sessions[t].gen # 0
  PROVE  lanes'[sessions[t].gen] = lanes[sessions[t].gen]
<1> DEFINE s == loop.slug
           g == sessions[t].gen
<1>0. /\ FInv /\ s \in Slug /\ lanes \in [Gens -> Lane] /\ loop.back # "replace"
      /\ loop \in Loop /\ loop.snap \in Session \cup {NoSession}
  BY FTypes DEF LInv, Attended, NothingUnasked, TInv, LoopSlugOK, VisitPc, Stop, Halt, Loop
<1>1. g \in Gens /\ g \in LanesOf(t) /\ lanes[g].rev = sessions[t].rev /\ lanes[g].slug = t
  BY <1>0, BoundLane DEF LanesOf
<1>2. lanes' = StopLanes(s)
  BY DEF Stop, Halt
<1>3. CASE g = reg[s].gen /\ reg[s].state = "running"
  <2>1. t = s
    BY <1>0, <1>1, <1>3, RegisteredLane DEF NoReg
  <2>2. CASE Halt
    <3>1. Unserved(s)
      BY <1>0, <2>2, FTypes DEF Halt, VisitHolds
    <3>2. lanes[g].rev < sessions[t].rev
      BY <1>1, <2>1, <3>1 DEF Unserved
    <3>3. QED
      BY <1>0, <1>1, <3>2, FTypes
  <2>3. CASE Stop
    <3>1. lanes[g].rev < loop.snap.rev /\ loop.snap.rev <= sessions[t].rev
      BY <1>0, <1>1, <2>1, <2>3, FTypes DEF Stop, VisitHolds, Current
    <3>2. loop.snap.rev \in Nat
      BY <1>0 DEF Session, NoSession
    <3>3. QED
      BY <1>0, <1>1, <3>1, <3>2, FTypes
  <2>4. QED
    BY <2>2, <2>3
<1>4. CASE ~(g = reg[s].gen /\ reg[s].state = "running")
  BY <1>0, <1>1, <1>2, <1>4 DEF StopLanes
<1>5. QED
  BY <1>3, <1>4

\* The other steps of the loop bind nothing, and registrations only go.
LEMMA LoopForgets ==
  ASSUME FInv, LoopSelect \/ LoopWorks, ~Launch, ~Bind
  PROVE  /\ loop'.pc # "bind" /\ loop.pc # "bind"
         /\ \A s \in Slug :
              reg'[s] = NoReg \/ (reg'[s].gen = reg[s].gen /\ reg'[s].rev = reg[s].rev)
<1> DEFINE Goes(s) == reg'[s] = NoReg \/ (reg'[s].gen = reg[s].gen /\ reg'[s].rev = reg[s].rev)
<1>0. loop \in Loop /\ reg \in [Slug -> Reg \cup {NoReg}] /\ (loop.pc \in VisitPc => loop.slug \in Slug)
  BY FTypes DEF TInv, LoopSlugOK
<1>1. CASE LoopSelect
  <2>1. UNCHANGED reg /\ loop.pc = "idle"
    BY <1>1 DEF LoopSelect, TakeEvent, Tick, TakeReload, EventsClosed
  <2>2. CASE TakeEvent
    BY <1>0, <2>1, <2>2 DEF TakeEvent, Loop
  <2>3. CASE Tick
    BY <2>1, <2>3 DEF Tick, Scan, At
  <2>4. CASE TakeReload
    BY <2>1, <2>4 DEF TakeReload, At
  <2>5. CASE EventsClosed
    BY <2>1, <2>5 DEF EventsClosed, At
  <2>6. QED
    BY <1>1, <2>2, <2>3, <2>4, <2>5 DEF LoopSelect
<1>2. CASE \E t \in Slug : BootVisit(t) \/ Heal(t) \/ Sweep(t) \/ Replace(t) \/ CleanStored(t)
  <2>1. UNCHANGED reg /\ loop.pc # "bind"
    BY <1>2 DEF BootVisit, Heal, Sweep, Replace, CleanStored
  <2>2. QED
    BY <1>0, <1>2, <2>1, VisitsBegin
<1>3. CASE RunSubscribe \/ DeletedGet \/ SyncCurrent \/ AwaitLanes
  BY <1>0, <1>3 DEF RunSubscribe, DeletedGet, SyncCurrent, AwaitLanes, Goto, Loop
<1>4. CASE RunList \/ Reconfigurable
  BY <1>4 DEF RunList, Reconfigurable, Scan, At
<1>5. CASE ScanDone \/ CleanList \/ RunReturns
  BY <1>5 DEF ScanDone, CleanList, RunReturns, At
<1>6. CASE LaunchRefused \/ Clean
  <2>1. UNCHANGED reg /\ loop.pc # "bind" /\ EndVisit
    BY <1>6 DEF LaunchRefused, Clean
  <2>2. QED
    BY <1>0, <2>1, EndVisitType DEF ScanPc
<1>7. CASE Stop \/ Halt
  <2>1. reg' = StopReg(loop.slug) /\ loop.pc # "bind" /\ loop'.pc # "bind" /\ loop.slug \in Slug
    BY <1>0, <1>7 DEF Stop, Halt, Goto, Loop, VisitPc
  <2>2. reg[loop.slug].state \in {"running", "exited"} => reg[loop.slug] \in Reg
    BY <1>0, <2>1 DEF NoReg
  <2>3. ASSUME NEW s \in Slug PROVE Goes(s)
    BY <1>0, <2>1, <2>2 DEF StopReg, Reg
  <2>4. QED
    BY <2>1, <2>3
<1>8. CASE HaltWait
  <2>1. loop.pc = "wait" /\ loop'.pc = "clean" /\ loop.slug \in Slug
    BY <1>0, <1>8 DEF HaltWait, Goto, Loop, VisitPc
  <2>2. ASSUME NEW s \in Slug PROVE Goes(s)
    BY <1>0, <1>8, <2>1 DEF HaltWait
  <2>3. QED
    BY <2>1, <2>2
<1>9. CASE Orphans
  <2>1. loop.pc = "heal" /\ loop'.pc = "sweep"
    BY <1>9 DEF Orphans, Scan, At
  <2>2. ASSUME NEW s \in Slug PROVE Goes(s)
    BY <1>9 DEF Orphans
  <2>3. QED
    BY <2>1, <2>2
<1>10. CASE StopAll
  BY <1>0, <1>10 DEF StopAll, Goto, Loop, NoReg, Reg
<1>11. QED
  BY <1>1, <1>2, <1>3, <1>4, <1>5, <1>6, <1>7, <1>8, <1>9, <1>10 DEF LoopWorks

LEMMA AttendedLoop ==
  ASSUME LInv, TInv', LoopSelect \/ LoopWorks, ~Launch, ~Bind
  PROVE  LaunchedIsRegistered' /\ RegisteredIsBound' /\ BoundIsLive'
<1>0. /\ FInv /\ RegisteredIsBound /\ BoundIsLive /\ lanes \in [Gens -> Lane]
      /\ sessions' \in [Slug -> Session \cup {NoSession}]
  BY FTypes DEF LInv, Attended, TInv, TypeOK, StoreTypeOK
<1>1. UNCHANGED <<sessions, nextGen>>
  BY <1>0, StatusLoop, FTypes
<1>2. LaunchedIsRegistered'
  BY <1>0, LoopForgets DEF LaunchedIsRegistered, LInv
<1>3. RegisteredIsBound'
  <2> SUFFICES ASSUME NEW s \in Slug, sessions'[s] # NoSession, reg'[s].rev = sessions'[s].rev
               PROVE  sessions'[s].gen = reg'[s].gen
    BY DEF RegisteredIsBound, Stored
  <2>1. sessions'[s].rev # 0
    BY <1>0 DEF Session
  <2>2. reg'[s].gen = reg[s].gen /\ reg'[s].rev = reg[s].rev /\ loop.pc # "bind"
    BY <1>0, <2>1, LoopForgets DEF NoReg
  <2>3. QED
    BY <1>0, <1>1, <2>2 DEF RegisteredIsBound, Stored
<1>4. BoundIsLive'
  <2> SUFFICES ASSUME reloads' = 0, ~ctxDone', NEW s \in Slug, Stored(s), sessions[s].gen # 0
               PROVE  Attends(lanes'[sessions[s].gen], sessions[s].state)
    BY <1>1 DEF BoundIsLive, Stored
  <2>1. UNCHANGED <<reloads, ctxDone>>
    BY DEF LoopSelect, LoopWorks, TakeEvent, Tick, TakeReload, EventsClosed, RunSubscribe, RunList,
       BootVisit, Heal, Sweep, Replace, CleanStored, Orphans, Reconfigurable, ScanDone, DeletedGet,
       SyncCurrent, Stop, LaunchRefused, Halt, HaltWait, Clean, StopAll, AwaitLanes, CleanList, RunReturns
  <2>2. Attends(lanes[sessions[s].gen], sessions[s].state)
    BY <1>0, <2>1 DEF BoundIsLive
  <2>3. CASE UNCHANGED lanes
    BY <2>2, <2>3
  <2>4. CASE Stop \/ Halt
    BY <2>1, <2>2, <2>4, CancelsTheOld
  <2>5. CASE StopAll
    BY <2>1, <2>5 DEF StopAll, LInv, Attended, NothingUnasked
  <2>6. QED
    BY <2>3, <2>4, <2>5 DEF LoopSelect, LoopWorks, TakeEvent, Tick, TakeReload, EventsClosed,
       RunSubscribe, RunList, BootVisit, Heal, Sweep, Replace, CleanStored, Orphans, Reconfigurable,
       ScanDone, DeletedGet, SyncCurrent, LaunchRefused, HaltWait, Clean, AwaitLanes, CleanList, RunReturns
<1>5. QED
  BY <1>2, <1>3, <1>4

LEMMA AttendedStep ==
  ASSUME LInv, FInv', [Next]_vars
  PROVE  LInv'
<1>0. TInv' /\ NothingUnasked'
  BY UnaskedStep DEF LInv, Attended, FInv, CInv, SInv, OInv
<1>1. CASE Environment
  BY <1>0, <1>1, AttendedEnvironment DEF LInv, Attended
<1>2. CASE Launch
  BY <1>0, <1>2, AttendedLaunch DEF LInv, Attended
<1>3. CASE Bind
  BY <1>0, <1>3, AttendedBind DEF LInv, Attended
<1>4. CASE (LoopSelect \/ LoopWorks) /\ ~Launch /\ ~Bind
  BY <1>0, <1>4, AttendedLoop DEF LInv, Attended
<1>5. ASSUME NEW g \in Gens, LaneWorks(g) \/ LaneMedia(g) PROVE LInv'
  BY <1>0, <1>5, AttendedLane DEF LInv, Attended
<1>6. CASE UNCHANGED vars
  BY <1>0, <1>6 DEF LInv, Attended, LaunchedIsRegistered, RegisteredIsBound, BoundIsLive, Stored,
     vars, storeVars, runtimeVars
<1>7. QED
  BY <1>1, <1>2, <1>3, <1>4, <1>5, <1>6 DEF Next

\* runtime.go launch, stop and runLane: until the configuration is reloaded, a session
\* shown as running while the loop rests has a lane at work, which is the registered
\* one and was not cancelled.  A reload can end that: the lane it stopped may leave
\* before the replacement is launched.
THEOREM RunningLanesAreLive == Spec => [](reloads = 0 => RunningIsLive)
<1>1. Init => LInv
  <2>1. Init => FInv
    BY RestartsInit, OrderInit DEF FInv, CInv, SInv, RevisionsAge, StatusIsTheLanes, StoredSlugs, Stored,
       Init, StoreInit, NoSession
  <2>2. Init => Attended
    BY DEF Init, StoreInit, At, Attended, NothingUnasked, LaunchedIsRegistered, RegisteredIsBound,
       BoundIsLive, Stored, NoSession
  <2>3. QED
    BY <2>1, <2>2 DEF LInv
<1>2. LInv => (reloads = 0 => RunningIsLive)
  <2> SUFFICES ASSUME LInv, reloads = 0, loop.pc = "idle", ~ctxDone, NEW s \in Slug, Stored(s),
                      sessions[s].state = "running"
               PROVE  LET g == sessions[s].gen
                      IN  reg[s].gen = g /\ ~lanes[g].cancelled /\ lanes[g].pc \in AtItsWork
    BY DEF RunningIsLive, StoredSlugs, AtItsWork
  <2> DEFINE g == sessions[s].gen
  <2>1. FInv /\ g # 0
    BY FTypes DEF LInv, SInv, StatusIsTheLanes, StoredSlugs
  <2>2. g \in Gens /\ lanes[g].slug = s /\ lanes[g].rev = sessions[s].rev
    BY <2>1, BoundLane
  <2>3. ~lanes[g].cancelled /\ lanes[g].pc \in AtItsWork
    BY <2>1 DEF LInv, Attended, BoundIsLive, Attends, AtItsWork
  <2>4. reg[s] # NoReg
    BY <2>1, <2>2, <2>3, FTypes DEF OInv, LaneOrder, RegistrationIsYoungest, LanesOf, Ended, AtItsWork
  <2>5. reg[s].rev = sessions[s].rev
    <3>1. lanes[g].rev <= reg[s].rev
      BY <2>1, <2>2, <2>4, FTypes DEF LanesAge
    <3>2. reg[s].gen \in Gens /\ lanes[reg[s].gen].slug = s /\ lanes[reg[s].gen].rev = reg[s].rev
      BY <2>1, <2>4, RegisteredLane
    <3>3. reg[s].rev <= sessions[s].rev
      BY <2>1, <3>2, FTypes DEF LanesAge
    <3>4. QED
      BY <2>1, <2>2, <3>1, <3>2, <3>3, FTypes
  <2>6. QED
    BY <2>3, <2>5 DEF LInv, Attended, RegisteredIsBound
<1>3. FInv /\ LInv /\ [Next]_vars /\ FInv' => LInv'
  BY AttendedStep
<1>4. QED
  BY <1>1, <1>2, <1>3, RestartInvariant, PTL DEF Spec
=============================================================================
