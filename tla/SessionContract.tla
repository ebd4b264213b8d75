--------------------------- MODULE SessionContract --------------------------
(***************************************************************************)
(* What the session store and the session runtime promise together to the  *)
(* rest of the daemon, without events, loops, registrations or channels:   *)
(*   - a session has at most one definition, numbered by its revision;     *)
(*   - its status is written on behalf of one lane incarnation at a time,  *)
(*     the owner, and ownership only moves to a younger incarnation;       *)
(*   - at most one incarnation of a session is at work, they work in the   *)
(*     order they were launched, and each works once;                      *)
(*   - "running" is reported by an owner at work, "finished" and "failed"  *)
(*     by an owner that has stopped working.                               *)
(***************************************************************************)
EXTENDS Naturals

CONSTANT Slug

VARIABLES
  rev,     \* slug -> revision of its definition, 0 if it has none
  status,  \* slug -> starting, running, finished or failed
  owner,   \* slug -> the incarnation that may report, 0 if none yet
  active,  \* slug -> the incarnations at work
  latest   \* slug -> the youngest incarnation whose turn has come

contractVars == <<rev, status, owner, active, latest>>

Init ==
  /\ rev = [s \in Slug |-> 0]
  /\ status = [s \in Slug |-> "starting"]
  /\ owner = [s \in Slug |-> 0]
  /\ active = [s \in Slug |-> {}]
  /\ latest = [s \in Slug |-> 0]

\* A created or updated definition is nobody's yet.
Define(s) ==
  /\ \E r \in {rev'[s]} : \A t \in Slug : r > rev[t]
  /\ rev' = [rev EXCEPT ![s] = rev'[s]]
  /\ status' = [status EXCEPT ![s] = "starting"]
  /\ owner' = [owner EXCEPT ![s] = 0]
  /\ UNCHANGED <<active, latest>>

\* The two ends of a call, or one session (then both are the same).
Remove(s, t) ==
  /\ rev[s] # 0 /\ rev[t] # 0
  /\ rev' = [rev EXCEPT ![s] = 0, ![t] = 0]
  /\ status' = [status EXCEPT ![s] = "starting", ![t] = "starting"]
  /\ owner' = [owner EXCEPT ![s] = 0, ![t] = 0]
  /\ UNCHANGED <<active, latest>>

Own(s) ==
  /\ rev[s] # 0
  /\ owner'[s] > owner[s]
  /\ owner' = [owner EXCEPT ![s] = owner'[s]]
  /\ status' = [status EXCEPT ![s] = "starting"]
  /\ UNCHANGED <<rev, active, latest>>

Report(s) ==
  /\ rev[s] # 0 /\ owner[s] # 0
  /\ \/ status[s] = "starting" /\ status'[s] = "running" /\ owner[s] \in active[s]
     \/ /\ status[s] \in {"starting", "running"}
        /\ status'[s] \in {"finished", "failed"}
        /\ owner[s] \notin active[s] /\ owner[s] = latest[s]
  /\ status' = [status EXCEPT ![s] = status'[s]]
  /\ UNCHANGED <<rev, owner, active, latest>>

StartWork(s) ==
  /\ active[s] = {}
  /\ latest'[s] > latest[s]
  /\ latest' = [latest EXCEPT ![s] = latest'[s]]
  /\ active' = [active EXCEPT ![s] = {latest'[s]}]
  /\ UNCHANGED <<rev, status, owner>>

\* An incarnation stopped before its turn never works.
Retire(s) ==
  /\ active[s] = {}
  /\ latest'[s] > latest[s]
  /\ latest' = [latest EXCEPT ![s] = latest'[s]]
  /\ UNCHANGED <<rev, status, owner, active>>

StopWork(s) ==
  /\ active[s] # {}
  /\ active' = [active EXCEPT ![s] = {}]
  /\ UNCHANGED <<rev, status, owner, latest>>

Next ==
  \/ \E s \in Slug : Define(s) \/ Own(s) \/ Report(s)
  \/ \E s \in Slug : StartWork(s) \/ Retire(s) \/ StopWork(s)
  \/ \E s, t \in Slug : Remove(s, t)

Spec == Init /\ [][Next]_contractVars
=============================================================================
