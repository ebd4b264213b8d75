---------------------------- MODULE DriverBundles ----------------------------
(***************************************************************************)
(* The virtual devices installed as directories (internal/devices:         *)
(* devices.go, marker.go, install_darwin.go): each payload is staged,      *)
(* activated by a rename with the previous one kept aside, and recorded by *)
(* a marker file; the audio server is restarted when an audio driver       *)
(* changed.  Payloads are release numbers, 0 meaning absent.               *)
(***************************************************************************)
EXTENDS Naturals, Sequences

CONSTANTS Kinds,       \* the devices, in install order
          AudioKinds,  \* how many of them, from the front, are audio drivers
          Releases,    \* bound: payload releases
          DriverFaults \* bound: failing steps and kills, per plan

VARIABLES dest,     \* dest[k]: the payload at the driver's path
          aside,    \* aside[k]: the payload kept in the backup directory
          marker,   \* marker[k]: the recorded digest
          payload,  \* the release this binary embeds
          work,     \* the command under way
          outcome,  \* what the last command answered
          luck      \* faults left
vars == <<dest, aside, marker, payload, work, outcome, luck>>

KindSet == {Kinds[n] : n \in DOMAIN Kinds}
Rest == [cmd |-> "none", pc |-> "idle", n |-> 1, changed |-> FALSE, had |-> 0]
Kind == Kinds[work.n]

Init ==
    /\ dest = [k \in KindSet |-> 0] /\ aside = dest /\ marker = dest
    /\ payload = 1 /\ work = Rest /\ outcome = "none" /\ luck \in DriverFaults

Slips == luck.fail > 0 /\ luck' = [luck EXCEPT !.fail = @ - 1]
Goto(pc) == work' = [work EXCEPT !.pc = pc] /\ UNCHANGED outcome
Finish(result) == work' = Rest /\ outcome' = result
Disk == <<dest, aside, marker>>

\* payloadCurrent and markerState, what install skips on and status reports.
Current(k) == marker[k] = payload /\ dest[k] # 0
Status(k) == CASE marker[k] = 0 -> "missing"
               [] marker[k] # 0 /\ marker[k] # payload -> "outdated"
               [] marker[k] = payload /\ dest[k] = 0 -> "missing"
               [] OTHER -> "installed"

Command(cmd) ==
    /\ work.pc = "idle"
    /\ work' = [Rest EXCEPT !.cmd = cmd, !.pc = "kind"]
    /\ outcome' = "none" /\ UNCHANGED <<Disk, payload, luck>>

\* The next device of the list: after the last audio driver the audio server
\* is restarted when one changed, after the last device the command ends.
NextKind(changed) ==
    LET ch == work.changed \/ changed IN
    IF work.n = AudioKinds /\ ch
      THEN work' = [work EXCEPT !.pc = "restart", !.changed = ch] /\ UNCHANGED outcome
      ELSE IF work.n # Len(Kinds)
             THEN /\ work' = [work EXCEPT !.pc = "kind", !.n = @ + 1, !.changed = ch]
                  /\ UNCHANGED outcome
             ELSE IF work.cmd = "remove" THEN Goto("clear") ELSE Finish("ok")

Skip ==
    /\ work.pc = "kind" /\ work.cmd = "install" /\ Current(Kind)
    /\ NextKind(FALSE) /\ UNCHANGED <<Disk, payload, luck>>

StagePayload ==
    /\ work.pc = "kind" /\ work.cmd = "install" /\ ~Current(Kind)
    /\ \/ Goto("backup") /\ UNCHANGED luck
       \/ Slips /\ Finish("failed")
    /\ UNCHANGED <<Disk, payload>>

BackupPayload ==
    /\ work.pc = "backup"
    /\ \/ /\ aside' = [aside EXCEPT ![Kind] = dest[Kind]]
          /\ dest' = [dest EXCEPT ![Kind] = 0]
          /\ work' = [work EXCEPT !.pc = "activate", !.had = dest[Kind]]
          /\ UNCHANGED <<outcome, luck>>
       \/ Slips /\ Finish("failed") /\ UNCHANGED <<dest, aside>>
    /\ UNCHANGED <<marker, payload>>

ActivatePayload ==
    /\ work.pc = "activate"
    /\ \/ dest' = [dest EXCEPT ![Kind] = payload] /\ Goto("mark") /\ UNCHANGED luck
       \/ Slips /\ Goto("restore") /\ UNCHANGED dest
    /\ UNCHANGED <<aside, marker, payload>>

\* writeMarker truncates before it writes: a failure may leave it empty.
Mark ==
    /\ work.pc = "mark"
    /\ \/ /\ marker' = [marker EXCEPT ![Kind] = payload]
          /\ aside' = [aside EXCEPT ![Kind] = 0]
          /\ NextKind(TRUE) /\ UNCHANGED <<dest, luck>>
       \/ /\ Slips /\ Goto("restore") /\ dest' = [dest EXCEPT ![Kind] = 0]
          /\ \E m \in {0, marker[Kind]} : marker' = [marker EXCEPT ![Kind] = m]
          /\ UNCHANGED aside
       \/ \* recorded, but a temporary directory could not be removed
          /\ Slips /\ Finish("failed") /\ UNCHANGED <<dest, aside>>
          /\ marker' = [marker EXCEPT ![Kind] = payload]
    /\ UNCHANGED payload

\* restorePayload: when it fails the backup directory is kept.
RestorePayload ==
    /\ work.pc = "restore" /\ Finish("failed")
    /\ \/ dest' = [dest EXCEPT ![Kind] = work.had] /\ aside' = [aside EXCEPT ![Kind] = 0]
          /\ UNCHANGED luck
       \/ work.had # 0 /\ Slips /\ UNCHANGED <<dest, aside>>
    /\ UNCHANGED <<marker, payload>>

\* removeAt: the path first, its marker after.
RemoveAt ==
    /\ work.pc = "kind" /\ work.cmd = "remove"
    /\ \/ /\ marker[Kind] = 0 /\ dest[Kind] = 0
          /\ NextKind(FALSE) /\ UNCHANGED <<dest, luck>>
       \/ /\ ~(marker[Kind] = 0 /\ dest[Kind] = 0)
          /\ \/ dest' = [dest EXCEPT ![Kind] = 0] /\ Goto("unmark") /\ UNCHANGED luck
             \/ Slips /\ Finish("failed") /\ UNCHANGED dest
    /\ UNCHANGED <<aside, marker, payload>>

Unmark ==
    /\ work.pc = "unmark"
    /\ \/ marker' = [marker EXCEPT ![Kind] = 0] /\ NextKind(TRUE) /\ UNCHANGED luck
       \/ Slips /\ Finish("failed") /\ UNCHANGED marker
    /\ UNCHANGED <<dest, aside, payload>>

\* restartCoreaudio: kickstart, then killall; both failing ends the command.
RestartAudio ==
    /\ work.pc = "restart"
    /\ \/ /\ IF work.n = Len(Kinds) THEN IF work.cmd = "remove" THEN Goto("clear") ELSE Finish("ok")
             ELSE work' = [work EXCEPT !.pc = "kind", !.n = @ + 1, !.changed = FALSE]
                  /\ UNCHANGED outcome
          /\ UNCHANGED luck
       \/ Slips /\ Finish("failed")
    /\ UNCHANGED <<Disk, payload>>

\* clearInstallRecords: the marker tree goes, and its parent when empty.
Clear ==
    /\ work.pc = "clear"
    /\ \/ marker' = [k \in KindSet |-> 0] /\ Finish("ok") /\ UNCHANGED luck
       \/ Slips /\ Finish("failed") /\ UNCHANGED marker
    /\ UNCHANGED <<dest, aside, payload>>

KillCommand ==
    /\ work.pc # "idle" /\ luck.kill > 0
    /\ luck' = [luck EXCEPT !.kill = @ - 1] /\ Finish("killed")
    /\ UNCHANGED <<Disk, payload>>

Upgrade ==
    /\ work.pc = "idle" /\ payload < Releases
    /\ payload' = payload + 1 /\ outcome' = "none"
    /\ UNCHANGED <<Disk, work, luck>>

Next ==
    \/ Command("install") \/ Command("remove")
    \/ Skip \/ StagePayload \/ BackupPayload \/ ActivatePayload \/ Mark
    \/ RestorePayload \/ RemoveAt \/ Unmark \/ RestartAudio \/ Clear
    \/ KillCommand \/ Upgrade

Spec == Init /\ [][Next]_vars
-----------------------------------------------------------------------------
TypeOK ==
    /\ dest \in [KindSet -> 0 .. Releases] /\ aside \in [KindSet -> 0 .. Releases]
    /\ marker \in [KindSet -> 0 .. Releases] /\ payload \in 1 .. Releases
    /\ work.n \in DOMAIN Kinds
    /\ outcome \in {"none", "ok", "failed", "killed"}

\* Status never calls a device installed when another payload, or half of a
\* rolled-back one, is at its path (markers and payloads are two writes).
InstalledIsCurrent ==
    \A k \in KindSet : work.pc = "idle" /\ Status(k) = "installed" => dest[k] = payload

\* A failed step never costs the driver that was there: it is at its path or
\* in the backup directory, whichever step failed.
PreviousSurvives ==
    work.pc \in {"activate", "mark", "restore"} /\ work.had # 0 => aside[Kind] = work.had

\* A command that reports success did all of it.
OkMeansAll ==
    outcome = "ok" => \/ \A k \in KindSet : Current(k) /\ dest[k] = payload
                      \/ \A k \in KindSet : dest[k] = 0 /\ marker[k] = 0
=============================================================================
