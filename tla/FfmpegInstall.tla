---------------------------- MODULE FfmpegInstall ----------------------------
(***************************************************************************)
(* The pinned ffmpeg build on disk (internal/media/ffmpeg/install.go): one *)
(* content-addressed directory that concurrent installers publish by a     *)
(* rename, with no lock between them.  The directory is absent, ready (the *)
(* executable, manifest, notice and licence of this build and nothing      *)
(* else) or broken.                                                        *)
(***************************************************************************)
EXTENDS Naturals

CONSTANTS Installers,  \* processes running `prukka setup`
          MaxCorrupt,  \* bound: damages done to the directory from outside
          MaxKill      \* bound: installers killed half way

VARIABLES runtimeDir,  \* the published directory
          bare,        \* an executable nobody vouches for sits in state/bin
          installer,   \* installer[i]: how far process i is
          staged,      \* staged[i]: process i has a stage directory
          abandoned,   \* stages whose process died
          damage,      \* damages done so far, the one it was found with included
          kills        \* processes killed so far
vars == <<runtimeDir, bare, installer, staged, abandoned, damage, kills>>

Init ==
    /\ runtimeDir \in {"absent", "broken"} /\ bare \in BOOLEAN
    /\ installer = [i \in Installers |-> "idle"]
    /\ staged = [i \in Installers |-> FALSE]
    /\ abandoned = 0 /\ kills = 0
    /\ damage = IF runtimeDir = "broken" THEN 1 ELSE 0

To(i, pc) == installer' = [installer EXCEPT ![i] = pc]
\* The deferred removal of the stage runs whichever way installArchive ends.
Leave(i, outcome) == To(i, outcome) /\ staged' = [staged EXCEPT ![i] = FALSE]

\* installComplete: executable, exact layout, digest and metadata all agree.
InstallComplete == runtimeDir = "ready"

\* Resolve never repairs: it names what `prukka setup` has to do.
Resolve == CASE InstallComplete -> "managed"
             [] ~InstallComplete /\ (runtimeDir = "broken" \/ bare) -> "refused"
             [] OTHER -> "path"

\* cleanupManagedInstalls: stages older than an hour and the bare executable.
Cleanup == bare' = FALSE /\ abandoned' \in 0 .. abandoned

Begin(i) ==
    /\ installer[i] \in {"idle", "done", "failed"}
    /\ \/ InstallComplete /\ To(i, "done") /\ Cleanup
       \/ ~InstallComplete /\ To(i, "download") /\ UNCHANGED <<bare, abandoned>>
       \/ To(i, "failed") /\ UNCHANGED <<bare, abandoned>>   \* a file that cannot be read
    /\ UNCHANGED <<runtimeDir, staged, damage, kills>>

\* The archive is streamed to a temporary file and hashed as it arrives; a
\* mismatch, an oversize or a transport error ends the install.
Download(i) ==
    /\ installer[i] = "download"
    /\ \E outcome \in {"unpack", "failed"} : To(i, outcome)
    /\ UNCHANGED <<runtimeDir, bare, staged, abandoned, damage, kills>>

\* The stage is made and the archive's one ffmpeg entry, of a bounded size and
\* no other, lands in it; none, two, a link or an excess is an error.
Unpack(i) ==
    /\ installer[i] = "unpack"
    /\ \/ To(i, "describe") /\ staged' = [staged EXCEPT ![i] = TRUE]
       \/ Leave(i, "failed")
    /\ UNCHANGED <<runtimeDir, bare, abandoned, damage, kills>>

\* The executable is hashed and the manifest, notice and licence are written
\* beside it, each synced: only then is the stage a build InstallComplete knows.
Describe(i) ==
    /\ installer[i] = "describe"
    /\ \/ To(i, "publish") /\ UNCHANGED staged
       \/ Leave(i, "failed")
    /\ UNCHANGED <<runtimeDir, bare, abandoned, damage, kills>>

\* A stage renamed into place; syncPublishedInstall can still fail after it.
Published(i) ==
    /\ runtimeDir = "absent" /\ runtimeDir' = "ready"
    /\ \/ Leave(i, "done") /\ Cleanup
       \/ Leave(i, "failed") /\ UNCHANGED <<bare, abandoned>>
\* publishInstall's first rename; a directory with content refuses it.
Publish(i) ==
    /\ installer[i] = "publish"
    /\ \/ Published(i)
       \/ To(i, "inspect") /\ UNCHANGED <<runtimeDir, bare, staged, abandoned>>
    /\ UNCHANGED <<damage, kills>>

\* A Inspect that goes by the refused rename alone.
InspectUnread(i) ==
    /\ installer[i] = "inspect" /\ To(i, "clear")
    /\ UNCHANGED <<runtimeDir, bare, staged, abandoned, damage, kills>>

\* Somebody else's complete install is as good as ours; what is gone or cannot be
\* read is a failure.
Inspect(i) ==
    /\ installer[i] = "inspect"
    /\ \/ InstallComplete /\ Leave(i, "done") /\ Cleanup
       \/ runtimeDir = "broken" /\ To(i, "clear") /\ UNCHANGED <<bare, staged, abandoned>>
       \/ Leave(i, "failed") /\ UNCHANGED <<bare, abandoned>>
    /\ UNCHANGED <<runtimeDir, damage, kills>>

\* RemoveAll acts on what is there now, not on what Inspect judged, and may stop
\* after the first file.
Partly == IF runtimeDir = "absent" THEN {"absent"} ELSE {runtimeDir, "broken"}
Clear(i) ==
    /\ installer[i] = "clear"
    /\ \/ runtimeDir' = "absent" /\ To(i, "activate") /\ UNCHANGED staged
       \/ runtimeDir' \in Partly /\ Leave(i, "failed")
    /\ UNCHANGED <<bare, abandoned, damage, kills>>

Activate(i) ==
    /\ installer[i] = "activate"
    /\ \/ Published(i)
       \/ Leave(i, "failed") /\ UNCHANGED <<runtimeDir, bare, abandoned>>
    /\ UNCHANGED <<damage, kills>>

Kill(i) ==
    /\ installer[i] \notin {"idle", "done", "failed"} /\ kills < MaxKill
    /\ kills' = kills + 1 /\ Leave(i, "idle")
    /\ runtimeDir' \in IF installer[i] = "clear" THEN Partly ELSE {runtimeDir}
    \* inside Unpack the stage may or may not exist yet
    /\ \E left \in {n \in 0 .. 1 : installer[i] # "unpack" => (n = 1) = staged[i]} :
         abandoned' = abandoned + left
    /\ UNCHANGED <<bare, damage>>

\* A file of the published directory is deleted or altered from outside.
Corrupt ==
    /\ runtimeDir = "ready" /\ damage < MaxCorrupt
    /\ runtimeDir' = "broken" /\ damage' = damage + 1
    /\ UNCHANGED <<bare, installer, staged, abandoned, kills>>

Next ==
    \/ \E i \in Installers :
         \/ Begin(i) \/ Download(i) \/ Unpack(i) \/ Describe(i) \/ Publish(i)
         \/ Inspect(i) \/ Clear(i) \/ Activate(i) \/ Kill(i)
    \/ Corrupt

Spec == Init /\ [][Next]_vars
-----------------------------------------------------------------------------
TypeOK ==
    /\ runtimeDir \in {"absent", "ready", "broken"} /\ bare \in BOOLEAN
    /\ installer \in [Installers -> {"idle", "download", "unpack", "describe", "publish",
                                     "inspect", "clear", "activate", "done", "failed"}]
    /\ abandoned \in 0 .. MaxKill
    /\ \A i \in Installers : staged[i] = (installer[i] \in
          {"describe", "publish", "inspect", "clear", "activate"})

\* As long as nothing has damaged the directory from outside, a ready install is never
\* taken away, however installers race for the rename, fail or die: who is refused the
\* rename finds the install that refused it and leaves it alone.
ReadyIsKept == [][InstallComplete /\ damage' = 0 => InstallComplete']_vars
\* An installer that reports success leaves an install that passes the check.
DoneIsReady ==
    [][ \A i \in Installers : installer[i] # "done" /\ installer'[i] = "done"
          => InstallComplete' ]_vars
\* Refuted by the code, once there was damage: of two installers that both found the
\* directory broken, one publishes and the other removes what it published
\* (install.go:395 judges, :405 removes, with no lock between).
ReadyIsNeverTaken == [][InstallComplete /\ damage' = damage => InstallComplete']_vars
=============================================================================
