------------------------------- MODULE Installs -------------------------------
(***************************************************************************)
(* Everything prukka installs on a machine, side by side: the managed      *)
(* speech engine, the pinned ffmpeg, the program itself, the driver        *)
(* bundles and the kernel modules.  They share no file and no lock, so a   *)
(* behaviour exercises one of them, chosen at the start, and the promises  *)
(* below are made for all of them alike.                                   *)
(***************************************************************************)
EXTENDS Naturals, Sequences, FiniteSets

CONSTANTS Subjects  \* subset of {"engine", "ffmpeg", "program", "bundles", "modules"}
CONSTANTS Packs, EntryOf, Parts, MaxVer, ProtocolOf, FaultPlans
CONSTANTS Installers, MaxCorrupt, MaxKill
CONSTANTS Platforms, Latest, UpdateFaults
CONSTANTS Kinds, AudioKinds, Releases, DriverFaults
CONSTANTS Modules, Kernels, Payloads, MaxReboot, ModuleFaults

VARIABLES subject
VARIABLES bundle, retired, inventory, op, catalogue, answer, cut, faults
VARIABLES runtimeDir, bare, installer, staged, abandoned, damage, kills
VARIABLES platform, image, step, target, before, verdict, daemon, note, slack
VARIABLES dest, aside, marker, payload, work, outcome, luck
VARIABLES extra, loaded, mark, boot, kernel, sources, task, reply, chance

Engine  == INSTANCE ManagedInstall
Ffmpeg  == INSTANCE FfmpegInstall
Program == INSTANCE SelfUpdate
Bundles == INSTANCE DriverBundles
Linux   == INSTANCE KernelModules

engineVars  == <<bundle, retired, inventory, op, catalogue, answer, cut, faults>>
ffmpegVars  == <<runtimeDir, bare, installer, staged, abandoned, damage, kills>>
programVars == <<platform, image, step, target, before, verdict, daemon, note, slack>>
bundlesVars == <<dest, aside, marker, payload, work, outcome, luck>>
linuxVars   == <<extra, loaded, mark, boot, kernel, sources, task, reply, chance>>
vars == <<subject, engineVars, ffmpegVars, programVars, bundlesVars, linuxVars>>

\* A subject that is not exercised stays in one of its initial states.
Unexercised(rest) ==
    /\ "engine"  \in rest => faults = CHOOSE f \in FaultPlans : TRUE
    /\ "ffmpeg"  \in rest => runtimeDir = "absent" /\ bare = FALSE
    /\ "program" \in rest => /\ platform = (CHOOSE p \in Platforms : TRUE) /\ daemon = 0
                             /\ slack = CHOOSE f \in UpdateFaults : TRUE
    /\ "bundles" \in rest => luck = CHOOSE f \in DriverFaults : TRUE
    /\ "modules" \in rest => chance = CHOOSE f \in ModuleFaults : TRUE

Init ==
    /\ subject \in Subjects
    /\ Engine!Init /\ Ffmpeg!Init /\ Program!Init /\ Bundles!Init /\ Linux!Init
    /\ Unexercised(Subjects \ {subject})

EngineStep  == /\ subject = "engine" /\ Engine!Next
               /\ UNCHANGED <<subject, ffmpegVars, programVars, bundlesVars, linuxVars>>
FfmpegStep  == /\ subject = "ffmpeg" /\ Ffmpeg!Next
               /\ UNCHANGED <<subject, engineVars, programVars, bundlesVars, linuxVars>>
ProgramStep == /\ subject = "program" /\ Program!Next
               /\ UNCHANGED <<subject, engineVars, ffmpegVars, bundlesVars, linuxVars>>
BundlesStep == /\ subject = "bundles" /\ Bundles!Next
               /\ UNCHANGED <<subject, engineVars, ffmpegVars, programVars, linuxVars>>
LinuxStep   == /\ subject = "modules" /\ Linux!Next
               /\ UNCHANGED <<subject, engineVars, ffmpegVars, programVars, bundlesVars>>

Next == EngineStep \/ FfmpegStep \/ ProgramStep \/ BundlesStep \/ LinuxStep

Spec == Init /\ [][Next]_vars
-----------------------------------------------------------------------------
TypeOK == /\ Engine!TypeOK /\ Ffmpeg!TypeOK /\ Program!TypeOK
          /\ Bundles!TypeOK /\ Linux!TypeOK

\* Whichever step fails, and wherever a process is killed, the last good copy
\* of what was installed stays on disk: the models and the runtime an inventory
\* lists, a program image to run, the driver a failed activation set aside.
LastGoodCopySurvives ==
    /\ Engine!RecordedFilesSurvive /\ Engine!RuntimeSurvives
    /\ Program!AlwaysRunnable
    /\ Bundles!PreviousSurvives

\* What an operation answered, and what a status read of the records says, is
\* what is on disk, though record and contents are separate writes; but for a
\* kernel module whose copy failed half way under the marker of an install before
\* it, which is still reported current (KernelModules!CurrentIsWhole).
RecordsTellTheTruth ==
    /\ Engine!AnswerIsTrue
    /\ Bundles!InstalledIsCurrent /\ Bundles!OkMeansAll
    /\ Linux!CurrentIsBuilt /\ Linux!RemovedLeavesNothing /\ Linux!RegisteredAllLoaded

\* Installers race on one directory with no lock: one that was never damaged from
\* outside stays once it is ready, and who reports success leaves a ready install.
FfmpegStaysReady == Ffmpeg!ReadyIsKept /\ Ffmpeg!DoneIsReady

\* install.go:77 "installed model packs survive an upgrade": violated when a
\* carry fails twice and a pack is published under the same entry in between.
PacksSurviveUpgrade == Engine!RecordedFilesSurvive
=============================================================================
