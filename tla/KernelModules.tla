---------------------------- MODULE KernelModules ----------------------------
(***************************************************************************)
(* The virtual devices on Linux (internal/devices/install_linux.go): the   *)
(* modules are compiled against the running kernel, copied into its extra  *)
(* tree, loaded, recorded by a marker that names payload and kernel, and   *)
(* registered for boot once every one of them loaded.  Module versions are *)
(* payload releases, 0 meaning absent.                                     *)
(***************************************************************************)
EXTENDS Naturals, Sequences

CONSTANTS Modules,     \* the modules, in the order of kinds()
          Kernels,     \* kernel releases the machine may boot
          Payloads,    \* bound: releases of the module sources
          MaxReboot,   \* bound: reboots
          ModuleFaults \* bound: failing steps and kills, per plan

VARIABLES extra,   \* extra[r][m]: what kernel r's extra tree holds of m
          loaded,  \* loaded[m]: the version in the running kernel
          mark,    \* mark[m]: <<payload, kernel>> recorded, or NoMark
          boot,    \* /etc/modules-load.d/prukka.conf exists
          kernel,  \* the running kernel
          sources, \* the payload this binary embeds
          task,    \* the command under way
          reply,   \* what the last command answered
          chance   \* faults left
vars == <<extra, loaded, mark, boot, kernel, sources, task, reply, chance>>

ModuleSet == {Modules[n] : n \in DOMAIN Modules}
NoMark == <<0, 0>>
Torn == Payloads + 1  \* a module file whose copy failed half way
Want == <<sources, kernel>>
NoTask == [cmd |-> "none", pc |-> "idle", n |-> 1, ok |-> 0, changed |-> FALSE, seen |-> {}]
Module == Modules[task.n]
Last == task.n = Len(Modules)

Init ==
    /\ extra = [r \in Kernels |-> [m \in ModuleSet |-> 0]]
    /\ loaded = [m \in ModuleSet |-> 0] /\ mark = [m \in ModuleSet |-> NoMark]
    /\ boot = FALSE /\ kernel = CHOOSE r \in Kernels : TRUE
    /\ sources = 1 /\ task = NoTask /\ reply = "none" /\ chance \in ModuleFaults

Slip == chance.fail > 0 /\ chance' = [chance EXCEPT !.fail = @ - 1]
Sure == UNCHANGED chance
End(r) == task' = NoTask /\ reply' = r
Machine == <<extra, loaded, mark, boot>>
World == <<kernel, sources>>

\* markerState over the module file: what status reports and install skips on.
ModuleCurrent(m) == mark[m] = Want /\ extra[kernel][m] # 0

\* install up to the build: everything current, or no toolchain, ends it.
Install ==
    /\ task.pc = "idle"
    /\ IF \A m \in ModuleSet : ModuleCurrent(m)
         THEN End("skipped")
         ELSE \/ task' = [NoTask EXCEPT !.cmd = "install", !.pc = "build"] /\ reply' = "none"
              \/ End("manual")
    /\ UNCHANGED <<Machine, World, chance>>

\* buildModules, one module: make, then the copy into the extra tree.
Build ==
    /\ task.pc = "build"
    /\ \/ /\ extra' = [extra EXCEPT ![kernel][Module] = sources] /\ Sure /\ UNCHANGED reply
          /\ task' = IF Last THEN [task EXCEPT !.pc = "load", !.n = 1]
                             ELSE [task EXCEPT !.n = @ + 1]
       \/ \* make failed, or copyFile did after it had truncated the old module
          /\ Slip /\ End("failed")
          /\ \E v \in {Torn, extra[kernel][Module]} : extra' = [extra EXCEPT ![kernel][Module] = v]
    /\ UNCHANGED <<loaded, mark, boot>> /\ UNCHANGED World

\* loadModules, one module: modprobe leaves a module that is loaded alone, and
\* a kernel may refuse it; only a module that loads is recorded.  A marker whose
\* writing fails may have been emptied, and names nothing then.
Probe(loads) ==
    /\ task.pc = "load"
    /\ loaded' = [loaded EXCEPT ![Module] = IF loads /\ @ = 0 THEN extra[kernel][Module] ELSE @]
    /\ (~loads => loaded[Module] = 0) /\ (loads => loaded[Module] # 0 \/ extra[kernel][Module] # Torn)
    /\ \/ /\ mark' = IF loads THEN [mark EXCEPT ![Module] = Want] ELSE mark
          /\ LET ok == task.ok + (IF loads THEN 1 ELSE 0) IN
             IF ~Last THEN task' = [task EXCEPT !.n = @ + 1, !.ok = ok] /\ UNCHANGED reply
             ELSE IF ok = Len(Modules) THEN task' = [task EXCEPT !.pc = "register"] /\ UNCHANGED reply
             ELSE End("manual")
          /\ Sure
       \/ loads /\ Slip /\ End("failed") /\ mark' \in {mark, [mark EXCEPT ![Module] = NoMark]}
    /\ UNCHANGED <<extra, boot>> /\ UNCHANGED World
Load == \E loads \in BOOLEAN : Probe(loads)

Register ==
    /\ task.pc = "register"
    /\ \/ boot' = TRUE /\ End("installed") /\ Sure
       \/ Slip /\ End("failed") /\ UNCHANGED boot
    /\ UNCHANGED <<extra, loaded, mark>> /\ UNCHANGED World

\* remove: /proc/modules is read once, before the first module is unloaded.
Remove ==
    /\ task.pc = "idle"
    /\ task' = [NoTask EXCEPT !.cmd = "remove", !.pc = "unload",
                              !.seen = {m \in ModuleSet : loaded[m] # 0}]
    /\ reply' = "none" /\ UNCHANGED <<Machine, World, chance>>

\* removeModule up to the files: a module in use refuses to go.
Unload ==
    /\ task.pc = "unload"
    /\ \/ /\ loaded' = [loaded EXCEPT ![Module] = IF Module \in task.seen THEN 0 ELSE @]
          /\ task' = [task EXCEPT !.pc = "delete"] /\ Sure /\ UNCHANGED reply
       \/ Module \in task.seen /\ Slip /\ End("failed") /\ UNCHANGED loaded
    /\ UNCHANGED <<extra, mark, boot>> /\ UNCHANGED World

\* A Delete that would delete for the running kernel alone.
DeleteRunningKernels ==
    /\ task.pc = "delete"
    /\ extra' = [extra EXCEPT ![kernel][Module] = 0]
    /\ mark' = [mark EXCEPT ![Module] = NoMark]
    /\ task' = [task EXCEPT !.pc = IF Last THEN "unregister" ELSE "unload",
                            !.n = IF Last THEN 1 ELSE @ + 1]
    /\ UNCHANGED <<loaded, boot, reply, chance>> /\ UNCHANGED World

\* Every kernel's copy goes, then the marker.
Delete ==
    /\ task.pc = "delete"
    /\ extra' = [r \in Kernels |-> [extra[r] EXCEPT ![Module] = 0]]
    /\ LET owned == Module \in task.seen \/ mark[Module] # NoMark
                    \/ \E r \in Kernels : extra[r][Module] # 0 IN
       \/ /\ mark' = [mark EXCEPT ![Module] = NoMark] /\ Sure /\ UNCHANGED reply
          /\ task' = [task EXCEPT !.changed = @ \/ owned,
                                  !.pc = IF Last THEN "unregister" ELSE "unload",
                                  !.n = IF Last THEN 1 ELSE @ + 1]
       \/ Slip /\ End("failed") /\ UNCHANGED mark
    /\ UNCHANGED <<loaded, boot>> /\ UNCHANGED World

\* A file that cannot be removed ends the command half way through the list.
DeleteFails ==
    /\ task.pc = "delete" /\ Slip /\ End("failed")
    /\ \E kept \in (SUBSET Kernels) \ {{}} :
         extra' = [r \in Kernels |-> IF r \in kept THEN extra[r] ELSE [extra[r] EXCEPT ![Module] = 0]]
    /\ UNCHANGED <<loaded, mark, boot>> /\ UNCHANGED World

\* forgetBootConfig, the module indexes, the marker tree.
Unregister ==
    /\ task.pc = "unregister"
    /\ \/ boot' = FALSE /\ End("removed") /\ Sure
       \/ boot' \in {boot, FALSE} /\ Slip /\ End("failed")
    /\ UNCHANGED <<extra, loaded, mark>> /\ UNCHANGED World

\* A kill between two steps; one inside a copy or the writing of a marker leaves
\* what the failure of that step does.
KillTask ==
    /\ task.pc # "idle" /\ chance.kill > 0
    /\ chance' = [chance EXCEPT !.kill = @ - 1] /\ End("killed")
    /\ UNCHANGED Machine /\ UNCHANGED World

\* A reboot, possibly into another kernel: the modules registered for boot
\* load when that kernel's extra tree holds them.
Reboot ==
    /\ task.pc = "idle" /\ chance.boots < MaxReboot
    /\ chance' = [chance EXCEPT !.boots = @ + 1]
    /\ \E r \in Kernels :
         /\ kernel' = r
         /\ loaded' = [m \in ModuleSet |-> IF boot /\ extra[r][m] # Torn THEN extra[r][m] ELSE 0]
    /\ reply' = "none" /\ UNCHANGED <<extra, mark, boot, sources, task>>

NewSources ==
    /\ task.pc = "idle" /\ sources < Payloads
    /\ sources' = sources + 1 /\ reply' = "none"
    /\ UNCHANGED <<Machine, kernel, task, chance>>

Next ==
    \/ Install \/ Build \/ Load \/ Register \/ Remove \/ Unload \/ Delete \/ DeleteFails
    \/ Unregister \/ KillTask \/ Reboot \/ NewSources

Spec == Init /\ [][Next]_vars
-----------------------------------------------------------------------------
TypeOK ==
    /\ extra \in [Kernels -> [ModuleSet -> 0 .. Torn]]
    /\ loaded \in [ModuleSet -> 0 .. Payloads]
    /\ boot \in BOOLEAN /\ kernel \in Kernels /\ task.n \in DOMAIN Modules

\* A device reported current never has another release's module in place of
\* this one's.  What a copy that failed half way left under the marker of an
\* earlier install is excused here, and is what CurrentIsWhole is about.
CurrentIsBuilt ==
    task.pc = "idle" => \A m \in ModuleSet :
        ModuleCurrent(m) => extra[kernel][m] \in {sources, Torn}

\* A removal that reports success, after however many that failed half way,
\* leaves nothing of any kernel: no file, no marker, no boot line, no module.
RemovedLeavesNothing ==
    reply = "removed" =>
        /\ ~boot
        /\ \A m \in ModuleSet : /\ mark[m] = NoMark /\ loaded[m] = 0
                                /\ \A r \in Kernels : extra[r][m] = 0

\* Boot loading is registered only by an install that loaded every module.
RegisteredAllLoaded == reply = "installed" =>
    boot /\ \A m \in ModuleSet :
        ModuleCurrent(m) /\ extra[kernel][m] = sources /\ loaded[m] # 0

\* moduleStatus calls a device installed by "its marker and the extra tree"
\* (install_linux.go:328): violated by a reinstall whose copy fails half way, for
\* the marker of the install before is still there and the torn file is a file.
CurrentIsWhole ==
    task.pc = "idle" => \A m \in ModuleSet : ModuleCurrent(m) => extra[kernel][m] = sources

\* install_linux.go:33 says install "loads them now": the running kernel holds
\* what an install that reports success recorded.
InstalledIsLoaded == reply = "installed" => \A m \in ModuleSet : loaded[m] = sources
=============================================================================
