-------------------------------- MODULE Host --------------------------------
(***************************************************************************)
(* Prukka on its machine, its parts side by side: how daemons claim the    *)
(* socket and the port, the live configuration and its writers, the        *)
(* engine's operations, the definitions clients create and edit, the       *)
(* outputs of the machine and the pushes that play on them, what           *)
(* subscribers hear of the sessions, and what the installers leave on disk *)
(* (Installs).  Each has a lock or files of its own; where they meet (an   *)
(* operation's edit of the configuration) is inside ConfigHolder.  A       *)
(* behaviour exercises one.                                                *)
(***************************************************************************)
EXTENDS Naturals, Sequences, FiniteSets

CONSTANTS Subjects,         \* of {"daemons", "config", "engine", "api", "devices", "events", "installs"}
          InstallSubjects   \* Subjects of Installs
CONSTANTS Daemons, MaxMint, MaxDeath
CONSTANTS VoicePacks, PairPacks, LangOf, MaxCalls, Worlds
CONSTANTS Requests, Subscribers, EventBuffer, MaxProgress, MaxCatalog
CONSTANTS Registry, Regions, SlugNames, Reserved, MaxDelay, Wires, Edits, Configs, Clients, Room, MaxAsked
CONSTANTS Arrays, LabelOf, Label, Rates, MaxMoves
CONSTANTS Slugs, States, SubscriberBuffer, MaxChanges
CONSTANTS Packs, EntryOf, Parts, MaxVer, ProtocolOf, FaultPlans,
          Installers, MaxCorrupt, MaxKill,
          Platforms, Latest, UpdateFaults,
          Kinds, AudioKinds, Releases, DriverFaults,
          Modules, Kernels, Payloads, MaxReboot, ModuleFaults

\* What the installers need of their packs, releases, devices and faults.
ASSUME PacksAssumption ==
    /\ MaxVer \in Nat \ {0} /\ Packs # {}
    /\ DOMAIN EntryOf = Packs
    /\ DOMAIN ProtocolOf = 1 .. MaxVer
    /\ FaultPlans \subseteq [crash : Nat, fail : Nat] /\ UpdateFaults \subseteq [kill : Nat, fail : Nat]
ASSUME DevicesAssumption ==
    /\ Kinds \in Seq(STRING) \ {<<>>} /\ Modules \in Seq(STRING) \ {<<>>}
    /\ Kernels # {}

\* What DaemonStart and ConfigHolder need of the names they are given.
ASSUME NamesAssumption ==
    /\ "nobody" \notin Daemons
    /\ VoicePacks # {} /\ VoicePacks \cap PairPacks = {}

VARIABLES subject
VARIABLES stage, retried, mine, pair, tokenFile, filled, torn, keyFile, certFile,
          sock, port, media, minted, deaths, overlap
VARIABLES file, live, writer, editLock, disk, lane, restart, replied, calls, world
VARIABLES request, slot, joined, halted, closing, channel, attached, published, cached, fresh
VARIABLES defs, config, ask, served, voiced, asked
VARIABLES system, coreaudio, listing, picker, playing
VARIABLES sessions, stream, feed, missed, view, ticks, counting, gauge, changes
VARIABLES installed,  \* what Installs exercises
          bundle, retired, inventory, op, catalogue, answer, cut, faults,
          runtimeDir, bare, installer, staged, abandoned, damage, kills,
          platform, image, step, target, before, verdict, daemon, note, slack,
          dest, aside, marker, payload, work, outcome, luck,
          extra, loaded, mark, boot, kernel, sources, task, reply, chance

Daemon == INSTANCE DaemonStart
Config == INSTANCE ConfigHolder
Engine == INSTANCE EngineOps
Api == INSTANCE SessionApi
Devices == INSTANCE DeviceRoutes
Events == INSTANCE EventBridge
Machine == INSTANCE Installs WITH Subjects <- InstallSubjects, subject <- installed

daemonVars == <<stage, retried, mine, pair, tokenFile, filled, torn, keyFile, certFile,
                sock, port, media, minted, deaths, overlap>>
configVars == <<file, live, writer, editLock, disk, lane, restart, replied, calls, world>>
engineVars == <<request, slot, joined, halted, closing, channel, attached, published, cached, fresh>>
apiVars == <<defs, config, ask, served, voiced, asked>>
devicesVars == <<system, coreaudio, listing, picker, playing>>
eventsVars == <<sessions, stream, feed, missed, view, ticks, counting, gauge, changes>>
installVars == <<installed, bundle, retired, inventory, op, catalogue, answer, cut, faults,
                 runtimeDir, bare, installer, staged, abandoned, damage, kills,
                 platform, image, step, target, before, verdict, daemon, note, slack,
                 dest, aside, marker, payload, work, outcome, luck,
                 extra, loaded, mark, boot, kernel, sources, task, reply, chance>>
vars == <<subject, daemonVars, configVars, engineVars, apiVars, devicesVars, eventsVars, installVars>>

Init ==
    /\ subject \in Subjects
    /\ Daemon!Init /\ Config!Init /\ Engine!Init /\ Api!Init /\ Devices!Init /\ Events!Init /\ Machine!Init
    /\ subject # "installs" => /\ installed = (CHOOSE m \in InstallSubjects : TRUE)
                               /\ Machine!Unexercised(InstallSubjects)
    /\ subject # "daemons" => ~overlap
    /\ subject # "config" => world = CHOOSE w \in Worlds : TRUE
    /\ subject # "devices" => /\ system = CHOOSE s \in Devices!Machines : TRUE
                              /\ picker.pc = "idle" /\ ~playing.helper
    /\ subject # "api" => config = CHOOSE k \in Configs : TRUE

DaemonStep == /\ subject = "daemons" /\ Daemon!Next
              /\ UNCHANGED <<subject, configVars, engineVars, apiVars, devicesVars, eventsVars, installVars>>
ConfigStep == /\ subject = "config" /\ Config!Next
              /\ UNCHANGED <<subject, daemonVars, engineVars, apiVars, devicesVars, eventsVars, installVars>>
EngineStep == /\ subject = "engine" /\ Engine!Next
              /\ UNCHANGED <<subject, daemonVars, configVars, apiVars, devicesVars, eventsVars, installVars>>
ApiStep == /\ subject = "api" /\ Api!Next
           /\ UNCHANGED <<subject, daemonVars, configVars, engineVars, devicesVars, eventsVars, installVars>>
DevicesStep == /\ subject = "devices" /\ Devices!Next
               /\ UNCHANGED <<subject, daemonVars, configVars, engineVars, apiVars, eventsVars, installVars>>
EventsStep == /\ subject = "events" /\ Events!Next
              /\ UNCHANGED <<subject, daemonVars, configVars, engineVars, apiVars, devicesVars, installVars>>
InstallsStep == /\ subject = "installs" /\ Machine!Next
                /\ UNCHANGED <<subject, daemonVars, configVars, engineVars, apiVars, devicesVars, eventsVars>>

Next == DaemonStep \/ ConfigStep \/ EngineStep \/ ApiStep \/ DevicesStep \/ EventsStep \/ InstallsStep

\* An operation that runs ends (its context has a deadline and the engine's
\* life cancels it) and so does Shutdown's wait; a client connects again, and
\* the select of an event stream passes neither channel nor heartbeat over.
Fairness ==
    /\ \A r \in Requests : WF_engineVars(/\ subject = "engine"
                                         /\ \/ Engine!RunEnds(r) \/ Engine!BroadcastProgress(r)
                                            \/ Engine!Finish(r) \/ Engine!Announce(r)
                                            \/ Engine!LeaveGroup(r))
    /\ WF_engineVars(subject = "engine" /\ (Engine!Drained \/ Engine!DrainTimeout))
    /\ WF_devicesVars(subject = "devices" /\ (Devices!LoadBegins \/ Devices!LoadEnds))
    /\ WF_devicesVars(subject = "devices" /\ (Devices!ScanBegins \/ Devices!ScanEnds))
    /\ WF_devicesVars(subject = "devices" /\ (Devices!List \/ Devices!ListAnswers))
    /\ WF_devicesVars(/\ subject = "devices"
                      /\ Devices!Resolve \/ Devices!Spawn \/ Devices!Baseline \/ Devices!PauseEnds)
    /\ WF_devicesVars(subject = "devices" /\ Devices!WatchTick)
    /\ WF_eventsVars(subject = "events" /\ Events!Subscribe)
    /\ SF_eventsVars(subject = "events" /\ Events!WriteSnapshot)
    /\ SF_eventsVars(subject = "events" /\ Events!Forward)
    /\ WF_eventsVars(subject = "events" /\ (Events!Wake \/ Events!PublishCounts))

Spec == Init /\ [][Next]_vars
FairSpec == Spec /\ Fairness
-----------------------------------------------------------------------------
\* A part keeps its promise where it is exercised; elsewhere it does not move.
Of(part, promise) == subject = part => promise

TypeOK == /\ Of("daemons", Daemon!TypeOK) /\ Of("config", Config!TypeOK) /\ Of("engine", Engine!TypeOK)
          /\ Of("api", Api!TypeOK) /\ Of("devices", Devices!TypeOK) /\ Of("events", Events!TypeOK)
          /\ Of("installs", Machine!TypeOK)

\* However starts race, one daemon serves; and started one after the other,
\* killed anywhere, the one that serves is the one clients reach.
OneDaemonServes == Of("daemons", Daemon!SoleServer /\ Daemon!OrderlyStarts)

\* What the daemon wrote loads again, and readers see a valid configuration; a lane
\* that runs speaks and translates no more than they see, whichever writer comes in
\* between, and what an operation answered of a voice holds; and what was admitted
\* under a configuration runs through models that one has.
ConfigurationIsConsistent ==
    /\ Of("config", Config!FileLoadsAgain /\ Config!CalmLaneFollows /\ Config!AnswersHold)
    /\ Of("api", Api!AdmittedRoutesExist)

\* One operation at a time, none once the shutdown joined it, heard of in order;
\* a definition is read back without its source, and is the same again once that is
\* given, and dubs what was chosen; and a subscriber with nothing left to hear shows
\* the sessions that are.
ClientsSeeTheTruth ==
    /\ TypeOK
    /\ Of("engine", Engine!OneOperation /\ Engine!DrainedIsQuiet /\ Engine!TerminalIsLast)
    /\ Of("api", Api!ReadBackIsTheSame /\ Api!DubbedAsChosen /\ Api!CallsStayLive)
    /\ Of("events", Events!SettledViewIsTheStore)

\* Whichever step of an install fails, and wherever it is killed.
LastGoodCopySurvives == Of("installs", Machine!LastGoodCopySurvives)
\* What an install answered and recorded is what is on disk, except for a kernel
\* module torn by a failed copy under its old marker: status calls it current.
RecordsTellTheTruth == Of("installs", Machine!RecordsTellTheTruth)

\* The outputs of a serving daemon are never wiped by another one's start, nor is an
\* ffmpeg that is ready taken away by another installer unless it had been damaged.
ReadyStaysReady == Daemon!ServedMediaIsKept /\ Machine!FfmpegStaysReady

\* The engine's shutdown returns, and a dashboard comes to show the store.
WaitsEnd == <>[](Engine!ShutdownReturned /\ Events!ViewIsTheStore)

\* A device that moves, or changes its rate, is followed: by the push that plays on
\* it, through the fingerprint it watches, and by who lists devices.
DevicesAreFollowed ==
    []<>(subject = "devices" => Devices!WatchFollows /\ Devices!ListsCatchUp)

\* ipc_unix.go:44 "refuses to steal one a live daemon still answers on": not
\* when two daemons start at once.
ServerIsReachable == Daemon!ServerIsReachable

\* engine.go:428 "retireConfig revokes the removed pack's capability".
PromisedVoicesAreInstalled == Config!PromisedVoicesAreInstalled
=============================================================================
