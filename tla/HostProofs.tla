----------------------------- MODULE HostProofs -----------------------------
(***************************************************************************)
(* Theorems about the machine: why one daemon serves and keeps its media,  *)
(* why its configuration, its packs and its lanes agree, and why what the  *)
(* installers leave on disk is whole and as recorded.  Each part has an    *)
(* inductive invariant of its own, which the steps of the other parts      *)
(* leave alone.                                                            *)
(***************************************************************************)
EXTENDS Host, TLAPS

-----------------------------------------------------------------------------
(* Daemons.                                                                *)

\* The stages of a daemon that is coming up, those at which it has a token, and
\* those at which its listener is open.
Minting == {"token", "create", "write", "wait", "reclaim"}
Binding == {"probe", "unlink", "listen"}
Keying == {"tls", "key", "cert", "load"}
Rising == Minting \cup Binding \cup Keying \cup {"http", "reset"}
Stages == Rising \cup {"down", "serving", "closing", "draining"}

DaemonsTyped ==
  /\ stage \in [Daemons -> Stages]
  /\ mine \in [Daemons -> Nat] /\ pair \in [Daemons -> Nat]
  /\ minted \in Nat /\ tokenFile \in Nat /\ filled \subseteq Nat \ {0}
  /\ keyFile \in Nat /\ certFile \in Nat
  /\ \A d \in Daemons : stage[d] = "write" => mine[d] # 0

\* The port is held from the bind until the HTTP server is shut down.
PortHeld == \A d \in Daemons : stage[d] \in {"reset", "serving", "closing"} => port = d

\* Starts that do not overlap: one daemon rises at a time, and beside one that
\* serves it gets no further than the probe of its socket.
OneRises ==
  /\ \A d, e \in Daemons : stage[d] \in Rising /\ stage[e] \in Rising => d = e
  /\ \A d, e \in Daemons : stage[d] = "serving" /\ stage[e] \in Rising => stage[e] \in {"token", "probe"}

\* What a daemon has at each stage: the socket, the token and the keypair.
HasSocket == \A d \in Daemons : stage[d] \in Daemon!Listening => sock = d
HasToken ==
  /\ \A d \in Daemons : stage[d] = "write" => tokenFile = mine[d]
  /\ \A d \in Daemons : stage[d] \in Binding \cup Daemon!Listening =>
       tokenFile = mine[d] /\ mine[d] \in filled
HasKeypair ==
  /\ \A d \in Daemons : stage[d] \in Minting \cup Binding \cup {"tls"} => pair[d] = 0
  /\ \A d \in Daemons : stage[d] \in {"key", "cert"} => certFile = 0
  /\ \A d \in Daemons : stage[d] = "cert" => keyFile = pair[d]
  /\ \A d \in Daemons : stage[d] \in {"http", "reset", "serving"} /\ pair[d] # 0 =>
       pair[d] = certFile /\ pair[d] = keyFile
  /\ certFile # 0 => keyFile = certFile

DaemonsInv ==
  /\ DaemonsTyped /\ PortHeld
  /\ ~overlap => OneRises /\ HasSocket /\ HasToken /\ HasKeypair

\* Every step of a daemon keeps what it and the others have.
LEMMA DaemonsStep ==
  ASSUME DaemonsInv, Daemon!Next
  PROVE  DaemonsInv'
<1> USE NamesAssumption DEF NamesAssumption, Stages, Rising, Minting, Binding, Keying, Daemon!Listening,
      Daemon!At, Daemon!To, Daemon!Nobody, Daemon!Secrets, Daemon!Keypair, Daemon!Claims, Daemon!Rest
<1>1. ASSUME NEW d \in Daemons, \/ Daemon!Start(d) \/ Daemon!ReadToken(d) \/ Daemon!CreateToken(d)
                               \/ Daemon!PersistToken(d) \/ Daemon!WaitForToken(d) \/ Daemon!Reclaim(d)
      PROVE  DaemonsInv'
  <2> USE DEF DaemonsInv, DaemonsTyped, PortHeld, OneRises, HasSocket, HasToken, HasKeypair
  <2>1. CASE Daemon!Start(d)
    BY <2>1 DEF Daemon!Start
  <2>2. CASE Daemon!ReadToken(d)
    BY <2>2 DEF Daemon!ReadToken
  <2>3. CASE Daemon!CreateToken(d)
    BY <2>3 DEF Daemon!CreateToken, Daemon!Mint
  <2>4. CASE Daemon!PersistToken(d)
    <3>1. /\ stage[d] = "write" /\ mine[d] \in Nat \ {0} /\ filled \subseteq filled \union {mine[d]}
          /\ UNCHANGED <<mine, pair, torn, keyFile, certFile, sock, port, media, minted, overlap>>
      BY <2>4 DEF Daemon!PersistToken
    <3>2. CASE filled' = filled \union {mine[d]} /\ stage' = [stage EXCEPT ![d] = "probe"] /\ tokenFile' = tokenFile
      <4>1. DaemonsTyped'
        BY <3>1, <3>2
      <4>2. PortHeld' /\ (~overlap => OneRises' /\ HasSocket' /\ HasKeypair')
        BY <3>1, <3>2
      <4>3. ~overlap => HasToken'
        BY <3>1, <3>2
      <4>4. QED
        BY <3>1, <4>1, <4>2, <4>3
    <3>3. CASE tokenFile' = 0 /\ stage' = [stage EXCEPT ![d] = "down"] /\ filled' = filled
      BY <3>1, <3>3
    <3>4. QED
      BY <2>4, <3>2, <3>3 DEF Daemon!PersistToken
  <2>5. CASE Daemon!WaitForToken(d)
    BY <2>5 DEF Daemon!WaitForToken
  <2>6. CASE Daemon!Reclaim(d)
    BY <2>6 DEF Daemon!Reclaim, Daemon!ReclaimAgainst
  <2>7. QED
    BY <1>1, <2>1, <2>2, <2>3, <2>4, <2>5, <2>6
<1>2. ASSUME NEW d \in Daemons, \/ Daemon!Probe(d) \/ Daemon!Unlink(d) \/ Daemon!Listen(d) \/ Daemon!EnsureKeypair(d)
                               \/ Daemon!PublishKey(d) \/ Daemon!PublishCert(d) \/ Daemon!LoadKeypair(d)
      PROVE  DaemonsInv'
  <2> USE DEF DaemonsInv, DaemonsTyped, PortHeld, OneRises, HasSocket, HasToken, HasKeypair
  <2>1. CASE Daemon!Probe(d)
    BY <2>1 DEF Daemon!Probe, Daemon!Answers
  <2>2. CASE Daemon!Unlink(d)
    BY <2>2 DEF Daemon!Unlink
  <2>3. CASE Daemon!Listen(d)
    BY <2>3 DEF Daemon!Listen
  <2>4. CASE Daemon!EnsureKeypair(d)
    BY <2>4 DEF Daemon!EnsureKeypair, Daemon!Mint
  <2>5. CASE Daemon!PublishKey(d)
    BY <2>5 DEF Daemon!PublishKey
  <2>6. CASE Daemon!PublishCert(d)
    BY <2>6 DEF Daemon!PublishCert
  <2>7. CASE Daemon!LoadKeypair(d)
    BY <2>7 DEF Daemon!LoadKeypair, Daemon!CloseIPC
  <2>8. QED
    BY <1>2, <2>1, <2>2, <2>3, <2>4, <2>5, <2>6, <2>7
<1>3. ASSUME NEW d \in Daemons, \/ Daemon!BindHTTP(d) \/ Daemon!ResetMedia(d) \/ Daemon!WriteMedia(d) \/ Daemon!Stop(d)
                               \/ Daemon!ShutdownHTTP(d) \/ Daemon!Stopped(d) \/ Daemon!Die(d)
      PROVE  DaemonsInv'
  <2> USE DEF DaemonsInv, DaemonsTyped, PortHeld, OneRises, HasSocket, HasToken, HasKeypair
  <2>1. CASE Daemon!BindHTTP(d)
    BY <2>1 DEF Daemon!BindHTTP, Daemon!CloseIPC
  <2>2. CASE Daemon!ResetMedia(d)
    BY <2>2 DEF Daemon!ResetMedia, Daemon!CloseIPC
  <2>3. CASE Daemon!WriteMedia(d)
    BY <2>3 DEF Daemon!WriteMedia
  <2>4. CASE Daemon!Stop(d)
    BY <2>4 DEF Daemon!Stop, Daemon!CloseIPC
  <2>5. CASE Daemon!ShutdownHTTP(d)
    BY <2>5 DEF Daemon!ShutdownHTTP
  <2>6. CASE Daemon!Stopped(d)
    BY <2>6 DEF Daemon!Stopped
  <2>7. CASE Daemon!Die(d)
    BY <2>7 DEF Daemon!Die
  <2>8. QED
    BY <1>3, <2>1, <2>2, <2>3, <2>4, <2>5, <2>6, <2>7
<1>4. CASE Daemon!RemoveCorrupt
  BY <1>4 DEF DaemonsInv, DaemonsTyped, PortHeld, OneRises, HasSocket, HasToken, HasKeypair, Daemon!RemoveCorrupt
<1>5. QED
  BY <1>1, <1>2, <1>3, <1>4 DEF Daemon!Next

LEMMA DaemonsInit == Daemon!Init => DaemonsInv
BY DEF Daemon!Init, DaemonsInv, DaemonsTyped, PortHeld, OneRises, HasSocket, HasToken, HasKeypair,
   Stages, Rising, Minting, Binding, Keying, Daemon!Listening

LEMMA DaemonsStill ==
  ASSUME DaemonsInv, UNCHANGED daemonVars
  PROVE  DaemonsInv'
BY DEF daemonVars, DaemonsInv, DaemonsTyped, PortHeld, OneRises, HasSocket, HasToken, HasKeypair

\* The inductive invariant of the daemons, whatever else the machine does.
LEMMA DaemonsAlways == Spec => []DaemonsInv
<1>1. Init => DaemonsInv
  BY DaemonsInit DEF Init
<1>2. DaemonsInv /\ [Next]_vars => DaemonsInv'
  <2> SUFFICES ASSUME DaemonsInv, [Next]_vars PROVE DaemonsInv'
    OBVIOUS
  <2>1. CASE DaemonStep
    BY <2>1, DaemonsStep DEF DaemonStep
  <2>2. CASE UNCHANGED daemonVars
    BY <2>2, DaemonsStill
  <2>3. QED
    BY <2>1, <2>2 DEF Next, vars, ConfigStep, EngineStep, ApiStep, DevicesStep, EventsStep, InstallsStep
<1>3. QED
  BY <1>1, <1>2, PTL DEF Spec

\* BindHTTP, clearStaleSocket and token.go: however starts race, at most one daemon is
\* past both binds; started one after the other, the one that serves has the socket,
\* the token and the keypair that clients find, and the keypair on disk loads.
THEOREM OneServes == Spec => []OneDaemonServes
<1>1. ASSUME DaemonsInv
      PROVE  OneDaemonServes
  <2>1. Daemon!SoleServer
    BY <1>1 DEF DaemonsInv, PortHeld, Daemon!SoleServer
  <2>2. Daemon!OrderlyStarts
    BY <1>1 DEF DaemonsInv, HasSocket, HasToken, HasKeypair, Binding, Daemon!OrderlyStarts,
       Daemon!ServerIsReachable, Daemon!Reachable, Daemon!At, Daemon!Listening
  <2>3. QED
    BY <2>1, <2>2 DEF OneDaemonServes, Of
<1>2. QED
  BY <1>1, DaemonsAlways, PTL

-----------------------------------------------------------------------------
(* What is ready stays ready.                                              *)

\* Only a daemon between its bind and its first lane wipes the media tree.
LEMMA MediaKept ==
  ASSUME DaemonsInv, Daemon!Next, NEW d \in Daemons, stage[d] = "serving", media = d
  PROVE  media' # Daemon!Nobody
<1>1. d # Daemon!Nobody /\ PortHeld
  BY NamesAssumption DEF NamesAssumption, Daemon!Nobody, DaemonsInv
<1>2. ASSUME NEW e \in Daemons, media' = Daemon!Nobody, Daemon!ResetMedia(e)
      PROVE  FALSE
  BY <1>1, <1>2 DEF PortHeld, Daemon!ResetMedia, Daemon!At
<1>3. ASSUME NEW e \in Daemons, Daemon!WriteMedia(e)
      PROVE  media' # Daemon!Nobody
  BY <1>3, NamesAssumption DEF NamesAssumption, Daemon!WriteMedia, Daemon!Nobody
<1>4. media' = media \/ \E e \in Daemons : Daemon!ResetMedia(e) \/ Daemon!WriteMedia(e)
  BY DEF Daemon!Next, Daemon!Start, Daemon!ReadToken, Daemon!CreateToken, Daemon!PersistToken,
     Daemon!WaitForToken, Daemon!Reclaim, Daemon!ReclaimAgainst, Daemon!Probe, Daemon!Unlink, Daemon!Listen,
     Daemon!EnsureKeypair, Daemon!PublishKey, Daemon!PublishCert, Daemon!LoadKeypair, Daemon!BindHTTP,
     Daemon!Stop, Daemon!ShutdownHTTP, Daemon!Stopped, Daemon!Die, Daemon!RemoveCorrupt,
     Daemon!Claims
<1>5. QED
  BY <1>1, <1>2, <1>3, <1>4

\* Where an installer can be, and what it does to the directory: it is made ready by
\* whoever answers that it is, and removed only past a check that found it broken,
\* which an undamaged one never is.
InstallersTyped == installer \in [Installers -> {"idle", "download", "unpack", "describe", "publish",
                                                 "inspect", "clear", "activate", "done", "failed"}]

InstallerWorks(i) ==
  \/ Machine!Ffmpeg!Begin(i) \/ Machine!Ffmpeg!Download(i) \/ Machine!Ffmpeg!Unpack(i)
  \/ Machine!Ffmpeg!Describe(i) \/ Machine!Ffmpeg!Publish(i) \/ Machine!Ffmpeg!Inspect(i)
  \/ Machine!Ffmpeg!Clear(i) \/ Machine!Ffmpeg!Activate(i) \/ Machine!Ffmpeg!Kill(i)

LEMMA InstallerStep ==
  ASSUME InstallersTyped, NEW i \in Installers, InstallerWorks(i)
  PROVE  /\ InstallersTyped'
         /\ runtimeDir = "ready" /\ installer[i] # "clear" => runtimeDir' = "ready"
         /\ installer[i] # "done" /\ installer'[i] = "done" => runtimeDir' = "ready"
         /\ runtimeDir # "broken" /\ installer[i] # "clear" => runtimeDir' # "broken" /\ installer'[i] # "clear"
         /\ damage' = damage
         /\ \A j \in Installers \ {i} : installer'[j] = installer[j]
<1> USE DEF InstallersTyped, Machine!Ffmpeg!To, Machine!Ffmpeg!Leave, Machine!Ffmpeg!InstallComplete
<1>1. CASE Machine!Ffmpeg!Begin(i)
  BY <1>1 DEF Machine!Ffmpeg!Begin
<1>2. CASE Machine!Ffmpeg!Download(i)
  BY <1>2 DEF Machine!Ffmpeg!Download
<1>3. CASE Machine!Ffmpeg!Unpack(i)
  BY <1>3 DEF Machine!Ffmpeg!Unpack
<1>4. CASE Machine!Ffmpeg!Describe(i)
  BY <1>4 DEF Machine!Ffmpeg!Describe
<1>5. CASE Machine!Ffmpeg!Publish(i)
  BY <1>5 DEF Machine!Ffmpeg!Publish, Machine!Ffmpeg!Published
<1>6. CASE Machine!Ffmpeg!Inspect(i)
  BY <1>6 DEF Machine!Ffmpeg!Inspect
<1>7. CASE Machine!Ffmpeg!Clear(i)
  BY <1>7 DEF Machine!Ffmpeg!Clear, Machine!Ffmpeg!Partly
<1>8. CASE Machine!Ffmpeg!Activate(i)
  BY <1>8 DEF Machine!Ffmpeg!Activate, Machine!Ffmpeg!Published
<1>9. CASE Machine!Ffmpeg!Kill(i)
  BY <1>9 DEF Machine!Ffmpeg!Kill
<1>10. QED
  BY <1>1, <1>2, <1>3, <1>4, <1>5, <1>6, <1>7, <1>8, <1>9 DEF InstallerWorks

\* A directory that was never damaged is not broken, and nobody is about to clear it.
Undamaged == damage = 0 => runtimeDir # "broken" /\ \A i \in Installers : installer[i] # "clear"
InstallersInv == InstallersTyped /\ damage \in Nat /\ Undamaged

LEMMA InstallersAlways == Spec => []InstallersInv
<1>1. Init => InstallersInv
  BY DEF Init, Machine!Init, Machine!Ffmpeg!Init, InstallersInv, InstallersTyped, Undamaged
<1>2. InstallersInv /\ [Next]_vars => InstallersInv'
  <2> SUFFICES ASSUME InstallersInv, [Next]_vars PROVE InstallersInv'
    OBVIOUS
  <2>1. CASE Machine!Ffmpeg!Next
    <3>1. CASE Machine!Ffmpeg!Corrupt
      BY <3>1 DEF Machine!Ffmpeg!Corrupt, InstallersInv, InstallersTyped, Undamaged
    <3>2. ASSUME NEW i \in Installers, InstallerWorks(i)
          PROVE  InstallersInv'
      <4>1. InstallersTyped' /\ damage' = damage
        BY <3>2, InstallerStep DEF InstallersInv
      <4>2. ASSUME damage = 0
            PROVE  runtimeDir' # "broken" /\ \A j \in Installers : installer'[j] # "clear"
        <5>1. runtimeDir # "broken" /\ \A j \in Installers : installer[j] # "clear"
          BY <4>2 DEF InstallersInv, Undamaged
        <5>2. QED
          BY <3>2, <5>1, InstallerStep DEF InstallersInv
      <4>3. QED
        BY <4>1, <4>2 DEF InstallersInv, Undamaged
    <3>3. QED
      BY <2>1, <3>1, <3>2 DEF Machine!Ffmpeg!Next, InstallerWorks
  <2>2. CASE UNCHANGED Machine!ffmpegVars
    BY <2>2 DEF Machine!ffmpegVars, InstallersInv, InstallersTyped, Undamaged
  <2>3. Machine!Ffmpeg!Next \/ UNCHANGED Machine!ffmpegVars
    BY DEF Next, vars, installVars, DaemonStep, ConfigStep, EngineStep, ApiStep, DevicesStep, EventsStep,
       InstallsStep, Machine!Next, Machine!EngineStep, Machine!FfmpegStep, Machine!ProgramStep,
       Machine!BundlesStep, Machine!LinuxStep, Machine!ffmpegVars
  <2>4. QED
    BY <2>1, <2>2, <2>3
<1>3. QED
  BY <1>1, <1>2, PTL DEF Spec

\* runDaemon and publishInstall: another daemon's start never wipes the media of one
\* that serves; a ready ffmpeg that nothing has damaged is not taken away, however
\* installers race and die; and an installer that reports success leaves a ready one.
THEOREM WhatIsReadyStays == Spec => ReadyStaysReady
<1>1. ASSUME DaemonsInv, [Next]_vars, NEW d \in Daemons, stage[d] = "serving", media = d
      PROVE  media' # Daemon!Nobody
  <2>1. CASE DaemonStep
    BY <1>1, <2>1, MediaKept DEF DaemonStep
  <2>2. CASE media' = media
    BY <1>1, <2>2, NamesAssumption DEF NamesAssumption, Daemon!Nobody
  <2>3. QED
    BY <1>1, <2>1, <2>2 DEF Next, vars, daemonVars, ConfigStep, EngineStep, ApiStep, DevicesStep, EventsStep,
       InstallsStep
<1>2. ASSUME InstallersInv, [Next]_vars
      PROVE  /\ Machine!Ffmpeg!InstallComplete /\ damage' = 0 => Machine!Ffmpeg!InstallComplete'
             /\ \A i \in Installers : installer[i] # "done" /\ installer'[i] = "done"
                  => Machine!Ffmpeg!InstallComplete'
  <2>1. CASE UNCHANGED Machine!ffmpegVars
    BY <2>1 DEF Machine!ffmpegVars, Machine!Ffmpeg!InstallComplete
  <2>2. CASE Machine!Ffmpeg!Corrupt
    BY <1>2, <2>2 DEF Machine!Ffmpeg!Corrupt, InstallersInv
  <2>3. ASSUME NEW i \in Installers, InstallerWorks(i)
        PROVE  /\ runtimeDir = "ready" /\ damage' = 0 => runtimeDir' = "ready"
               /\ \A j \in Installers : installer[j] # "done" /\ installer'[j] = "done" => runtimeDir' = "ready"
    <3>1. /\ runtimeDir = "ready" /\ installer[i] # "clear" => runtimeDir' = "ready"
          /\ installer[i] # "done" /\ installer'[i] = "done" => runtimeDir' = "ready"
          /\ \A j \in Installers \ {i} : installer'[j] = installer[j]
          /\ damage' = damage
      BY <1>2, <2>3, InstallerStep DEF InstallersInv
    <3>2. damage = 0 => installer[i] # "clear"
      BY <1>2 DEF InstallersInv, Undamaged
    <3>3. QED
      BY <3>1, <3>2
  <2>4. Machine!Ffmpeg!Next \/ UNCHANGED Machine!ffmpegVars
    BY <1>2 DEF Next, vars, installVars, DaemonStep, ConfigStep, EngineStep, ApiStep, DevicesStep, EventsStep,
       InstallsStep, Machine!Next, Machine!EngineStep, Machine!FfmpegStep, Machine!ProgramStep,
       Machine!BundlesStep, Machine!LinuxStep, Machine!ffmpegVars
  <2>5. CASE \E i \in Installers : InstallerWorks(i)
    BY <2>3, <2>5 DEF Machine!Ffmpeg!InstallComplete
  <2>6. QED
    BY <2>1, <2>2, <2>4, <2>5 DEF Machine!Ffmpeg!Next, InstallerWorks
<1>3. DaemonsInv /\ [Next]_vars =>
        [\A d \in Daemons : Daemon!At(d, "serving") /\ media = d => media' # Daemon!Nobody]_(Daemon!vars)
  BY <1>1 DEF Daemon!At
<1>4. InstallersInv /\ [Next]_vars =>
        /\ [Machine!Ffmpeg!InstallComplete /\ damage' = 0 => Machine!Ffmpeg!InstallComplete']_(Machine!Ffmpeg!vars)
        /\ [\A i \in Installers : installer[i] # "done" /\ installer'[i] = "done"
              => Machine!Ffmpeg!InstallComplete']_(Machine!Ffmpeg!vars)
  BY <1>2
<1>5. Spec => Daemon!ServedMediaIsKept
  BY <1>3, DaemonsAlways, PTL DEF Spec, Daemon!ServedMediaIsKept
<1>6. Spec => Machine!Ffmpeg!ReadyIsKept /\ Machine!Ffmpeg!DoneIsReady
  BY <1>4, InstallersAlways, PTL DEF Spec, Machine!Ffmpeg!ReadyIsKept, Machine!Ffmpeg!DoneIsReady
<1>7. QED
  BY <1>5, <1>6 DEF ReadyStaysReady, Machine!FfmpegStaysReady

-----------------------------------------------------------------------------
(* The configuration.                                                      *)

EnginePacks == VoicePacks \cup PairPacks
Configuration == [packs : SUBSET EnginePacks, model : 0 .. 1, voices : {"local", "off"}]
Writer == [pc : {"idle", "open", "disk", "load", "save", "reload", "notify"},
           kind : {"none", "install", "remove"}, pack : EnginePacks,
           base : Configuration, old : Configuration]
Answer == [kind : {"none", "install", "remove"}, ok : BOOLEAN, pack : EnginePacks]

ConfigTyped ==
  /\ file \in Configuration /\ live \in Configuration /\ lane \in Configuration
  /\ disk \in SUBSET EnginePacks /\ restart \in BOOLEAN
  /\ writer \in [Config!Writers -> Writer] /\ replied \in Answer

\* Where a writer can be, and that the lock is its own from the load to the reload.
LockHeld ==
  /\ editLock \in {"settings", "engine", "nobody"}
  /\ \A w \in Config!Writers :
       /\ Config!At(w, "save") => editLock = w
       /\ editLock = w => Config!At(w, "save") \/ Config!At(w, "reload")
       /\ Config!At(w, "reload") => editLock = w \/ w = "hup"
  /\ writer["hup"].pc \in {"idle", "reload", "notify"}
  /\ ~Config!At("engine", "idle") => writer["engine"].kind \in {"install", "remove"} /\ ~replied.ok

\* What is written is valid; so is what was loaded.
StaysValid ==
  /\ Config!Valid(live) /\ (world # "edited" => Config!Valid(file))
  /\ \A w \in Config!Writers : Config!At(w, "save") => Config!Valid(writer[w].base)

\* Without a transaction under way readers see the file.
InStep == editLock = "nobody" \/ Config!At(editLock, "save") => live = file

\* The voices two configurations promise; and a lane started from l speaks and
\* translates nothing that c does not.
SameVoices(c, l) == \A v \in VoicePacks : v \in c.packs <=> v \in l.packs
Follows(l, c) ==
  /\ l.model = c.model /\ l.voices = c.voices
  /\ l.packs \intersect PairPacks \subseteq c.packs
  /\ Config!Spoken(l) \subseteq Config!Spoken(c)

\* A transaction changes what its writer may change: the settings no voice, an
\* install adds a pack that is on disk to what can be done, a removal takes the
\* language of one that is not.
Written(w, c) ==
  /\ w = "settings" => SameVoices(c, live)
  /\ w = "engine" /\ writer[w].kind = "install" => Follows(live, c) /\ writer[w].pack \in c.packs
  /\ w = "engine" /\ writer[w].kind = "remove" /\ writer[w].pack \in VoicePacks =>
       LangOf[writer[w].pack] \notin Config!Spoken(c)

TransactionsKeep ==
  \A w \in Config!Writers :
    /\ Config!At(w, "save") => Written(w, writer[w].base)
    /\ editLock = w /\ Config!At(w, "reload") => Written(w, file)

\* The engine's operation, from its files to its answer, for a voice.
OperationHolds ==
  LET me == writer["engine"]
      onDisk == IF me.kind = "install" THEN me.pack \in disk ELSE me.pack \notin disk
  IN  /\ me.pc \in {"load", "save", "reload", "notify"} => onDisk
      /\ me.pc = "notify" /\ me.pack \in VoicePacks =>
           (IF me.kind = "install" THEN me.pack \in live.packs
                                   ELSE LangOf[me.pack] \notin Config!Spoken(live))
      /\ replied.ok /\ replied.pack \in VoicePacks =>
           (IF replied.kind = "install" THEN replied.pack \in disk \cap live.packs
                                        ELSE /\ replied.pack \notin disk
                                             /\ LangOf[replied.pack] \notin Config!Spoken(live))

\* A lane that does not follow the configuration is to be restarted, or the writer
\* whose transition that was has yet to say so.
LaneToldOf ==
  \/ restart
  \/ Follows(lane, live)
  \/ \E w \in Config!Writers :
       /\ Config!At(w, "notify") /\ Config!Signals(w)
       /\ Config!LaneFingerprint(writer[w].old) # Config!LaneFingerprint(writer[w].base)

ConfigInv ==
  /\ ConfigTyped /\ LockHeld /\ StaysValid
  /\ world = "calm" => InStep /\ TransactionsKeep /\ OperationHolds /\ LaneToldOf

LEMMA ConfigInit == Config!Init => ConfigInv
<1> SUFFICES ASSUME Config!Init PROVE ConfigInv
  OBVIOUS
<1>1. PICK v \in VoicePacks : v = CHOOSE u \in VoicePacks : TRUE
  BY NamesAssumption DEF NamesAssumption
<1>2. PICK p \in EnginePacks : p = CHOOSE q \in Config!EnginePacks : TRUE
  BY <1>1 DEF EnginePacks, Config!EnginePacks
<1>3. Config!Start \in Configuration /\ v \in Config!Start.packs
  BY <1>1 DEF Config!Start, Configuration, EnginePacks
<1>4. /\ file = Config!Start /\ live = Config!Start /\ disk = Config!Start.packs /\ lane = Config!Start
      /\ writer = [w \in Config!Writers |-> Config!Idle] /\ editLock = "nobody"
      /\ restart = FALSE /\ replied = Config!NoReply
  BY DEF Config!Init
<1>5. Config!Idle \in Writer /\ Config!Idle.pc = "idle"
  BY <1>2, <1>3, <1>4 DEF Config!Idle, Writer
<1>6. Config!NoReply \in Answer /\ Config!NoReply.ok = FALSE
  BY <1>2 DEF Config!NoReply, Answer
<1>7. ConfigTyped
  BY <1>3, <1>4, <1>5, <1>6 DEF ConfigTyped, Configuration
<1>8. \A w \in Config!Writers : writer[w].pc = "idle"
  BY <1>4, <1>5
<1>9. LockHeld /\ StaysValid
  <2>1. Config!Start.packs = {v} /\ v \in VoicePacks
    BY <1>1 DEF Config!Start
  <2>2. Config!Valid(Config!Start)
    BY <2>1 DEF Config!Valid, Config!OneVoiceEach
  <2>3. Config!Valid(live) /\ Config!Valid(file)
    BY <1>4, <2>2
  <2>4. StaysValid
    BY <1>8, <2>3 DEF StaysValid, Config!At
  <2>5. LockHeld
    BY <1>4, <1>8 DEF LockHeld, Config!At, Config!Writers
  <2>6. QED
    BY <2>4, <2>5
<1>10. InStep /\ TransactionsKeep /\ OperationHolds /\ LaneToldOf
  BY <1>3, <1>4, <1>6, <1>8 DEF InStep, TransactionsKeep, OperationHolds, LaneToldOf, Follows, Config!At,
     Config!Writers, Configuration
<1>11. QED
  BY <1>7, <1>9, <1>10 DEF ConfigInv

\* A step at which a writer that is not in a transaction moves to another place like
\* that disturbs nothing: it opens, saves or starts something, and touches no file.
LEMMA WriterMoves ==
  ASSUME ConfigInv, NEW w \in Config!Writers, NEW u \in Writer,
         writer' = [writer EXCEPT ![w] = u],
         writer[w].pc \in {"idle", "open", "disk", "load"},
         u.pc \in {"idle", "open", "disk", "load", "reload"},
         u.pc = "reload" => w = "hup",
         w = "hup" => u.pc \in {"idle", "reload"},
         w = "engine" => u.pc # "open" /\ (u.pc # "idle" => u.kind \in {"install", "remove"} /\ ~replied'.ok),
         UNCHANGED <<file, live, lane, restart, editLock, world>>,
         disk' \in SUBSET EnginePacks, disk' # disk => w = "engine",
         w = "engine" /\ u.pc = "load" => (IF u.kind = "install" THEN u.pack \in disk' ELSE u.pack \notin disk'),
         replied' \in Answer, replied' = replied \/ ~replied'.ok,
         disk' # disk => ~replied'.ok
  PROVE  ConfigInv'
<1>1. /\ ConfigTyped /\ LockHeld /\ StaysValid
      /\ writer \in [Config!Writers -> Writer]
  BY DEF ConfigInv, ConfigTyped
<1>2. /\ writer' \in [Config!Writers -> Writer] /\ writer'[w] = u
      /\ \A v \in Config!Writers \ {w} : writer'[v] = writer[v]
  BY <1>1
<1>3. ConfigTyped'
  BY <1>1, <1>2 DEF ConfigTyped
<1>4. LockHeld' /\ StaysValid'
  BY <1>1, <1>2 DEF LockHeld, StaysValid, Config!At, Config!Writers, Config!Valid
<1>5. ASSUME world = "calm"
      PROVE  InStep' /\ TransactionsKeep' /\ OperationHolds' /\ LaneToldOf'
  <2>1. InStep /\ TransactionsKeep /\ OperationHolds /\ LaneToldOf
    BY <1>5 DEF ConfigInv
  <2>2. InStep' /\ TransactionsKeep'
    BY <1>1, <1>2, <2>1 DEF InStep, TransactionsKeep, LockHeld, Config!At, Config!Writers, Written, SameVoices, Follows
  <2>3. OperationHolds'
    BY <1>1, <1>2, <2>1 DEF OperationHolds, LockHeld, Config!At, Config!Writers, ConfigTyped, Answer
  <2>4. LaneToldOf'
    BY <1>1, <1>2, <2>1 DEF LaneToldOf, Config!At, Config!Signals, Config!LaneFingerprint
  <2>5. QED
    BY <2>2, <2>3, <2>4
<1>6. QED
  BY <1>3, <1>4, <1>5 DEF ConfigInv

\* The idle record a call begins from.
LEMMA IdleWriter == ConfigInv => Config!Idle \in Writer
<1> SUFFICES ASSUME ConfigInv PROVE Config!Idle \in Writer
  OBVIOUS
<1>1. PICK p \in EnginePacks : p = CHOOSE q \in Config!EnginePacks : TRUE
  BY NamesAssumption DEF NamesAssumption, EnginePacks, Config!EnginePacks
<1>2. live \in Configuration
  BY DEF ConfigInv, ConfigTyped
<1>3. QED
  BY <1>1, <1>2 DEF Config!Idle, Writer

LEMMA NoReplyTyped == Config!NoReply \in Answer /\ ~Config!NoReply.ok
<1>1. PICK p \in EnginePacks : p = CHOOSE q \in Config!EnginePacks : TRUE
  BY NamesAssumption DEF NamesAssumption, EnginePacks, Config!EnginePacks
<1>2. QED
  BY <1>1 DEF Config!NoReply, Answer

\* A writer leaves, with the answer of the operation where it is the engine.
LEMMA WriterLeaves ==
  ASSUME ConfigTyped, NEW w \in Config!Writers, NEW ok \in BOOLEAN, Config!Leave(w, ok)
  PROVE  /\ \E u \in Writer : /\ writer' = [writer EXCEPT ![w] = u] /\ u.pc = "idle"
                             /\ u.kind = writer[w].kind /\ u.pack = writer[w].pack
         /\ replied' \in Answer
         /\ w # "engine" => replied' = replied
         /\ w = "engine" => /\ replied'.ok = ok /\ replied'.kind = writer[w].kind
                            /\ replied'.pack = writer[w].pack
<1>1. writer[w] \in Writer /\ replied \in Answer
  BY DEF ConfigTyped
<1>2. PICK u : u = [writer[w] EXCEPT !.pc = "idle"]
  OBVIOUS
<1>3. u \in Writer /\ u.pc = "idle" /\ u.kind = writer[w].kind /\ u.pack = writer[w].pack
  BY <1>1, <1>2 DEF Writer
<1>4. writer' = [writer EXCEPT ![w] = u]
  BY <1>2 DEF Config!Leave
<1>5. PICK r : r = [kind |-> writer[w].kind, ok |-> ok, pack |-> writer[w].pack]
  OBVIOUS
<1>6. r \in Answer /\ r.ok = ok /\ r.kind = writer[w].kind /\ r.pack = writer[w].pack
  BY <1>1, <1>5 DEF Answer, Writer
<1>7. replied' = IF w = "engine" THEN r ELSE replied
  BY <1>5 DEF Config!Leave
<1>8. QED
  BY <1>1, <1>3, <1>4, <1>6, <1>7

\* A pack is of its own language.
LEMMA InSameLanguage == \A p : p \in Config!SameLanguage(p)
BY DEF Config!SameLanguage

\* The same voices speak the same languages, and a lane that follows l follows what l does.
LEMMA SameSpoken ==
  ASSUME NEW c, NEW l, SameVoices(c, l)
  PROVE  Config!Spoken(c) = Config!Spoken(l)
<1>1. c.packs \intersect VoicePacks = l.packs \intersect VoicePacks
  BY DEF SameVoices
<1>2. QED
  BY <1>1 DEF Config!Spoken

LEMMA FollowsOn ==
  ASSUME NEW l, NEW c, NEW d, Follows(l, c), Follows(c, d)
  PROVE  Follows(l, d)
BY DEF Follows

LEMMA SameFollows ==
  ASSUME NEW l, NEW c \in Configuration, NEW d \in Configuration,
         Config!LaneFingerprint(c) = Config!LaneFingerprint(d)
  PROVE  /\ Follows(c, d)
         /\ Follows(l, c) <=> Follows(l, d)
<1>1. c.packs = d.packs /\ c.model = d.model /\ c.voices = d.voices
  BY DEF Config!LaneFingerprint
<1>2. c = d
  BY <1>1 DEF Configuration
<1>3. Follows(c, c)
  BY DEF Follows
<1>4. QED
  BY <1>2, <1>3

\* The settings page is opened and saved, the engine's operation begins and does its
\* part on the disk, a signal arrives.
LEMMA CallsMove ==
  ASSUME ConfigInv,
         \/ Config!OpenSettings \/ Config!SaveSettings \/ Config!InstallFiles \/ Config!Hangup
         \/ \E p \in Config!EnginePacks : Config!Operate("install", p) \/ Config!Operate("remove", p)
  PROVE  ConfigInv'
<1>1. /\ writer \in [Config!Writers -> Writer] /\ replied \in Answer /\ disk \in SUBSET EnginePacks
      /\ live \in Configuration /\ LockHeld
      /\ "settings" \in Config!Writers /\ "engine" \in Config!Writers /\ "hup" \in Config!Writers
  BY DEF ConfigInv, ConfigTyped, Config!Writers
<1>2. CASE Config!OpenSettings
  <2>1. PICK u : u = [Config!Idle EXCEPT !.pc = "open", !.base = live]
    OBVIOUS
  <2>2. u \in Writer /\ u.pc = "open"
    BY <1>1, <2>1, IdleWriter DEF Writer
  <2>3. writer' = [writer EXCEPT !["settings"] = u] /\ writer["settings"].pc = "idle"
    BY <1>2, <2>1 DEF Config!OpenSettings, Config!At
  <2>4. QED
    BY <1>1, <1>2, <2>2, <2>3, WriterMoves DEF Config!OpenSettings
<1>3. CASE Config!SaveSettings
  <2>1. PICK u : u = [writer["settings"] EXCEPT !.pc = "load"]
    OBVIOUS
  <2>2. u \in Writer /\ u.pc = "load"
    BY <1>1, <2>1 DEF Writer
  <2>3. writer' = [writer EXCEPT !["settings"] = u] /\ writer["settings"].pc = "open"
    BY <1>3, <2>1 DEF Config!SaveSettings, Config!At, Config!Goto
  <2>4. QED
    BY <1>1, <1>3, <2>2, <2>3, WriterMoves DEF Config!SaveSettings
<1>4. CASE Config!Hangup
  <2>1. PICK u : u = [Config!Idle EXCEPT !.pc = "reload"]
    OBVIOUS
  <2>2. u \in Writer /\ u.pc = "reload"
    BY <1>1, <2>1, IdleWriter DEF Writer
  <2>3. writer' = [writer EXCEPT !["hup"] = u] /\ writer["hup"].pc = "idle"
    BY <1>4, <2>1 DEF Config!Hangup, Config!At
  <2>4. QED
    BY <1>1, <1>4, <2>2, <2>3, WriterMoves DEF Config!Hangup
<1>5. ASSUME NEW p \in Config!EnginePacks, NEW kind \in {"install", "remove"}, Config!Operate(kind, p)
      PROVE  ConfigInv'
  <2>1. PICK u : u = [Config!Idle EXCEPT !.pc = "disk", !.kind = kind, !.pack = p]
    OBVIOUS
  <2>2. u \in Writer /\ u.pc = "disk" /\ u.kind = kind
    <3>1. p \in EnginePacks
      BY DEF EnginePacks, Config!EnginePacks
    <3>2. QED
      BY <2>1, <3>1, IdleWriter DEF Writer
  <2>3. writer' = [writer EXCEPT !["engine"] = u] /\ writer["engine"].pc = "idle"
    BY <1>5, <2>1 DEF Config!Operate, Config!At
  <2>4. replied' \in Answer /\ ~replied'.ok /\ UNCHANGED <<file, live, editLock, disk, lane, restart, world>>
    BY <1>5, NoReplyTyped DEF Config!Operate
  <2>5. QED
    BY <1>1, <2>2, <2>3, <2>4, WriterMoves
<1>6. CASE Config!InstallFiles
  <2>1. /\ writer["engine"].pc = "disk" /\ UNCHANGED <<file, live, editLock, lane, restart, world>>
        /\ writer["engine"] \in Writer /\ writer["engine"].pack \in EnginePacks
        /\ writer["engine"].kind \in {"install", "remove"} /\ ~replied.ok
    BY <1>1, <1>6 DEF Config!InstallFiles, Config!At, LockHeld, Writer
  <2>2. CASE Config!Leave("engine", FALSE) /\ disk' = disk
    <3>1. replied' \in Answer /\ ~replied'.ok
      BY <1>1, <2>2, WriterLeaves DEF ConfigInv
    <3>2. PICK u \in Writer : writer' = [writer EXCEPT !["engine"] = u] /\ u.pc = "idle"
      BY <1>1, <2>2, WriterLeaves DEF ConfigInv
    <3>3. QED
      BY <1>1, <2>1, <2>2, <3>1, <3>2, WriterMoves
  <2>3. CASE /\ Config!Goto("engine", "load") /\ replied' = replied
             /\ disk' = IF writer["engine"].kind = "install"
                          THEN (disk \ Config!SameLanguage(writer["engine"].pack)) \union {writer["engine"].pack}
                          ELSE disk \ Config!SameLanguage(writer["engine"].pack)
    <3>1. PICK u : u = [writer["engine"] EXCEPT !.pc = "load"]
      OBVIOUS
    <3>2. /\ u \in Writer /\ u.pc = "load" /\ u.pack = writer["engine"].pack
          /\ u.kind = writer["engine"].kind
      BY <2>1, <3>1 DEF Writer
    <3>3. writer' = [writer EXCEPT !["engine"] = u]
      BY <2>3, <3>1 DEF Config!Goto
    <3>4. disk' \in SUBSET EnginePacks
      BY <1>1, <2>1, <2>3
    <3>5. IF writer["engine"].kind = "install" THEN writer["engine"].pack \in disk'
                                               ELSE writer["engine"].pack \notin disk'
      BY <2>1, <2>3, InSameLanguage
    <3>6. QED
      BY <1>1, <2>1, <2>3, <3>2, <3>3, <3>4, <3>5, WriterMoves
  <2>4. QED
    BY <1>6, <2>2, <2>3 DEF Config!InstallFiles
<1>7. QED
  BY <1>2, <1>3, <1>4, <1>5, <1>6

\* applyProto, extendConfigForPack and retireConfigForPack change what they may.
LEMMA MutatedKeeps ==
  ASSUME ConfigTyped, NEW w \in {"settings", "engine"},
         w = "engine" => writer[w].kind \in {"install", "remove"},
         NEW next \in Config!Mutated(w, file)
  PROVE  next \in Configuration /\ (live = file => Written(w, next))
<1>1. /\ file \in Configuration /\ writer[w] \in Writer
      /\ file.packs \in SUBSET EnginePacks /\ writer[w].pack \in EnginePacks
      /\ writer[w].base.packs \in SUBSET EnginePacks
  BY DEF ConfigTyped, Config!Writers, Writer, Configuration
<1>2. CASE w = "settings"
  <2>1. Config!Mutated("settings", file) =
          {[file EXCEPT !.packs = (@ \intersect VoicePacks) \union (writer["settings"].base.packs \intersect PairPacks),
                        !.model = m, !.voices = v] : m \in 0 .. 1, v \in {"local", "off"}}
    BY DEF Config!Mutated
  <2>2. PICK packs \in SUBSET EnginePacks :
          packs = (file.packs \intersect VoicePacks) \union (writer[w].base.packs \intersect PairPacks)
    BY <1>1
  <2>3. PICK m \in 0 .. 1, v \in {"local", "off"} :
          next = [file EXCEPT !.packs = packs, !.model = m, !.voices = v]
    BY <1>2, <2>1, <2>2
  <2>4. next \in Configuration /\ next.packs = packs
    BY <1>1, <2>3 DEF Configuration
  <2>5. SameVoices(next, file)
    BY <2>2, <2>4, NamesAssumption DEF NamesAssumption, SameVoices
  <2>6. QED
    BY <1>2, <2>4, <2>5 DEF Written, SameVoices
<1>3. CASE w = "engine" /\ writer[w].kind = "install"
  <2>1. PICK packs \in SUBSET EnginePacks :
          packs = (file.packs \ Config!SameLanguage(writer[w].pack)) \union {writer[w].pack}
    BY <1>1
  <2>2. next = [file EXCEPT !.packs = packs]
    BY <1>3, <2>1 DEF Config!Mutated, Config!WithPack
  <2>3. next \in Configuration /\ next.packs = packs /\ next.model = file.model /\ next.voices = file.voices
    BY <1>1, <2>2 DEF Configuration
  <2>4. file.packs \intersect PairPacks \subseteq packs
    BY <2>1, NamesAssumption DEF NamesAssumption, Config!SameLanguage
  <2>5. ASSUME NEW u \in file.packs \intersect VoicePacks
        PROVE  \E v \in packs \intersect VoicePacks : LangOf[v] = LangOf[u]
    <3>1. CASE u \notin Config!SameLanguage(writer[w].pack)
      BY <2>1, <3>1
    <3>2. CASE u \in Config!SameLanguage(writer[w].pack)
      BY <2>1, <2>5, <3>2 DEF Config!SameLanguage
    <3>3. QED
      BY <3>1, <3>2
  <2>6. Config!Spoken(file) \subseteq Config!Spoken(next)
    BY <2>3, <2>5 DEF Config!Spoken
  <2>7. Follows(file, next) /\ writer[w].pack \in next.packs
    BY <2>1, <2>3, <2>4, <2>6 DEF Follows
  <2>8. QED
    BY <1>3, <2>3, <2>7 DEF Written
<1>4. CASE w = "engine" /\ writer[w].kind = "remove"
  <2>1. PICK packs \in SUBSET EnginePacks : packs = file.packs \ Config!SameLanguage(writer[w].pack)
    BY <1>1
  <2>2. next = [file EXCEPT !.packs = packs]
    BY <1>4, <2>1 DEF Config!Mutated, Config!WithoutPack
  <2>3. next \in Configuration /\ next.packs = packs
    BY <1>1, <2>2 DEF Configuration
  <2>4. writer[w].pack \in VoicePacks => LangOf[writer[w].pack] \notin Config!Spoken(next)
    BY <2>1, <2>3 DEF Config!SameLanguage, Config!Spoken
  <2>5. QED
    BY <1>4, <2>3, <2>4 DEF Written
<1>5. QED
  BY <1>2, <1>3, <1>4

\* The lock is taken over what is to be written, or the edit is refused.
LEMMA UpdateKeeps ==
  ASSUME ConfigInv, NEW w \in Config!Writers, Config!Update(w)
  PROVE  ConfigInv'
<1>1. /\ ConfigTyped /\ LockHeld /\ StaysValid /\ writer \in [Config!Writers -> Writer]
      /\ writer[w].pc = "load" /\ editLock = "nobody" /\ w \in {"settings", "engine"}
      /\ UNCHANGED <<file, live, disk, lane, restart, world>>
  BY DEF ConfigInv, ConfigTyped, LockHeld, Config!Update, Config!At, Config!Writers
<1>2. PICK next \in Config!Mutated(w, file) :
        IF Config!Valid(next)
          THEN editLock' = w /\ replied' = replied
               /\ writer' = [writer EXCEPT ![w].pc = "save", ![w].base = next]
          ELSE Config!Leave(w, FALSE) /\ editLock' = editLock
  BY DEF Config!Update
<1>3. next \in Configuration /\ (live = file => Written(w, next))
  BY <1>1, <1>2, MutatedKeeps DEF LockHeld, Config!At
<1>4. CASE ~Config!Valid(next)
  <2>1. Config!Leave(w, FALSE) /\ editLock' = editLock
    BY <1>2, <1>4
  <2>2. replied' \in Answer /\ (replied' = replied \/ ~replied'.ok) /\ (w = "engine" => ~replied'.ok)
    BY <1>1, <2>1, WriterLeaves
  <2>3. PICK u \in Writer : writer' = [writer EXCEPT ![w] = u] /\ u.pc = "idle"
    BY <1>1, <2>1, WriterLeaves
  <2>4. QED
    BY <1>1, <2>1, <2>2, <2>3, WriterMoves DEF ConfigTyped
<1>5. CASE Config!Valid(next)
  <2>1. PICK u : u = [writer[w] EXCEPT !.pc = "save", !.base = next]
    OBVIOUS
  <2>2. /\ u \in Writer /\ u.pc = "save" /\ u.base = next /\ u.kind = writer[w].kind /\ u.pack = writer[w].pack
    BY <1>1, <1>3, <2>1 DEF Writer
  <2>3. writer' = [writer EXCEPT ![w] = u] /\ editLock' = w /\ replied' = replied
    BY <1>1, <1>2, <1>5, <2>1
  <2>4. /\ writer' \in [Config!Writers -> Writer] /\ writer'[w] = u
        /\ \A v \in Config!Writers \ {w} : writer'[v] = writer[v]
    BY <1>1, <2>2, <2>3
  <2>5. ConfigTyped' /\ LockHeld' /\ StaysValid'
    BY <1>1, <1>5, <2>2, <2>3, <2>4 DEF ConfigTyped, LockHeld, StaysValid, Config!At, Config!Writers, Config!Valid
  <2>6. ASSUME world = "calm"
        PROVE  InStep' /\ TransactionsKeep' /\ OperationHolds' /\ LaneToldOf'
    <3>1. InStep /\ TransactionsKeep /\ OperationHolds /\ LaneToldOf /\ live = file
      BY <1>1, <2>6 DEF ConfigInv, InStep
    <3>2. InStep' /\ OperationHolds'
      BY <1>1, <2>2, <2>3, <2>4, <3>1 DEF InStep, OperationHolds, Config!Writers
    <3>3. TransactionsKeep'
      BY <1>1, <1>3, <2>2, <2>3, <2>4, <3>1 DEF TransactionsKeep, LockHeld, Config!At, Config!Writers, Written,
         SameVoices, Follows
    <3>4. LaneToldOf'
      BY <1>1, <2>2, <2>4, <3>1 DEF LaneToldOf, Config!At, Config!Signals, Config!LaneFingerprint
    <3>5. QED
      BY <3>2, <3>3, <3>4
  <2>7. QED
    BY <1>1, <2>5, <2>6 DEF ConfigInv
<1>6. QED
  BY <1>4, <1>5

\* What is staged takes the file's place, or not, and the directory is not synced.
LEMMA SaveKeeps ==
  ASSUME ConfigInv, NEW w \in Config!Writers, Config!Save(w)
  PROVE  ConfigInv'
<1>1. /\ ConfigTyped /\ LockHeld /\ StaysValid /\ writer \in [Config!Writers -> Writer]
      /\ writer[w].pc = "save" /\ editLock = w /\ w \in {"settings", "engine"}
      /\ writer[w] \in Writer /\ writer[w].base \in Configuration /\ Config!Valid(writer[w].base)
      /\ UNCHANGED <<live, disk, lane, restart, world>>
  BY DEF ConfigInv, ConfigTyped, LockHeld, StaysValid, Config!Save, Config!At, Config!Writers, Writer
<1>2. CASE /\ file' = writer[w].base /\ Config!Goto(w, "reload")
           /\ editLock' = editLock /\ replied' = replied
  <2>1. PICK u : u = [writer[w] EXCEPT !.pc = "reload"]
    OBVIOUS
  <2>2. /\ u \in Writer /\ u.pc = "reload" /\ u.kind = writer[w].kind /\ u.pack = writer[w].pack
    BY <1>1, <2>1 DEF Writer
  <2>3. writer' = [writer EXCEPT ![w] = u]
    BY <1>2, <2>1 DEF Config!Goto
  <2>4. /\ writer' \in [Config!Writers -> Writer] /\ writer'[w] = u
        /\ \A v \in Config!Writers \ {w} : writer'[v] = writer[v]
    BY <1>1, <2>2, <2>3
  <2>5. ConfigTyped' /\ LockHeld' /\ StaysValid'
    BY <1>1, <1>2, <2>2, <2>4 DEF ConfigTyped, LockHeld, StaysValid, Config!At, Config!Writers, Config!Valid
  <2>6. ASSUME world = "calm"
        PROVE  InStep' /\ TransactionsKeep' /\ OperationHolds' /\ LaneToldOf'
    <3>1. InStep /\ TransactionsKeep /\ OperationHolds /\ LaneToldOf /\ Written(w, writer[w].base)
      BY <1>1, <2>6 DEF ConfigInv, TransactionsKeep, Config!At
    <3>2. InStep' /\ OperationHolds'
      BY <1>1, <1>2, <2>2, <2>4, <3>1 DEF InStep, OperationHolds, Config!At, Config!Writers
    <3>3. TransactionsKeep'
      BY <1>1, <1>2, <2>2, <2>4, <3>1 DEF TransactionsKeep, LockHeld, Config!At, Config!Writers, Written,
         SameVoices, Follows
    <3>4. LaneToldOf'
      BY <1>1, <2>2, <2>4, <3>1 DEF LaneToldOf, Config!At, Config!Signals, Config!LaneFingerprint
    <3>5. QED
      BY <3>2, <3>3, <3>4
  <2>7. QED
    BY <1>1, <2>5, <2>6 DEF ConfigInv
<1>3. CASE /\ world = "faulty" /\ file' \in {file, writer[w].base}
           /\ Config!Leave(w, FALSE) /\ editLock' = "nobody"
  <2>1. replied' \in Answer /\ (w = "engine" => ~replied'.ok) /\ (w # "engine" => replied' = replied)
    BY <1>1, <1>3, WriterLeaves
  <2>2. PICK u \in Writer : writer' = [writer EXCEPT ![w] = u] /\ u.pc = "idle" /\ u.kind = writer[w].kind
    BY <1>1, <1>3, WriterLeaves
  <2>3. /\ writer' \in [Config!Writers -> Writer] /\ writer'[w] = u
        /\ \A v \in Config!Writers \ {w} : writer'[v] = writer[v]
    BY <1>1, <2>2
  <2>4. ConfigTyped'
    BY <1>1, <1>3, <2>1, <2>3 DEF ConfigTyped
  <2>5. LockHeld' /\ StaysValid'
    BY <1>1, <1>3, <2>1, <2>2, <2>3 DEF LockHeld, StaysValid, Config!At, Config!Writers, Config!Valid
  <2>6. world' # "calm"
    BY <1>1, <1>3
  <2>7. QED
    BY <2>4, <2>5, <2>6 DEF ConfigInv
<1>4. QED
  BY <1>2, <1>3 DEF Config!Save

\* The load succeeds unless the file was edited by hand, and readers see the file again.
LEMMA ReloadKeeps ==
  ASSUME ConfigInv, NEW w \in Config!Writers, Config!Reload(w)
  PROVE  ConfigInv'
<1>1. /\ ConfigTyped /\ LockHeld /\ StaysValid /\ writer \in [Config!Writers -> Writer]
      /\ writer[w].pc = "reload" /\ editLock \in {w, "nobody"} /\ editLock' = "nobody"
      /\ writer[w] \in Writer /\ file \in Configuration /\ live \in Configuration /\ lane \in Configuration
      /\ UNCHANGED <<file, disk, lane, restart, world>>
  BY DEF ConfigInv, ConfigTyped, Config!Reload, Config!At
<1>2. CASE ~Config!Loads(file)
  <2>1. Config!Leave(w, FALSE) /\ live' = live /\ world # "calm"
    BY <1>1, <1>2 DEF Config!Reload, Config!Loads, StaysValid
  <2>2. replied' \in Answer /\ (w = "engine" => ~replied'.ok) /\ (w # "engine" => replied' = replied)
    BY <1>1, <2>1, WriterLeaves
  <2>3. PICK u \in Writer : writer' = [writer EXCEPT ![w] = u] /\ u.pc = "idle" /\ u.kind = writer[w].kind
    BY <1>1, <2>1, WriterLeaves
  <2>4. /\ writer' \in [Config!Writers -> Writer] /\ writer'[w] = u
        /\ \A v \in Config!Writers \ {w} : writer'[v] = writer[v]
    BY <1>1, <2>3
  <2>5. ConfigTyped'
    BY <1>1, <2>1, <2>2, <2>4 DEF ConfigTyped
  <2>6. LockHeld' /\ StaysValid'
    BY <1>1, <2>1, <2>2, <2>3, <2>4 DEF LockHeld, StaysValid, Config!At, Config!Writers, Config!Valid
  <2>7. QED
    BY <1>1, <2>1, <2>5, <2>6 DEF ConfigInv
<1>3. CASE Config!Loads(file)
  <2>1. PICK u : u = [writer[w] EXCEPT !.pc = "notify", !.old = live, !.base = file]
    OBVIOUS
  <2>2. /\ u \in Writer /\ u.pc = "notify" /\ u.kind = writer[w].kind /\ u.pack = writer[w].pack
        /\ u.old = live /\ u.base = file
    BY <1>1, <2>1 DEF Writer
  <2>3. writer' = [writer EXCEPT ![w] = u] /\ live' = file /\ replied' = replied
    BY <1>1, <1>3, <2>1 DEF Config!Reload
  <2>4. /\ writer' \in [Config!Writers -> Writer] /\ writer'[w] = u
        /\ \A v \in Config!Writers \ {w} : writer'[v] = writer[v]
    BY <1>1, <2>2, <2>3
  <2>5. ConfigTyped' /\ LockHeld' /\ StaysValid'
    BY <1>1, <1>3, <2>2, <2>3, <2>4 DEF ConfigTyped, LockHeld, StaysValid, Config!At, Config!Writers, Config!Valid,
       Config!Loads
  <2>6. ASSUME world = "calm"
        PROVE  InStep' /\ TransactionsKeep' /\ OperationHolds' /\ LaneToldOf'
    <3>1. /\ InStep /\ TransactionsKeep /\ OperationHolds /\ LaneToldOf
          /\ Written(w, file) \/ live = file
      BY <1>1, <2>6 DEF ConfigInv, TransactionsKeep, InStep, Config!At
    <3>2. w = "hup" => live = file
      BY <1>1, <3>1 DEF LockHeld, InStep
    <3>3. InStep' /\ TransactionsKeep'
      BY <1>1, <2>2, <2>3, <2>4 DEF InStep, TransactionsKeep, LockHeld, Config!At, Config!Writers
    <3>4. CASE w = "engine"
      <4>1. /\ editLock = w /\ Written(w, file) /\ writer[w].kind \in {"install", "remove"} /\ ~replied.ok
            /\ IF writer[w].kind = "install" THEN writer[w].pack \in disk ELSE writer[w].pack \notin disk
        BY <1>1, <3>1, <3>4 DEF LockHeld, TransactionsKeep, OperationHolds, Config!At
      <4>2. OperationHolds'
        BY <1>1, <2>2, <2>3, <2>4, <3>4, <4>1 DEF OperationHolds, Written
      <4>3. LaneToldOf'
        <5>1. CASE writer[w].kind = "remove" /\ Config!LaneFingerprint(live) # Config!LaneFingerprint(file)
          BY <2>2, <2>4, <3>4, <5>1 DEF LaneToldOf, Config!At, Config!Signals, Config!LaneFingerprint
        <5>2. CASE writer[w].kind = "install" \/ Config!LaneFingerprint(live) = Config!LaneFingerprint(file)
          <6>1. Follows(live, file)
            BY <1>1, <3>4, <4>1, <5>2, SameFollows DEF Written
          <6>2. Follows(lane, live) => Follows(lane, file)
            BY <6>1, FollowsOn
          <6>3. CASE Follows(lane, live)
            BY <1>1, <2>3, <6>2, <6>3 DEF LaneToldOf
          <6>4. CASE ~Follows(lane, live)
            BY <1>1, <2>4, <3>1, <6>4 DEF LaneToldOf, Config!At, Config!Signals, Config!LaneFingerprint
          <6>5. QED
            BY <6>3, <6>4
        <5>3. QED
          BY <4>1, <5>1, <5>2
      <4>4. QED
        BY <3>3, <4>2, <4>3
    <3>5. CASE w # "engine"
      <4>1. SameVoices(file, live)
        BY <1>1, <3>1, <3>2, <3>5 DEF LockHeld, TransactionsKeep, Written, SameVoices, Config!At, Config!Writers,
           InStep
      <4>2. OperationHolds'
        BY <1>1, <2>3, <2>4, <3>1, <3>5, <4>1, SameSpoken DEF OperationHolds, SameVoices, Config!Writers
      <4>3. LaneToldOf'
        <5>1. CASE Config!LaneFingerprint(live) = Config!LaneFingerprint(file)
          <6>1. Follows(lane, live) <=> Follows(lane, file)
            BY <1>1, <5>1, SameFollows
          <6>2. QED
            BY <1>1, <2>3, <2>4, <3>1, <6>1 DEF LaneToldOf, Config!At, Config!Signals, Config!LaneFingerprint
        <5>2. CASE Config!LaneFingerprint(live) # Config!LaneFingerprint(file)
          BY <2>2, <2>4, <3>5, <5>2 DEF LaneToldOf, Config!At, Config!Signals, Config!LaneFingerprint
        <5>3. QED
          BY <5>1, <5>2
      <4>4. QED
        BY <3>3, <4>2, <4>3
    <3>6. QED
      BY <3>4, <3>5
  <2>7. QED
    BY <1>1, <2>5, <2>6 DEF ConfigInv
<1>4. QED
  BY <1>2, <1>3

\* A transition is told to the lanes, and the engine's operation answers.
LEMMA NotifyKeeps ==
  ASSUME ConfigInv, NEW w \in Config!Writers, Config!Notify(w)
  PROVE  ConfigInv'
<1>1. /\ ConfigTyped /\ LockHeld /\ StaysValid /\ writer \in [Config!Writers -> Writer]
      /\ writer[w].pc = "notify" /\ Config!Leave(w, TRUE)
      /\ restart' = (restart \/ (Config!Signals(w) /\ Config!LaneFingerprint(writer[w].old)
                                                        # Config!LaneFingerprint(writer[w].base)))
      /\ UNCHANGED <<file, live, editLock, disk, lane, world>>
  BY DEF ConfigInv, ConfigTyped, Config!Notify, Config!At
<1>2. /\ replied' \in Answer /\ (w # "engine" => replied' = replied)
      /\ w = "engine" => replied'.kind = writer[w].kind /\ replied'.pack = writer[w].pack
  BY <1>1, WriterLeaves
<1>3. PICK u \in Writer : writer' = [writer EXCEPT ![w] = u] /\ u.pc = "idle" /\ u.kind = writer[w].kind
  BY <1>1, WriterLeaves
<1>4. /\ writer' \in [Config!Writers -> Writer] /\ writer'[w] = u
      /\ \A v \in Config!Writers \ {w} : writer'[v] = writer[v]
  BY <1>1, <1>3
<1>5. restart' \in BOOLEAN
  BY <1>1 DEF ConfigTyped
<1>6. ConfigTyped'
  BY <1>1, <1>2, <1>4, <1>5 DEF ConfigTyped
<1>7. LockHeld' /\ StaysValid'
  BY <1>1, <1>2, <1>3, <1>4 DEF LockHeld, StaysValid, Config!At, Config!Writers, Config!Valid
<1>8. ASSUME world = "calm"
      PROVE  InStep' /\ TransactionsKeep' /\ OperationHolds' /\ LaneToldOf'
  <2>1. InStep /\ TransactionsKeep /\ OperationHolds /\ LaneToldOf
    BY <1>8 DEF ConfigInv
  <2>2. InStep' /\ TransactionsKeep'
    BY <1>1, <1>3, <1>4, <2>1 DEF InStep, TransactionsKeep, LockHeld, Config!At, Config!Writers, Written, SameVoices,
       Follows
  <2>3. OperationHolds'
    <3>1. CASE w = "engine"
      <4>1. /\ writer[w].kind \in {"install", "remove"}
            /\ IF writer[w].kind = "install" THEN writer[w].pack \in disk ELSE writer[w].pack \notin disk
            /\ writer[w].pack \in VoicePacks =>
                 (IF writer[w].kind = "install" THEN writer[w].pack \in live.packs
                                                ELSE LangOf[writer[w].pack] \notin Config!Spoken(live))
        BY <1>1, <2>1, <3>1 DEF OperationHolds, LockHeld, Config!At
      <4>2. QED
        BY <1>1, <1>2, <1>3, <1>4, <3>1, <4>1 DEF OperationHolds
    <3>2. CASE w # "engine"
      BY <1>1, <1>2, <1>4, <2>1, <3>2 DEF OperationHolds, Config!Writers
    <3>3. QED
      BY <3>1, <3>2
  <2>4. LaneToldOf'
    <3>1. CASE restart'
      BY <3>1 DEF LaneToldOf
    <3>2. CASE ~restart'
      BY <1>1, <1>4, <1>5, <2>1, <3>2 DEF LaneToldOf, Config!At, Config!Signals, Config!LaneFingerprint
    <3>3. QED
      BY <3>1, <3>2
  <2>5. QED
    BY <2>2, <2>3, <2>4
<1>9. QED
  BY <1>1, <1>6, <1>7, <1>8 DEF ConfigInv

\* The lanes restart, the file is edited by hand, the daemon starts again.
LEMMA RestartsKeep ==
  ASSUME ConfigInv, Config!RestartLanes \/ Config!EditFile \/ Config!Restarted
  PROVE  ConfigInv'
<1>1. ConfigTyped /\ LockHeld /\ StaysValid
  BY DEF ConfigInv
<1>2. CASE Config!RestartLanes
  <2>1. ConfigTyped' /\ LockHeld' /\ StaysValid'
    BY <1>1, <1>2 DEF Config!RestartLanes, ConfigTyped, LockHeld, StaysValid, Config!At
  <2>2. ASSUME world = "calm"
        PROVE  InStep' /\ TransactionsKeep' /\ OperationHolds' /\ LaneToldOf'
    BY <1>2, <2>2 DEF Config!RestartLanes, ConfigInv, InStep, TransactionsKeep, Written, SameVoices, Follows,
       OperationHolds, LaneToldOf, Config!At
  <2>3. QED
    BY <1>2, <2>1, <2>2 DEF ConfigInv, Config!RestartLanes
<1>3. CASE Config!EditFile
  <2>1. file' \in Configuration
    BY <1>3 DEF Config!EditFile, Configuration, EnginePacks, Config!EnginePacks
  <2>2. ConfigTyped' /\ LockHeld' /\ StaysValid' /\ world' # "calm"
    BY <1>1, <1>3, <2>1 DEF Config!EditFile, ConfigTyped, LockHeld, StaysValid, Config!At
  <2>3. QED
    BY <2>2 DEF ConfigInv
<1>4. CASE Config!Restarted
  <2>1. /\ \A w \in Config!Writers : writer'[w] = Config!Idle
        /\ writer' \in [Config!Writers -> Writer]
    BY <1>4, IdleWriter DEF Config!Restarted
  <2>2. \A w \in Config!Writers : writer'[w].pc = "idle"
    BY <2>1 DEF Config!Idle
  <2>3. ConfigTyped'
    BY <1>1, <1>4, <2>1, NoReplyTyped DEF Config!Restarted, ConfigTyped
  <2>4. LockHeld' /\ StaysValid'
    BY <1>1, <1>4, <2>2, NoReplyTyped DEF Config!Restarted, LockHeld, StaysValid, Config!At, Config!Writers, Config!Valid,
       Config!Loads
  <2>5. InStep' /\ LaneToldOf'
    BY <1>1, <1>4 DEF Config!Restarted, InStep, LaneToldOf, ConfigTyped, Follows
  <2>6. TransactionsKeep'
    BY <2>2 DEF TransactionsKeep, Config!At
  <2>7. OperationHolds'
    BY <1>4, <2>2, NoReplyTyped DEF Config!Restarted, OperationHolds, Config!Writers
  <2>8. QED
    BY <2>3, <2>4, <2>5, <2>6, <2>7 DEF ConfigInv
<1>5. QED
  BY <1>2, <1>3, <1>4

LEMMA ConfigStill == ConfigInv /\ UNCHANGED configVars => ConfigInv'
<1> SUFFICES ASSUME ConfigInv, UNCHANGED configVars PROVE ConfigInv'
  OBVIOUS
<1>1. ConfigTyped' /\ LockHeld' /\ StaysValid'
  BY DEF configVars, ConfigInv, ConfigTyped, LockHeld, StaysValid, Config!At
<1>2. ASSUME world = "calm"
      PROVE  InStep' /\ TransactionsKeep' /\ OperationHolds' /\ LaneToldOf'
  <2>1. InStep /\ TransactionsKeep /\ OperationHolds /\ LaneToldOf
    BY <1>2 DEF ConfigInv
  <2>2. InStep' /\ OperationHolds' /\ LaneToldOf'
    BY <2>1 DEF configVars, InStep, OperationHolds, LaneToldOf, Follows, Config!At, Config!Signals
  <2>3. TransactionsKeep'
    BY <2>1 DEF configVars, TransactionsKeep, Written, SameVoices, Follows, Config!At
  <2>4. QED
    BY <2>2, <2>3
<1>3. QED
  BY <1>1, <1>2 DEF ConfigInv, configVars

LEMMA ConfigAlways == Spec => []ConfigInv
<1>1. Init => ConfigInv
  BY ConfigInit DEF Init
<1>2. ConfigInv /\ [Next]_vars => ConfigInv'
  <2> SUFFICES ASSUME ConfigInv, [Next]_vars PROVE ConfigInv'
    OBVIOUS
  <2>1. CASE UNCHANGED configVars
    BY <2>1, ConfigStill
  <2>2. CASE Config!Next
    <3>1. CASE \/ Config!OpenSettings \/ Config!SaveSettings \/ Config!InstallFiles \/ Config!Hangup
               \/ \E p \in Config!EnginePacks : Config!Operate("install", p) \/ Config!Operate("remove", p)
      BY <3>1, CallsMove
    <3>2. ASSUME NEW w \in Config!Writers,
                 Config!Update(w) \/ Config!Save(w) \/ Config!Reload(w) \/ Config!Notify(w)
          PROVE  ConfigInv'
      BY <3>2, UpdateKeeps, SaveKeeps, ReloadKeeps, NotifyKeeps
    <3>3. CASE Config!RestartLanes \/ Config!EditFile \/ Config!Restarted
      BY <3>3, RestartsKeep
    <3>4. QED
      BY <2>2, <3>1, <3>2, <3>3 DEF Config!Next
  <2>3. QED
    BY <2>1, <2>2 DEF Next, vars, DaemonStep, ConfigStep, EngineStep, ApiStep, DevicesStep, EventsStep, InstallsStep
<1>3. QED
  BY <1>1, <1>2, PTL DEF Spec

\* What the configuration's readers are promised.
LEMMA ConfigPromises == ConfigInv => Config!FileLoadsAgain /\ Config!CalmLaneFollows /\ Config!AnswersHold
<1> SUFFICES ASSUME ConfigInv PROVE Config!FileLoadsAgain /\ Config!CalmLaneFollows /\ Config!AnswersHold
  OBVIOUS
<1>1. Config!FileLoadsAgain
  BY DEF ConfigInv, StaysValid, Config!FileLoadsAgain, Config!Loads
<1>2. Config!CalmLaneFollows
  BY DEF ConfigInv, LaneToldOf, Follows, Config!CalmLaneFollows, Config!LaneFollows, Config!Settled
<1>3. Config!AnswersHold
  BY DEF ConfigInv, OperationHolds, Config!AnswersHold
<1>4. QED
  BY <1>1, <1>2, <1>3

-----------------------------------------------------------------------------
(* What was admitted.                                                      *)

Asked(r) == DOMAIN r = {"pc", "def", "pairs"} /\ (r.pc = "create" => Api!Capable(r.def, r.pairs))

\* Each definition is capable under the pairs it was admitted with, and so is
\* each one whose creation has passed the check and not reached the store.
ApiInv ==
  /\ DOMAIN served = DOMAIN defs
  /\ \A slug \in DOMAIN defs : Api!Capable(defs[slug], served[slug])
  /\ DOMAIN ask = Clients
  /\ \A c \in Clients : Asked(ask[c])

\* pivot.go: what the admission takes for a route is one the translator finds.
LEMMA SupportedRuns ==
  ASSUME NEW pairs, NEW from, NEW to, Api!Supported(pairs, Api!Base(from), Api!Base(to))
  PROVE  Api!Translate(pairs, from, to) \subseteq pairs
<1>1. \A t : Api!Base(Api!Base(t)) = Api!Base(t)
  <2> SUFFICES ASSUME NEW t PROVE Api!Base(Api!Base(t)) = Api!Base(t)
    OBVIOUS
  <2>1. CASE t = Api!Auto
    BY <2>1 DEF Api!Base
  <2>2. CASE t # Api!Auto
    <3>1. PICK h : h = Head(t)
      OBVIOUS
    <3>2. Api!Base(t) = <<h>> /\ Head(<<h>>) = h /\ <<h>> # Api!Auto
      BY <2>2, <3>1 DEF Api!Base, Api!Auto
    <3>3. Api!Base(<<h>>) = <<h>>
      BY <3>2 DEF Api!Base
    <3>4. QED
      BY <3>2, <3>3
  <2>3. QED
    BY <2>1, <2>2
<1>2. Api!Base(Api!English) = Api!English
  BY DEF Api!Base, Api!English, Api!Auto
<1>3. QED
  BY <1>1, <1>2 DEF Api!Supported, Api!Translate, Api!SameLang, Api!Direct

LEMMA ApiStill == ApiInv /\ UNCHANGED apiVars => ApiInv'
BY DEF ApiInv, apiVars

LEMMA ApiInit == Api!Init => ApiInv
<1> SUFFICES ASSUME Api!Init PROVE ApiInv
  OBVIOUS
<1>1. defs = <<>> /\ served = <<>> /\ ask = [c \in Clients |-> Api!Idle]
  BY DEF Api!Init
<1>2. Asked(Api!Idle)
  BY DEF Asked, Api!Idle
<1>3. QED
  BY <1>1, <1>2 DEF ApiInv

\* Stored under a slug with the pairs that were judged.
LEMMA StoredKeeps ==
  ASSUME ApiInv, NEW slug, NEW def, NEW pairs, Api!Capable(def, pairs),
         defs' = Api!Put(defs, slug, def), served' = Api!Put(served, slug, pairs)
  PROVE  /\ DOMAIN served' = DOMAIN defs'
         /\ \A s \in DOMAIN defs' : Api!Capable(defs'[s], served'[s])
BY DEF ApiInv, Api!Put

LEMMA ApiKeeps == ApiInv /\ Api!Next => ApiInv'
<1> SUFFICES ASSUME ApiInv, Api!Next PROVE ApiInv'
  OBVIOUS
<1>1. DOMAIN ask = Clients /\ \A c \in Clients : Asked(ask[c])
  BY DEF ApiInv
<1>2. Asked(Api!Idle)
  BY DEF Asked, Api!Idle
<1>3. ASSUME NEW c \in Clients, NEW r, ask' = [ask EXCEPT ![c] = r], Asked(r)
      PROVE  DOMAIN ask' = Clients /\ \A d \in Clients : Asked(ask'[d])
  BY <1>1, <1>3
<1>4. ASSUME NEW c \in Clients, Api!CreateSession(c)
      PROVE  ApiInv'
  <2>1. UNCHANGED <<defs, served>>
    BY <1>4 DEF Api!CreateSession, Api!Unmade
  <2>2. CASE ask' = ask
    BY <2>1, <2>2 DEF ApiInv
  <2>3. ASSUME NEW def, ask' = [ask EXCEPT ![c] = [Api!Idle EXCEPT !.pc = "capable", !.def = def]]
        PROVE  ApiInv'
    <3>1. PICK r : r = [Api!Idle EXCEPT !.pc = "capable", !.def = def]
      OBVIOUS
    <3>2. Asked(r)
      BY <3>1 DEF Asked, Api!Idle
    <3>3. QED
      BY <1>3, <2>1, <2>3, <3>1, <3>2 DEF ApiInv
  <2>4. QED
    BY <1>4, <2>2, <2>3 DEF Api!CreateSession
<1>5. ASSUME NEW c \in Clients, Api!CheckCapable(c)
      PROVE  ApiInv'
  <2>1. UNCHANGED <<defs, served>>
    BY <1>5 DEF Api!CheckCapable, Api!Unmade
  <2>2. CASE ~Api!Capable(ask[c].def, config.pairs)
    BY <1>2, <1>3, <1>5, <2>1, <2>2 DEF Api!CheckCapable, Api!End, ApiInv
  <2>3. CASE Api!Capable(ask[c].def, config.pairs)
    <3>1. PICK r : r = [ask[c] EXCEPT !.pc = "create", !.pairs = config.pairs]
      OBVIOUS
    <3>2. ask' = [ask EXCEPT ![c] = r]
      BY <1>1, <1>5, <2>3, <3>1 DEF Api!CheckCapable
    <3>3. DOMAIN r = {"pc", "def", "pairs"} /\ r.def = ask[c].def /\ r.pairs = config.pairs
      BY <1>1, <3>1 DEF Asked
    <3>4. QED
      BY <1>3, <2>1, <2>3, <3>2, <3>3 DEF ApiInv, Asked
  <2>4. QED
    BY <2>2, <2>3
<1>6. ASSUME NEW c \in Clients, Api!Create(c)
      PROVE  ApiInv'
  <2>1. /\ ask' = [ask EXCEPT ![c] = Api!Idle]
        /\ Api!Capable(ask[c].def, ask[c].pairs)
    BY <1>1, <1>6 DEF Api!Create, Api!End, Api!At, Asked
  <2>2. CASE UNCHANGED <<defs, served>>
    BY <1>2, <1>3, <2>1, <2>2 DEF ApiInv
  <2>3. CASE /\ defs' = Api!Put(defs, ask[c].def.slug, ask[c].def)
             /\ served' = Api!Put(served, ask[c].def.slug, ask[c].pairs)
    BY <1>2, <1>3, <2>1, <2>3, StoredKeeps DEF ApiInv
  <2>4. QED
    BY <1>6, <2>2, <2>3 DEF Api!Create, Api!Unmade
<1>7. ASSUME NEW c \in Clients, Api!UpdateSession(c)
      PROVE  ApiInv'
  <2>1. ask' = ask
    BY <1>7 DEF Api!UpdateSession
  <2>2. CASE UNCHANGED <<defs, served>>
    BY <2>1, <2>2 DEF ApiInv
  <2>3. ASSUME NEW slug, NEW def, Api!Capable(def, config.pairs),
               defs' = Api!Put(defs, slug, def), served' = Api!Put(served, slug, config.pairs)
        PROVE  ApiInv'
    BY <1>1, <2>1, <2>3, StoredKeeps DEF ApiInv
  <2>4. QED
    BY <1>7, <2>2, <2>3 DEF Api!UpdateSession, Api!Unmade
<1>8. ASSUME NEW c \in Clients, Api!DeleteSession(c)
      PROVE  ApiInv'
  <2>1. PICK gone : /\ defs' = [s \in DOMAIN defs \ gone |-> defs[s]]
                    /\ served' = [s \in DOMAIN served \ gone |-> served[s]]
    BY <1>8, Zenon DEF Api!DeleteSession
  <2>2. ask' = ask
    BY <1>8 DEF Api!DeleteSession
  <2>3. QED
    BY <2>1, <2>2 DEF ApiInv
<1>9. ASSUME NEW c \in Clients, Api!Push(c) \/ Api!Pushed(c)
      PROVE  ApiInv'
  <2>1. UNCHANGED <<defs, served>>
    BY <1>9 DEF Api!Push, Api!Pushed, Api!Unmade
  <2>2. PICK r : ask' = [ask EXCEPT ![c] = r] /\ Asked(r)
    <3>1. CASE Api!Pushed(c)
      BY <1>2, <3>1 DEF Api!Pushed, Api!End
    <3>2. CASE Api!Push(c)
      <4>1. PICK def : ask' = [ask EXCEPT ![c] = [Api!Idle EXCEPT !.pc = "push", !.def = def]]
        BY <3>2 DEF Api!Push
      <4>2. Asked([Api!Idle EXCEPT !.pc = "push", !.def = def])
        BY DEF Asked, Api!Idle
      <4>3. QED
        BY <4>1, <4>2
    <3>3. QED
      BY <1>9, <3>1, <3>2
  <2>3. QED
    BY <1>3, <2>1, <2>2 DEF ApiInv
<1>10. CASE Api!Reconfigure
  BY <1>10 DEF Api!Reconfigure, Api!Unmade, ApiInv
<1>11. QED
  BY <1>4, <1>5, <1>6, <1>7, <1>8, <1>9, <1>10 DEF Api!Next

LEMMA ApiAlways == Spec => []ApiInv
<1>1. Init => ApiInv
  BY ApiInit DEF Init
<1>2. ApiInv /\ [Next]_vars => ApiInv'
  BY ApiKeeps, ApiStill DEF Next, vars, DaemonStep, ConfigStep, EngineStep, ApiStep, DevicesStep, EventsStep, InstallsStep
<1>3. QED
  BY <1>1, <1>2, PTL DEF Spec

LEMMA AdmittedRun == ApiInv => Api!AdmittedRoutesExist
BY SupportedRuns DEF ApiInv, Api!AdmittedRoutesExist, Api!Capable

\* ConfigurationIsConsistent holds of every behaviour: whatever the daemon wrote
\* loads again, without faults and edits by hand the lane that runs speaks no language
\* and translates no pair the configuration readers see has not, what the engine
\* answered holds, and what was admitted runs through models the configuration it
\* was judged under has.
THEOREM ConfigurationStays == Spec => []ConfigurationIsConsistent
<1>1. ConfigInv /\ ApiInv => ConfigurationIsConsistent
  BY ConfigPromises, AdmittedRun DEF ConfigurationIsConsistent, Of
<1>2. QED
  BY <1>1, ConfigAlways, ApiAlways, PTL
-----------------------------------------------------------------------------
(* The installers' files.                                                  *)

\* What the promises of the engine's installer are made for: any number of kills, or one
\* file operation that fails.  With two, the models of a pack are lost: a carry fails,
\* recovery's fails too, and a pack is published under the entry that stayed behind
\* (PacksSurviveUpgrade).  The updater's are made for one failure, its rollback's being
\* a second, and any number of kills.
OneFailure ==
  /\ \A f \in FaultPlans : f.fail = 0 \/ (f.fail = 1 /\ f.crash = 0)
  /\ \A f \in UpdateFaults : f.fail \in {0, 1}

(* The program.                                                            *)

Entering == {"verify", "extract", "stage", "activate", "clearold", "aside"}

\* At each step, which of the three files is a program to run, and that the way back
\* is not made twice: it is taken by the one failure there is.
ProgramInv ==
  /\ image \in [dest : Nat, new : Nat, old : Nat] /\ target \in Nat \ {0} /\ before \in Nat \ {0}
  /\ slack \in [kill : Nat, fail : {0, 1}]
  /\ step \in Entering \cup {"idle", "swapin", "rollback", "retire", "dropnew", "putback", "restart"}
  /\ platform = "posix" => /\ step \in {"idle", "verify", "extract", "stage", "activate", "restart"}
                           /\ image.dest # 0
  /\ image.dest # 0 \/ image.old # 0
  /\ step \in Entering => image.dest = before
  /\ step \in {"activate", "clearold", "aside", "swapin"} => image.new = target
  /\ step \in {"swapin", "rollback", "retire", "dropnew", "putback"} => image.old = before
  /\ step \in {"rollback", "dropnew", "putback"} => slack.fail = 0
  /\ step = "retire" => image.dest = target
  /\ step = "restart" => verdict = "ok" /\ image.dest = target
  /\ step \notin {"idle", "restart"} => verdict = "running"
  /\ Machine!Program!AlwaysRunnable

Images == [dest : Nat, new : Nat, old : Nat]

\* What the updater's renames and removals leave of the three files.
LEMMA ImageEdits ==
  ASSUME NEW i \in Images, NEW v \in Nat
  PROVE  /\ [i EXCEPT !.new = v] = [dest |-> i.dest, new |-> v, old |-> i.old]
         /\ [i EXCEPT !.dest = v] = [dest |-> v, new |-> i.new, old |-> i.old]
         /\ [i EXCEPT !.old = v] = [dest |-> i.dest, new |-> i.new, old |-> v]
BY DEF Images

\* The same of its moves, each of one file over another.
LEMMA ImageMoves ==
  ASSUME NEW i \in Images
  PROVE  /\ [i EXCEPT !.dest = i.new, !.new = 0] = [dest |-> i.new, new |-> 0, old |-> i.old]
         /\ [i EXCEPT !.old = i.dest, !.dest = 0] = [dest |-> 0, new |-> i.new, old |-> i.dest]
         /\ [i EXCEPT !.dest = i.old, !.old = 0] = [dest |-> i.old, new |-> i.new, old |-> 0]
<1>1. PICK d \in Nat, n \in Nat, o \in Nat : d = i.dest /\ n = i.new /\ o = i.old
  BY DEF Images
<1>2. PICK j : j = [i EXCEPT !.dest = n]
  OBVIOUS
<1>3. PICK k : k = [i EXCEPT !.old = d]
  OBVIOUS
<1>4. PICK l : l = [i EXCEPT !.dest = o]
  OBVIOUS
<1>5. /\ j \in Images /\ j.dest = n /\ j.new = n /\ j.old = o
      /\ k \in Images /\ k.dest = d /\ k.new = n /\ k.old = d
      /\ l \in Images /\ l.dest = o /\ l.new = n /\ l.old = o
  BY <1>1, <1>2, <1>3, <1>4 DEF Images
<1>6. /\ [i EXCEPT !.dest = n, !.new = 0] = [j EXCEPT !.new = 0]
      /\ [i EXCEPT !.old = d, !.dest = 0] = [k EXCEPT !.dest = 0]
      /\ [i EXCEPT !.dest = o, !.old = 0] = [l EXCEPT !.old = 0]
  BY <1>2, <1>3, <1>4
<1>7. /\ [j EXCEPT !.new = 0] = [dest |-> n, new |-> 0, old |-> o]
      /\ [k EXCEPT !.dest = 0] = [dest |-> 0, new |-> n, old |-> d]
      /\ [l EXCEPT !.old = 0] = [dest |-> o, new |-> n, old |-> 0]
  <2>1. [j EXCEPT !.new = 0] = [dest |-> j.dest, new |-> 0, old |-> j.old]
    BY <1>5, ImageEdits
  <2>2. [k EXCEPT !.dest = 0] = [dest |-> 0, new |-> k.new, old |-> k.old]
    BY <1>5, ImageEdits
  <2>3. [l EXCEPT !.old = 0] = [dest |-> l.dest, new |-> l.new, old |-> 0]
    BY <1>5, ImageEdits
  <2>4. QED
    BY <1>5, <2>1, <2>2, <2>3
<1>8. QED
  BY <1>1, <1>6, <1>7

\* A failing operation is the last one that fails.
LEMMA LastFailure ==
  ProgramInv /\ Machine!Program!Fails => slack.fail = 1 /\ slack' \in [kill : Nat, fail : {0, 1}] /\ slack'.fail = 0
<1> SUFFICES ASSUME ProgramInv, Machine!Program!Fails
             PROVE  slack.fail = 1 /\ slack' \in [kill : Nat, fail : {0, 1}] /\ slack'.fail = 0
  OBVIOUS
<1>1. slack \in [kill : Nat, fail : {0, 1}] /\ slack.fail = 1
  BY DEF ProgramInv, Machine!Program!Fails
<1>2. slack' = [slack EXCEPT !.fail = 0]
  BY <1>1 DEF Machine!Program!Fails
<1>3. QED
  BY <1>1, <1>2

LEMMA ProgramInit == OneFailure /\ Machine!Program!Init => ProgramInv
<1> SUFFICES ASSUME OneFailure, Machine!Program!Init PROVE ProgramInv
  OBVIOUS
<1>1. slack \in [kill : Nat, fail : {0, 1}]
  BY PacksAssumption DEF PacksAssumption, OneFailure, Machine!Program!Init
<1>2. image = [dest |-> 1, new |-> 0, old |-> 0] /\ step = "idle" /\ target = 1 /\ before = 1 /\ verdict = "running"
  BY DEF Machine!Program!Init
<1>3. QED
  BY <1>1, <1>2 DEF ProgramInv, Entering, Machine!Program!AlwaysRunnable

LEMMA ProgramStill == ProgramInv /\ UNCHANGED Machine!programVars => ProgramInv'
BY DEF ProgramInv, Machine!programVars, Entering, Machine!Program!AlwaysRunnable

LEMMA ProgramStep == ProgramInv /\ Machine!Program!Next => ProgramInv'
<1> SUFFICES ASSUME ProgramInv, Machine!Program!Next PROVE ProgramInv'
  OBVIOUS
<1> DEFINE Left(d, n, o) == image' \in Images /\ image'.dest = d /\ image'.new = n /\ image'.old = o
<1>1. /\ image \in Images /\ image.dest \in Nat /\ image.new \in Nat /\ image.old \in Nat
      /\ target \in Nat /\ before \in Nat
  BY DEF ProgramInv, Images
<1>2. image' = image => Left(image.dest, image.new, image.old)
  BY <1>1
<1>3. ASSUME NEW d \in Nat, NEW n \in Nat, NEW o \in Nat, image' = [dest |-> d, new |-> n, old |-> o]
      PROVE  Left(d, n, o)
  BY <1>3 DEF Images
<1> HIDE DEF Left
<1>4. image' = [image EXCEPT !.new = 0] => Left(image.dest, 0, image.old)
  BY <1>1, <1>3, ImageEdits, 0 \in Nat, Zenon
<1> USE DEF Entering, Machine!Program!Unworn, Machine!Program!Env, Machine!Program!Abort
<1>5. CASE Machine!Program!Start
  BY <1>5 DEF ProgramInv, Machine!Program!Start, Machine!Program!AlwaysRunnable, Left
<1>6. CASE Machine!Program!Verify
  BY <1>6 DEF ProgramInv, Machine!Program!Verify, Machine!Program!AlwaysRunnable, Left
<1>7. CASE Machine!Program!Extract
  BY <1>7 DEF ProgramInv, Machine!Program!Extract, Machine!Program!AlwaysRunnable, Left
<1>8. CASE Machine!Program!Restart
  BY <1>8 DEF ProgramInv, Machine!Program!Restart, Machine!Program!AlwaysRunnable, Left
<1>9. CASE Machine!Program!Again
  BY <1>9 DEF ProgramInv, Machine!Program!Again, Machine!Program!AlwaysRunnable, Left
<1>10. CASE Machine!Program!Killed
  <2>1. slack' \in [kill : Nat, fail : {0, 1}] /\ slack'.fail = slack.fail
    BY <1>10 DEF ProgramInv, Machine!Program!Killed
  <2>2. QED
    BY <1>10, <2>1 DEF ProgramInv, Machine!Program!Killed, Machine!Program!AlwaysRunnable, Left
<1>11. CASE Machine!Program!Stage
  <2>1. image' = [image EXCEPT !.new = target] => Left(image.dest, target, image.old)
    BY <1>1, <1>3, ImageEdits, 0 \in Nat, Zenon
  <2>2. QED
    BY <1>1, <1>2, <1>4, <1>11, <2>1, LastFailure DEF ProgramInv, Images, Machine!Program!Stage, Machine!Program!AlwaysRunnable, Left
<1>12. CASE Machine!Program!Activate
  <2>1. [image EXCEPT !.dest = image.new, !.new = 0] = [dest |-> image.new, new |-> 0, old |-> image.old]
    BY <1>1, ImageMoves
  <2>2. image' = [image EXCEPT !.dest = image.new, !.new = 0] => Left(image.new, 0, image.old)
    BY <1>1, <1>3, <2>1, 0 \in Nat
  <2>3. QED
    BY <1>1, <1>2, <1>4, <1>12, <2>2, LastFailure DEF ProgramInv, Images, Machine!Program!Activate, Machine!Program!AlwaysRunnable, Left
<1>13. CASE Machine!Program!ClearOld
  <2>1. image' = [image EXCEPT !.old = 0] => Left(image.dest, image.new, 0)
    BY <1>1, <1>3, ImageEdits, 0 \in Nat, Zenon
  <2>2. QED
    BY <1>1, <1>2, <1>4, <1>13, <2>1, LastFailure DEF ProgramInv, Images, Machine!Program!ClearOld, Machine!Program!AlwaysRunnable, Left
<1>14. CASE Machine!Program!Aside
  <2>1. [image EXCEPT !.old = image.dest, !.dest = 0] = [dest |-> 0, new |-> image.new, old |-> image.dest]
    BY <1>1, ImageMoves
  <2>2. image' = [image EXCEPT !.old = image.dest, !.dest = 0] => Left(0, image.new, image.dest)
    BY <1>1, <1>3, <2>1, 0 \in Nat
  <2>3. QED
    BY <1>1, <1>2, <1>4, <1>14, <2>2, LastFailure DEF ProgramInv, Images, Machine!Program!Aside, Machine!Program!AlwaysRunnable, Left
<1>15. CASE Machine!Program!SwapIn
  <2>1. [image EXCEPT !.dest = image.new, !.new = 0] = [dest |-> image.new, new |-> 0, old |-> image.old]
    BY <1>1, ImageMoves
  <2>2. image' = [image EXCEPT !.dest = image.new, !.new = 0] => Left(image.new, 0, image.old)
    BY <1>1, <1>3, <2>1, 0 \in Nat
  <2>3. QED
    BY <1>1, <1>2, <1>4, <1>15, <2>2, LastFailure DEF ProgramInv, Images, Machine!Program!SwapIn, Machine!Program!AlwaysRunnable, Left
<1>16. CASE Machine!Program!RollBack
  <2>1. image' = [dest |-> image.old, new |-> 0, old |-> 0] => Left(image.old, 0, 0)
    BY <1>1, <1>3, ImageEdits, 0 \in Nat, Zenon
  <2>2. QED
    BY <1>1, <1>2, <1>4, <1>16, <2>1, LastFailure DEF ProgramInv, Images, Machine!Program!RollBack, Machine!Program!AlwaysRunnable, Left
<1>17. CASE Machine!Program!RetireOld
  <2>1. image' = [image EXCEPT !.old = 0] => Left(image.dest, image.new, 0)
    BY <1>1, <1>3, ImageEdits, 0 \in Nat, Zenon
  <2>2. QED
    BY <1>1, <1>2, <1>4, <1>17, <2>1, LastFailure DEF ProgramInv, Images, Machine!Program!RetireOld, Machine!Program!AlwaysRunnable, Left
<1>18. CASE Machine!Program!DropNew
  <2>1. image' = [image EXCEPT !.dest = 0] => Left(0, image.new, image.old)
    BY <1>1, <1>3, ImageEdits, 0 \in Nat, Zenon
  <2>2. QED
    BY <1>1, <1>2, <1>4, <1>18, <2>1, LastFailure DEF ProgramInv, Images, Machine!Program!DropNew, Machine!Program!AlwaysRunnable, Left
<1>19. CASE Machine!Program!PutBack
  <2>1. [image EXCEPT !.dest = image.old, !.old = 0] = [dest |-> image.old, new |-> image.new, old |-> 0]
    BY <1>1, ImageMoves
  <2>2. image' = [image EXCEPT !.dest = image.old, !.old = 0] => Left(image.old, image.new, 0)
    BY <1>1, <1>3, <2>1, 0 \in Nat
  <2>3. QED
    BY <1>1, <1>2, <1>4, <1>19, <2>2, LastFailure DEF ProgramInv, Images, Machine!Program!PutBack, Machine!Program!AlwaysRunnable, Left
<1>20. QED
  BY <1>5, <1>6, <1>7, <1>8, <1>9, <1>10, <1>11, <1>12, <1>13, <1>14, <1>15, <1>16, <1>17, <1>18, <1>19 DEF Machine!Program!Next

-----------------------------------------------------------------------------
(* The driver bundles.                                                     *)

KindSet == Machine!Bundles!KindSet
Kind == Machine!Bundles!Kind
Behind == IF work.pc \in {"restart", "clear"} THEN 1 .. work.n ELSE 1 .. (work.n - 1)

Works == [cmd : {"none", "install", "remove"}, n : 1 .. Len(Kinds), changed : BOOLEAN, had : Nat,
          pc : {"idle", "kind", "backup", "activate", "mark", "restore", "unmark", "restart", "clear"}]

\* A marker is of a payload that was in place when it was written: what was put aside
\* for a new one was of another release.
BundlesFiles ==
  /\ payload \in Nat \ {0}
  /\ dest \in [KindSet -> Nat] /\ aside \in [KindSet -> Nat] /\ marker \in [KindSet -> 0 .. payload]
  /\ \A k \in KindSet : marker[k] = payload /\ dest[k] # 0 => dest[k] = payload

\* Where a command is tells what is at the device's path, beside it and recorded.
BundlesWork ==
  /\ work \in Works
  /\ work.pc = "idle" <=> work.cmd = "none"
  /\ work.pc \in {"backup", "activate", "mark", "restore"} => work.cmd = "install"
  /\ work.pc \in {"unmark", "clear"} => work.cmd = "remove"
  /\ work.pc = "backup" => ~Machine!Bundles!Current(Kind)
  /\ work.pc \in {"activate", "mark", "restore"} =>
       /\ aside[Kind] = work.had /\ (marker[Kind] = payload => work.had = 0)
       /\ dest[Kind] = IF work.pc = "mark" THEN payload ELSE 0
  /\ work.pc = "unmark" => dest[Kind] = 0
  /\ work.pc = "clear" => work.n = Len(Kinds)

\* The devices that lie behind are done.
BundlesBehind ==
  /\ work.cmd = "install" /\ work.pc # "restore" => \A j \in Behind : Machine!Bundles!Current(Kinds[j])
  /\ work.cmd = "remove" => \A j \in Behind : dest[Kinds[j]] = 0 /\ marker[Kinds[j]] = 0

BundlesInv ==
  /\ BundlesFiles /\ BundlesWork /\ BundlesBehind
  /\ outcome = "ok" => work.pc = "idle" /\ Machine!Bundles!OkMeansAll

\* A command stands at a device of the list, and every device is on it.
LEMMA KindsAre ==
  /\ Len(Kinds) \in Nat \ {0}
  /\ \A j \in 1 .. Len(Kinds) : Kinds[j] \in KindSet
  /\ \A k \in KindSet : \E j \in 1 .. Len(Kinds) : k = Kinds[j]
<1>1. Kinds \in Seq(STRING) /\ Kinds # <<>>
  BY DevicesAssumption DEF DevicesAssumption
<1>2. Len(Kinds) \in Nat /\ DOMAIN Kinds = 1 .. Len(Kinds) /\ Len(Kinds) # 0
  BY <1>1
<1>3. QED
  BY <1>2 DEF KindSet, Machine!Bundles!KindSet

LEMMA KindIn == BundlesWork => Kind \in KindSet /\ Kind = Kinds[work.n]
BY KindsAre DEF BundlesWork, Works, Kind, Machine!Bundles!Kind

\* A command that ends without success leaves nothing to hold.
LEMMA BundlesFinish ==
  ASSUME BundlesFiles', NEW r, r # "ok", Machine!Bundles!Finish(r)
  PROVE  BundlesInv'
<1>1. work' = [cmd |-> "none", pc |-> "idle", n |-> 1, changed |-> FALSE, had |-> 0] /\ outcome' = r
  BY DEF Machine!Bundles!Finish, Machine!Bundles!Rest
<1>2. work' \in Works /\ work'.cmd = "none" /\ work'.pc = "idle"
  BY <1>1, KindsAre DEF Works
<1>3. QED
  BY <1>1, <1>2 DEF BundlesInv, BundlesWork, BundlesBehind

\* What Goto and the move to the next device make of the work.
LEMMA BundlesGoto ==
  ASSUME work \in Works, NEW pc, Machine!Bundles!Goto(pc),
         pc \in {"kind", "backup", "activate", "mark", "restore", "unmark", "restart", "clear"}
  PROVE  /\ work' \in Works /\ work'.pc = pc /\ work'.cmd = work.cmd /\ work'.n = work.n /\ work'.had = work.had
         /\ outcome' = outcome
BY DEF Works, Machine!Bundles!Goto

\* A device that is done, and the next one, or the end of the list.
Passed == /\ work.cmd = "install" => \A j \in 1 .. work.n : Machine!Bundles!Current(Kinds[j])'
          /\ work.cmd = "remove" => \A j \in 1 .. work.n : dest'[Kinds[j]] = 0 /\ marker'[Kinds[j]] = 0

LEMMA BundlesNext ==
  ASSUME work \in Works, work.cmd \in {"install", "remove"}, BundlesFiles', Passed, outcome # "ok",
         NEW ch \in BOOLEAN, Machine!Bundles!NextKind(ch)
  PROVE  BundlesInv'
<1> DEFINE c == work.changed \/ ch
<1>1. CASE work.n = AudioKinds /\ c
  <2>1. /\ work' = [work EXCEPT !.pc = "restart", !.changed = c] /\ outcome' = outcome
    BY <1>1 DEF Machine!Bundles!NextKind
  <2>2. c \in BOOLEAN
    BY DEF Works
  <2> HIDE DEF c
  <2>3. work' \in Works /\ work'.pc = "restart" /\ work'.cmd = work.cmd /\ work'.n = work.n
    BY <2>1, <2>2 DEF Works
  <2>4. QED
    BY <2>1, <2>3 DEF BundlesInv, BundlesWork, BundlesBehind, Behind, Passed
<1>2. CASE ~(work.n = AudioKinds /\ c) /\ work.n # Len(Kinds)
  <2>1. /\ work' = [work EXCEPT !.pc = "kind", !.n = @ + 1, !.changed = c] /\ outcome' = outcome
    BY <1>2 DEF Machine!Bundles!NextKind
  <2>2. c \in BOOLEAN /\ work.n + 1 \in 1 .. Len(Kinds)
    BY <1>2, KindsAre DEF Works
  <2>3. PICK m : m = work.n + 1
    OBVIOUS
  <2>4. work' = [work EXCEPT !.pc = "kind", !.n = m, !.changed = c]
    BY <2>1, <2>3
  <2> HIDE DEF c
  <2>5. work' \in Works /\ work'.pc = "kind" /\ work'.cmd = work.cmd /\ work'.n = m
    BY <2>2, <2>3, <2>4 DEF Works
  <2>6. 1 .. (work'.n - 1) = 1 .. work.n
    BY <2>3, <2>5 DEF Works
  <2>7. QED
    BY <2>1, <2>5, <2>6 DEF BundlesInv, BundlesWork, BundlesBehind, Behind, Passed
<1>3. CASE ~(work.n = AudioKinds /\ c) /\ work.n = Len(Kinds) /\ work.cmd = "remove"
  <2>1. Machine!Bundles!Goto("clear")
    BY <1>3 DEF Machine!Bundles!NextKind
  <2>2. QED
    BY <1>3, <2>1, BundlesGoto DEF BundlesInv, BundlesWork, BundlesBehind, Behind, Passed
<1>4. CASE ~(work.n = AudioKinds /\ c) /\ work.n = Len(Kinds) /\ work.cmd # "remove"
  <2>1. Machine!Bundles!Finish("ok")
    BY <1>4 DEF Machine!Bundles!NextKind
  <2>2. work' = [cmd |-> "none", pc |-> "idle", n |-> 1, changed |-> FALSE, had |-> 0] /\ outcome' = "ok"
    BY <2>1 DEF Machine!Bundles!Finish, Machine!Bundles!Rest
  <2>3. work' \in Works /\ work'.cmd = "none" /\ work'.pc = "idle"
    BY <2>2, KindsAre DEF Works
  <2>4. \A k \in KindSet : Machine!Bundles!Current(k)'
    BY <1>4, KindsAre DEF Passed
  <2>5. Machine!Bundles!OkMeansAll'
    BY <2>4 DEF Machine!Bundles!OkMeansAll, BundlesFiles, Machine!Bundles!Current, KindSet
  <2>6. QED
    BY <2>2, <2>3, <2>5 DEF BundlesInv, BundlesWork, BundlesBehind
<1>5. QED
  BY <1>1, <1>2, <1>3, <1>4

LEMMA BundlesInit == Machine!Bundles!Init => BundlesInv
<1> SUFFICES ASSUME Machine!Bundles!Init PROVE BundlesInv
  OBVIOUS
<1>1. /\ dest = [k \in KindSet |-> 0] /\ aside = [k \in KindSet |-> 0] /\ marker = [k \in KindSet |-> 0]
      /\ payload = 1 /\ outcome = "none"
      /\ work = [cmd |-> "none", pc |-> "idle", n |-> 1, changed |-> FALSE, had |-> 0]
  BY DEF Machine!Bundles!Init, KindSet, Machine!Bundles!Rest
<1>2. work \in Works /\ work.cmd = "none" /\ work.pc = "idle"
  BY <1>1, KindsAre DEF Works
<1>3. BundlesFiles
  BY <1>1 DEF BundlesFiles
<1>4. QED
  BY <1>1, <1>2, <1>3 DEF BundlesInv, BundlesWork, BundlesBehind

LEMMA BundlesStill == BundlesInv /\ UNCHANGED Machine!bundlesVars => BundlesInv'
BY DEF BundlesInv, BundlesFiles, BundlesWork, BundlesBehind, Behind, Machine!bundlesVars, Machine!Bundles!OkMeansAll,
       Machine!Bundles!Current, Kind, Machine!Bundles!Kind, KindSet

LEMMA BundlesStep == BundlesInv /\ Machine!Bundles!Next => BundlesInv'
<1> SUFFICES ASSUME BundlesInv, Machine!Bundles!Next PROVE BundlesInv'
  OBVIOUS
<1>1. BundlesFiles /\ BundlesWork /\ BundlesBehind /\ work \in Works /\ work.n \in 1 .. Len(Kinds)
  BY DEF BundlesInv, BundlesWork, Works
<1>2. Kind \in KindSet /\ Kind = Kinds[work.n] /\ Machine!Bundles!Kind = Kind
  BY <1>1, KindIn DEF Kind
<1>3. Len(Kinds) \in Nat \ {0} /\ \A j \in 1 .. Len(Kinds) : Kinds[j] \in KindSet
  BY KindsAre
<1>4. work.pc # "idle" => outcome # "ok"
  BY DEF BundlesInv
<1>5. work.pc = "kind" => Behind = 1 .. (work.n - 1)
  BY DEF Behind
<1>6. UNCHANGED Machine!Bundles!Disk /\ payload' = payload => BundlesFiles'
  BY <1>1 DEF BundlesFiles, Machine!Bundles!Disk
<1>7. \A j \in 1 .. work.n : j = work.n \/ j \in 1 .. (work.n - 1)
  BY <1>1
<1>8. CASE Machine!Bundles!Skip
  <2>1. Machine!Bundles!NextKind(FALSE) /\ UNCHANGED <<dest, aside, marker, payload>>
    BY <1>8 DEF Machine!Bundles!Skip, Machine!Bundles!Disk
  <2>2. work.pc = "kind" /\ work.cmd = "install" /\ Machine!Bundles!Current(Kind)
    BY <1>2, <1>8 DEF Machine!Bundles!Skip
  <2>3. Passed
    BY <1>1, <1>2, <1>5, <1>7, <2>1, <2>2 DEF Passed, BundlesBehind, Machine!Bundles!Current
  <2>4. QED
    BY <1>1, <1>4, <1>6, <2>1, <2>2, <2>3, BundlesNext DEF Machine!Bundles!Disk
<1>9. CASE Machine!Bundles!StagePayload
  <2>1. CASE Machine!Bundles!Goto("backup")
    <3>1. /\ work' \in Works /\ work'.pc = "backup" /\ work'.cmd = work.cmd /\ work'.n = work.n
          /\ outcome' = outcome
      BY <1>1, <2>1, BundlesGoto
    <3>2. /\ work.pc = "kind" /\ work.cmd = "install" /\ ~Machine!Bundles!Current(Kind)
          /\ UNCHANGED <<dest, aside, marker, payload>>
      BY <1>2, <1>9 DEF Machine!Bundles!StagePayload, Machine!Bundles!Disk
    <3>3. ~Machine!Bundles!Current(Kind)'
      BY <3>1, <3>2 DEF Machine!Bundles!Current, Kind, Machine!Bundles!Kind
    <3>4. BundlesFiles'
      BY <1>6, <3>2 DEF Machine!Bundles!Disk
    <3>5. BundlesWork'
      BY <3>1, <3>2, <3>3 DEF BundlesWork
    <3>6. BundlesBehind'
      BY <1>1, <3>1, <3>2 DEF BundlesBehind, Behind, Machine!Bundles!Current
    <3>7. QED
      BY <1>4, <3>1, <3>2, <3>4, <3>5, <3>6 DEF BundlesInv
  <2>2. CASE Machine!Bundles!Finish("failed")
    BY <1>6, <1>9, <2>2, BundlesFinish DEF Machine!Bundles!StagePayload
  <2>3. QED
    BY <1>9, <2>1, <2>2 DEF Machine!Bundles!StagePayload
<1>10. CASE Machine!Bundles!BackupPayload
  <2>1. CASE Machine!Bundles!Finish("failed")
    BY <1>6, <1>10, <2>1, BundlesFinish DEF Machine!Bundles!BackupPayload, Machine!Bundles!Finish, Machine!Bundles!Disk, Machine!Bundles!Rest
  <2>2. CASE /\ aside' = [aside EXCEPT ![Kind] = dest[Kind]]
             /\ dest' = [dest EXCEPT ![Kind] = 0]
             /\ work' = [work EXCEPT !.pc = "activate", !.had = dest[Kind]]
             /\ outcome' = outcome
    <3>1. work.pc = "backup" /\ work.cmd = "install" /\ UNCHANGED <<marker, payload>> /\ ~Machine!Bundles!Current(Kind)
      BY <1>1, <1>10 DEF Machine!Bundles!BackupPayload, BundlesWork
    <3>2. PICK h \in Nat : h = dest[Kind]
      BY <1>1, <1>2 DEF BundlesFiles
    <3>3. work' \in Works /\ work'.pc = "activate" /\ work'.cmd = work.cmd /\ work'.n = work.n /\ work'.had = h
      BY <1>1, <2>2, <3>2 DEF Works
    <3>4. Kind' = Kind
      BY <3>3 DEF Kind, Machine!Bundles!Kind
    <3>5. BundlesFiles'
      BY <1>1, <1>2, <2>2, <3>1 DEF BundlesFiles, KindSet, Machine!Bundles!KindSet
    <3>6. /\ aside'[Kind] = h /\ dest'[Kind] = 0 /\ (marker[Kind] = payload => h = 0)
      BY <1>1, <1>2, <2>2, <3>1, <3>2 DEF BundlesFiles, Machine!Bundles!Current
    <3>7. BundlesWork'
      BY <3>1, <3>3, <3>4, <3>6 DEF BundlesWork
    <3>8. BundlesBehind'
      <4>1. ASSUME NEW j \in Behind' PROVE Machine!Bundles!Current(Kinds[j])'
        <5>1. j \in Behind /\ j \in 1 .. Len(Kinds)
          BY <1>1, <3>1, <3>3 DEF Behind
        <5>2. Machine!Bundles!Current(Kinds[j]) /\ Kinds[j] \in KindSet
          BY <1>1, <1>3, <3>1, <5>1 DEF BundlesBehind
        <5>3. Kinds[j] # Kind
          BY <3>1, <5>2
        <5>4. QED
          BY <1>1, <2>2, <3>1, <5>2, <5>3 DEF Machine!Bundles!Current, BundlesFiles
      <4>2. QED
        BY <3>1, <3>3, <4>1 DEF BundlesBehind
    <3>9. QED
      BY <1>4, <2>2, <3>1, <3>5, <3>7, <3>8 DEF BundlesInv
  <2>3. QED
    BY <1>2, <1>10, <2>1, <2>2 DEF Machine!Bundles!BackupPayload
<1>11. CASE Machine!Bundles!ActivatePayload
  <2>1. /\ work.pc = "activate" /\ work.cmd = "install" /\ UNCHANGED <<aside, marker, payload>>
        /\ aside[Kind] = work.had /\ (marker[Kind] = payload => work.had = 0) /\ dest[Kind] = 0
    BY <1>1, <1>11 DEF Machine!Bundles!ActivatePayload, BundlesWork
  <2>2. CASE dest' = [dest EXCEPT ![Kind] = payload] /\ Machine!Bundles!Goto("mark")
    <3>1. /\ work' \in Works /\ work'.pc = "mark" /\ work'.cmd = work.cmd /\ work'.n = work.n /\ work'.had = work.had
          /\ outcome' = outcome
      BY <1>1, <2>2, BundlesGoto
    <3>2. Kind' = Kind
      BY <3>1 DEF Kind, Machine!Bundles!Kind
    <3>3. BundlesFiles' /\ dest'[Kind] = payload
      BY <1>1, <1>2, <2>1, <2>2 DEF BundlesFiles, KindSet, Machine!Bundles!KindSet
    <3>4. BundlesWork'
      BY <2>1, <3>1, <3>2, <3>3 DEF BundlesWork
    <3>5. BundlesBehind'
      <4>1. ASSUME NEW j \in Behind' PROVE Machine!Bundles!Current(Kinds[j])'
        <5>1. j \in Behind /\ j \in 1 .. Len(Kinds)
          BY <1>1, <2>1, <3>1 DEF Behind
        <5>2. Machine!Bundles!Current(Kinds[j]) /\ Kinds[j] \in KindSet
          BY <1>1, <1>3, <2>1, <5>1 DEF BundlesBehind
        <5>3. Kinds[j] # Kind
          BY <2>1, <5>2 DEF Machine!Bundles!Current
        <5>4. QED
          BY <1>1, <2>1, <2>2, <5>2, <5>3 DEF Machine!Bundles!Current, BundlesFiles
      <4>2. QED
        BY <2>1, <3>1, <4>1 DEF BundlesBehind
    <3>6. QED
      BY <1>4, <2>1, <3>1, <3>3, <3>4, <3>5 DEF BundlesInv
  <2>3. CASE dest' = dest /\ Machine!Bundles!Goto("restore")
    <3>1. /\ work' \in Works /\ work'.pc = "restore" /\ work'.cmd = work.cmd /\ work'.n = work.n /\ work'.had = work.had
          /\ outcome' = outcome
      BY <1>1, <2>3, BundlesGoto
    <3>2. Kind' = Kind
      BY <3>1 DEF Kind, Machine!Bundles!Kind
    <3>3. BundlesFiles'
      BY <1>6, <2>1, <2>3 DEF Machine!Bundles!Disk
    <3>4. BundlesWork'
      BY <2>1, <2>3, <3>1, <3>2 DEF BundlesWork
    <3>5. QED
      BY <1>4, <2>1, <3>1, <3>3, <3>4 DEF BundlesInv, BundlesBehind
  <2>4. QED
    BY <1>2, <1>11, <2>2, <2>3 DEF Machine!Bundles!ActivatePayload
<1>12. CASE Machine!Bundles!Mark
  <2>1. /\ work.pc = "mark" /\ work.cmd = "install" /\ payload' = payload
        /\ aside[Kind] = work.had /\ (marker[Kind] = payload => work.had = 0) /\ dest[Kind] = payload
    BY <1>1, <1>12 DEF Machine!Bundles!Mark, BundlesWork
  <2>2. CASE /\ marker' = [marker EXCEPT ![Kind] = payload]
             /\ aside' = [aside EXCEPT ![Kind] = 0]
             /\ Machine!Bundles!NextKind(TRUE) /\ dest' = dest
    <3>1. BundlesFiles' /\ marker'[Kind] = payload
      BY <1>1, <1>2, <2>1, <2>2 DEF BundlesFiles, KindSet, Machine!Bundles!KindSet
    <3>2. ASSUME NEW j \in 1 .. work.n PROVE Machine!Bundles!Current(Kinds[j])'
      <4>1. CASE Kinds[j] = Kind
        BY <1>1, <2>1, <2>2, <3>1, <4>1 DEF Machine!Bundles!Current, BundlesFiles
      <4>2. CASE Kinds[j] # Kind
        <5>1. Machine!Bundles!Current(Kinds[j])
          BY <1>1, <1>2, <1>7, <2>1, <4>2 DEF BundlesBehind, Behind
        <5>2. Kinds[j] \in KindSet
          BY <1>1, <1>3
        <5>3. QED
          BY <1>1, <2>1, <2>2, <4>2, <5>1, <5>2 DEF Machine!Bundles!Current, BundlesFiles
      <4>3. QED
        BY <4>1, <4>2
    <3>3. Passed
      BY <2>1, <3>2 DEF Passed
    <3>4. QED
      BY <1>1, <1>4, <2>1, <2>2, <3>1, <3>3, BundlesNext
  <2>3. CASE /\ Machine!Bundles!Goto("restore") /\ dest' = [dest EXCEPT ![Kind] = 0]
             /\ \E m \in {0, marker[Kind]} : marker' = [marker EXCEPT ![Kind] = m]
             /\ aside' = aside
    <3>1. /\ work' \in Works /\ work'.pc = "restore" /\ work'.cmd = work.cmd /\ work'.n = work.n /\ work'.had = work.had
          /\ outcome' = outcome
      BY <1>1, <2>3, BundlesGoto
    <3>2. Kind' = Kind
      BY <3>1 DEF Kind, Machine!Bundles!Kind
    <3>3. PICK m \in {0, marker[Kind]} : marker' = [marker EXCEPT ![Kind] = m]
      BY <2>3
    <3>4. BundlesFiles' /\ marker'[Kind] = m /\ dest'[Kind] = 0
      BY <1>1, <1>2, <2>1, <2>3, <3>3 DEF BundlesFiles, KindSet, Machine!Bundles!KindSet
    <3>5. marker'[Kind] = payload => work.had = 0
      BY <1>1, <2>1, <3>3, <3>4 DEF BundlesFiles
    <3>6. BundlesWork'
      BY <2>1, <2>3, <3>1, <3>2, <3>4, <3>5 DEF BundlesWork
    <3>7. QED
      BY <1>4, <2>1, <3>1, <3>4, <3>6 DEF BundlesInv, BundlesBehind
  <2>4. CASE /\ Machine!Bundles!Finish("failed") /\ UNCHANGED <<dest, aside>>
             /\ marker' = [marker EXCEPT ![Kind] = payload]
    <3>1. BundlesFiles'
      BY <1>1, <1>2, <2>1, <2>4 DEF BundlesFiles, KindSet, Machine!Bundles!KindSet
    <3>2. QED
      BY <2>4, <3>1, BundlesFinish
  <2>5. QED
    BY <1>2, <1>12, <2>2, <2>3, <2>4 DEF Machine!Bundles!Mark
<1>13. CASE Machine!Bundles!RestorePayload
  <2>1. /\ Machine!Bundles!Finish("failed") /\ UNCHANGED <<marker, payload>>
        /\ work.had \in Nat /\ (marker[Kind] = payload => work.had = 0)
    BY <1>1, <1>13 DEF Machine!Bundles!RestorePayload, BundlesWork, Works
  <2>2. CASE dest' = [dest EXCEPT ![Kind] = work.had] /\ aside' = [aside EXCEPT ![Kind] = 0]
    <3>1. PICK h \in Nat : h = work.had
      BY <2>1
    <3>2. BundlesFiles'
      BY <1>1, <1>2, <2>1, <2>2, <3>1 DEF BundlesFiles, KindSet, Machine!Bundles!KindSet
    <3>3. QED
      BY <2>1, <3>2, BundlesFinish
  <2>3. CASE UNCHANGED <<dest, aside>>
    BY <1>6, <2>1, <2>3, BundlesFinish DEF Machine!Bundles!Disk
  <2>4. QED
    BY <1>2, <1>13, <2>2, <2>3 DEF Machine!Bundles!RestorePayload
<1>14. CASE Machine!Bundles!RemoveAt
  <2>1. work.pc = "kind" /\ work.cmd = "remove" /\ UNCHANGED <<aside, marker, payload>>
    BY <1>14 DEF Machine!Bundles!RemoveAt
  <2>2. CASE marker[Kind] = 0 /\ dest[Kind] = 0 /\ Machine!Bundles!NextKind(FALSE) /\ dest' = dest
    <3>1. Passed
      BY <1>1, <1>2, <1>5, <1>7, <2>1, <2>2 DEF Passed, BundlesBehind
    <3>2. QED
      BY <1>1, <1>4, <1>6, <2>1, <2>2, <3>1, BundlesNext DEF Machine!Bundles!Disk
  <2>3. CASE dest' = [dest EXCEPT ![Kind] = 0] /\ Machine!Bundles!Goto("unmark")
    <3>1. /\ work' \in Works /\ work'.pc = "unmark" /\ work'.cmd = work.cmd /\ work'.n = work.n
          /\ outcome' = outcome
      BY <1>1, <2>3, BundlesGoto
    <3>2. Kind' = Kind
      BY <3>1 DEF Kind, Machine!Bundles!Kind
    <3>3. BundlesFiles' /\ dest'[Kind] = 0
      BY <1>1, <1>2, <2>1, <2>3 DEF BundlesFiles, KindSet, Machine!Bundles!KindSet
    <3>4. BundlesWork'
      BY <2>1, <3>1, <3>2, <3>3 DEF BundlesWork
    <3>5. \A j \in Behind' : dest'[Kinds[j]] = 0 /\ marker'[Kinds[j]] = 0
      <4>1. TAKE j \in Behind'
      <4>2. j \in Behind /\ j \in 1 .. Len(Kinds)
        BY <1>1, <2>1, <3>1 DEF Behind
      <4>3. dest[Kinds[j]] = 0 /\ marker[Kinds[j]] = 0 /\ Kinds[j] \in KindSet
        BY <1>1, <1>3, <2>1, <4>2 DEF BundlesBehind
      <4>4. QED
        BY <1>1, <2>1, <2>3, <4>3 DEF BundlesFiles
    <3>6. QED
      BY <1>4, <2>1, <3>1, <3>3, <3>4, <3>5 DEF BundlesInv, BundlesBehind
  <2>4. CASE Machine!Bundles!Finish("failed") /\ dest' = dest
    BY <1>6, <2>1, <2>4, BundlesFinish DEF Machine!Bundles!Disk
  <2>5. QED
    BY <1>2, <1>14, <2>2, <2>3, <2>4 DEF Machine!Bundles!RemoveAt
<1>15. CASE Machine!Bundles!Unmark
  <2>1. work.pc = "unmark" /\ work.cmd = "remove" /\ UNCHANGED <<dest, aside, payload>> /\ dest[Kind] = 0
    BY <1>1, <1>15 DEF Machine!Bundles!Unmark, BundlesWork
  <2>2. CASE marker' = [marker EXCEPT ![Kind] = 0] /\ Machine!Bundles!NextKind(TRUE)
    <3>1. BundlesFiles' /\ marker'[Kind] = 0
      BY <1>1, <1>2, <2>1, <2>2 DEF BundlesFiles, KindSet, Machine!Bundles!KindSet
    <3>2. ASSUME NEW j \in 1 .. work.n PROVE dest'[Kinds[j]] = 0 /\ marker'[Kinds[j]] = 0
      <4>1. CASE j = work.n
        BY <1>2, <2>1, <3>1, <4>1
      <4>2. CASE j \in 1 .. (work.n - 1)
        <5>1. dest[Kinds[j]] = 0 /\ marker[Kinds[j]] = 0
          BY <1>1, <2>1, <4>2 DEF BundlesBehind, Behind
        <5>2. Kinds[j] \in KindSet
          BY <1>1, <1>3
        <5>3. QED
          BY <1>1, <2>1, <2>2, <5>1, <5>2 DEF BundlesFiles
      <4>3. QED
        BY <1>7, <4>1, <4>2
    <3>3. Passed
      BY <2>1, <3>2 DEF Passed
    <3>4. QED
      BY <1>1, <1>4, <2>1, <2>2, <3>1, <3>3, BundlesNext
  <2>3. CASE Machine!Bundles!Finish("failed") /\ marker' = marker
    BY <1>6, <2>1, <2>3, BundlesFinish DEF Machine!Bundles!Disk
  <2>4. QED
    BY <1>2, <1>15, <2>2, <2>3 DEF Machine!Bundles!Unmark
<1>16. CASE Machine!Bundles!RestartAudio
  <2>1. /\ work.pc = "restart" /\ UNCHANGED <<dest, aside, marker, payload>> /\ BundlesFiles'
        /\ Behind = 1 .. work.n /\ outcome # "ok" /\ work.cmd \in {"install", "remove"}
    BY <1>1, <1>4, <1>6, <1>16 DEF Machine!Bundles!RestartAudio, Machine!Bundles!Disk, Behind, BundlesWork, Works
  <2>2. Passed
    BY <1>1, <2>1 DEF Passed, BundlesBehind, Machine!Bundles!Current
  <2>3. CASE Machine!Bundles!Finish("failed")
    BY <2>1, <2>3, BundlesFinish
  <2>4. CASE work.n # Len(Kinds) /\ work' = [work EXCEPT !.pc = "kind", !.n = @ + 1, !.changed = FALSE] /\ outcome' = outcome
    <3>1. PICK m : m = work.n + 1
      OBVIOUS
    <3>2. m \in 1 .. Len(Kinds) /\ m - 1 = work.n
      BY <1>1, <1>3, <2>4, <3>1
    <3>3. work' = [work EXCEPT !.pc = "kind", !.n = m, !.changed = FALSE]
      BY <2>4, <3>1
    <3>4. work' \in Works /\ work'.pc = "kind" /\ work'.cmd = work.cmd /\ work'.n = m
      BY <1>1, <3>2, <3>3 DEF Works
    <3>5. Behind' = 1 .. work.n
      BY <3>2, <3>4 DEF Behind
    <3>6. BundlesWork' /\ BundlesBehind'
      BY <2>1, <2>2, <3>4, <3>5 DEF BundlesWork, BundlesBehind, Passed
    <3>7. QED
      BY <2>1, <2>4, <3>6 DEF BundlesInv
  <2>5. CASE work.n = Len(Kinds) /\ work.cmd = "remove" /\ Machine!Bundles!Goto("clear")
    BY <1>1, <2>1, <2>2, <2>5, BundlesGoto DEF BundlesInv, BundlesWork, BundlesBehind, Behind, Passed
  <2>6. CASE work.n = Len(Kinds) /\ work.cmd # "remove" /\ Machine!Bundles!Finish("ok")
    <3>1. work' = [cmd |-> "none", pc |-> "idle", n |-> 1, changed |-> FALSE, had |-> 0] /\ outcome' = "ok"
      BY <2>6 DEF Machine!Bundles!Finish, Machine!Bundles!Rest
    <3>2. work' \in Works /\ work'.cmd = "none" /\ work'.pc = "idle"
      BY <3>1, KindsAre DEF Works
    <3>3. \A k \in KindSet : Machine!Bundles!Current(k)'
      BY <2>1, <2>2, <2>6, KindsAre DEF Passed
    <3>4. Machine!Bundles!OkMeansAll'
      BY <2>1, <3>3 DEF Machine!Bundles!OkMeansAll, BundlesFiles, Machine!Bundles!Current, KindSet
    <3>5. QED
      BY <2>1, <3>1, <3>2, <3>4 DEF BundlesInv, BundlesWork, BundlesBehind
  <2>7. QED
    BY <1>16, <2>3, <2>4, <2>5, <2>6 DEF Machine!Bundles!RestartAudio
<1>17. CASE Machine!Bundles!Clear
  <2>1. /\ work.pc = "clear" /\ work.cmd = "remove" /\ work.n = Len(Kinds) /\ Behind = 1 .. work.n
        /\ UNCHANGED <<dest, aside, payload>>
    BY <1>1, <1>17 DEF Machine!Bundles!Clear, BundlesWork, Behind
  <2>2. CASE Machine!Bundles!Finish("failed") /\ marker' = marker
    BY <1>6, <2>1, <2>2, BundlesFinish DEF Machine!Bundles!Disk
  <2>3. CASE marker' = [k \in KindSet |-> 0] /\ Machine!Bundles!Finish("ok")
    <3>1. work' = [cmd |-> "none", pc |-> "idle", n |-> 1, changed |-> FALSE, had |-> 0] /\ outcome' = "ok"
      BY <2>3 DEF Machine!Bundles!Finish, Machine!Bundles!Rest
    <3>2. work' \in Works /\ work'.cmd = "none" /\ work'.pc = "idle"
      BY <3>1, KindsAre DEF Works
    <3>3. BundlesFiles'
      BY <1>1, <2>1, <2>3 DEF BundlesFiles, KindSet, Machine!Bundles!KindSet
    <3>4. \A k \in KindSet : dest'[k] = 0 /\ marker'[k] = 0
      BY <1>1, <2>1, <2>3, KindsAre DEF BundlesBehind
    <3>5. Machine!Bundles!OkMeansAll'
      BY <3>4 DEF Machine!Bundles!OkMeansAll, KindSet
    <3>6. QED
      BY <3>1, <3>2, <3>3, <3>5 DEF BundlesInv, BundlesWork, BundlesBehind
  <2>4. QED
    BY <1>17, <2>2, <2>3 DEF Machine!Bundles!Clear, KindSet
<1>18. CASE Machine!Bundles!KillCommand
  BY <1>6, <1>18, BundlesFinish DEF Machine!Bundles!KillCommand
<1>19. CASE Machine!Bundles!Upgrade
  <2>1. /\ work.pc = "idle" /\ payload' = payload + 1 /\ outcome' = "none" /\ UNCHANGED <<dest, aside, marker, work>>
    BY <1>19 DEF Machine!Bundles!Upgrade, Machine!Bundles!Disk
  <2>2. BundlesFiles'
    BY <1>1, <2>1 DEF BundlesFiles
  <2>3. QED
    BY <1>1, <2>1, <2>2 DEF BundlesInv, BundlesWork, BundlesBehind
<1>20. ASSUME NEW cmd \in {"install", "remove"}, Machine!Bundles!Command(cmd)
       PROVE  BundlesInv'
  <2>1. /\ work' = [cmd |-> cmd, pc |-> "kind", n |-> 1, changed |-> FALSE, had |-> 0]
        /\ outcome' = "none" /\ UNCHANGED <<dest, aside, marker, payload>>
    BY <1>20 DEF Machine!Bundles!Command, Machine!Bundles!Disk, Machine!Bundles!Rest
  <2>2. work' \in Works /\ work'.pc = "kind" /\ work'.cmd = cmd /\ work'.n = 1
    BY <1>3, <2>1 DEF Works
  <2>3. Behind' = {}
    BY <2>2 DEF Behind
  <2>4. QED
    BY <1>6, <2>1, <2>2, <2>3 DEF BundlesInv, BundlesWork, BundlesBehind, Machine!Bundles!Disk
<1>21. QED
  BY <1>8, <1>9, <1>10, <1>11, <1>12, <1>13, <1>14, <1>15, <1>16, <1>17, <1>18, <1>19, <1>20 DEF Machine!Bundles!Next

-----------------------------------------------------------------------------
(* The kernel modules.                                                     *)

ModuleSet == Machine!Linux!ModuleSet
Module == Machine!Linux!Module
Torn == Machine!Linux!Torn
\* A module of this release in the running kernel's tree; one recorded and loaded; and
\* one of which nothing is left.
Built(m) == extra[kernel][m] = sources
Working(m) == mark[m] = <<sources, kernel>> /\ loaded[m] # 0
Gone(m) == mark[m] = <<0, 0>> /\ loaded[m] = 0 /\ \A r \in Kernels : extra[r][m] = 0

Tasks == [cmd : {"none", "install", "remove"}, n : 1 .. Len(Modules), ok : Nat, changed : BOOLEAN,
          seen : SUBSET ModuleSet,
          pc : {"idle", "build", "load", "register", "unload", "delete", "unregister"}]

\* What is recorded for a kernel is what its tree holds, unless a copy was torn or
\* a removal is half way.
LinuxFiles ==
  /\ sources \in Nat \ {0} /\ kernel \in Kernels
  /\ extra \in [Kernels -> [ModuleSet -> Nat \cup {Torn}]] /\ loaded \in [ModuleSet -> Nat \cup {Torn}]
  /\ mark \in [ModuleSet -> {<<0, 0>>} \cup (1 .. sources) \X Kernels]
  /\ \A m \in ModuleSet, r \in Kernels : mark[m] = <<sources, r>> => extra[r][m] \in {0, sources, Torn}

\* How far a command came tells which modules are built, at work or gone: the ones
\* before the current one, or, past the last, all of them.
LinuxWork ==
  /\ task \in Tasks
  /\ task.pc = "build" => task.ok = 0 /\ \A j \in 1 .. (task.n - 1) : Built(Modules[j])
  /\ task.pc \in {"load", "register"} => \A m \in ModuleSet : Built(m)
  /\ task.pc = "load" => /\ task.ok <= task.n - 1
                         /\ task.ok = task.n - 1 => \A j \in 1 .. (task.n - 1) : Working(Modules[j])
  /\ task.pc = "register" => \A m \in ModuleSet : Working(m)
  /\ task.pc \in {"unload", "delete"} =>
       /\ \A m \in ModuleSet \ task.seen : loaded[m] = 0
       /\ \A j \in 1 .. (task.n - 1) : Gone(Modules[j])
  /\ task.pc = "delete" => loaded[Module] = 0
  /\ task.pc = "unregister" => \A m \in ModuleSet : Gone(m)

LinuxInv ==
  /\ LinuxFiles /\ LinuxWork
  /\ reply \in {"installed", "removed"} => task.pc = "idle"
  /\ Machine!Linux!RemovedLeavesNothing /\ Machine!Linux!RegisteredAllLoaded

\* The same of the list of modules.
LEMMA ModulesAre ==
  /\ Len(Modules) \in Nat \ {0}
  /\ \A j \in 1 .. Len(Modules) : Modules[j] \in ModuleSet
  /\ \A k \in ModuleSet : \E j \in 1 .. Len(Modules) : k = Modules[j]
<1>1. Modules \in Seq(STRING) /\ Modules # <<>>
  BY DevicesAssumption DEF DevicesAssumption
<1>2. Len(Modules) \in Nat /\ DOMAIN Modules = 1 .. Len(Modules) /\ Len(Modules) # 0
  BY <1>1
<1>3. QED
  BY <1>2 DEF ModuleSet, Machine!Linux!ModuleSet

\* A command that ends without success leaves nothing to hold.
LEMMA LinuxEnd ==
  ASSUME LinuxFiles', NEW r, r \notin {"installed", "removed"}, Machine!Linux!End(r)
  PROVE  LinuxInv'
<1>1. task' = [cmd |-> "none", pc |-> "idle", n |-> 1, ok |-> 0, changed |-> FALSE, seen |-> {}] /\ reply' = r
  BY DEF Machine!Linux!End, Machine!Linux!NoTask
<1>2. task' \in Tasks /\ task'.pc = "idle"
  BY <1>1, ModulesAre DEF Tasks
<1>3. LinuxWork'
  BY <1>2 DEF LinuxWork
<1>4. QED
  BY <1>1, <1>2, <1>3 DEF LinuxInv, Machine!Linux!RemovedLeavesNothing, Machine!Linux!RegisteredAllLoaded

\* A command under way has not answered yet.
LEMMA LinuxRuns ==
  ASSUME LinuxFiles', LinuxWork', reply' \notin {"installed", "removed"}
  PROVE  LinuxInv'
BY DEF LinuxInv, Machine!Linux!RemovedLeavesNothing, Machine!Linux!RegisteredAllLoaded

LEMMA LinuxInit == Machine!Linux!Init => LinuxInv
<1> SUFFICES ASSUME Machine!Linux!Init PROVE LinuxInv
  OBVIOUS
<1>1. /\ extra = [r \in Kernels |-> [m \in ModuleSet |-> 0]]
      /\ loaded = [m \in ModuleSet |-> 0] /\ mark = [m \in ModuleSet |-> <<0, 0>>]
      /\ sources = 1 /\ reply = "none"
      /\ task = [cmd |-> "none", pc |-> "idle", n |-> 1, ok |-> 0, changed |-> FALSE, seen |-> {}]
  BY DEF Machine!Linux!Init, ModuleSet, Machine!Linux!NoMark, Machine!Linux!NoTask
<1>2. kernel \in Kernels
  BY DevicesAssumption DEF DevicesAssumption, Machine!Linux!Init
<1>3. task \in Tasks /\ task.pc = "idle"
  BY <1>1, ModulesAre DEF Tasks
<1>4. LinuxFiles
  BY <1>1, <1>2 DEF LinuxFiles
<1>5. LinuxWork
  BY <1>3 DEF LinuxWork
<1>6. QED
  BY <1>1, <1>4, <1>5 DEF LinuxInv, Machine!Linux!RemovedLeavesNothing, Machine!Linux!RegisteredAllLoaded

LEMMA LinuxStill == LinuxInv /\ UNCHANGED Machine!linuxVars => LinuxInv'
<1> SUFFICES ASSUME LinuxInv, UNCHANGED Machine!linuxVars PROVE LinuxInv'
  OBVIOUS
<1>1. UNCHANGED <<extra, loaded, mark, boot, kernel, sources, task, reply>>
  BY DEF Machine!linuxVars
<1>2. LinuxFiles'
  BY <1>1 DEF LinuxInv, LinuxFiles
<1>3. Module' = Module /\ \A m : (Built(m)' <=> Built(m)) /\ (Working(m)' <=> Working(m)) /\ (Gone(m)' <=> Gone(m))
  BY <1>1 DEF Built, Working, Gone, Module, Machine!Linux!Module
<1>4. LinuxWork'
  BY <1>1, <1>3 DEF LinuxInv, LinuxWork
<1>5. QED
  BY <1>1, <1>2, <1>4 DEF LinuxInv, Machine!Linux!RemovedLeavesNothing, Machine!Linux!RegisteredAllLoaded,
                          Machine!Linux!ModuleCurrent, Machine!Linux!Want

LEMMA LinuxStep == LinuxInv /\ Machine!Linux!Next => LinuxInv'
<1> SUFFICES ASSUME LinuxInv, Machine!Linux!Next PROVE LinuxInv'
  OBVIOUS
<1> USE DEF Machine!Linux!World, Machine!Linux!Machine, Machine!Linux!Sure
<1>1. LinuxFiles /\ LinuxWork /\ task \in Tasks /\ task.n \in 1 .. Len(Modules)
  BY DEF LinuxInv, LinuxWork, Tasks
<1>2. /\ Len(Modules) \in Nat \ {0} /\ 1 \in 1 .. Len(Modules)
      /\ \A j \in 1 .. Len(Modules) : Modules[j] \in ModuleSet
  BY ModulesAre
<1>3. Module \in ModuleSet /\ Module = Modules[task.n] /\ Machine!Linux!Module = Module
  BY <1>1, <1>2 DEF Module, Machine!Linux!Module
<1>4. task.pc # "idle" => reply \notin {"installed", "removed"}
  BY DEF LinuxInv
<1>5. UNCHANGED <<extra, loaded, mark, kernel, sources>> => LinuxFiles'
  BY <1>1 DEF LinuxFiles
<1>6. \A j \in 1 .. task.n : j = task.n \/ j \in 1 .. (task.n - 1)
  BY <1>1
<1>7. Machine!Linux!Last <=> task.n = Len(Modules)
  BY DEF Machine!Linux!Last
<1>8. CASE Machine!Linux!Install
  <2>1. UNCHANGED <<extra, loaded, mark, kernel, sources>>
    BY <1>8 DEF Machine!Linux!Install
  <2>2. CASE Machine!Linux!End("skipped") \/ Machine!Linux!End("manual")
    BY <1>5, <2>1, <2>2, LinuxEnd
  <2>3. CASE task' = [Machine!Linux!NoTask EXCEPT !.cmd = "install", !.pc = "build"] /\ reply' = "none"
    <3>1. task' = [cmd |-> "install", pc |-> "build", n |-> 1, ok |-> 0, changed |-> FALSE, seen |-> {}]
      BY <2>3 DEF Machine!Linux!NoTask
    <3>2. task' \in Tasks /\ task'.pc = "build" /\ task'.n = 1 /\ task'.ok = 0
      BY <1>2, <3>1 DEF Tasks
    <3>3. LinuxWork'
      BY <3>2 DEF LinuxWork
    <3>4. QED
      BY <1>5, <2>1, <2>3, <3>3, LinuxRuns
  <2>4. QED
    BY <1>8, <2>2, <2>3 DEF Machine!Linux!Install
<1>9. CASE Machine!Linux!Build
  <2>1. task.pc = "build" /\ UNCHANGED <<loaded, mark, kernel, sources>>
    BY <1>9 DEF Machine!Linux!Build
  <2>2. PICK v \in {sources, Torn, extra[kernel][Module]} : extra' = [extra EXCEPT ![kernel][Module] = v]
    BY <1>3, <1>9 DEF Machine!Linux!Build, Torn
  <2>3. LinuxFiles'
    BY <1>1, <1>3, <2>1, <2>2 DEF LinuxFiles
  <2>4. CASE Machine!Linux!End("failed")
    BY <2>3, <2>4, LinuxEnd
  <2>5. CASE /\ extra' = [extra EXCEPT ![kernel][Module] = sources] /\ reply' = reply
             /\ task' = IF Machine!Linux!Last THEN [task EXCEPT !.pc = "load", !.n = 1] ELSE [task EXCEPT !.n = @ + 1]
    <3>1. ASSUME NEW j \in 1 .. task.n PROVE Built(Modules[j])'
      <4>1. j \in 1 .. Len(Modules) /\ Modules[j] \in ModuleSet
        BY <1>1, <1>2
      <4>2. j # task.n => extra[kernel][Modules[j]] = sources
        BY <1>1, <1>6, <2>1 DEF LinuxWork, Built
      <4>3. extra'[kernel][Modules[j]] = IF Modules[j] = Module THEN sources ELSE extra[kernel][Modules[j]]
        BY <1>1, <1>3, <2>5, <4>1 DEF LinuxFiles
      <4>4. QED
        BY <1>3, <2>1, <4>2, <4>3 DEF Built
    <3>2. CASE task.n = Len(Modules)
      <4>1. task' \in Tasks /\ task'.pc = "load" /\ task'.n = 1 /\ task'.ok = 0
        <5>1. task' = [task EXCEPT !.pc = "load", !.n = 1] /\ task.ok = 0
          BY <1>1, <1>7, <2>1, <2>5, <3>2 DEF LinuxWork
        <5>2. QED
          BY <1>1, <1>2, <5>1 DEF Tasks
      <4>2. \A m \in ModuleSet : Built(m)'
        BY <3>1, <3>2, ModulesAre
      <4>3. LinuxWork'
        BY <4>1, <4>2 DEF LinuxWork
      <4>4. QED
        BY <1>4, <2>1, <2>3, <2>5, <4>3, LinuxRuns
    <3>3. CASE task.n # Len(Modules)
      <4>1. PICK n : n = task.n + 1
        OBVIOUS
      <4>2. n \in 1 .. Len(Modules) /\ n - 1 = task.n
        BY <1>1, <1>2, <3>3, <4>1
      <4>3. task' = [task EXCEPT !.n = n]
        BY <1>7, <2>5, <3>3, <4>1
      <4>4. task' \in Tasks /\ task'.pc = "build" /\ task'.n = n /\ task'.ok = 0
        BY <1>1, <2>1, <4>2, <4>3 DEF Tasks, LinuxWork
      <4>5. LinuxWork'
        BY <3>1, <4>2, <4>4 DEF LinuxWork
      <4>6. QED
        BY <1>4, <2>1, <2>3, <2>5, <4>5, LinuxRuns
    <3>4. QED
      BY <3>2, <3>3
  <2>6. QED
    BY <1>9, <2>4, <2>5 DEF Machine!Linux!Build, Module
<1>10. CASE Machine!Linux!Load
  <2>0. PICK loads \in BOOLEAN : Machine!Linux!Probe(loads)
    BY <1>10 DEF Machine!Linux!Load
  <2>1. /\ loaded' = [loaded EXCEPT ![Module] = IF loads /\ @ = 0 THEN extra[kernel][Module] ELSE @]
        /\ (~loads => loaded[Module] = 0)
        /\ \/ /\ mark' = IF loads THEN [mark EXCEPT ![Module] = <<sources, kernel>>] ELSE mark
              /\ IF task.n # Len(Modules)
                   THEN task' = [task EXCEPT !.n = @ + 1, !.ok = task.ok + (IF loads THEN 1 ELSE 0)] /\ UNCHANGED reply
                   ELSE IF task.ok + (IF loads THEN 1 ELSE 0) = Len(Modules)
                          THEN task' = [task EXCEPT !.pc = "register"] /\ UNCHANGED reply
                          ELSE Machine!Linux!End("manual")
           \/ loads /\ Machine!Linux!End("failed") /\ mark' \in {mark, [mark EXCEPT ![Module] = <<0, 0>>]}
    BY <1>3, <1>7, <2>0 DEF Machine!Linux!Probe, Machine!Linux!Want, Machine!Linux!NoMark
  <2>2. /\ task.pc = "load" /\ UNCHANGED <<extra, kernel, sources>>
        /\ \A m \in ModuleSet : extra[kernel][m] = sources
        /\ task.ok \in Nat /\ task.ok <= task.n - 1
        /\ task.ok = task.n - 1 => \A j \in 1 .. (task.n - 1) : Working(Modules[j])
    BY <1>1, <2>0 DEF Machine!Linux!Probe, LinuxWork, Built, Tasks
  <2>3. PICK v \in Nat \cup {Torn} : v = IF loads /\ loaded[Module] = 0 THEN sources ELSE loaded[Module]
    BY <1>1, <1>3 DEF LinuxFiles
  <2>4. loaded' = [loaded EXCEPT ![Module] = v] /\ (loads => v # 0)
    BY <1>1, <1>3, <2>1, <2>2, <2>3 DEF LinuxFiles
  <2>5. PICK w \in {<<0, 0>>, <<sources, kernel>>, mark[Module]} : mark' = [mark EXCEPT ![Module] = w]
    <3>1. CASE mark' = mark
      BY <1>1, <1>3, <3>1 DEF LinuxFiles
    <3>2. QED
      BY <2>1, <3>1
  <2>6. LinuxFiles'
    <3>1. loaded' \in [ModuleSet -> Nat \cup {Torn}]
      BY <1>1, <1>3, <2>4 DEF LinuxFiles
    <3>2. w \in {<<0, 0>>} \cup (1 .. sources) \X Kernels
      BY <1>1, <1>3 DEF LinuxFiles
    <3>3. mark' \in [ModuleSet -> {<<0, 0>>} \cup (1 .. sources) \X Kernels]
      BY <1>1, <1>3, <2>5, <3>2 DEF LinuxFiles
    <3>4. ASSUME NEW m \in ModuleSet, NEW r \in Kernels, mark'[m] = <<sources, r>>
          PROVE  extra[r][m] \in {0, sources, Torn}
      <4>1. CASE mark'[m] = mark[m]
        BY <1>1, <3>4, <4>1 DEF LinuxFiles
      <4>2. CASE mark'[m] # mark[m]
        <5>1. m = Module /\ mark'[m] = w /\ w # mark[Module]
          BY <1>1, <1>3, <2>5, <4>2 DEF LinuxFiles
        <5>2. r = kernel
          <6>1. <<sources, r>> # <<0, 0>>
            BY <1>1 DEF LinuxFiles
          <6>2. w = <<sources, kernel>>
            BY <3>4, <5>1, <6>1
          <6>3. QED
            BY <3>4, <5>1, <6>2
        <5>3. QED
          BY <2>2, <5>2
      <4>3. QED
        BY <4>1, <4>2
    <3>5. QED
      BY <1>1, <2>2, <3>1, <3>3, <3>4 DEF LinuxFiles
  <2>7. CASE Machine!Linux!End("manual") \/ Machine!Linux!End("failed")
    BY <2>6, <2>7, LinuxEnd
  <2> DEFINE c == task.ok + (IF loads THEN 1 ELSE 0)
  <2>8. c \in Nat /\ c <= task.n /\ (c = task.n => loads /\ task.ok = task.n - 1)
    BY <1>1, <2>2
  <2>9. ASSUME c = task.n, mark' = [mark EXCEPT ![Module] = <<sources, kernel>>] PROVE \A j \in 1 .. task.n : Working(Modules[j])'
    <3>1. TAKE j \in 1 .. task.n
    <3>2. Modules[j] \in ModuleSet
      BY <1>1, <1>2
    <3>3. Modules[j] # Module => Working(Modules[j])
      BY <1>3, <1>6, <2>2, <2>8, <2>9
    <3>4. mark'[Modules[j]] = <<sources, kernel>>
      BY <1>1, <2>9, <3>2, <3>3 DEF LinuxFiles, Working
    <3>5. loaded'[Modules[j]] # 0
      BY <1>1, <2>4, <2>8, <2>9, <3>2, <3>3 DEF LinuxFiles, Working
    <3>6. QED
      BY <2>2, <3>4, <3>5 DEF Working
  <2>10. c = task.n /\ mark' = (IF loads THEN [mark EXCEPT ![Module] = <<sources, kernel>>] ELSE mark)
           => mark' = [mark EXCEPT ![Module] = <<sources, kernel>>]
    BY <2>8
  <2>11. \A m \in ModuleSet : Built(m)'
    BY <2>2 DEF Built
  <2> HIDE DEF c
  <2>12. CASE /\ mark' = IF loads THEN [mark EXCEPT ![Module] = <<sources, kernel>>] ELSE mark
              /\ task.n # Len(Modules)
              /\ task' = [task EXCEPT !.n = @ + 1, !.ok = c] /\ UNCHANGED reply
    <3>1. PICK n : n = task.n + 1
      OBVIOUS
    <3>2. n \in 1 .. Len(Modules) /\ n - 1 = task.n
      BY <1>1, <1>2, <2>12, <3>1
    <3>3. task' = [task EXCEPT !.n = n, !.ok = c]
      BY <2>12, <3>1
    <3>4. task' \in Tasks /\ task'.pc = "load" /\ task'.n = n /\ task'.ok = c
      BY <1>1, <2>2, <2>8, <3>2, <3>3 DEF Tasks
    <3>5. LinuxWork'
      BY <2>8, <2>9, <2>10, <2>11, <2>12, <3>2, <3>4 DEF LinuxWork
    <3>6. QED
      BY <1>4, <2>2, <2>6, <2>12, <3>5, LinuxRuns
  <2>13. CASE /\ mark' = IF loads THEN [mark EXCEPT ![Module] = <<sources, kernel>>] ELSE mark
              /\ task.n = Len(Modules) /\ c = Len(Modules)
              /\ task' = [task EXCEPT !.pc = "register"] /\ UNCHANGED reply
    <3>1. task' \in Tasks /\ task'.pc = "register"
      BY <1>1, <2>13 DEF Tasks
    <3>2. \A m \in ModuleSet : Working(m)'
      BY <2>9, <2>10, <2>13, ModulesAre
    <3>3. LinuxWork'
      BY <2>11, <3>1, <3>2 DEF LinuxWork
    <3>4. QED
      BY <1>4, <2>2, <2>6, <2>13, <3>3, LinuxRuns
  <2>14. QED
    BY <2>1, <2>7, <2>12, <2>13 DEF c
<1>11. CASE Machine!Linux!Register
  <2>1. LinuxFiles' /\ task.pc = "register" /\ UNCHANGED <<extra, loaded, mark, kernel, sources>>
    BY <1>5, <1>11 DEF Machine!Linux!Register
  <2>2. CASE Machine!Linux!End("failed")
    BY <2>1, <2>2, LinuxEnd
  <2>3. CASE boot' = TRUE /\ Machine!Linux!End("installed")
    <3>1. task' = [cmd |-> "none", pc |-> "idle", n |-> 1, ok |-> 0, changed |-> FALSE, seen |-> {}] /\ reply' = "installed"
      BY <2>3 DEF Machine!Linux!End, Machine!Linux!NoTask
    <3>2. task' \in Tasks /\ task'.pc = "idle"
      BY <1>2, <3>1 DEF Tasks
    <3>3. LinuxWork'
      BY <3>2 DEF LinuxWork
    <3>4. sources # 0 /\ \A m \in ModuleSet : Built(m) /\ Working(m)
      BY <1>1, <2>1 DEF LinuxFiles, LinuxWork
    <3>5. Machine!Linux!RegisteredAllLoaded'
      BY <2>1, <2>3, <3>4 DEF Machine!Linux!RegisteredAllLoaded, Built, Working, Machine!Linux!ModuleCurrent, Machine!Linux!Want, ModuleSet
    <3>6. QED
      BY <2>1, <3>1, <3>2, <3>3, <3>5 DEF LinuxInv, Machine!Linux!RemovedLeavesNothing
  <2>4. QED
    BY <1>11, <2>2, <2>3 DEF Machine!Linux!Register
<1>12. CASE Machine!Linux!Remove
  <2>1. /\ task' = [cmd |-> "remove", pc |-> "unload", n |-> 1, ok |-> 0, changed |-> FALSE, seen |-> {m \in ModuleSet : loaded[m] # 0}]
        /\ reply' = "none" /\ UNCHANGED <<extra, loaded, mark, kernel, sources>>
    BY <1>12 DEF Machine!Linux!Remove, Machine!Linux!NoTask, ModuleSet
  <2>2. PICK s : s = {m \in ModuleSet : loaded[m] # 0}
    OBVIOUS
  <2>3. s \in SUBSET ModuleSet /\ \A m \in ModuleSet \ s : loaded[m] = 0
    BY <2>2
  <2>4. task' \in Tasks /\ task'.pc = "unload" /\ task'.n = 1 /\ task'.seen = s
    BY <1>2, <2>1, <2>2, <2>3 DEF Tasks
  <2>5. LinuxWork'
    BY <2>1, <2>3, <2>4 DEF LinuxWork
  <2>6. QED
    BY <1>5, <2>1, <2>5, LinuxRuns
<1>13. CASE Machine!Linux!Unload
  <2>1. /\ task.pc = "unload" /\ UNCHANGED <<extra, mark, kernel, sources>>
        /\ \A m \in ModuleSet \ task.seen : loaded[m] = 0
        /\ \A j \in 1 .. (task.n - 1) : Gone(Modules[j])
    BY <1>1, <1>13 DEF Machine!Linux!Unload, LinuxWork
  <2>2. CASE Machine!Linux!End("failed") /\ loaded' = loaded
    BY <1>5, <2>1, <2>2, LinuxEnd
  <2>3. CASE /\ loaded' = [loaded EXCEPT ![Module] = IF Module \in task.seen THEN 0 ELSE @]
             /\ task' = [task EXCEPT !.pc = "delete"] /\ UNCHANGED reply
    <3>1. loaded' = [loaded EXCEPT ![Module] = 0]
      BY <1>1, <1>3, <2>1, <2>3 DEF LinuxFiles
    <3>2. LinuxFiles'
      BY <1>1, <1>3, <2>1, <3>1 DEF LinuxFiles
    <3>3. /\ task' \in Tasks /\ task'.pc = "delete" /\ task'.n = task.n /\ task'.seen = task.seen
      BY <1>1, <2>3 DEF Tasks
    <3>4. Module' = Module /\ loaded'[Module] = 0
      BY <1>1, <1>3, <3>1, <3>3 DEF LinuxFiles, Module, Machine!Linux!Module
    <3>5. \A m \in ModuleSet : loaded[m] = 0 => loaded'[m] = 0
      BY <1>1, <3>1 DEF LinuxFiles
    <3>6. ASSUME NEW j \in 1 .. (task.n - 1) PROVE Gone(Modules[j])'
      <4>1. Modules[j] \in ModuleSet /\ Gone(Modules[j])
        BY <1>1, <1>2, <2>1
      <4>2. QED
        BY <2>1, <3>5, <4>1 DEF Gone
    <3>7. LinuxWork'
      BY <2>1, <3>3, <3>4, <3>5, <3>6 DEF LinuxWork
    <3>8. QED
      BY <1>4, <2>1, <2>3, <3>2, <3>7, LinuxRuns
  <2>4. QED
    BY <1>3, <1>13, <2>2, <2>3 DEF Machine!Linux!Unload
<1>14. CASE Machine!Linux!Delete
  <2>1. /\ task.pc = "delete" /\ UNCHANGED <<loaded, kernel, sources>> /\ loaded[Module] = 0
        /\ \A m \in ModuleSet \ task.seen : loaded[m] = 0
        /\ \A j \in 1 .. (task.n - 1) : Gone(Modules[j])
        /\ extra' = [r \in Kernels |-> [extra[r] EXCEPT ![Module] = 0]]
    BY <1>1, <1>3, <1>14 DEF Machine!Linux!Delete, LinuxWork
  <2>2. /\ extra' \in [Kernels -> [ModuleSet -> Nat \cup {Torn}]]
        /\ \A r \in Kernels : extra'[r][Module] = 0
        /\ \A r \in Kernels, m \in ModuleSet : extra'[r][m] \in {0, extra[r][m]}
    BY <1>1, <1>3, <2>1 DEF LinuxFiles
  <2>3. CASE Machine!Linux!End("failed") /\ mark' = mark
    <3>1. LinuxFiles'
      BY <1>1, <2>1, <2>2, <2>3 DEF LinuxFiles
    <3>2. QED
      BY <2>3, <3>1, LinuxEnd
  <2>4. CASE /\ mark' = [mark EXCEPT ![Module] = <<0, 0>>] /\ UNCHANGED reply
             /\ \E ch \in BOOLEAN :
                  task' = [task EXCEPT !.changed = ch,
                                       !.pc = IF Machine!Linux!Last THEN "unregister" ELSE "unload",
                                       !.n = IF Machine!Linux!Last THEN 1 ELSE @ + 1]
    <3>1. LinuxFiles'
      BY <1>1, <1>3, <2>1, <2>2, <2>4 DEF LinuxFiles
    <3>2. ASSUME NEW j \in 1 .. task.n PROVE Gone(Modules[j])'
      <4>1. Modules[j] \in ModuleSet /\ (Modules[j] # Module => Gone(Modules[j]))
        BY <1>1, <1>2, <1>3, <1>6, <2>1
      <4>2. mark'[Modules[j]] = <<0, 0>>
        BY <1>1, <2>4, <4>1 DEF LinuxFiles, Gone
      <4>3. \A r \in Kernels : extra'[r][Modules[j]] = 0
        BY <2>2, <4>1 DEF Gone
      <4>4. loaded'[Modules[j]] = 0
        BY <2>1, <4>1 DEF Gone
      <4>5. QED
        BY <4>2, <4>3, <4>4 DEF Gone
    <3>3. PICK ch \in BOOLEAN :
            task' = [task EXCEPT !.changed = ch,
                                 !.pc = IF Machine!Linux!Last THEN "unregister" ELSE "unload",
                                 !.n = IF Machine!Linux!Last THEN 1 ELSE @ + 1]
      BY <2>4
    <3>4. CASE task.n = Len(Modules)
      <4>1. task' = [task EXCEPT !.changed = ch, !.pc = "unregister", !.n = 1]
        BY <1>7, <3>3, <3>4
      <4>2. task' \in Tasks /\ task'.pc = "unregister"
        BY <1>1, <1>2, <4>1 DEF Tasks
      <4>3. \A m \in ModuleSet : Gone(m)'
        BY <3>2, <3>4, ModulesAre
      <4>4. LinuxWork'
        BY <4>2, <4>3 DEF LinuxWork
      <4>5. QED
        BY <1>4, <2>1, <2>4, <3>1, <4>4, LinuxRuns
    <3>5. CASE task.n # Len(Modules)
      <4>1. PICK n : n = task.n + 1
        OBVIOUS
      <4>2. n \in 1 .. Len(Modules) /\ n - 1 = task.n
        BY <1>1, <1>2, <3>5, <4>1
      <4>3. task' = [task EXCEPT !.changed = ch, !.pc = "unload", !.n = n]
        BY <1>7, <3>3, <3>5, <4>1
      <4>4. task' \in Tasks /\ task'.pc = "unload" /\ task'.n = n /\ task'.seen = task.seen
        BY <1>1, <4>2, <4>3 DEF Tasks
      <4>5. LinuxWork'
        BY <2>1, <3>2, <4>2, <4>4 DEF LinuxWork
      <4>6. QED
        BY <1>4, <2>1, <2>4, <3>1, <4>5, LinuxRuns
    <3>6. QED
      BY <3>4, <3>5
  <2>5. QED
    <3>1. task.changed \in BOOLEAN
      BY <1>1 DEF Tasks
    <3>2. QED
      BY <1>3, <1>14, <2>3, <2>4, <3>1 DEF Machine!Linux!Delete, Machine!Linux!NoMark
<1>15. CASE Machine!Linux!DeleteFails
  <2>1. PICK kept \in SUBSET Kernels :
          extra' = [r \in Kernels |-> IF r \in kept THEN extra[r] ELSE [extra[r] EXCEPT ![Module] = 0]]
    BY <1>3, <1>15 DEF Machine!Linux!DeleteFails
  <2>2. Machine!Linux!End("failed") /\ UNCHANGED <<loaded, mark, kernel, sources>>
    BY <1>15 DEF Machine!Linux!DeleteFails
  <2>3. LinuxFiles'
    BY <1>1, <1>3, <2>1, <2>2 DEF LinuxFiles
  <2>4. QED
    BY <2>2, <2>3, LinuxEnd
<1>16. CASE Machine!Linux!Unregister
  <2>1. LinuxFiles' /\ task.pc = "unregister" /\ UNCHANGED <<extra, loaded, mark, kernel, sources>>
    BY <1>5, <1>16 DEF Machine!Linux!Unregister
  <2>2. CASE Machine!Linux!End("failed")
    BY <2>1, <2>2, LinuxEnd
  <2>3. CASE boot' = FALSE /\ Machine!Linux!End("removed")
    <3>1. task' = [cmd |-> "none", pc |-> "idle", n |-> 1, ok |-> 0, changed |-> FALSE, seen |-> {}] /\ reply' = "removed"
      BY <2>3 DEF Machine!Linux!End, Machine!Linux!NoTask
    <3>2. task' \in Tasks /\ task'.pc = "idle"
      BY <1>2, <3>1 DEF Tasks
    <3>3. LinuxWork'
      BY <3>2 DEF LinuxWork
    <3>4. \A m \in ModuleSet : Gone(m)
      BY <1>1, <2>1 DEF LinuxWork
    <3>5. Machine!Linux!RemovedLeavesNothing'
      BY <2>1, <2>3, <3>4 DEF Machine!Linux!RemovedLeavesNothing, Gone, Machine!Linux!NoMark, ModuleSet
    <3>6. QED
      BY <2>1, <3>1, <3>2, <3>3, <3>5 DEF LinuxInv, Machine!Linux!RegisteredAllLoaded
  <2>4. QED
    BY <1>16, <2>2, <2>3 DEF Machine!Linux!Unregister
<1>17. CASE Machine!Linux!KillTask
  BY <1>5, <1>17, LinuxEnd DEF Machine!Linux!KillTask
<1>18. CASE Machine!Linux!Reboot
  <2>1. /\ task.pc = "idle" /\ reply' = "none" /\ UNCHANGED <<extra, mark, sources, task>> /\ kernel' \in Kernels
    BY <1>18 DEF Machine!Linux!Reboot
  <2>2. PICK r \in Kernels : loaded' = [m \in ModuleSet |-> IF boot /\ extra[r][m] # Torn THEN extra[r][m] ELSE 0]
    BY <1>18 DEF Machine!Linux!Reboot, ModuleSet, Torn
  <2>3. LinuxFiles'
    BY <1>1, <2>1, <2>2 DEF LinuxFiles
  <2>4. LinuxWork'
    BY <1>1, <2>1 DEF LinuxWork
  <2>5. QED
    BY <2>1, <2>3, <2>4, LinuxRuns
<1>19. CASE Machine!Linux!NewSources
  <2>1. /\ task.pc = "idle" /\ sources' = sources + 1 /\ reply' = "none" /\ UNCHANGED <<extra, loaded, mark, kernel, task>>
    BY <1>19 DEF Machine!Linux!NewSources
  <2>2. \A m \in ModuleSet : mark[m] \in {<<0, 0>>} \cup (1 .. (sources + 1)) \X Kernels
    <3>1. TAKE m \in ModuleSet
    <3>2. mark[m] \in {<<0, 0>>} \cup (1 .. sources) \X Kernels
      BY <1>1 DEF LinuxFiles
    <3>3. CASE mark[m] = <<0, 0>>
      BY <3>3
    <3>4. ASSUME NEW v \in 1 .. sources, NEW r \in Kernels, mark[m] = <<v, r>> PROVE mark[m] \in {<<0, 0>>} \cup (1 .. (sources + 1)) \X Kernels
      <4>1. v \in 1 .. (sources + 1)
        BY <1>1 DEF LinuxFiles
      <4>2. QED
        BY <3>4, <4>1
    <3>5. QED
      BY <3>2, <3>3, <3>4
  <2>3. \A m \in ModuleSet, r \in Kernels : mark[m] # <<sources + 1, r>>
    BY <1>1 DEF LinuxFiles
  <2>4. LinuxFiles'
    BY <1>1, <2>1, <2>2, <2>3 DEF LinuxFiles
  <2>5. LinuxWork'
    BY <1>1, <2>1 DEF LinuxWork
  <2>6. QED
    BY <2>1, <2>4, <2>5, LinuxRuns
<1>20. QED
  BY <1>8, <1>9, <1>10, <1>11, <1>12, <1>13, <1>14, <1>15, <1>16, <1>17, <1>18, <1>19 DEF Machine!Linux!Next

-----------------------------------------------------------------------------
(* The speech engine.                                                      *)

Files == Packs \X Parts
Tree == [there : BOOLEAN, rt : 0 .. MaxVer, models : [Files -> 0 .. MaxVer]]
Inventories == [there : BOOLEAN, rt : 0 .. MaxVer, proto : {0} \cup {ProtocolOf[v] : v \in 1 .. MaxVer},
                packs : [Packs -> 0 .. MaxVer]]
Ops == [kind : {"none", "runtime", "pack", "remove"}, pack : Packs, left : SUBSET Parts, healing : BOOLEAN,
        pc : {"idle", "recover", "carry", "plan", "fetch", "extract", "retire", "swap", "publish", "unlink", "record"}]
Unfailing == faults.fail = 0

\* A tree that is there has a runtime, and one that is not holds nothing.
Whole(t) == IF t.there THEN t.rt # 0 ELSE t.rt = 0 /\ \A p \in Packs, k \in Parts : t.models[<<p, k>>] = 0
\* A tree's models are no older than their record.
Aged(t) ==
  \A p \in Packs, k \in Parts :
    t.models[<<p, k>>] # 0 => inventory.packs[p] <= t.models[<<p, k>>] /\ t.models[<<p, k>>] <= catalogue
\* The two trees share no entry of models/.
TreesAreApart ==
  \A p, q \in Packs, k, l \in Parts :
    EntryOf[p] = EntryOf[q] => bundle.models[<<p, k>>] = 0 \/ retired.models[<<q, l>>] = 0
\* What is recorded is in one of them, and no older than its record.
RecordedIsKept ==
  /\ inventory.there => bundle.there \/ retired.there
  /\ \A p \in Packs : inventory.packs[p] # 0 /\ p \notin cut =>
       \A k \in Parts : bundle.models[<<p, k>>] # 0 \/ retired.models[<<p, k>>] # 0
RecordsAge ==
  /\ inventory.rt <= catalogue /\ bundle.rt <= catalogue
  /\ bundle.there => inventory.rt <= bundle.rt
  /\ ~bundle.there /\ retired.there => inventory.rt <= retired.rt
  /\ retired.rt <= catalogue
  /\ \A p \in Packs : inventory.packs[p] <= catalogue
  /\ Aged(bundle) /\ Aged(retired)

EngineFiles ==
  /\ bundle \in Tree /\ retired \in Tree /\ inventory \in Inventories /\ catalogue \in 1 .. MaxVer
  /\ Whole(bundle) /\ Whole(retired) /\ TreesAreApart /\ RecordedIsKept /\ RecordsAge

\* A retired tree is seen by an operation that plans only if an operation had failed.
RetiredIsHealed ==
  /\ op.pc \in {"plan", "fetch", "extract", "retire", "publish", "unlink"} => ~retired.there
  /\ op.pc # "swap" /\ (op.pc = "carry" => op.healing) /\ retired.there => Unfailing

\* Where an operation is tells which one it is and what it has done.
EngineAt ==
  /\ op.pc = "recover" => op.healing
  /\ op.pc = "carry" => bundle.there /\ (~op.healing => op.kind = "runtime" /\ bundle.rt = catalogue)
  /\ op.pc = "swap" => ~bundle.there
  /\ op.pc \in {"retire", "swap"} => op.kind = "runtime"
  /\ op.pc \in {"fetch", "extract"} => op.kind \in {"runtime", "pack"}
  /\ op.pc \in {"fetch", "extract", "publish", "record"} /\ op.kind = "pack" => inventory.there
  /\ op.pc = "publish" => /\ op.kind = "pack"
                          /\ \A k \in Parts \ op.left : bundle.models[<<op.pack, k>>] = catalogue
  /\ op.pc = "unlink" => op.kind = "remove" /\ op.pack \in cut
  /\ op.pc = "record" =>
       /\ op.kind \in {"runtime", "pack", "remove"}
       /\ op.kind = "runtime" => /\ bundle.rt = catalogue /\ bundle.there
                                 /\ \A p \in Packs, k \in Parts : retired.models[<<p, k>>] = 0
       /\ op.kind # "runtime" => ~retired.there
       /\ op.kind = "pack" => \A k \in Parts : bundle.models[<<op.pack, k>>] = catalogue

EngineOp ==
  /\ op \in Ops /\ faults \in [crash : Nat, fail : {0, 1}] /\ (Unfailing \/ faults.crash = 0)
  /\ op.pc # "idle" => op.kind # "none" /\ answer.kind = "none"
  /\ RetiredIsHealed /\ EngineAt

EngineInv == EngineFiles /\ EngineOp /\ Machine!Engine!AnswerIsTrue

LEMMA IdleIs ==
  /\ Machine!Engine!Idle \in Ops /\ Machine!Engine!Idle.pc = "idle"
  /\ Machine!Engine!Idle.pack \in Packs
  /\ Machine!Engine!NoAnswer.kind = "none"
<1>1. (CHOOSE p \in Packs : TRUE) \in Packs
  BY PacksAssumption DEF PacksAssumption
<1>2. PICK q \in Packs : q = CHOOSE p \in Packs : TRUE
  BY <1>1
<1>3. Machine!Engine!Idle = [kind |-> "none", pc |-> "idle", pack |-> q, left |-> {}, healing |-> FALSE]
  BY <1>2 DEF Machine!Engine!Idle
<1>4. QED
  BY <1>3 DEF Ops, Machine!Engine!NoAnswer

LEMMA NoTreeIs ==
  /\ Machine!Engine!NoTree \in Tree /\ ~Machine!Engine!NoTree.there /\ Machine!Engine!NoTree.rt = 0
  /\ \A p \in Packs, k \in Parts : Machine!Engine!NoTree.models[<<p, k>>] = 0
<1>1. PICK m : m = [f \in Files |-> 0]
  OBVIOUS
<1>2. MaxVer \in Nat
  BY PacksAssumption DEF PacksAssumption
<1>3. m \in [Files -> 0 .. MaxVer] /\ \A p \in Packs, k \in Parts : m[<<p, k>>] = 0
  BY <1>1, <1>2 DEF Files
<1>4. Machine!Engine!NoTree = [there |-> FALSE, rt |-> 0, models |-> m]
  BY <1>1 DEF Machine!Engine!NoTree, Machine!Engine!NoModels, Machine!Engine!Files, Files
<1>5. QED
  BY <1>2, <1>3, <1>4 DEF Tree

\* The entries of models/ that a tree has.
LEMMA EntriesAre ==
  ASSUME NEW t
  PROVE  \A p \in Packs, k \in Parts : t.models[<<p, k>>] # 0 => EntryOf[p] \in Machine!Engine!Entries(t)
<1>1. SUFFICES ASSUME NEW p \in Packs, NEW k \in Parts, t.models[<<p, k>>] # 0
               PROVE  EntryOf[p] \in Machine!Engine!Entries(t)
  OBVIOUS
<1>2. PICK f : f = <<p, k>>
  OBVIOUS
<1>3. f \in {g \in Machine!Engine!Files : t.models[g] # 0} /\ f[1] = p
  BY <1>1, <1>2 DEF Machine!Engine!Files
<1>4. QED
  BY <1>3, Zenon DEF Machine!Engine!Entries

\* A pack whose model a tree lists shares it with one the tree has.
LEMMA ModelShared ==
  ASSUME NEW t, NEW p \in Packs, EntryOf[p] \in Machine!Engine!Entries(t)
  PROVE  \E q \in Packs, l \in Parts : t.models[<<q, l>>] # 0 /\ EntryOf[p] = EntryOf[q]
<1>1. PICK f \in {g \in Machine!Engine!Files : t.models[g] # 0} : EntryOf[p] = EntryOf[f[1]]
  BY Zenon DEF Machine!Engine!Entries
<1>2. PICK q \in Packs, l \in Parts : f = <<q, l>>
  BY <1>1 DEF Machine!Engine!Files
<1>3. QED
  BY <1>1, <1>2

\* A carry that has nothing left to move leaves no model behind.
LEMMA CarriedAll ==
  ASSUME TreesAreApart, Machine!Engine!Entries(retired) \subseteq Machine!Engine!Entries(bundle)
  PROVE  \A p \in Packs, k \in Parts : retired.models[<<p, k>>] = 0
<1>1. SUFFICES ASSUME NEW p \in Packs, NEW k \in Parts, retired.models[<<p, k>>] # 0 PROVE FALSE
  OBVIOUS
<1>2. EntryOf[p] \in Machine!Engine!Entries(bundle)
  BY <1>1, EntriesAre
<1>3. PICK q \in Packs, l \in Parts : bundle.models[<<q, l>>] # 0 /\ EntryOf[p] = EntryOf[q]
  BY Zenon, <1>2, ModelShared
<1>4. QED
  BY <1>1, <1>3 DEF TreesAreApart

LEMMA FilesSame ==
  EngineFiles /\ UNCHANGED <<bundle, retired, inventory, catalogue, cut>> => EngineFiles'
BY DEF EngineFiles, Whole, Aged, TreesAreApart, RecordedIsKept, RecordsAge

\* What holds of the faults is kept by the ones that come.
LEMMA FaultsCome ==
  ASSUME EngineOp, Machine!Engine!Fault
  PROVE  faults' \in [crash : Nat, fail : {0, 1}] /\ Unfailing' /\ ~Unfailing
<1>1. faults \in [crash : Nat, fail : {0, 1}] /\ faults.fail = 1
  BY DEF EngineOp, Machine!Engine!Fault
<1>2. faults' = [faults EXCEPT !.fail = 0]
  BY <1>1 DEF Machine!Engine!Fault
<1>3. QED
  BY <1>1, <1>2 DEF Unfailing

FaultsAre == faults \in [crash : Nat, fail : {0, 1}] /\ (Unfailing \/ faults.crash = 0)

\* An operation that ended: its answer is all there is to show.
LEMMA EngineEnds ==
  ASSUME EngineFiles', FaultsAre', (retired.there => Unfailing)', op' = Machine!Engine!Idle, Machine!Engine!AnswerIsTrue'
  PROVE  EngineInv'
<1>1. op' \in Ops /\ op'.pc = "idle"
  BY IdleIs
<1>2. QED
  BY <1>1 DEF EngineInv, EngineOp, FaultsAre, RetiredIsHealed, EngineAt

LEMMA EngineFails ==
  ASSUME EngineFiles', FaultsAre', (retired.there => Unfailing)', Machine!Engine!Done(FALSE)
  PROVE  EngineInv'
<1>1. op' = Machine!Engine!Idle /\ ~answer'.ok
  BY DEF Machine!Engine!Done
<1>2. QED
  BY <1>1, EngineEnds DEF Machine!Engine!AnswerIsTrue

\* An operation that goes on has not answered.
LEMMA EngineGoes ==
  ASSUME EngineFiles', FaultsAre', op' \in Ops, op'.kind # "none", answer'.kind = "none", RetiredIsHealed', EngineAt'
  PROVE  EngineInv'
BY DEF EngineInv, EngineOp, FaultsAre, Machine!Engine!AnswerIsTrue

LEMMA EngineGo ==
  ASSUME op \in Ops, NEW pc, Machine!Engine!Go(pc),
         pc \in {"recover", "carry", "plan", "fetch", "extract", "retire", "swap", "publish", "unlink", "record"}
  PROVE  /\ op' \in Ops /\ op'.pc = pc /\ op'.kind = op.kind /\ op'.pack = op.pack /\ op'.left = op.left
         /\ op'.healing = op.healing
BY DEF Ops, Machine!Engine!Go

LEMMA EngineInit == OneFailure /\ Machine!Engine!Init => EngineInv
<1> SUFFICES ASSUME OneFailure, Machine!Engine!Init PROVE EngineInv
  OBVIOUS
<1>1. MaxVer \in Nat \ {0} /\ FaultPlans \subseteq [crash : Nat, fail : Nat]
  BY PacksAssumption DEF PacksAssumption
<1>2. /\ bundle = Machine!Engine!NoTree /\ retired = Machine!Engine!NoTree /\ op = Machine!Engine!Idle /\ catalogue = 1
      /\ answer = Machine!Engine!NoAnswer /\ cut = {} /\ faults \in FaultPlans
      /\ inventory = [there |-> FALSE, rt |-> 0, proto |-> 0, packs |-> [p \in Packs |-> 0]]
  BY DEF Machine!Engine!Init, Machine!Engine!NoInventory
<1>3. FaultsAre
  BY <1>1, <1>2 DEF OneFailure, FaultsAre, Unfailing
<1>4. /\ inventory \in Inventories /\ ~inventory.there /\ inventory.rt = 0 /\ \A p \in Packs : inventory.packs[p] = 0
  <2>1. PICK z : z = [p \in Packs |-> 0]
    OBVIOUS
  <2>2. z \in [Packs -> 0 .. MaxVer] /\ \A p \in Packs : z[p] = 0
    BY <1>1, <2>1
  <2>3. inventory = [there |-> FALSE, rt |-> 0, proto |-> 0, packs |-> z]
    BY <1>2, <2>1
  <2>4. QED
    BY <1>1, <2>2, <2>3 DEF Inventories
<1>5. EngineFiles
  <2>1. Whole(bundle) /\ Whole(retired) /\ TreesAreApart
    BY <1>2, NoTreeIs DEF Whole, TreesAreApart
  <2>2. RecordedIsKept
    BY <1>4 DEF RecordedIsKept
  <2>3. RecordsAge
    BY <1>2, <1>4, NoTreeIs DEF RecordsAge, Aged
  <2>4. QED
    BY <1>1, <1>2, <1>4, <2>1, <2>2, <2>3, NoTreeIs DEF EngineFiles
<1>6. op \in Ops /\ op.pc = "idle" /\ ~retired.there /\ answer.kind = "none"
  BY <1>2, IdleIs, NoTreeIs
<1>7. QED
  BY <1>3, <1>5, <1>6 DEF EngineInv, EngineOp, FaultsAre, RetiredIsHealed, EngineAt, Machine!Engine!AnswerIsTrue

LEMMA EngineStill == EngineInv /\ UNCHANGED Machine!engineVars => EngineInv'
<1> SUFFICES ASSUME EngineInv, UNCHANGED Machine!engineVars PROVE EngineInv'
  OBVIOUS
<1>1. UNCHANGED <<bundle, retired, inventory, op, catalogue, answer, cut, faults>>
  BY DEF Machine!engineVars
<1>2. EngineFiles'
  BY <1>1, FilesSame DEF EngineInv
<1>3. EngineOp'
  BY <1>1 DEF EngineInv, EngineOp, Unfailing, RetiredIsHealed, EngineAt
<1>4. Machine!Engine!AnswerIsTrue'
  BY <1>1 DEF EngineInv, Machine!Engine!AnswerIsTrue, Machine!Engine!Resolved, Machine!Engine!Readable, Machine!Engine!PackFilesPresent
<1>5. QED
  BY <1>2, <1>3, <1>4 DEF EngineInv

LEMMA EngineKeeps == EngineInv /\ Machine!Engine!Next => EngineInv'
<1> SUFFICES ASSUME EngineInv, Machine!Engine!Next PROVE EngineInv'
  OBVIOUS
<1>1. EngineFiles /\ EngineOp /\ op \in Ops /\ FaultsAre /\ RetiredIsHealed /\ EngineAt
  BY DEF EngineInv, EngineOp, FaultsAre
<1>2. op.pc # "idle" => op.kind # "none" /\ answer.kind = "none"
  BY <1>1 DEF EngineOp
<1>3. /\ bundle \in Tree /\ retired \in Tree /\ inventory \in Inventories /\ catalogue \in Nat \ {0} /\ catalogue \in 1 .. MaxVer
      /\ Whole(bundle) /\ Whole(retired) /\ TreesAreApart /\ RecordedIsKept /\ RecordsAge
  BY <1>1, PacksAssumption DEF EngineFiles, PacksAssumption
<1>4. \A p \in Packs, k \in Parts : <<p, k>> \in Files
  BY DEF Files
<1>5. UNCHANGED <<bundle, retired, inventory, catalogue, cut>> => EngineFiles'
  BY <1>1, FilesSame
<1>6. UNCHANGED faults => FaultsAre'
  BY <1>1 DEF FaultsAre, Unfailing
<1>7. Machine!Engine!Fault => FaultsAre' /\ Unfailing' /\ ~Unfailing
  BY <1>1, FaultsCome DEF FaultsAre
<1>8. ASSUME NEW kind \in {"runtime", "pack", "remove"}, NEW p \in Packs, Machine!Engine!Lock(kind, p)
      PROVE  EngineInv'
  <2>1. PICK q \in Packs : q = Machine!Engine!Idle.pack
    BY IdleIs
  <2>2. op' = [kind |-> kind, pc |-> "recover", pack |-> p, left |-> {}, healing |-> TRUE]
    BY <1>8 DEF Machine!Engine!Lock, Machine!Engine!Idle
  <2>3. op' \in Ops /\ op'.pc = "recover" /\ op'.kind = kind /\ op'.healing
    BY <2>2 DEF Ops
  <2>4. /\ op.pc = "idle" /\ UNCHANGED <<bundle, retired, inventory, catalogue, cut, faults>> /\ answer'.kind = "none"
    BY <1>8, IdleIs DEF Machine!Engine!Lock
  <2>5. RetiredIsHealed' /\ EngineAt'
    BY <1>1, <2>3, <2>4 DEF RetiredIsHealed, EngineAt, Unfailing
  <2>6. QED
    BY <1>5, <1>6, <2>3, <2>4, <2>5, EngineGoes
<1>9. CASE Machine!Engine!Recover
  <2>1. op.pc = "recover" /\ UNCHANGED <<inventory, catalogue, answer, cut>> /\ (retired.there => Unfailing)
    BY <1>1, <1>9 DEF Machine!Engine!Recover, RetiredIsHealed
  <2>2. CASE ~retired.there /\ Machine!Engine!Go("plan") /\ UNCHANGED <<bundle, retired, faults>>
    <3>1. op' \in Ops /\ op'.pc = "plan" /\ op'.kind = op.kind
      BY <1>1, <2>2, EngineGo
    <3>2. RetiredIsHealed' /\ EngineAt'
      BY <2>2, <3>1 DEF RetiredIsHealed, EngineAt
    <3>3. QED
      BY <1>2, <1>5, <1>6, <2>1, <2>2, <3>1, <3>2, EngineGoes
  <2>3. CASE retired.there /\ bundle.there /\ Machine!Engine!Go("carry") /\ UNCHANGED <<bundle, retired, faults>>
    <3>1. op' \in Ops /\ op'.pc = "carry" /\ op'.kind = op.kind /\ op'.healing = op.healing
      BY <1>1, <2>3, EngineGo
    <3>2. op.healing
      BY <1>1, <2>1 DEF EngineAt
    <3>3. RetiredIsHealed' /\ EngineAt'
      BY <2>1, <2>3, <3>1, <3>2 DEF RetiredIsHealed, EngineAt, Unfailing
    <3>4. QED
      BY <1>2, <1>5, <1>6, <2>1, <2>3, <3>1, <3>3, EngineGoes
  <2>4. CASE /\ retired.there /\ ~bundle.there /\ Machine!Engine!Go("plan")
             /\ bundle' = retired /\ retired' = Machine!Engine!NoTree /\ UNCHANGED faults
    <3>1. op' \in Ops /\ op'.pc = "plan" /\ op'.kind = op.kind
      BY <1>1, <2>4, EngineGo
    <3>2. retired' \in Tree /\ ~retired'.there /\ retired'.rt = 0 /\ \A p \in Packs, k \in Parts : retired'.models[<<p, k>>] = 0
      BY <2>4, NoTreeIs
    <3>3. \A p \in Packs, k \in Parts : bundle.models[<<p, k>>] = 0
      BY <1>3, <2>4 DEF Whole
    <3>4. Whole(bundle)' /\ Whole(retired)' /\ TreesAreApart'
      BY <1>3, <2>4, <3>2 DEF Whole, TreesAreApart
    <3>5. RecordedIsKept'
      BY <1>3, <2>1, <2>4, <3>2, <3>3 DEF RecordedIsKept
    <3>6. RecordsAge'
      BY <1>3, <2>1, <2>4, <3>2 DEF RecordsAge, Aged, Tree, Inventories
    <3>7. EngineFiles'
      BY <1>3, <2>1, <2>4, <3>2, <3>4, <3>5, <3>6 DEF EngineFiles
    <3>8. RetiredIsHealed' /\ EngineAt'
      BY <3>1, <3>2 DEF RetiredIsHealed, EngineAt
    <3>9. QED
      BY <1>2, <1>6, <2>1, <2>4, <3>1, <3>7, <3>8, EngineGoes
  <2>5. CASE retired.there /\ Machine!Engine!Fault
    BY <1>7, <2>1, <2>5
  <2>6. QED
    BY <1>9, <2>2, <2>3, <2>4, <2>5 DEF Machine!Engine!Recover
<1>10. CASE Machine!Engine!Carry
  <2>1. op.pc = "carry" /\ UNCHANGED <<inventory, op, catalogue, answer, cut, faults>>
    BY <1>10 DEF Machine!Engine!Carry
  <2>2. PICK e \in Machine!Engine!Entries(retired) \ Machine!Engine!Entries(bundle) :
          LET moved == {f \in Files : EntryOf[f[1]] = e} IN
          /\ bundle' = [bundle EXCEPT !.models = [f \in Files |-> IF f \in moved THEN retired.models[f] ELSE @[f]]]
          /\ retired' = [retired EXCEPT !.models = [f \in Files |-> IF f \in moved THEN 0 ELSE @[f]]]
    BY <1>10, Zenon DEF Machine!Engine!Carry, Files, Machine!Engine!Files
  <2>3. PICK b, r : /\ b = [f \in Files |-> IF EntryOf[f[1]] = e THEN retired.models[f] ELSE bundle.models[f]]
                    /\ r = [f \in Files |-> IF EntryOf[f[1]] = e THEN 0 ELSE retired.models[f]]
    OBVIOUS
  <2>4. bundle' = [bundle EXCEPT !.models = b] /\ retired' = [retired EXCEPT !.models = r]
    BY <1>3, <2>2, <2>3 DEF Tree
  <2>5. b \in [Files -> 0 .. MaxVer] /\ r \in [Files -> 0 .. MaxVer]
    BY <1>3, <2>3, PacksAssumption DEF Tree, PacksAssumption
  <2>6. \A p \in Packs, k \in Parts :
          /\ b[<<p, k>>] = IF EntryOf[p] = e THEN retired.models[<<p, k>>] ELSE bundle.models[<<p, k>>]
          /\ r[<<p, k>>] = IF EntryOf[p] = e THEN 0 ELSE retired.models[<<p, k>>]
    BY <1>4, <2>3
  <2>7. /\ bundle' \in Tree /\ bundle'.there = bundle.there /\ bundle'.rt = bundle.rt /\ bundle'.models = b
        /\ retired' \in Tree /\ retired'.there = retired.there /\ retired'.rt = retired.rt /\ retired'.models = r
    BY <1>3, <2>4, <2>5 DEF Tree
  <2>8. \A p \in Packs, k \in Parts : EntryOf[p] = e => bundle.models[<<p, k>>] = 0
    BY <2>2, EntriesAre
  <2>9. Whole(bundle)' /\ Whole(retired)'
    <3>1. bundle.there
      BY <1>1, <2>1 DEF EngineAt
    <3>2. QED
      BY <1>3, <2>6, <2>7, <3>1 DEF Whole
  <2>10. TreesAreApart'
    <3>1. SUFFICES ASSUME NEW p \in Packs, NEW q \in Packs, NEW k \in Parts, NEW l \in Parts, EntryOf[p] = EntryOf[q]
                   PROVE  b[<<p, k>>] = 0 \/ r[<<q, l>>] = 0
      BY <2>7 DEF TreesAreApart
    <3>2. bundle.models[<<p, k>>] = 0 \/ retired.models[<<q, l>>] = 0
      BY <1>3, <3>1 DEF TreesAreApart
    <3>3. QED
      BY <2>6, <3>1, <3>2
  <2>11. RecordedIsKept'
    BY <1>3, <2>1, <2>6, <2>7, <2>8 DEF RecordedIsKept
  <2>12. RecordsAge'
    <3>1. Aged(bundle)' /\ Aged(retired)'
      BY <1>3, <2>1, <2>6, <2>7 DEF RecordsAge, Aged
    <3>2. QED
      BY <1>3, <2>1, <2>7, <3>1 DEF RecordsAge
  <2>13. EngineFiles'
    BY <1>3, <2>1, <2>7, <2>9, <2>10, <2>11, <2>12 DEF EngineFiles
  <2>14. RetiredIsHealed' /\ EngineAt'
    BY <1>1, <2>1, <2>7 DEF RetiredIsHealed, EngineAt, Unfailing
  <2>15. QED
    BY <1>1, <1>2, <1>6, <2>1, <2>13, <2>14, EngineGoes
<1>11. CASE Machine!Engine!CarryFails
  <2>1. op.pc = "carry" /\ retired.there /\ Machine!Engine!Fault /\ catalogue' = catalogue /\ ~op.healing
    BY <1>1, <1>7, <1>11 DEF Machine!Engine!CarryFails, RetiredIsHealed
  <2>2. Machine!Engine!Fail
    BY <1>11, <2>1 DEF Machine!Engine!CarryFails
  <2>3. QED
    BY <1>5, <1>7, <2>1, <2>2, EngineFails DEF Machine!Engine!Fail
<1>12. CASE Machine!Engine!Carried
  <2>1. /\ op.pc = "carry" /\ UNCHANGED <<bundle, inventory, catalogue, answer, cut>>
        /\ \A p \in Packs, k \in Parts : retired.models[<<p, k>>] = 0
        /\ Machine!Engine!Go(IF op.healing THEN "plan" ELSE "record")
    BY <1>3, <1>12, CarriedAll DEF Machine!Engine!Carried
  <2>2. /\ op' \in Ops /\ op'.pc = (IF op.healing THEN "plan" ELSE "record") /\ op'.kind = op.kind /\ op'.healing = op.healing
    BY <1>1, <2>1, EngineGo
  <2>3. bundle.there /\ (~op.healing => op.kind = "runtime" /\ bundle.rt = catalogue)
    BY <1>1, <2>1 DEF EngineAt
  <2>4. CASE retired' = Machine!Engine!NoTree /\ UNCHANGED faults
    <3>1. retired' \in Tree /\ ~retired'.there /\ retired'.rt = 0 /\ \A p \in Packs, k \in Parts : retired'.models[<<p, k>>] = 0
      BY <2>4, NoTreeIs
    <3>2. Whole(bundle)' /\ Whole(retired)' /\ TreesAreApart'
      BY <1>3, <2>1, <3>1 DEF Whole, TreesAreApart
    <3>3. RecordedIsKept'
      BY <1>3, <2>1, <2>3, <3>1 DEF RecordedIsKept
    <3>4. RecordsAge'
      BY <1>3, <2>1, <2>3, <3>1 DEF RecordsAge, Aged
    <3>5. EngineFiles'
      BY <1>3, <2>1, <3>1, <3>2, <3>3, <3>4 DEF EngineFiles
    <3>6. RetiredIsHealed' /\ EngineAt'
      BY <2>1, <2>2, <2>3, <3>1 DEF RetiredIsHealed, EngineAt
    <3>7. QED
      BY <1>2, <1>6, <2>1, <2>2, <2>4, <3>5, <3>6, EngineGoes
  <2>5. CASE retired.there /\ Machine!Engine!Fault /\ UNCHANGED retired
    <3>1. ~op.healing
      BY <1>1, <1>7, <2>1, <2>5 DEF RetiredIsHealed
    <3>2. RetiredIsHealed' /\ EngineAt'
      BY <1>7, <2>1, <2>2, <2>3, <2>5, <3>1 DEF RetiredIsHealed, EngineAt
    <3>3. QED
      BY <1>2, <1>5, <1>7, <2>1, <2>2, <2>5, <3>2, EngineGoes
  <2>6. QED
    BY <1>12, <2>4, <2>5 DEF Machine!Engine!Carried
<1>13. CASE op.pc = "plan" /\ UNCHANGED <<bundle, retired, inventory, catalogue, cut, faults>> /\ Machine!Engine!Done(FALSE)
  BY <1>1, <1>5, <1>6, <1>13, EngineFails DEF RetiredIsHealed
<1>14. CASE Machine!Engine!PlanRuntime
  <2>1. /\ op.pc = "plan" /\ op.kind = "runtime" /\ UNCHANGED <<bundle, retired, inventory, catalogue, cut, faults>>
        /\ ~retired.there
    BY <1>1, <1>14 DEF Machine!Engine!PlanRuntime, RetiredIsHealed
  <2>2. CASE Machine!Engine!Go("fetch") /\ UNCHANGED answer
    <3>1. op' \in Ops /\ op'.pc = "fetch" /\ op'.kind = "runtime"
      BY <1>1, <2>1, <2>2, EngineGo
    <3>2. RetiredIsHealed' /\ EngineAt'
      BY <2>1, <3>1 DEF RetiredIsHealed, EngineAt
    <3>3. QED
      BY <1>2, <1>5, <1>6, <2>1, <2>2, <3>1, <3>2, EngineGoes
  <2>3. CASE Machine!Engine!Readable /\ inventory.rt = catalogue /\ bundle.rt # 0 /\ Machine!Engine!Done(TRUE)
    <3>1. op' = Machine!Engine!Idle /\ answer'.kind = "runtime"
      BY <2>1, <2>3 DEF Machine!Engine!Done
    <3>2. bundle.there /\ bundle.rt = catalogue
      <4>1. bundle.there
        BY <1>3, <2>3 DEF Whole
      <4>2. catalogue <= bundle.rt /\ bundle.rt <= catalogue /\ bundle.rt \in Nat
        BY <1>3, <2>3, <4>1 DEF RecordsAge, Tree
      <4>3. QED
        BY <1>3, <4>1, <4>2
    <3>3. \A p \in Packs : inventory.packs[p] # 0 /\ p \notin cut => Machine!Engine!PackFilesPresent(p)
      BY <1>3, <2>1 DEF RecordedIsKept, Whole, Machine!Engine!PackFilesPresent
    <3>4. Machine!Engine!AnswerIsTrue'
      BY <2>1, <2>3, <3>1, <3>2, <3>3
         DEF Machine!Engine!AnswerIsTrue, Machine!Engine!Resolved, Machine!Engine!Readable, Machine!Engine!PackFilesPresent
    <3>5. QED
      BY <1>5, <1>6, <2>1, <3>1, <3>4, EngineEnds
  <2>4. QED
    BY <1>14, <2>2, <2>3 DEF Machine!Engine!PlanRuntime
<1>15. CASE Machine!Engine!PlanPack
  <2>1. /\ op.pc = "plan" /\ op.kind = "pack" /\ UNCHANGED <<bundle, retired, inventory, catalogue, cut, faults>>
        /\ ~retired.there /\ op.pack \in Packs
    BY <1>1, <1>15 DEF Machine!Engine!PlanPack, RetiredIsHealed, Ops
  <2>2. CASE Machine!Engine!Readable /\ Machine!Engine!Go("fetch") /\ UNCHANGED answer
    <3>1. op' \in Ops /\ op'.pc = "fetch" /\ op'.kind = "pack"
      BY <1>1, <2>1, <2>2, EngineGo
    <3>2. inventory'.there
      BY <2>1, <2>2 DEF Machine!Engine!Readable
    <3>3. RetiredIsHealed' /\ EngineAt'
      BY <2>1, <3>1, <3>2 DEF RetiredIsHealed, EngineAt
    <3>4. QED
      BY <1>2, <1>5, <1>6, <2>1, <2>2, <3>1, <3>3, EngineGoes
  <2>3. CASE inventory.packs[op.pack] = catalogue /\ Machine!Engine!PackFilesPresent(op.pack) /\ Machine!Engine!Done(TRUE)
    <3>1. op' = Machine!Engine!Idle /\ answer'.kind = "pack" /\ answer'.pack = op.pack
      BY <2>1, <2>3 DEF Machine!Engine!Done
    <3>2. ASSUME NEW k \in Parts PROVE bundle.models[<<op.pack, k>>] = catalogue
      <4>1. bundle.models[<<op.pack, k>>] \in Nat /\ bundle.models[<<op.pack, k>>] # 0
        BY <1>3, <1>4, <2>1, <2>3, PacksAssumption DEF Tree, PacksAssumption, Machine!Engine!PackFilesPresent
      <4>2. catalogue <= bundle.models[<<op.pack, k>>] /\ bundle.models[<<op.pack, k>>] <= catalogue
        BY <1>3, <2>1, <2>3, <4>1 DEF RecordsAge, Aged
      <4>3. QED
        BY <1>3, <4>1, <4>2
    <3>3. Machine!Engine!AnswerIsTrue'
      BY <2>1, <2>3, <3>1, <3>2 DEF Machine!Engine!AnswerIsTrue
    <3>4. QED
      BY <1>5, <1>6, <2>1, <3>1, <3>3, EngineEnds
  <2>4. QED
    BY <1>13, <1>15, <2>1, <2>2, <2>3 DEF Machine!Engine!PlanPack
<1>16. CASE Machine!Engine!PlanRemove
  <2>1. /\ op.pc = "plan" /\ op.kind = "remove" /\ UNCHANGED <<bundle, retired, inventory, catalogue, faults>>
        /\ ~retired.there /\ op.pack \in Packs
    BY <1>1, <1>16 DEF Machine!Engine!PlanRemove, RetiredIsHealed, Ops
  <2>2. CASE inventory.packs[op.pack] = 0 /\ Machine!Engine!Done(TRUE) /\ UNCHANGED cut
    <3>1. op' = Machine!Engine!Idle /\ answer'.kind = "remove" /\ answer'.pack = op.pack
      BY <2>1, <2>2 DEF Machine!Engine!Done
    <3>2. Machine!Engine!AnswerIsTrue'
      BY <2>1, <2>2, <3>1 DEF Machine!Engine!AnswerIsTrue
    <3>3. QED
      BY <1>5, <1>6, <2>1, <2>2, <3>1, <3>2, EngineEnds
  <2>3. CASE op' = [op EXCEPT !.pc = "unlink", !.left = Parts] /\ cut' = cut \union {op.pack} /\ UNCHANGED answer
    <3>1. op' \in Ops /\ op'.pc = "unlink" /\ op'.kind = "remove" /\ op'.pack \in cut'
      BY <1>1, <2>1, <2>3 DEF Ops
    <3>2. EngineFiles'
      BY <1>3, <2>1, <2>3 DEF EngineFiles, Whole, Aged, TreesAreApart, RecordedIsKept, RecordsAge
    <3>3. RetiredIsHealed' /\ EngineAt'
      BY <2>1, <3>1 DEF RetiredIsHealed, EngineAt
    <3>4. QED
      BY <1>2, <1>6, <2>1, <2>3, <3>1, <3>2, <3>3, EngineGoes
  <2>4. QED
    BY <1>13, <1>16, <2>1, <2>2, <2>3 DEF Machine!Engine!PlanRemove
<1>17. CASE Machine!Engine!Fetch
  <2>1. op.pc = "fetch" /\ UNCHANGED <<bundle, retired, inventory, cut, catalogue, faults>> /\ ~retired.there
    BY <1>1, <1>17 DEF Machine!Engine!Fetch, Machine!Engine!Fail, RetiredIsHealed
  <2>2. CASE Machine!Engine!Go("extract") /\ UNCHANGED answer
    <3>1. op' \in Ops /\ op'.pc = "extract" /\ op'.kind = op.kind
      BY <1>1, <2>2, EngineGo
    <3>2. RetiredIsHealed' /\ EngineAt'
      BY <1>1, <2>1, <3>1 DEF RetiredIsHealed, EngineAt
    <3>3. QED
      BY <1>2, <1>5, <1>6, <2>1, <2>2, <3>1, <3>2, EngineGoes
  <2>3. CASE Machine!Engine!Fail
    BY <1>5, <1>6, <2>1, <2>3, EngineFails DEF Machine!Engine!Fail
  <2>4. QED
    BY <1>17, <2>2, <2>3 DEF Machine!Engine!Fetch
<1>18. CASE Machine!Engine!Extract
  <2>1. /\ op.pc = "extract" /\ UNCHANGED <<bundle, retired, inventory, cut, catalogue, faults>> /\ ~retired.there
        /\ op.kind \in {"runtime", "pack"} /\ (op.kind = "pack" => inventory.there)
    BY <1>1, <1>18 DEF Machine!Engine!Extract, Machine!Engine!Fail, RetiredIsHealed, EngineAt
  <2>2. CASE op.kind = "runtime" /\ Machine!Engine!Go("retire") /\ UNCHANGED answer
    <3>1. op' \in Ops /\ op'.pc = "retire" /\ op'.kind = op.kind
      BY <1>1, <2>2, EngineGo
    <3>2. RetiredIsHealed' /\ EngineAt'
      BY <2>1, <2>2, <3>1 DEF RetiredIsHealed, EngineAt
    <3>3. QED
      BY <1>2, <1>5, <1>6, <2>1, <2>2, <3>1, <3>2, EngineGoes
  <2>3. CASE op.kind # "runtime" /\ op' = [op EXCEPT !.pc = "publish", !.left = Parts] /\ UNCHANGED answer
    <3>1. op' \in Ops /\ op'.pc = "publish" /\ op'.kind = "pack" /\ op'.left = Parts
      BY <1>1, <2>1, <2>3 DEF Ops
    <3>2. RetiredIsHealed' /\ EngineAt'
      BY <2>1, <2>3, <3>1 DEF RetiredIsHealed, EngineAt
    <3>3. QED
      BY <1>2, <1>5, <1>6, <2>1, <2>3, <3>1, <3>2, EngineGoes
  <2>4. CASE Machine!Engine!Fail
    BY <1>5, <1>6, <2>1, <2>4, EngineFails DEF Machine!Engine!Fail
  <2>5. QED
    BY <1>18, <2>2, <2>3, <2>4 DEF Machine!Engine!Extract
<1>19. CASE Machine!Engine!Retire
  <2>1. op.pc = "retire" /\ op.kind = "runtime" /\ ~retired.there /\ UNCHANGED <<inventory, catalogue, cut>>
    BY <1>1, <1>19 DEF Machine!Engine!Retire, RetiredIsHealed, EngineAt
  <2>2. CASE ~bundle.there /\ Machine!Engine!Go("swap") /\ UNCHANGED <<bundle, retired, faults, answer>>
    <3>1. op' \in Ops /\ op'.pc = "swap" /\ op'.kind = op.kind
      BY <1>1, <2>2, EngineGo
    <3>2. RetiredIsHealed' /\ EngineAt'
      BY <2>1, <2>2, <3>1 DEF RetiredIsHealed, EngineAt
    <3>3. QED
      BY <1>2, <1>5, <1>6, <2>1, <2>2, <3>1, <3>2, EngineGoes
  <2>3. CASE /\ bundle.there /\ Machine!Engine!Go("swap")
             /\ retired' = bundle /\ bundle' = Machine!Engine!NoTree /\ UNCHANGED <<faults, answer>>
    <3>1. op' \in Ops /\ op'.pc = "swap" /\ op'.kind = op.kind
      BY <1>1, <2>3, EngineGo
    <3>2. bundle' \in Tree /\ ~bundle'.there /\ bundle'.rt = 0 /\ \A p \in Packs, k \in Parts : bundle'.models[<<p, k>>] = 0
      BY <2>3, NoTreeIs
    <3>3. \A p \in Packs, k \in Parts : retired.models[<<p, k>>] = 0
      BY <1>3, <2>1 DEF Whole
    <3>4. Whole(bundle)' /\ Whole(retired)' /\ TreesAreApart'
      BY <1>3, <2>3, <3>2 DEF Whole, TreesAreApart
    <3>5. RecordedIsKept'
      BY <1>3, <2>1, <2>3, <3>2, <3>3 DEF RecordedIsKept
    <3>6. RecordsAge'
      BY <1>3, <2>1, <2>3, <3>2 DEF RecordsAge, Aged, Tree, Inventories
    <3>7. EngineFiles'
      BY <1>3, <2>1, <2>3, <3>2, <3>4, <3>5, <3>6 DEF EngineFiles
    <3>8. RetiredIsHealed' /\ EngineAt'
      BY <2>1, <3>1, <3>2 DEF RetiredIsHealed, EngineAt
    <3>9. QED
      BY <1>2, <1>6, <2>1, <2>3, <3>1, <3>7, <3>8, EngineGoes
  <2>4. CASE Machine!Engine!Done(FALSE) /\ UNCHANGED <<bundle, retired>> /\ Machine!Engine!Fault
    BY <1>5, <1>7, <2>1, <2>4, EngineFails
  <2>5. QED
    BY <1>19, <2>1, <2>2, <2>3, <2>4 DEF Machine!Engine!Retire
<1>20. CASE Machine!Engine!Swap
  <2>1. op.pc = "swap" /\ op.kind = "runtime" /\ ~bundle.there /\ catalogue' = catalogue
    BY <1>1, <1>20 DEF Machine!Engine!Swap, EngineAt
  <2>2. CASE Machine!Engine!Fault /\ Machine!Engine!Fail
    BY <1>5, <1>7, <2>1, <2>2, EngineFails DEF Machine!Engine!Fail
  <2>3. CASE /\ op' = [op EXCEPT !.pc = "carry", !.healing = FALSE]
             /\ bundle' = [there |-> TRUE, rt |-> catalogue, models |-> Machine!Engine!NoModels]
             /\ UNCHANGED <<retired, inventory, cut, answer, faults>>
    <3>1. op' \in Ops /\ op'.pc = "carry" /\ op'.kind = "runtime" /\ ~op'.healing
      BY <1>1, <2>1, <2>3 DEF Ops
    <3>2. /\ bundle'.there /\ bundle'.rt = catalogue /\ bundle' \in Tree
          /\ \A p \in Packs, k \in Parts : bundle'.models[<<p, k>>] = 0
      <4>1. PICK m : m = [f \in Files |-> 0]
        OBVIOUS
      <4>2. m \in [Files -> 0 .. MaxVer] /\ \A p \in Packs, k \in Parts : m[<<p, k>>] = 0
        BY <1>4, <4>1, PacksAssumption DEF PacksAssumption
      <4>3. bundle' = [there |-> TRUE, rt |-> catalogue, models |-> m] /\ catalogue \in 0 .. MaxVer
        BY <1>3, <2>3, <4>1 DEF Machine!Engine!NoModels, Machine!Engine!Files, Files
      <4>4. QED
        BY <4>2, <4>3 DEF Tree
    <3>3. \A p \in Packs, k \in Parts : bundle.models[<<p, k>>] = 0
      BY <1>3, <2>1 DEF Whole
    <3>4. Whole(bundle)' /\ Whole(retired)' /\ TreesAreApart'
      BY <1>3, <2>3, <3>2 DEF Whole, TreesAreApart
    <3>5. RecordedIsKept'
      BY <1>3, <2>3, <3>2, <3>3 DEF RecordedIsKept
    <3>6. RecordsAge'
      BY <1>3, <2>1, <2>3, <3>2 DEF RecordsAge, Aged, Tree, Inventories
    <3>7. EngineFiles'
      BY <1>3, <2>1, <2>3, <3>2, <3>4, <3>5, <3>6 DEF EngineFiles
    <3>8. RetiredIsHealed' /\ EngineAt'
      BY <2>1, <3>1, <3>2 DEF RetiredIsHealed, EngineAt
    <3>9. QED
      BY <1>2, <1>6, <2>1, <2>3, <3>1, <3>7, <3>8, EngineGoes
  <2>4. QED
    BY <1>20, <2>2, <2>3 DEF Machine!Engine!Swap
<1>21. CASE Machine!Engine!Publish
  <2>1. /\ op.pc = "publish" /\ op.kind = "pack" /\ ~retired.there /\ inventory.there /\ catalogue' = catalogue
        /\ \A k \in Parts \ op.left : bundle.models[<<op.pack, k>>] = catalogue
        /\ op.pack \in Packs /\ op.left \subseteq Parts
    BY <1>1, <1>21 DEF Machine!Engine!Publish, RetiredIsHealed, EngineAt, Ops
  <2>2. CASE Machine!Engine!Fault /\ Machine!Engine!Fail
    BY <1>5, <1>7, <2>1, <2>2, EngineFails DEF Machine!Engine!Fail
  <2>3. CASE op.left = {} /\ Machine!Engine!Go("record") /\ UNCHANGED <<bundle, retired, inventory, cut, answer, faults>>
    <3>1. op' \in Ops /\ op'.pc = "record" /\ op'.kind = op.kind /\ op'.pack = op.pack
      BY <1>1, <2>3, EngineGo
    <3>2. RetiredIsHealed' /\ EngineAt'
      BY <2>1, <2>3, <3>1 DEF RetiredIsHealed, EngineAt
    <3>3. QED
      BY <1>2, <1>5, <1>6, <2>1, <2>3, <3>1, <3>2, EngineGoes
  <2>4. ASSUME NEW k \in op.left, op' = [op EXCEPT !.left = @ \ {k}],
               bundle' = [bundle EXCEPT !.there = TRUE, !.models[<<op.pack, k>>] = catalogue],
               UNCHANGED <<retired, inventory, cut, answer, faults>>
        PROVE  EngineInv'
    <3>1. op' \in Ops /\ op'.pc = "publish" /\ op'.kind = "pack" /\ op'.pack = op.pack /\ op'.left = op.left \ {k}
      BY <1>1, <2>1, <2>4 DEF Ops
    <3>2. bundle.there
      BY <1>3, <2>1 DEF RecordedIsKept
    <3>3. PICK m : m = [bundle.models EXCEPT ![<<op.pack, k>>] = catalogue]
      OBVIOUS
    <3>4. bundle' = [bundle EXCEPT !.there = TRUE, !.models = m]
      BY <2>4, <3>3
    <3>5. bundle.models \in [Files -> 0 .. MaxVer] /\ catalogue \in 0 .. MaxVer /\ <<op.pack, k>> \in Files /\ k \in Parts
      BY <1>3, <1>4, <2>1, <2>4 DEF Tree
    <3>6. m \in [Files -> 0 .. MaxVer] /\ m[<<op.pack, k>>] = catalogue
      BY <3>3, <3>5
    <3>7. \A p \in Packs, l \in Parts : <<p, l>> # <<op.pack, k>> => m[<<p, l>>] = bundle.models[<<p, l>>]
      BY <1>4, <3>3, <3>5
    <3>8. \A p \in Packs, l \in Parts : m[<<p, l>>] = IF p = op.pack /\ l = k THEN catalogue ELSE bundle.models[<<p, l>>]
      BY <3>6, <3>7
    <3>9. bundle' \in Tree /\ bundle'.there /\ bundle'.rt = bundle.rt /\ bundle'.models = m
      BY <1>3, <3>4, <3>6 DEF Tree
    <3>10. \A p \in Packs, l \in Parts : retired.models[<<p, l>>] = 0
      BY <1>3, <2>1 DEF Whole
    <3>11. Whole(bundle)' /\ Whole(retired)' /\ TreesAreApart'
      BY <1>3, <2>4, <3>2, <3>9, <3>10 DEF Whole, TreesAreApart
    <3>12. RecordedIsKept'
      BY <1>3, <2>4, <3>8, <3>9 DEF RecordedIsKept
    <3>13. RecordsAge'
      <4>1. Aged(bundle)'
        BY <1>3, <2>1, <2>4, <3>8, <3>9 DEF RecordsAge, Aged
      <4>2. Aged(retired)'
        BY <2>4, <3>10 DEF Aged
      <4>3. QED
        BY <1>3, <2>1, <2>4, <3>2, <3>9, <4>1, <4>2 DEF RecordsAge
    <3>14. EngineFiles'
      BY <1>3, <2>1, <2>4, <3>9, <3>11, <3>12, <3>13 DEF EngineFiles
    <3>15. EngineAt'
      <4>1. ASSUME NEW l \in Parts \ op'.left PROVE m[<<op.pack, l>>] = catalogue
        BY <2>1, <3>1, <3>8
      <4>2. QED
        BY <2>1, <2>4, <3>1, <3>9, <4>1 DEF EngineAt
    <3>16. RetiredIsHealed'
      BY <2>1, <2>4, <3>1 DEF RetiredIsHealed
    <3>17. QED
      BY <1>2, <1>6, <2>1, <2>4, <3>1, <3>14, <3>15, <3>16, EngineGoes
  <2>5. QED
    BY <1>21, <2>2, <2>3, <2>4 DEF Machine!Engine!Publish
<1>22. CASE Machine!Engine!Unlink
  <2>1. /\ op.pc = "unlink" /\ op.kind = "remove" /\ ~retired.there /\ catalogue' = catalogue
        /\ op.pack \in cut /\ op.pack \in Packs /\ op.left \subseteq Parts
    BY <1>1, <1>22 DEF Machine!Engine!Unlink, RetiredIsHealed, EngineAt, Ops
  <2>2. CASE Machine!Engine!Fault /\ Machine!Engine!Fail
    BY <1>5, <1>7, <2>1, <2>2, EngineFails DEF Machine!Engine!Fail
  <2>3. CASE op.left = {} /\ Machine!Engine!Go("record") /\ UNCHANGED <<bundle, retired, inventory, cut, answer, faults>>
    <3>1. op' \in Ops /\ op'.pc = "record" /\ op'.kind = op.kind
      BY <1>1, <2>3, EngineGo
    <3>2. RetiredIsHealed' /\ EngineAt'
      BY <2>1, <2>3, <3>1 DEF RetiredIsHealed, EngineAt
    <3>3. QED
      BY <1>2, <1>5, <1>6, <2>1, <2>3, <3>1, <3>2, EngineGoes
  <2>4. ASSUME NEW k \in op.left, op' = [op EXCEPT !.left = @ \ {k}],
               bundle' = [bundle EXCEPT !.models[<<op.pack, k>>] = 0],
               UNCHANGED <<retired, inventory, cut, answer, faults>>
        PROVE  EngineInv'
    <3>1. op' \in Ops /\ op'.pc = "unlink" /\ op'.kind = "remove" /\ op'.pack = op.pack
      BY <1>1, <2>1, <2>4 DEF Ops
    <3>2. PICK m : m = [bundle.models EXCEPT ![<<op.pack, k>>] = 0]
      OBVIOUS
    <3>3. bundle' = [bundle EXCEPT !.models = m]
      BY <2>4, <3>2
    <3>4. bundle.models \in [Files -> 0 .. MaxVer] /\ 0 \in 0 .. MaxVer /\ <<op.pack, k>> \in Files /\ k \in Parts
      BY <1>3, <1>4, <2>1, <2>4, PacksAssumption DEF Tree, PacksAssumption
    <3>5. m \in [Files -> 0 .. MaxVer] /\ m[<<op.pack, k>>] = 0
      BY <3>2, <3>4
    <3>6. \A p \in Packs, l \in Parts : <<p, l>> # <<op.pack, k>> => m[<<p, l>>] = bundle.models[<<p, l>>]
      BY <1>4, <3>2, <3>4
    <3>7. \A p \in Packs, l \in Parts : /\ m[<<p, l>>] \in {0, bundle.models[<<p, l>>]}
                                        /\ p # op.pack => m[<<p, l>>] = bundle.models[<<p, l>>]
      BY <3>5, <3>6
    <3>8. bundle' \in Tree /\ bundle'.there = bundle.there /\ bundle'.rt = bundle.rt /\ bundle'.models = m
      BY <1>3, <3>3, <3>5 DEF Tree
    <3>9. Whole(bundle)' /\ Whole(retired)' /\ TreesAreApart'
      BY <1>3, <2>4, <3>7, <3>8 DEF Whole, TreesAreApart
    <3>10. RecordedIsKept'
      BY <1>3, <2>1, <2>4, <3>7, <3>8 DEF RecordedIsKept
    <3>11. RecordsAge'
      <4>1. Aged(bundle)'
        BY <1>3, <2>1, <2>4, <3>7, <3>8 DEF RecordsAge, Aged
      <4>2. Aged(retired)'
        BY <1>3, <2>1, <2>4 DEF RecordsAge, Aged
      <4>3. QED
        BY <1>3, <2>1, <2>4, <3>8, <4>1, <4>2 DEF RecordsAge
    <3>12. EngineFiles'
      BY <1>3, <2>1, <2>4, <3>8, <3>9, <3>10, <3>11 DEF EngineFiles
    <3>13. RetiredIsHealed' /\ EngineAt'
      BY <2>1, <2>4, <3>1 DEF RetiredIsHealed, EngineAt
    <3>14. QED
      BY <1>2, <1>6, <2>1, <2>4, <3>1, <3>12, <3>13, EngineGoes
  <2>5. QED
    BY <1>22, <2>2, <2>3, <2>4 DEF Machine!Engine!Unlink
<1>23. CASE Machine!Engine!Record
  <2>1. /\ op.pc = "record" /\ op.kind \in {"runtime", "pack", "remove"} /\ catalogue' = catalogue /\ op.pack \in Packs
        /\ op.kind = "runtime" => /\ bundle.rt = catalogue /\ bundle.there
                                  /\ \A p \in Packs, k \in Parts : retired.models[<<p, k>>] = 0
        /\ op.kind # "runtime" => ~retired.there
        /\ op.kind = "pack" => inventory.there /\ \A k \in Parts : bundle.models[<<op.pack, k>>] = catalogue
        /\ (retired.there => Unfailing)
    BY <1>1, <1>23 DEF Machine!Engine!Record, EngineAt, RetiredIsHealed, Ops
  <2>2. CASE Machine!Engine!Fault /\ Machine!Engine!Fail
    BY <1>5, <1>7, <2>1, <2>2, EngineFails DEF Machine!Engine!Fail
  <2>3. CASE /\ inventory' = Machine!Engine!Recorded /\ Machine!Engine!Done(TRUE)
             /\ cut' = IF op.kind = "runtime" THEN cut ELSE cut \ {op.pack}
             /\ UNCHANGED <<bundle, retired, faults>>
    <3>1. op' = Machine!Engine!Idle /\ answer'.kind = op.kind /\ answer'.pack = op.pack
      BY <2>3 DEF Machine!Engine!Done
    <3>2. Whole(bundle)' /\ Whole(retired)' /\ TreesAreApart'
      BY <1>3, <2>3 DEF Whole, TreesAreApart
    <3>3. catalogue \in 0 .. MaxVer /\ 0 \in 0 .. MaxVer
      BY <1>3, PacksAssumption DEF PacksAssumption
    <3>4. ASSUME inventory' \in Inventories, inventory'.there => bundle.there \/ retired.there,
                 inventory'.rt <= catalogue, bundle.there => inventory'.rt <= bundle.rt,
                 ~bundle.there /\ retired.there => inventory'.rt <= retired.rt,
                 \A p \in Packs : \/ inventory'.packs[p] \in {0, inventory.packs[p]} /\ p \notin cut' \ cut /\ (p \in cut \ cut' => inventory'.packs[p] = 0)
                                  \/ /\ inventory'.packs[p] = catalogue /\ ~retired.there
                                     /\ \A k \in Parts : bundle.models[<<p, k>>] = catalogue
          PROVE  EngineFiles'
      <4>1. \A p \in Packs, k \in Parts : ~retired.there => retired.models[<<p, k>>] = 0
        BY <1>3 DEF Whole
      <4>2. RecordedIsKept'
        BY <1>3, <2>3, <3>4 DEF RecordedIsKept
      <4>3. \A p \in Packs : inventory'.packs[p] <= catalogue
        BY <1>3, <3>4 DEF RecordsAge
      <4>4. Aged(bundle)'
        <5>1. SUFFICES ASSUME NEW p \in Packs, NEW k \in Parts, bundle.models[<<p, k>>] # 0
                       PROVE  inventory'.packs[p] <= bundle.models[<<p, k>>] /\ bundle.models[<<p, k>>] <= catalogue
          BY <2>1, <2>3 DEF Aged
        <5>2. bundle.models[<<p, k>>] \in 0 .. MaxVer
          BY <1>3, <1>4 DEF Tree
        <5>3. inventory.packs[p] <= bundle.models[<<p, k>>] /\ bundle.models[<<p, k>>] <= catalogue
          BY <1>3, <5>1 DEF RecordsAge, Aged
        <5>4. QED
          BY <1>3, <3>4, <5>2, <5>3
      <4>5. Aged(retired)'
        <5>1. SUFFICES ASSUME NEW p \in Packs, NEW k \in Parts, retired.models[<<p, k>>] # 0
                       PROVE  inventory'.packs[p] <= retired.models[<<p, k>>] /\ retired.models[<<p, k>>] <= catalogue
          BY <2>1, <2>3 DEF Aged
        <5>2. retired.models[<<p, k>>] \in 0 .. MaxVer
          BY <1>3, <1>4 DEF Tree
        <5>3. inventory.packs[p] <= retired.models[<<p, k>>] /\ retired.models[<<p, k>>] <= catalogue /\ retired.there
          BY <1>3, <4>1, <5>1 DEF RecordsAge, Aged
        <5>4. QED
          BY <1>3, <3>4, <5>2, <5>3
      <4>6. RecordsAge'
        BY <1>3, <2>1, <2>3, <3>4, <4>3, <4>4, <4>5 DEF RecordsAge
      <4>7. QED
        BY <1>3, <2>1, <2>3, <3>2, <3>4, <4>2, <4>6 DEF EngineFiles
    <3>5. CASE op.kind = "runtime"
      <4>1. PICK packs : packs = IF Machine!Engine!Readable THEN inventory.packs ELSE [p \in Packs |-> 0]
        OBVIOUS
      <4>2. packs \in [Packs -> 0 .. MaxVer] /\ \A p \in Packs : packs[p] \in {0, inventory.packs[p]}
        BY <1>3, <3>3, <4>1 DEF Inventories
      <4>3. PICK proto : proto = ProtocolOf[catalogue]
        OBVIOUS
      <4>4. proto \in {0} \cup {ProtocolOf[v] : v \in 1 .. MaxVer}
        BY <1>3, <4>3
      <4>5. inventory' = [there |-> TRUE, rt |-> catalogue, proto |-> proto, packs |-> packs]
        BY <2>3, <3>5, <4>1, <4>3 DEF Machine!Engine!Recorded, Machine!Engine!NoInventory
      <4>6. /\ inventory' \in Inventories /\ inventory'.there /\ inventory'.rt = catalogue /\ inventory'.proto = proto
            /\ inventory'.packs = packs
        BY <3>3, <4>2, <4>4, <4>5 DEF Inventories
      <4>7. EngineFiles'
        BY <1>3, <2>1, <2>3, <3>4, <3>5, <4>2, <4>6
      <4>8. \A p \in Packs : inventory'.packs[p] # 0 /\ p \notin cut => Machine!Engine!PackFilesPresent(p)'
        BY <1>3, <2>1, <2>3, <3>5, <4>2, <4>6 DEF RecordedIsKept, Machine!Engine!PackFilesPresent
      <4>9. Machine!Engine!AnswerIsTrue'
        BY <1>3, <2>1, <2>3, <3>1, <3>5, <4>3, <4>6, <4>8
           DEF Machine!Engine!AnswerIsTrue, Machine!Engine!Resolved, Machine!Engine!Readable
      <4>10. QED
        BY <1>6, <2>1, <2>3, <3>1, <4>7, <4>9, EngineEnds DEF Unfailing
    <3>6. ASSUME NEW v \in {0, catalogue}, op.kind # "runtime", inventory' = [inventory EXCEPT !.packs[op.pack] = v]
          PROVE  /\ inventory' \in Inventories /\ inventory'.there = inventory.there /\ inventory'.rt = inventory.rt
                 /\ inventory'.packs[op.pack] = v
                 /\ \A p \in Packs \ {op.pack} : inventory'.packs[p] = inventory.packs[p]
      <4>1. PICK packs : packs = [inventory.packs EXCEPT ![op.pack] = v]
        OBVIOUS
      <4>2. inventory' = [inventory EXCEPT !.packs = packs]
        BY <3>6, <4>1
      <4>3. /\ packs \in [Packs -> 0 .. MaxVer] /\ packs[op.pack] = v
            /\ \A p \in Packs \ {op.pack} : packs[p] = inventory.packs[p]
        BY <1>3, <2>1, <3>3, <4>1 DEF Inventories
      <4>4. /\ inventory' \in Inventories /\ inventory'.there = inventory.there /\ inventory'.rt = inventory.rt
            /\ inventory'.packs = packs
        BY <1>3, <4>2, <4>3 DEF Inventories
      <4>5. QED
        BY <4>3, <4>4
    <3>7. CASE op.kind = "pack"
      <4>1. inventory' = [inventory EXCEPT !.packs[op.pack] = catalogue]
        BY <2>3, <3>7 DEF Machine!Engine!Recorded
      <4>2. /\ inventory' \in Inventories /\ inventory'.there = inventory.there /\ inventory'.rt = inventory.rt
            /\ inventory'.packs[op.pack] = catalogue
            /\ \A p \in Packs \ {op.pack} : inventory'.packs[p] = inventory.packs[p]
        BY <3>6, <3>7, <4>1
      <4>3. EngineFiles'
        BY <1>3, <2>1, <2>3, <3>4, <3>7, <4>2 DEF RecordedIsKept, RecordsAge
      <4>4. Machine!Engine!AnswerIsTrue'
        BY <2>1, <2>3, <3>1, <3>7, <4>2 DEF Machine!Engine!AnswerIsTrue
      <4>5. QED
        BY <1>6, <2>1, <2>3, <3>1, <4>3, <4>4, EngineEnds DEF Unfailing
    <3>8. CASE op.kind = "remove"
      <4>1. inventory' = [inventory EXCEPT !.packs[op.pack] = 0]
        BY <2>3, <3>8 DEF Machine!Engine!Recorded
      <4>2. /\ inventory' \in Inventories /\ inventory'.there = inventory.there /\ inventory'.rt = inventory.rt
            /\ inventory'.packs[op.pack] = 0
            /\ \A p \in Packs \ {op.pack} : inventory'.packs[p] = inventory.packs[p]
        BY <3>6, <3>8, <4>1
      <4>3. EngineFiles'
        BY <1>3, <2>1, <2>3, <3>4, <3>8, <4>2 DEF RecordedIsKept, RecordsAge
      <4>4. Machine!Engine!AnswerIsTrue'
        BY <2>1, <2>3, <3>1, <3>8, <4>2 DEF Machine!Engine!AnswerIsTrue
      <4>5. QED
        BY <1>6, <2>1, <2>3, <3>1, <4>3, <4>4, EngineEnds DEF Unfailing
    <3>9. QED
      BY <2>1, <3>5, <3>7, <3>8
  <2>4. QED
    BY <1>23, <2>2, <2>3 DEF Machine!Engine!Record
<1>24. CASE Machine!Engine!Crash
  <2>1. /\ faults.crash > 0 /\ faults' = [faults EXCEPT !.crash = @ - 1]
        /\ op' = Machine!Engine!Idle /\ answer' = Machine!Engine!NoAnswer
        /\ UNCHANGED <<bundle, retired, inventory, catalogue, cut>>
    BY <1>24 DEF Machine!Engine!Crash
  <2>2. Unfailing /\ Unfailing' /\ FaultsAre'
    BY <1>1, <2>1 DEF FaultsAre, Unfailing
  <2>3. Machine!Engine!AnswerIsTrue'
    BY <2>1, IdleIs DEF Machine!Engine!AnswerIsTrue
  <2>4. QED
    BY <1>5, <2>1, <2>2, <2>3, EngineEnds
<1>25. CASE Machine!Engine!NewRelease
  <2>1. /\ op.pc = "idle" /\ catalogue < MaxVer /\ catalogue' = catalogue + 1 /\ answer' = Machine!Engine!NoAnswer
        /\ UNCHANGED <<bundle, retired, inventory, op, cut, faults>>
    BY <1>25 DEF Machine!Engine!NewRelease
  <2>2. RecordsAge'
    <3>1. catalogue' \in 1 .. MaxVer /\ catalogue <= catalogue'
      BY <1>3, <2>1, PacksAssumption DEF PacksAssumption
    <3>2. ASSUME NEW t \in Tree, Aged(t), NEW p \in Packs, NEW k \in Parts, t.models[<<p, k>>] # 0
          PROVE  inventory.packs[p] <= t.models[<<p, k>>] /\ t.models[<<p, k>>] <= catalogue'
      <4>1. t.models[<<p, k>>] \in Nat
        BY <1>4, <3>2, PacksAssumption DEF Tree, PacksAssumption
      <4>2. QED
        BY <1>3, <3>1, <3>2, <4>1 DEF Aged
    <3>3. Aged(bundle)' /\ Aged(retired)'
      BY <1>3, <2>1, <3>2 DEF RecordsAge, Aged
    <3>4. inventory.rt <= catalogue' /\ bundle.rt <= catalogue' /\ retired.rt <= catalogue' /\ \A p \in Packs : inventory.packs[p] <= catalogue'
      BY <1>3, <3>1, PacksAssumption DEF RecordsAge, Tree, Inventories, PacksAssumption
    <3>5. QED
      BY <1>3, <2>1, <3>3, <3>4 DEF RecordsAge
  <2>3. EngineFiles'
    BY <1>3, <2>1, <2>2, PacksAssumption DEF EngineFiles, Whole, TreesAreApart, RecordedIsKept, PacksAssumption
  <2>4. RetiredIsHealed' /\ EngineAt' /\ EngineOp'
    BY <1>1, <2>1 DEF EngineOp, RetiredIsHealed, EngineAt, Unfailing
  <2>5. Machine!Engine!AnswerIsTrue'
    BY <2>1, IdleIs DEF Machine!Engine!AnswerIsTrue
  <2>6. QED
    BY <2>3, <2>4, <2>5 DEF EngineInv
<1>26. QED
  <2>1. CASE Machine!Engine!Lock("runtime", Machine!Engine!Idle.pack)
    BY <1>8, <2>1, IdleIs
  <2>2. ASSUME NEW p \in Packs, Machine!Engine!Lock("pack", p) \/ Machine!Engine!Lock("remove", p) PROVE EngineInv'
    BY <1>8, <2>2
  <2>3. QED
    BY <2>1, <2>2, <1>9, <1>10, <1>11, <1>12, <1>14, <1>15, <1>16, <1>17, <1>18, <1>19, <1>20, <1>21, <1>22, <1>23, <1>24, <1>25
       DEF Machine!Engine!Next

-----------------------------------------------------------------------------
(* The installers together.                                                *)

\* A step of the machine moves an installer by a step of its own, or not at all.
LEMMA ProgramMoves == [Next]_vars => Machine!Program!Next \/ UNCHANGED Machine!programVars
<1> USE DEF Machine!programVars, Machine!Next, Machine!EngineStep, Machine!FfmpegStep, Machine!ProgramStep, Machine!BundlesStep, Machine!LinuxStep
<1>1. InstallsStep => Machine!Program!Next \/ UNCHANGED Machine!programVars
  BY DEF InstallsStep
<1>2. UNCHANGED installVars => UNCHANGED Machine!programVars
  BY DEF installVars
<1>3. QED
  BY <1>1, <1>2 DEF Next, vars, DaemonStep, ConfigStep, EngineStep, ApiStep, DevicesStep, EventsStep

LEMMA BundlesMove == [Next]_vars => Machine!Bundles!Next \/ UNCHANGED Machine!bundlesVars
<1> USE DEF Machine!bundlesVars, Machine!Next, Machine!EngineStep, Machine!FfmpegStep, Machine!ProgramStep, Machine!BundlesStep, Machine!LinuxStep
<1>1. InstallsStep => Machine!Bundles!Next \/ UNCHANGED Machine!bundlesVars
  BY DEF InstallsStep
<1>2. UNCHANGED installVars => UNCHANGED Machine!bundlesVars
  BY DEF installVars
<1>3. QED
  BY <1>1, <1>2 DEF Next, vars, DaemonStep, ConfigStep, EngineStep, ApiStep, DevicesStep, EventsStep

LEMMA LinuxMoves == [Next]_vars => Machine!Linux!Next \/ UNCHANGED Machine!linuxVars
<1> USE DEF Machine!linuxVars, Machine!Next, Machine!EngineStep, Machine!FfmpegStep, Machine!ProgramStep, Machine!BundlesStep, Machine!LinuxStep
<1>1. InstallsStep => Machine!Linux!Next \/ UNCHANGED Machine!linuxVars
  BY DEF InstallsStep
<1>2. UNCHANGED installVars => UNCHANGED Machine!linuxVars
  BY DEF installVars
<1>3. QED
  BY <1>1, <1>2 DEF Next, vars, DaemonStep, ConfigStep, EngineStep, ApiStep, DevicesStep, EventsStep

LEMMA EngineMoves == [Next]_vars => Machine!Engine!Next \/ UNCHANGED Machine!engineVars
<1> USE DEF Machine!engineVars, Machine!Next, Machine!EngineStep, Machine!FfmpegStep, Machine!ProgramStep, Machine!BundlesStep, Machine!LinuxStep
<1>1. InstallsStep => Machine!Engine!Next \/ UNCHANGED Machine!engineVars
  BY DEF InstallsStep
<1>2. UNCHANGED installVars => UNCHANGED Machine!engineVars
  BY DEF installVars
<1>3. QED
  BY <1>1, <1>2 DEF Next, vars, DaemonStep, ConfigStep, EngineStep, ApiStep, DevicesStep, EventsStep

InstallsInv == ProgramInv /\ BundlesInv /\ LinuxInv /\ EngineInv

LEMMA InstallsAlways == ASSUME OneFailure PROVE Spec => []InstallsInv
<1>1. Init => InstallsInv
  BY ProgramInit, BundlesInit, LinuxInit, EngineInit DEF Init, Machine!Init, InstallsInv
<1>2. InstallsInv /\ [Next]_vars => InstallsInv'
  BY ProgramMoves, BundlesMove, LinuxMoves, EngineMoves, ProgramStep, ProgramStill, BundlesStep, BundlesStill,
     LinuxStep, LinuxStill, EngineKeeps, EngineStill DEF InstallsInv
<1>3. QED
  BY <1>1, <1>2, PTL DEF Spec

\* What an inventory lists is in a tree that a carry will still move.
LEMMA EngineSurvives == EngineInv => Machine!Engine!RecordedFilesSurvive /\ Machine!Engine!RuntimeSurvives
<1> SUFFICES ASSUME EngineInv PROVE Machine!Engine!RecordedFilesSurvive /\ Machine!Engine!RuntimeSurvives
  OBVIOUS
<1>1. Whole(bundle) /\ Whole(retired) /\ TreesAreApart /\ RecordedIsKept
  BY DEF EngineInv, EngineFiles
<1>2. ASSUME NEW p \in Packs, NEW k \in Parts, retired.models[<<p, k>>] # 0
      PROVE  retired.there /\ EntryOf[p] \notin Machine!Engine!Entries(bundle)
  <2>1. retired.there
    BY <1>1, <1>2 DEF Whole
  <2>2. ASSUME EntryOf[p] \in Machine!Engine!Entries(bundle) PROVE FALSE
    <3>1. PICK q \in Packs, l \in Parts : bundle.models[<<q, l>>] # 0 /\ EntryOf[p] = EntryOf[q]
      BY Zenon, <2>2, ModelShared
    <3>2. QED
      BY <1>1, <1>2, <3>1 DEF TreesAreApart
  <2>3. QED
    BY <2>1, <2>2
<1>3. ASSUME NEW p \in Packs, inventory.packs[p] # 0, p \notin cut, NEW k \in Parts
      PROVE  Machine!Engine!FileReachable(<<p, k>>)
  <2>1. bundle.models[<<p, k>>] # 0 \/ retired.models[<<p, k>>] # 0
    BY <1>1, <1>3 DEF RecordedIsKept
  <2>2. <<p, k>>[1] = p
    OBVIOUS
  <2>3. QED
    BY <1>2, <2>1, <2>2 DEF Machine!Engine!FileReachable
<1>4. Machine!Engine!RecordedFilesSurvive
  BY <1>3 DEF Machine!Engine!RecordedFilesSurvive
<1>5. Machine!Engine!RuntimeSurvives
  BY <1>1 DEF RecordedIsKept, Whole, Machine!Engine!RuntimeSurvives
<1>6. QED
  BY <1>4, <1>5

LEMMA BundlesPromise ==
  BundlesInv => Machine!Bundles!PreviousSurvives /\ Machine!Bundles!InstalledIsCurrent /\ Machine!Bundles!OkMeansAll
<1> SUFFICES ASSUME BundlesInv
             PROVE  Machine!Bundles!PreviousSurvives /\ Machine!Bundles!InstalledIsCurrent /\ Machine!Bundles!OkMeansAll
  OBVIOUS
<1>1. Machine!Bundles!PreviousSurvives
  BY DEF BundlesInv, BundlesWork, Machine!Bundles!PreviousSurvives, Kind
<1>2. Machine!Bundles!InstalledIsCurrent
  <2>1. SUFFICES ASSUME NEW k \in KindSet, Machine!Bundles!Status(k) = "installed" PROVE dest[k] = payload
    BY DEF Machine!Bundles!InstalledIsCurrent, KindSet
  <2>2. payload # 0 /\ (marker[k] = payload /\ dest[k] # 0 => dest[k] = payload)
    BY DEF BundlesInv, BundlesFiles
  <2>3. CASE marker[k] = 0
    BY <2>1, <2>2, <2>3 DEF Machine!Bundles!Status
  <2>4. CASE marker[k] # 0 /\ marker[k] # payload
    BY <2>1, <2>2, <2>4 DEF Machine!Bundles!Status
  <2>5. CASE marker[k] = payload /\ dest[k] = 0
    BY <2>1, <2>2, <2>5 DEF Machine!Bundles!Status
  <2>6. QED
    BY <2>2, <2>3, <2>4, <2>5
<1>3. Machine!Bundles!OkMeansAll
  BY DEF BundlesInv, Machine!Bundles!OkMeansAll
<1>4. QED
  BY <1>1, <1>2, <1>3

LEMMA LinuxPromise ==
  LinuxInv => /\ Machine!Linux!CurrentIsBuilt /\ Machine!Linux!RemovedLeavesNothing
              /\ Machine!Linux!RegisteredAllLoaded
BY DEF LinuxInv, LinuxFiles, Machine!Linux!CurrentIsBuilt, Machine!Linux!ModuleCurrent, Machine!Linux!Want, ModuleSet, Torn

\* LastGoodCopySurvives holds of every behaviour with any number of kills or one failed
\* file operation: wherever installEngine, the updater or the drivers' install stops,
\* what the inventory lists, a program image and the driver set aside are on disk.
THEOREM LastGoodCopyStays == ASSUME OneFailure PROVE Spec => []LastGoodCopySurvives
<1>1. InstallsInv => LastGoodCopySurvives
  BY EngineSurvives, BundlesPromise DEF InstallsInv, ProgramInv, LastGoodCopySurvives, Of, Machine!LastGoodCopySurvives
<1>2. QED
  BY <1>1, InstallsAlways, PTL

\* RecordsTellTheTruth holds under the same hypothesis: what an operation answered, and
\* what the inventory, the markers and the module records say, is what is on disk.
THEOREM RecordsAreTrue == ASSUME OneFailure PROVE Spec => []RecordsTellTheTruth
<1>1. InstallsInv => RecordsTellTheTruth
  BY BundlesPromise, LinuxPromise DEF InstallsInv, EngineInv, RecordsTellTheTruth, Of, Machine!RecordsTellTheTruth
<1>2. QED
  BY <1>1, InstallsAlways, PTL
=============================================================================
