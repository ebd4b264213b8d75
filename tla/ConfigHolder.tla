----------------------------- MODULE ConfigHolder -----------------------------
(***************************************************************************)
(* The live configuration and its writers (core/config: holder.go,         *)
(* persist.go, config.go; control: settings.go, the configuration side of  *)
(* engine.go; cmd/prukka/daemon.go onChange).  A configuration is reduced  *)
(* to what a lane depends on: the packs it promises, the model and whether *)
(* voices are spoken.  A voice pack is one release of the voice of a       *)
(* language.  The environment layer, which touches none of it, does not    *)
(* change while the daemon lives and is left out.                          *)
(***************************************************************************)
EXTENDS Naturals, FiniteSets

CONSTANTS VoicePacks, PairPacks, \* the packs: voices and translation pairs
          LangOf,                \* the language a voice pack speaks
          MaxCalls,              \* bound: configuration calls and signals
          Worlds                 \* subset of {"calm", "faulty", "edited"}

VARIABLES file,    \* the configuration file: packs, model, voices
          live,    \* the snapshot readers see
          writer,  \* the calls under way
          editLock,\* the writer in its transaction
          disk,    \* packs whose files are installed
          lane,    \* the snapshot the running lane was started from
          restart, \* Reconfigure was called and the lanes not yet restarted
          replied, \* what the engine's last operation answered
          calls, world
vars == <<file, live, writer, editLock, disk, lane, restart, replied, calls, world>>

EnginePacks == VoicePacks \union PairPacks
Writers == {"settings", "engine", "hup"}
Idle == [pc |-> "idle", kind |-> "none", pack |-> CHOOSE p \in EnginePacks : TRUE,
         base |-> live, old |-> live]
NoReply == [kind |-> "none", ok |-> FALSE, pack |-> CHOOSE p \in EnginePacks : TRUE]
Start == [packs |-> {CHOOSE v \in VoicePacks : TRUE}, model |-> 0, voices |-> "local"]

\* validateLocalTTS: voices that are spoken are at least one, and one for a language;
\* the rest of validate refuses text no model tells apart.
OneVoiceEach(c) ==
    \A u, v \in c.packs \intersect VoicePacks : LangOf[u] = LangOf[v] => u = v
Valid(c) == c.voices = "local" => c.packs \intersect VoicePacks # {} /\ OneVoiceEach(c)
\* Load decodes, lays the environment over and validates the result.
Loads(c) == Valid(c)

\* SetVoice replaces the voice of a language; RemoveVoice drops whichever it has.
\* AddPair and RemovePair touch one direction.
SameLanguage(p) ==
    IF p \in VoicePacks THEN {v \in VoicePacks : LangOf[v] = LangOf[p]} ELSE {p}
WithPack(c, p) == [c EXCEPT !.packs = (@ \ SameLanguage(p)) \union {p}]
WithoutPack(c, p) == [c EXCEPT !.packs = @ \ SameLanguage(p)]
\* DubbedLanguages.
Spoken(c) == {LangOf[v] : v \in c.packs \intersect VoicePacks}
LaneFingerprint(c) == <<c.voices, c.packs, c.model>>

Init ==
    /\ file = Start /\ live = Start /\ disk = Start.packs /\ lane = Start
    /\ writer = [w \in Writers |-> Idle] /\ editLock = "nobody"
    /\ restart = FALSE /\ replied = NoReply /\ calls = 0 /\ world \in Worlds

At(w, pc) == writer[w].pc = pc
Goto(w, pc) == writer' = [writer EXCEPT ![w].pc = pc]
Count == calls < MaxCalls /\ calls' = calls + 1
\* The engine's operation ends with an answer, a call just ends.
Leave(w, ok) ==
    /\ writer' = [writer EXCEPT ![w].pc = "idle"]
    /\ replied' = IF w = "engine" THEN [kind |-> writer[w].kind, ok |-> ok,
                                        pack |-> writer[w].pack] ELSE replied

-----------------------------------------------------------------------------
\* GetConfig: the settings page edits the snapshot it was shown.
OpenSettings ==
    /\ At("settings", "idle") /\ Count
    /\ writer' = [writer EXCEPT !["settings"] = [Idle EXCEPT !.pc = "open", !.base = live]]
    /\ UNCHANGED <<file, live, editLock, disk, lane, restart, replied, world>>
SaveSettings ==
    /\ At("settings", "open") /\ Goto("settings", "load")
    /\ UNCHANGED <<file, live, editLock, disk, lane, restart, replied, calls, world>>

\* InstallEnginePack and RemoveEnginePack hold the operation slot: one at a
\* time; a pack that is not installed is not removed.
Operate(kind, p) ==
    /\ At("engine", "idle") /\ Count /\ (kind = "remove" => p \in disk)
    /\ writer' = [writer EXCEPT !["engine"] = [Idle EXCEPT !.pc = "disk", !.kind = kind, !.pack = p]]
    /\ replied' = NoReply
    /\ UNCHANGED <<file, live, editLock, disk, lane, restart, world>>

\* The installer's part, before the configuration is touched: the inventory has one
\* voice of a language, its last.
InstallFiles ==
    /\ At("engine", "disk")
    /\ LET p == writer["engine"].pack IN
       \/ /\ disk' = IF writer["engine"].kind = "install"
                       THEN (disk \ SameLanguage(p)) \union {p} ELSE disk \ SameLanguage(p)
          /\ Goto("engine", "load") /\ UNCHANGED replied
       \/ Leave("engine", FALSE) /\ UNCHANGED disk
    /\ UNCHANGED <<file, live, editLock, lane, restart, calls, world>>

\* SIGHUP, one at a time: watchReload is a loop.
Hangup ==
    /\ At("hup", "idle") /\ Count
    /\ writer' = [writer EXCEPT !["hup"] = [Idle EXCEPT !.pc = "reload"]]
    /\ UNCHANGED <<file, live, editLock, disk, lane, restart, replied, world>>

-----------------------------------------------------------------------------
(* Holder.Update, and Reload, which is its last step *)

\* applyProto writes the whole pair list, may turn the voices on and off, and leaves
\* their models alone; extendConfigForPack and retireConfigForPack touch one pack.
Mutated(w, base) ==
    LET me == writer[w] IN
    IF w = "settings"
      THEN {[base EXCEPT !.packs = (@ \intersect VoicePacks) \union (me.base.packs \intersect PairPacks),
                         !.model = m, !.voices = v] : m \in 0 .. 1, v \in {"local", "off"}}
      ELSE {IF me.kind = "install" THEN WithPack(base, me.pack) ELSE WithoutPack(base, me.pack)}

\* The file layer is re-read, never the live snapshot.
Update(w) ==
    /\ At(w, "load") /\ editLock = "nobody"
    /\ \E next \in Mutated(w, file) :
         IF Valid(next)
           THEN /\ editLock' = w
                /\ writer' = [writer EXCEPT ![w].pc = "save", ![w].base = next]
                /\ UNCHANGED replied
           ELSE Leave(w, FALSE) /\ UNCHANGED editLock
    /\ UNCHANGED <<file, live, disk, lane, restart, calls, world>>

\* Stage, rename, sync of the directory: only the last failure comes too late.
Save(w) ==
    /\ At(w, "save")
    /\ \/ file' = writer[w].base /\ Goto(w, "reload") /\ UNCHANGED <<editLock, replied>>
       \/ /\ world = "faulty" /\ file' \in {file, writer[w].base}
          /\ Leave(w, FALSE) /\ editLock' = "nobody"
    /\ UNCHANGED <<live, disk, lane, restart, calls, world>>

\* reloadLocked: a load that fails keeps the previous snapshot.
Reload(w) ==
    /\ At(w, "reload") /\ editLock \in {w, "nobody"} /\ editLock' = "nobody"
    /\ IF Loads(file)
         THEN /\ live' = file
              /\ writer' = [writer EXCEPT ![w].pc = "notify", ![w].old = live, ![w].base = file]
              /\ UNCHANGED replied
         ELSE Leave(w, FALSE) /\ UNCHANGED live
    /\ UNCHANGED <<file, disk, lane, restart, calls, world>>

\* A Signals of an operation taken for an edit of the dashboard.
SignalsEdits(w) == w # "engine"

\* onChange, outside the lock: each writer classifies its own transition; an
\* install discards its one.
Signals(w) == w # "engine" \/ writer[w].kind = "remove"
Notify(w) ==
    /\ At(w, "notify") /\ Leave(w, TRUE)
    /\ restart' = (restart \/ (Signals(w) /\ LaneFingerprint(writer[w].old)
                                               # LaneFingerprint(writer[w].base)))
    /\ UNCHANGED <<file, live, editLock, disk, lane, calls, world>>

\* The session runtime restarts its lanes; each reads the snapshot of then.
RestartLanes ==
    /\ restart /\ restart' = FALSE /\ lane' = live
    /\ UNCHANGED <<file, live, writer, editLock, disk, replied, calls, world>>

\* The file is edited by hand, correctly or not, at any moment; a language that has
\* two voices is not looked at while no voice is spoken, and left out then.
EditFile ==
    /\ world = "edited" /\ Count
    /\ file' \in [packs : SUBSET EnginePacks, model : {1}, voices : {"local", "off"}]
    /\ file'.voices = "off" => OneVoiceEach(file')
    /\ UNCHANGED <<live, writer, editLock, disk, lane, restart, replied, world>>

\* The daemon dies and starts again: NewHolder loads the file or refuses.
Restarted ==
    /\ Count /\ Loads(file) /\ live' = file /\ lane' = file
    /\ writer' = [w \in Writers |-> Idle] /\ editLock' = "nobody"
    /\ restart' = FALSE /\ replied' = NoReply
    /\ UNCHANGED <<file, disk, world>>

Next ==
    \/ OpenSettings \/ SaveSettings \/ InstallFiles \/ Hangup
    \/ \E p \in EnginePacks : Operate("install", p) \/ Operate("remove", p)
    \/ \E w \in Writers : Update(w) \/ Save(w) \/ Reload(w) \/ Notify(w)
    \/ RestartLanes \/ EditFile \/ Restarted

Spec == Init /\ [][Next]_vars
-----------------------------------------------------------------------------
Configurations == [packs : SUBSET EnginePacks, model : 0 .. 1, voices : {"local", "off"}]

TypeOK ==
    /\ file \in Configurations /\ live \in Configurations /\ lane \in Configurations
    /\ disk \subseteq EnginePacks /\ editLock \in Writers \union {"nobody"}
    /\ \A w \in Writers : writer[w].pc \in
          {"idle", "open", "disk", "load", "save", "reload", "notify"}

\* What readers see is always valid, whatever is done to the file; and the file of a
\* daemon that is killed in any transaction loads again, though voices are switched
\* on and off by one writer and taken away by another, each without the other's view.
FileLoadsAgain == Valid(live) /\ (world # "edited" => Loads(file))

\* Once every transition is delivered and acted upon, the running lane speaks no
\* language and translates no pair the live snapshot has not, with its model and its
\* voices on or off: writers that signal outside the lock, in any order, lose no
\* restart.  The voice an install replaced is not told: see InstallsOnlyAdd.
Settled == ~restart /\ \A w \in Writers : ~At(w, "notify")
LaneFollows ==
    Settled => /\ lane.model = live.model /\ lane.voices = live.voices
               /\ lane.packs \intersect PairPacks \subseteq live.packs
               /\ Spoken(lane) \subseteq Spoken(live)
CalmLaneFollows == world = "calm" => LaneFollows

\* What the engine answered holds: an installed voice is on disk and is the one
\* promised for its language; where one is removed, the language is not spoken.
AnswersHold ==
    world = "calm" /\ replied.ok /\ replied.pack \in VoicePacks /\ At("engine", "idle") =>
        IF replied.kind = "install" THEN replied.pack \in disk \intersect live.packs
                                    ELSE replied.pack \notin disk /\ LangOf[replied.pack] \notin Spoken(live)

\* Refuted by the code: engine.go:420 "an install is strictly additive".  SetVoice
\* replaces the voice of a language, and the lane goes on with the one it had.
InstallsOnlyAdd == world = "calm" /\ Settled => lane.packs \subseteq live.packs

\* engine.go:428 "retireConfig revokes the removed pack's capability": every
\* voice the configuration promises is installed once the engine is idle.
PromisedVoicesAreInstalled ==
    At("engine", "idle") => live.packs \intersect VoicePacks \subseteq disk
=============================================================================
