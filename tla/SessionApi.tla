------------------------------ MODULE SessionApi ------------------------------
(***************************************************************************)
(* Session definitions from the wire to the store (control/service.go and  *)
(* convert.go, core/session: flags.go, session.go, store.go; core/lang;    *)
(* admission: lane/capability.go over providers/pivot).  SessionStore      *)
(* reduces a definition to its revision; here its content matters and its  *)
(* runtime does not.  A tag is the sequence of its subtags, case folded;   *)
(* the other texts are the words their parsers know, or do not.            *)
(***************************************************************************)
EXTENDS Naturals, Sequences, FiniteSets, SequencesExt

CONSTANTS Registry, Regions,    \* base subtags and region subtags that parse
          SlugNames,            \* names a slug may have; any other is refused
          Reserved,             \* reservedSlugs
          MaxDelay,             \* core.MaxSessionDelay
          Wires,                \* sessions clients ask to create
          Edits,                \* <<added tags, removed tags>> they ask for
          Configs,              \* live configurations: defaults and pairs
          Clients, Room,        \* Store.max
          MaxAsked              \* bound: calls made

VARIABLES defs,   \* Store.sessions: the definition under each slug
          config, \* the live configuration
          ask,    \* the call each client has under way
          served, \* ghost: the pairs each definition was admitted under
          voiced, \* ghost: what each creation left to be dubbed
          asked
vars == <<defs, config, ask, served, voiced, asked>>

-----------------------------------------------------------------------------
(* Parsing.  lang.Parse; Auto is the empty tag. *)

Auto == <<>>
Unknown == <<"?">>
Base(tag) == IF tag = Auto THEN Auto ELSE <<Head(tag)>>
SameLang(a, b) == Base(a) = Base(b)
Parse(raw) ==
    IF raw = <<"auto">> THEN Auto
    ELSE IF /\ Len(raw) \in 1 .. 2 /\ raw[1] \in Registry
            /\ Len(raw) = 2 => raw[2] \in Regions THEN raw ELSE Unknown

\* ParseList skips the empty, drops repetitions and takes no auto.
ListParses(raws) == \A i \in DOMAIN raws : raws[i] = <<>> \/ Parse(raws[i]) \notin {Unknown, Auto}
Distinct(tags) == FoldLeft(LAMBDA kept, t : IF Contains(kept, t) THEN kept ELSE Append(kept, t), <<>>, tags)
ParseList(raws) == Distinct(SelectSeq(raws, LAMBDA raw : raw # <<>>))

Profiles == {"broadcast", "call"}
SubsModes == {"off", "vtt", "burn"}
BedLevels == {"off", "-20dB"}
AllDubLangs == [chosen |-> FALSE, langs |-> <<>>]
Only(langs) == [chosen |-> TRUE, langs |-> langs]
slugOK(slug) == slug \in SlugNames

\* validateSource and what it takes of each scheme.
SourceValid(u) ==
    \/ /\ u.scheme = "file" /\ u.path # ""
       /\ DOMAIN u.query \subseteq {"loop"}
       /\ "loop" \in DOMAIN u.query => u.query["loop"] \in {<<"true">>, <<"false">>}
    \/ /\ u.scheme = "device"
       /\ \/ u.kind = "audio" /\ u.id # <<"">>
          \/ u.kind = "av" /\ Len(u.id) = 2 /\ "" \notin ToSet(u.id)
    \/ u.scheme = "srt" /\ u.host # ""
    \/ u.scheme = "rtmp" /\ u.host # "" /\ u.path # ""

\* ApplyFlags: assign leaves a field alone when the value is empty; dub_langs
\* present and empty is a choice.
FlagKeys == {"subs", "dub", "bed", "dub_langs", "source", "pair"}
FlagsParse(flags) ==
    /\ DOMAIN flags \subseteq FlagKeys
    /\ "subs" \in DOMAIN flags => flags["subs"] \in SubsModes \cup {""}
    /\ "dub" \in DOMAIN flags => flags["dub"] \in {"off", ""}
    /\ "bed" \in DOMAIN flags => flags["bed"] \in BedLevels \cup {""}
    /\ "source" \in DOMAIN flags => flags["source"] = <<>> \/ Parse(flags["source"]) # Unknown
    /\ "pair" \in DOMAIN flags => flags["pair"] = "" \/ slugOK(flags["pair"])
    /\ "dub_langs" \in DOMAIN flags => ListParses(flags["dub_langs"])
Flag(flags, key, unset) == IF key \in DOMAIN flags THEN flags[key] ELSE unset
ApplyFlags(def, flags) ==
    [def EXCEPT !.subs = Flag(flags, "subs", ""), !.dub = Flag(flags, "dub", ""),
                !.bed = Flag(flags, "bed", ""), !.pair = Flag(flags, "pair", ""),
                !.from = LET raw == Flag(flags, "source", <<>>) IN IF raw = <<>> THEN Auto ELSE Parse(raw),
                !.only = IF "dub_langs" \in DOMAIN flags THEN Only(ParseList(flags["dub_langs"])) ELSE AllDubLangs]

WireParses(w) == w.profile \in Profiles /\ ListParses(w.langs) /\ FlagsParse(w.flags)
sessionFromProto(w) ==
    ApplyFlags([slug |-> w.slug, profile |-> w.profile, source |-> w.source, langs |-> ParseList(w.langs),
                delay |-> IF w.delay = <<>> THEN 0 ELSE w.delay[1], subs |-> "", dub |-> "", bed |-> "",
                pair |-> "", from |-> Auto, only |-> AllDubLangs], w.flags)

\* PublicSourceLabel: of a source that parses, its scheme and host, which for a device
\* is the kind; of a file neither.
NoSource == [scheme |-> ""]
PublicSourceLabel(u) ==
    [scheme |-> u.scheme,
     host |-> CASE u.scheme = "file" -> "[local]" [] u.scheme = "device" -> u.kind [] OTHER -> u.host]

\* FlagsWire and sessionToProto: zero values are left out, a choice never is; the
\* source is write-only, and its label is what is shown.
FlagsWire(def) ==
    LET text == [subs |-> def.subs, dub |-> def.dub, bed |-> def.bed, pair |-> def.pair]
        kept == {k \in DOMAIN text : text[k] # ""}
        tags == [source |-> def.from, dub_langs |-> def.only.langs]
        told == {k \in DOMAIN tags : IF k = "source" THEN def.from # Auto ELSE def.only.chosen}
    IN  [k \in kept \cup told |-> IF k \in kept THEN text[k] ELSE tags[k]]
sessionToProto(def) ==
    [slug |-> def.slug, profile |-> def.profile, source |-> NoSource, label |-> PublicSourceLabel(def.source),
     langs |-> def.langs, delay |-> <<def.delay>>, flags |-> FlagsWire(def)]

\* applyDefaults and applyCallInvariants.
applyDefaults(def, w, d) ==
    LET call == def.profile = "call"
        Or(word, default) == IF word = "" THEN default ELSE word
    IN  [def EXCEPT !.langs = IF @ = <<>> THEN d.langs ELSE @,
                    !.delay = IF w.delay # <<>> THEN @ ELSE IF call THEN 0 ELSE d.delay,
                    !.subs = IF call THEN "off" ELSE Or(@, d.subs),
                    !.bed = IF call THEN "off" ELSE Or(@, d.bed)]

\* Session.validate; what parsing already settled holds of a stored definition.
validateIdentity(def) == slugOK(def.slug) /\ def.slug \notin Reserved /\ def.profile \in Profiles
validateLanguages(def) ==
    /\ def.langs # <<>> /\ IsInjective(def.langs)
    /\ \A i \in DOMAIN def.langs : Parse(def.langs[i]) = def.langs[i] /\ def.langs[i] # Auto
validateModes(def) == def.subs \in SubsModes \cup {""} /\ def.dub \in {"", "off"} /\ def.bed \in BedLevels \cup {""}
validatePair(def) == def.pair = "" \/ (slugOK(def.pair) /\ def.pair # def.slug)
validateDubLangs(def) ==
    def.only.chosen => /\ def.dub # "off" /\ IsInjective(def.only.langs)
                       /\ ToSet(def.only.langs) \subseteq ToSet(def.langs)
validate(def) ==
    /\ validateIdentity(def) /\ def.delay \in 0 .. MaxDelay /\ SourceValid(def.source)
    /\ validateLanguages(def) /\ validateModes(def) /\ validatePair(def) /\ validateDubLangs(def)

\* mergeLangs keeps the order of first enabling, and a removal wins.
mergeLangs(langs, add, remove) == Distinct(SelectSeq(langs \o add, LAMBDA t : ~Contains(remove, t)))
retain(only, langs) == IF only.chosen THEN Only(SelectSeq(langs, LAMBDA t : Contains(only.langs, t))) ELSE only
DubbedLangs(def) ==
    IF def.dub = "off" THEN <<>>
    ELSE IF ~def.only.chosen THEN def.langs ELSE SelectSeq(def.langs, LAMBDA t : Contains(def.only.langs, t))

-----------------------------------------------------------------------------
(* Admission and the translator agree through the hub *)

English == <<"en">>
Direct(pairs, from, to) == <<Base(from), Base(to)>> \in pairs
Supported(pairs, from, to) ==
    \/ SameLang(from, to) \/ Direct(pairs, from, to)
    \/ /\ ~SameLang(from, English) /\ ~SameLang(to, English)
       /\ Direct(pairs, from, English) /\ Direct(pairs, English, to)
\* SessionCapability: a source that is to be detected is not judged.
Capable(def, pairs) ==
    def.from = Auto \/ \A i \in DOMAIN def.langs : Supported(pairs, Base(def.from), Base(def.langs[i]))
\* Translator.Translate and Warm: the models a route runs through.
Translate(pairs, from, to) ==
    IF SameLang(from, to) THEN {}
    ELSE IF Direct(pairs, from, to) THEN {<<Base(from), Base(to)>>}
    ELSE {<<Base(from), English>>, <<English, Base(to)>>}

-----------------------------------------------------------------------------
Idle == [pc |-> "idle", def |-> <<>>, pairs |-> {}]
Init == /\ defs = <<>> /\ config \in Configs
        /\ ask = [c \in Clients |-> Idle] /\ served = <<>> /\ voiced = <<>> /\ asked = 0

At(c, pc) == ask[c].pc = pc
Goto(c, pc) == ask' = [ask EXCEPT ![c].pc = pc]
End(c) == ask' = [ask EXCEPT ![c] = Idle]
Begun(c) == At(c, "idle") /\ asked < MaxAsked /\ asked' = asked + 1
Put(f, key, value) == [k \in DOMAIN f \cup {key} |-> IF k = key THEN value ELSE f[k]]
Stored(slug) == slug \in DOMAIN defs
Unmade == UNCHANGED <<defs, served, voiced>>

\* CreateSession: what does not parse is refused, and each reading of the
\* configuration is of its own moment.
CreateSession(c) ==
    /\ Begun(c) /\ Unmade /\ UNCHANGED config
    /\ \E w \in Wires :
         IF WireParses(w)
           THEN ask' = [ask EXCEPT ![c] = [Idle EXCEPT !.pc = "capable",
                                                       !.def = applyDefaults(sessionFromProto(w), w, config.defaults)]]
           ELSE UNCHANGED ask
CheckCapable(c) ==
    /\ At(c, "capable") /\ Unmade /\ UNCHANGED <<config, asked>>
    /\ IF Capable(ask[c].def, config.pairs)
         THEN ask' = [ask EXCEPT ![c].pc = "create", ![c].pairs = config.pairs] ELSE End(c)

\* Store.Create: validation, then under the lock existence and room.
Create(c) ==
    LET def == ask[c].def
    IN  /\ At(c, "create") /\ End(c) /\ UNCHANGED <<config, asked>>
        /\ IF validate(def) /\ ~Stored(def.slug) /\ (Room = 0 \/ Cardinality(DOMAIN defs) < Room)
             THEN /\ defs' = Put(defs, def.slug, def)
                  /\ served' = Put(served, def.slug, ask[c].pairs)
                  /\ voiced' = Put(voiced, def.slug, [all |-> ~def.only.chosen, langs |-> ToSet(DubbedLangs(def))])
             ELSE Unmade

\* UpdateSession: updateLangs judges and writes under one lock.
Edited(def, edit) ==
    LET langs == mergeLangs(def.langs, ParseList(edit[1]), ParseList(edit[2]))
    IN  [def EXCEPT !.langs = langs, !.only = retain(@, langs)]
UpdateSession(c) ==
    /\ Begun(c) /\ UNCHANGED <<config, ask>>
    /\ \E slug \in DOMAIN defs, edit \in Edits :
         LET def == Edited(defs[slug], edit)
         IN  IF /\ ListParses(edit[1]) /\ ListParses(edit[2]) /\ def.langs # <<>>
                /\ validate(def) /\ Capable(def, config.pairs)
               THEN /\ defs' = Put(defs, slug, def) /\ served' = Put(served, slug, config.pairs)
                    /\ voiced' = IF voiced[slug].all THEN Put(voiced, slug, [all |-> TRUE, langs |-> ToSet(DubbedLangs(def))])
                                 ELSE [voiced EXCEPT ![slug].langs = @ \cap ToSet(def.langs)]
               ELSE Unmade

\* DeleteSession: the other end of a call goes with it.
DeleteSession(c) ==
    /\ Begun(c) /\ UNCHANGED <<config, ask>>
    /\ \E slug \in DOMAIN defs :
         LET pair == defs[slug].pair
             gone == {slug} \cup {p \in DOMAIN defs \cap {pair} : defs[p].pair = slug}
             Rest(f) == [s \in DOMAIN f \ gone |-> f[s]]
         IN  defs' = Rest(defs) /\ served' = Rest(served) /\ voiced' = Rest(voiced)

\* Push looks the session up, and later asks the media plane.
Push(c) ==
    /\ Begun(c) /\ Unmade /\ UNCHANGED config
    /\ \E slug \in DOMAIN defs, i \in 1 .. 2 :
         /\ i \in DOMAIN defs[slug].langs
         /\ ask' = [ask EXCEPT ![c] = [Idle EXCEPT !.pc = "push", !.def = <<slug, defs[slug].langs[i]>>]]
Pushed(c) == At(c, "push") /\ End(c) /\ Unmade /\ UNCHANGED <<config, asked>>

\* A reload, a settings update or a pack: the live configuration changes.
Reconfigure == /\ config' \in Configs \ {config} /\ asked < MaxAsked /\ asked' = asked + 1
               /\ Unmade /\ UNCHANGED ask

Next == \/ \E c \in Clients : \/ CreateSession(c) \/ CheckCapable(c) \/ Create(c) \/ UpdateSession(c)
                              \/ DeleteSession(c) \/ Push(c) \/ Pushed(c)
        \/ Reconfigure
Spec == Init /\ [][Next]_vars
-----------------------------------------------------------------------------
TypeOK == /\ DOMAIN served = DOMAIN defs /\ DOMAIN voiced = DOMAIN defs
          /\ Room = 0 \/ Cardinality(DOMAIN defs) <= Room
          /\ \A c \in Clients : ask[c].pc \in {"idle", "capable", "create", "push"}

\* What a client reads back is refused as it is, for the source is not in it; with the
\* source given again it creates the same definition under the same label, whatever
\* the defaults have become since: every choice, an empty one and an explicit zero
\* too, survives the open flag map (flags.go FlagsWire and ApplyFlags).
ReadBackIsTheSame ==
    \A slug \in DOMAIN defs, d \in Configs :
        LET w == sessionToProto(defs[slug])
            Again(u) == applyDefaults(sessionFromProto([w EXCEPT !.source = u]), w, d.defaults)
        IN  /\ WireParses(w) /\ validate(defs[slug])
            /\ ~validate(Again(w.source))
            /\ Again(defs[slug].source) = defs[slug] /\ sessionToProto(Again(defs[slug].source)) = w

\* However languages come and go, nothing is dubbed that was not chosen: a
\* language added to a session that named its own is captioned, also once all
\* the named ones are gone (DubSelection.retain).
DubbedAsChosen ==
    \A slug \in DOMAIN defs : ToSet(DubbedLangs(defs[slug])) = voiced[slug].langs

\* Every route of a session with a known source ran, when it was admitted,
\* through models that were configured (pivot.go:46 "its verdict diverges").
AdmittedRoutesExist ==
    \A slug \in DOMAIN defs : defs[slug].from # Auto =>
        \A i \in DOMAIN defs[slug].langs :
            Translate(served[slug], defs[slug].from, defs[slug].langs[i]) \subseteq served[slug]

\* A call has neither subtitles nor a bed, also after its languages changed.
CallsStayLive == \A slug \in DOMAIN defs : defs[slug].profile = "call" => defs[slug].subs = "off" /\ defs[slug].bed = "off"
=============================================================================
