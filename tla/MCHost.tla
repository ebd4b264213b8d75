-------------------------------- MODULE MCHost --------------------------------
EXTENDS Host

\* Two releases of the voice of one language.
MCLangOf == [v \in VoicePacks |-> IF v = "it" THEN "italian" ELSE "english"]

\* Targets twice, none, with a region; dub_langs absent, empty and named; a call
\* of two ends; a reserved name and an unknown tag.
it == <<"it">>
en == <<"en">>
de == <<"de">>
itCH == <<"it", "CH">>
Ingest == [scheme |-> "rtmp", host |-> "studio", path |-> "live"]
Wire(slug, profile, langs, flags) ==
    [slug |-> slug, profile |-> profile, source |-> Ingest, langs |-> langs, delay |-> <<>>, flags |-> flags]
MCWires ==
    {Wire("a", "broadcast", <<it, en, it>>, [source |-> de, dub_langs |-> <<it>>]),
     Wire("a", "broadcast", <<>>, [dub_langs |-> <<>>, subs |-> "vtt"]),
     [Wire("a", "call", <<it, itCH>>, [pair |-> "b", subs |-> "burn", source |-> en]) EXCEPT !.delay = <<0>>],
     Wire("b", "call", <<en>>, [pair |-> "a", source |-> itCH]),
     [Wire("b", "broadcast", <<de>>, [dub |-> "off", source |-> it, bed |-> "-20dB"])
        EXCEPT !.source = [scheme |-> "file", path |-> "talk", query |-> [loop |-> <<"true">>]]],
     [Wire("c", "broadcast", <<en>>, [source |-> <<"auto">>])
        EXCEPT !.source = [scheme |-> "device", kind |-> "av", id |-> <<"camera", "mic">>], !.delay = <<1>>],
     [Wire("c", "broadcast", <<en>>, [subs |-> ""])
        EXCEPT !.source = [scheme |-> "device", kind |-> "av", id |-> <<"camera">>]],
     Wire("ui", "broadcast", <<de>>, <<>>), Wire("b", "broadcast", <<<<"xx">>>>, <<>>)}
MCEdits == {<<<<de>>, <<it>>>>, <<<<en>>, <<>>>>, <<<<it>>, <<en, de>>>>, <<<<>>, <<it, en, de, itCH>>>>,
            << <<<<"auto">>>>, <<>> >>}
Hub == {<<it, en>>, <<en, it>>, <<de, en>>, <<en, de>>}
MCConfigs ==
    {[defaults |-> [langs |-> <<en>>, delay |-> 2, subs |-> "vtt", bed |-> "-20dB"], pairs |-> Hub],
     [defaults |-> [langs |-> <<it, de>>, delay |-> 0, subs |-> "off", bed |-> "off"],
      pairs |-> {<<it, de>>, <<en, it>>, <<de, en>>}]}

\* Two outputs of one name make it ambiguous.
MCLabelOf == [usb |-> "Speakers", twin |-> "Speakers", hdmi |-> "HDMI"]
MCArrays == {<<"usb">>, <<"hdmi">>, <<"hdmi", "usb">>, <<"usb", "twin">>}

\* Two voices, whose models share the entry models/tts.
MCEntryOf == [p \in Packs |-> "tts"]
\* The third release speaks another bundle protocol.
MCProtocolOf == <<1, 1, 2>>
MCModules == <<"mic", "webcam">>
MCKinds == <<"microphone", "speaker", "webcam">>

Plan(c, f) == [crash |-> c, fail |-> f]
\* Any number of kills, or one failing file operation: see the README.
MCFaultPlans == {Plan(2, 0), Plan(0, 1)}
MCTwoFailures == {Plan(0, 2)}
MCKillOrFail == {[kill |-> 1, fail |-> 0, boots |-> 0], [kill |-> 0, fail |-> 1, boots |-> 0]}
MCKillOrOne == {[kill |-> 1, fail |-> 0], [kill |-> 0, fail |-> 1]}
MCKillOrTwo == {[kill |-> 1, fail |-> 0], [kill |-> 0, fail |-> 2]}
=============================================================================
