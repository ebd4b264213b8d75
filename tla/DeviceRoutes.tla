----------------------------- MODULE DeviceRoutes -----------------------------
(***************************************************************************)
(* The machine's outputs, as macOS numbers them, and who follows them: the *)
(* catalogue of CoreAudio's devices (discover_darwin.go), the inventory    *)
(* the pickers list, which reads that one (discover.go), and a push that   *)
(* plays on a labelled device: it opens the label's index, or leaves the   *)
(* label to the playback helper, and watches the label's fingerprint for a *)
(* reason to open again (egress/audio feed.go, device.go).                 *)
(***************************************************************************)
EXTENDS Naturals, Sequences, FiniteSets, SequencesExt

CONSTANTS Arrays,          \* the orders the system can number its outputs in
          LabelOf, Label,  \* what each output is called, the label pushed to
          Rates, MaxMoves

VARIABLES system,    \* the array of its outputs, the rate of its labelled device, the changes made
          coreaudio, \* CoreAudio's catalogue: queued request, pass in progress, generation shown
          listing,   \* the pickers' catalogue, likewise
          picker,    \* one caller of List, and what it was answered last
          playing    \* the encoder job of a push to Label
vars == <<system, coreaudio, listing, picker, playing>>

Never == [known |-> FALSE, array |-> <<>>, rate |-> 0]
Now == [known |-> TRUE, array |-> system.array, rate |-> system.rate]
Called(a, label) == {i \in DOMAIN a : LabelOf[a[i]] = label}

\* The one position of a label that is not ambiguous.
unique(s, label) == IF Cardinality(Called(s.array, label)) = 1 THEN Called(s.array, label) ELSE {}
outputFingerprint(s) == {<<s.array[i], s.rate, i>> : i \in unique(s, Label)}
\* A reference carries the name that rebinds it only while the name is unique.
devices(s) == {<<i, LabelOf[s.array[i]], i \in unique(s, LabelOf[s.array[i]])>> : i \in DOMAIN s.array}

Machines == [array : Arrays, rate : Rates, moves : {0}]
Unbound == 1  \* the index in the URL, the array's when the target was picked
Quiet(pc) == [playing EXCEPT !.pc = pc, !.index = Unbound, !.on = {}, !.base = {}]

Init ==
    /\ system \in Machines
    /\ coreaudio = [queued |-> FALSE, pass |-> {}, shown |-> Never]
    /\ listing = [queued |-> TRUE, pass |-> {}, shown |-> [known |-> FALSE, refs |-> {}]]
    /\ \E helper, pushed \in BOOLEAN :
         /\ picker = [pc |-> IF pushed THEN "away" ELSE "idle", got |-> listing.shown]
         /\ playing = [pc |-> IF pushed THEN "open" ELSE "over", helper |-> pushed /\ helper,
                    index |-> Unbound, on |-> {}, base |-> {}]

\* Devices come and go and are numbered again; another application sets a rate.
Rearranged ==
    /\ system.moves < MaxMoves
    /\ \E a \in Arrays, r \in Rates :
         /\ <<a, r>> # <<system.array, system.rate>>
         /\ system' = [array |-> a, rate |-> r, moves |-> system.moves + 1]
    /\ UNCHANGED <<coreaudio, listing, picker, playing>>
-----------------------------------------------------------------------------
\* A catalogue that is asked only while it is cold.
requestWhenCold(c) == [c EXCEPT !.queued = c.queued \/ ~c.shown.known]
\* Requests coalesce behind the one worker.
requestRefresh(c) == [c EXCEPT !.queued = TRUE]

\* loadCoreAudioSnapshot: the array is read once, then every device of it.
LoadBegins ==
    /\ coreaudio.queued /\ coreaudio.pass = {}
    /\ coreaudio' = [coreaudio EXCEPT !.queued = FALSE, !.pass = {system.array}]
    /\ UNCHANGED <<system, listing, picker, playing>>
\* A device gone since fails the pass, and the last generation stays.
LoadEnds == \E a \in coreaudio.pass :
    /\ coreaudio' = [coreaudio EXCEPT !.pass = {},
                                !.shown = IF Range(a) \subseteq Range(system.array)
                                          THEN [Now EXCEPT !.array = a] ELSE @]
    /\ UNCHANGED <<system, listing, picker, playing>>

\* Devices: the generation CoreAudio's catalogue has, and a request for the next.
ScanBegins ==
    /\ listing.queued /\ listing.pass = {}
    /\ listing' = [listing EXCEPT !.queued = FALSE, !.pass = {coreaudio.shown}]
    /\ coreaudio' = requestRefresh(coreaudio)
    /\ UNCHANGED <<system, picker, playing>>
\* A cold one is waited for, within coldStartBudget.
ScanEnds == \E s \in listing.pass :
    /\ listing' = [listing EXCEPT
         !.pass = {}, !.shown = [known |-> TRUE, refs |-> devices(IF s.known THEN s ELSE coreaudio.shown)]]
    /\ UNCHANGED <<system, coreaudio, picker, playing>>

\* current: the completed generation first, then the request.
List ==
    /\ picker.pc = "idle"
    /\ picker' = IF listing.shown.known THEN [picker EXCEPT !.got = listing.shown]
                                         ELSE [picker EXCEPT !.pc = "cold"]
    /\ listing' = requestRefresh(listing)
    /\ UNCHANGED <<system, coreaudio, playing>>
\* ready, or the budget of a cold list is over.
ListAnswers ==
    /\ picker.pc = "cold" /\ picker' = [pc |-> "idle", got |-> listing.shown]
    /\ UNCHANGED <<system, coreaudio, listing, playing>>
-----------------------------------------------------------------------------
\* DeviceOutputArgs: the fallback's index, read without waiting on CoreAudio.
Resolve ==
    /\ playing.pc = "open" /\ ~playing.helper
    /\ \E i \in IF unique(coreaudio.shown, Label) = {} THEN {Unbound} ELSE unique(coreaudio.shown, Label) :
         playing' = [playing EXCEPT !.pc = "spawn", !.index = i]
    /\ coreaudio' = requestRefresh(coreaudio)
    /\ UNCHANGED <<system, listing, picker>>
\* External: audiotoolbox opens what the index names, the helper the named device.
Opened == IF playing.helper THEN unique(Now, Label) ELSE {playing.index} \cap DOMAIN system.array
Spawn ==
    /\ playing.pc = IF playing.helper THEN "open" ELSE "spawn"
    /\ playing' = IF Opened = {} THEN Quiet("pause")
               ELSE [Quiet("baseline") EXCEPT !.on = {system.array[i] : i \in Opened}]
    /\ UNCHANGED <<system, coreaudio, listing, picker>>

\* feedWatched: the fingerprint of now is the one the sink is held against.
Baseline ==
    /\ playing.pc = "baseline"
    /\ playing' = [playing EXCEPT !.pc = "fed", !.base = outputFingerprint(coreaudio.shown)]
    /\ coreaudio' = requestRefresh(coreaudio)
    /\ UNCHANGED <<system, listing, picker>>

\* A label that does not resolve is left alone, an unknown baseline adopts the
\* first fingerprint, and one that changed reopens the sink at once.
WatchTick ==
    /\ playing.pc = "fed" /\ coreaudio' = requestRefresh(coreaudio)
    /\ LET current == outputFingerprint(coreaudio.shown)
       IN  playing' = IF current = {} \/ current = playing.base THEN playing
                   ELSE IF playing.base = {} THEN [playing EXCEPT !.base = current]
                   ELSE Quiet("open")
    /\ UNCHANGED <<system, listing, picker>>

\* A write fails, the device being gone, or a write stalled and the guard severed it: reopened
\* after a pause, for as long as the job lives.
FeedFails ==
    /\ playing.pc = "fed" /\ playing' = Quiet("pause")
    /\ UNCHANGED <<system, coreaudio, listing, picker>>
PauseEnds ==
    /\ playing.pc = "pause" /\ playing' = [playing EXCEPT !.pc = "open"]
    /\ UNCHANGED <<system, coreaudio, listing, picker>>
\* The job is cancelled, or its pair is gone.
JobEnds ==
    /\ playing.pc # "over" /\ playing' = Quiet("over")
    /\ UNCHANGED <<system, coreaudio, listing, picker>>

Next ==
    \/ Rearranged \/ LoadBegins \/ LoadEnds \/ ScanBegins \/ ScanEnds \/ List \/ ListAnswers
    \/ Resolve \/ Spawn \/ Baseline \/ WatchTick \/ FeedFails \/ PauseEnds \/ JobEnds
-----------------------------------------------------------------------------
TypeOK ==
    /\ system \in [array : Arrays, rate : Rates, moves : 0 .. MaxMoves]
    /\ playing.pc \in {"open", "spawn", "baseline", "fed", "pause", "over"}
    /\ Cardinality(playing.on) <= 1 /\ Cardinality(playing.base) <= 1
    /\ Cardinality(coreaudio.pass) <= 1 /\ Cardinality(listing.pass) <= 1

\* A label that moved, or whose rate changed, behind a sink that is fed is seen.
WatchFollows == playing.pc = "fed" /\ unique(Now, Label) # {} => playing.base = outputFingerprint(Now)

\* Pickers that ask again come to show the system's outputs, through both catalogues.
ListsCatchUp == picker.pc # "away" => picker.got.refs = devices(Now)

\* push.go:206 "a reopen rebinds the label to the device's current index".
PlaysOnItsDevice ==
    playing.pc = "fed" /\ unique(Now, Label) # {} =>
        playing.on = {system.array[i] : i \in unique(Now, Label)}
=============================================================================
