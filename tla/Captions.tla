------------------------------ MODULE Captions ------------------------------
(***************************************************************************)
(* The captions of one language in one session's tree (media/egress: vtt,  *)
(* hls): a segment's text is laid out in cues, which go into the rolling   *)
(* document, into the parts and the playlist of a live rendition, and onto *)
(* the overlay file, through timers that outlive the call that set them.   *)
(* A text is the lengths of its words; time is counted in milliseconds of  *)
(* a small scale; a part or a cue is what its file holds.                  *)
(***************************************************************************)
EXTENDS Integers, Sequences, FiniteSets
LOCAL INSTANCE SequencesExt

CONSTANTS Texts, Width, Lines,           \* MaxLineChars, MaxLines
          PartLength, WindowParts, MaxDoc, \* segmentLength, windowSegments, maxCues
          Delay, Durations,               \* how far ahead a cue is scheduled, and for how long
          MaxCues, MaxTrees, MaxFails, MaxWall \* model bounds

VARIABLES tree,   \* n: trees made for this slug; live; fails: writes that failed;
                  \* behind: the files whose last write failed
          cues,   \* every cue of this tree: from, to
          doc,    \* the rolling document: numbers of cues
          seg,    \* the Segmenter: where Append is, what it has to do, cues, parts, top
          disk,   \* the tree's files: parts, the parts the playlist lists, the overlay's cue
          live,   \* LiveCue of each tree: gen, closed
          timers, \* armed and fired: <<tree, gen, at, "show" or "hide">>
          wall
captionVars == <<tree, cues, doc, seg, disk, live, timers, wall>>

Fresh == [pc |-> "idle", todo |-> {}, held |-> <<>>, parts |-> {}, top |-> -1]
EmptyDisk == [part |-> <<>>, listed |-> {}, text |-> 0]
CaptionsInit ==
    /\ tree = [n |-> 1, live |-> TRUE, fails |-> 0, behind |-> {}]
    /\ cues = <<>> /\ doc = <<>>
    /\ seg = Fresh /\ disk = EmptyDisk
    /\ live = [t \in 1 .. MaxTrees |-> [gen |-> 0, closed |-> FALSE]]
    /\ timers = [armed |-> {}, fired |-> {}]
    /\ wall = 0

-----------------------------------------------------------------------------
\* split and wrap: a word longer than a line is cut; words fill a line while they fit.
Split(word) == [i \in 1 .. (word + Width - 1) \div Width |-> IF i * Width <= word THEN Width ELSE word % Width]
Pieces(text) == FlattenSeq([i \in DOMAIN text |-> Split(text[i])])
Fit(lines, piece) == IF lines # <<>> /\ Last(lines) + 1 + piece <= Width
                     THEN [lines EXCEPT ![Len(lines)] = @ + 1 + piece]
                     ELSE Append(lines, piece)
Wrap(text) == FoldLeft(Fit, <<>>, Pieces(text))

\* Layout: groups of lines share the duration by their characters, and the last
\* cue takes what rounding left.
Sum(lines) == FoldLeft(LAMBDA a, b : a + b, 0, lines)
Layout(text, start, dur) ==
    LET lines == Wrap(text)
        groups == (Len(lines) + Lines - 1) \div Lines
        chars(i) == Sum(SubSeq(lines, (i - 1) * Lines + 1, IF i = groups THEN Len(lines) ELSE i * Lines))
        end[i \in 0 .. groups] == CASE i = 0 -> start
                                    [] i = groups -> start + dur
                                    [] OTHER -> end[i - 1] + (dur * chars(i)) \div Sum(lines)
    IN  [i \in 1 .. groups |-> [from |-> end[i - 1], to |-> end[i]]]

\* Writer.Append, with the cues Layout makes of the text: the oldest cue leaves a full document.
Rolled(d, new) == LET all == d \o new IN SubSeq(all, IF Len(all) > MaxDoc THEN Len(all) - MaxDoc + 1 ELSE 1, Len(all))

-----------------------------------------------------------------------------
\* Schedule of every cue of the segment: each takes over the overlay file, is
\* shown at once or by a timer, and cleared by another.  A cue already over is not.
Generations == Len(cues)
Scheduled(new) == {g \in DOMAIN new : new[g].to > wall}
Order(new) == [g \in DOMAIN new |-> live[tree.n].gen + Cardinality({h \in Scheduled(new) : h <= g})]
Show(new, g) == IF new[g].from > wall THEN {<<tree.n, Order(new)[g], Generations + g, new[g].from, "show">>} ELSE {}
Hide(new, g) == {<<tree.n, Order(new)[g], Generations + g, new[g].to, "hide">>}
Schedule(new) ==
    /\ live' = [live EXCEPT ![tree.n].gen = @ + Cardinality(Scheduled(new))]
    /\ timers' = [timers EXCEPT !.armed = @ \cup UNION {Show(new, g) \cup Hide(new, g) : g \in Scheduled(new)}]
    /\ LET shown == {g \in Scheduled(new) : new[g].from <= wall}
       IN  disk' = IF shown = {} THEN disk
                   ELSE [disk EXCEPT !.text = Generations + (CHOOSE g \in shown : \A h \in shown : h <= g)]

\* The part a cue ends in is that of its last millisecond.
PartsOf(cue) == (cue.from \div PartLength) .. ((cue.to - 1) \div PartLength)
Held(k) == IF k \in DOMAIN seg.held THEN seg.held[k] ELSE {}
AppendSegment(text, start, dur) ==
    /\ tree.live /\ seg.pc = "idle"
    /\ LET new == Layout(text, start, dur)
           touched == UNION {PartsOf(new[g]) : g \in DOMAIN new}
           within(k) == {Generations + g : g \in {h \in DOMAIN new : k \in PartsOf(new[h])}}
       IN  /\ Generations + Len(new) <= MaxCues \div tree.n
           /\ cues' = cues \o new
           /\ doc' = Rolled(doc, [g \in DOMAIN new |-> Generations + g])
           /\ Schedule(new)
           /\ seg' = [seg EXCEPT !.pc = "parts", !.todo = touched,
                                 !.held = [k \in DOMAIN @ \cup touched |-> Held(k) \cup within(k)],
                                 !.top = CHOOSE k \in touched \cup {@} : \A l \in touched \cup {@} : l <= k]
    /\ UNCHANGED <<tree, wall>>

\* writePart: a temporary file renamed over the part, or nothing at all.
Write(k) == /\ disk' = [disk EXCEPT !.part = [l \in DOMAIN @ \cup {k} |-> IF l = k THEN Held(k) ELSE @[l]]]
            /\ seg' = [seg EXCEPT !.parts = @ \cup {k}, !.todo = @ \ {k}]
            /\ tree' = [tree EXCEPT !.behind = @ \ {k}]
Playlist == -1   \* among the files behind
WriteFails(files) == /\ tree.fails < MaxFails /\ UNCHANGED disk
                     /\ tree' = [tree EXCEPT !.fails = @ + 1, !.behind = @ \cup files]
\* The parts the segment touched, in the order of a map; a failure is only logged.
WritePart == /\ seg.pc = "parts"
             /\ \E k \in seg.todo : \/ Write(k)
                                    \/ WriteFails({k}) /\ seg' = [seg EXCEPT !.todo = @ \ {k}]
             /\ UNCHANGED <<cues, doc, live, timers, wall>>
\* writePlaylist: the parts the window lacks, first, each of which may fail and
\* leave the playlist as it was; then the playlist itself.
First == IF seg.top - WindowParts + 1 > 0 THEN seg.top - WindowParts + 1 ELSE 0
Missing == (First .. seg.top) \ seg.parts
PartsWritten == seg.pc = "parts" /\ seg.todo = {}
FillGap == /\ PartsWritten /\ Missing # {}
           /\ LET k == CHOOSE m \in Missing : \A l \in Missing : m <= l
              IN  Write(k) \/ (WriteFails({k, Playlist}) /\ seg' = [seg EXCEPT !.pc = "evict"])
           /\ UNCHANGED <<cues, doc, live, timers, wall>>
WritePlaylist == /\ PartsWritten /\ Missing = {}
                 /\ seg' = [seg EXCEPT !.pc = "evict"]
                 /\ \/ /\ disk' = [disk EXCEPT !.listed = First .. seg.top]
                       /\ tree' = [tree EXCEPT !.behind = @ \ {Playlist}]
                    \/ WriteFails({Playlist})
                 /\ UNCHANGED <<cues, doc, live, timers, wall>>
\* evict: the parts before the window, from the memory and from the disk.
Evicting(old) == /\ seg' = [seg EXCEPT !.pc = "idle", !.parts = @ \ old, !.held = [k \in DOMAIN @ \ old |-> @[k]]]
                 /\ disk' = [disk EXCEPT !.part = [k \in DOMAIN @ \ (old \cap seg.parts) |-> @[k]]]
\* A Evict off by one.
EvictOneMore == /\ seg.pc = "evict"
              /\ Evicting({k \in DOMAIN seg.held \cup seg.parts : k < seg.top - WindowParts + 2})
              /\ UNCHANGED <<tree, cues, doc, live, timers, wall>>

Evict == /\ seg.pc = "evict"
         /\ Evicting({k \in DOMAIN seg.held \cup seg.parts : k < seg.top - WindowParts + 1})
         /\ UNCHANGED <<tree, cues, doc, live, timers, wall>>

-----------------------------------------------------------------------------
\* A timer fires, and its goroutine waits for the lock: owned writes only for the
\* latest generation of a tree that is not closed.
TimerFires == /\ \E t \in timers.armed : t[4] <= wall /\ timers' = [armed |-> timers.armed \ {t}, fired |-> timers.fired \cup {t}]
              /\ UNCHANGED <<tree, cues, doc, seg, disk, live, wall>>
WriteText(t) == disk' = [disk EXCEPT !.text = IF t[5] = "show" THEN t[3] ELSE 0]
\* A Owned that would compare no generations.
OwnedByAnyone(t) == IF live[t[1]].closed \/ ~tree.live THEN UNCHANGED disk ELSE WriteText(t)

Owned(t) == IF live[t[1]].closed \/ t[2] # live[t[1]].gen \/ ~tree.live THEN UNCHANGED disk ELSE WriteText(t)
TimerRuns == /\ \E t \in timers.fired : timers' = [timers EXCEPT !.fired = @ \ {t}] /\ Owned(t)
             /\ UNCHANGED <<tree, cues, doc, seg, live, wall>>

\* Store.Drop, and CreateWithSubtitles over a tree that may still be there, once the
\* lane that appends is gone: the timers that have not fired are stopped.  The
\* documents of the registry go and come with the tree; a Create that fails is a Drop.
Close == /\ live' = [live EXCEPT ![tree.n].closed = TRUE]
         /\ timers' = [timers EXCEPT !.armed = {}]
Forget == cues' = <<>> /\ doc' = <<>> /\ seg' = Fresh /\ disk' = EmptyDisk
Drop == /\ tree.live /\ seg.pc = "idle" /\ Close /\ Forget
        /\ tree' = [tree EXCEPT !.live = FALSE, !.behind = {}] /\ UNCHANGED wall
Create == /\ tree.n < MaxTrees /\ seg.pc = "idle" /\ Close /\ Forget
          /\ tree' = [tree EXCEPT !.n = @ + 1, !.live = TRUE, !.behind = {}] /\ UNCHANGED wall

Tick == wall < MaxWall /\ wall' = wall + 1 /\ UNCHANGED <<tree, cues, doc, seg, disk, live, timers>>

\* The lane's segments are in the order of their time, some of them late.
LastEnd == IF cues = <<>> THEN 0 ELSE Last(cues).to
CaptionsNext ==
    \/ \E text \in Texts, start \in LastEnd .. wall + Delay, dur \in Durations : AppendSegment(text, start, dur)
    \/ WritePart \/ FillGap \/ WritePlaylist \/ Evict
    \/ TimerFires \/ TimerRuns \/ Drop \/ Create \/ Tick
-----------------------------------------------------------------------------
CaptionsTypeOK ==
    /\ Len(doc) <= MaxDoc /\ disk.text \in 0 .. MaxCues
    /\ seg.pc \in {"idle", "parts", "evict"} /\ tree.n \in 1 .. MaxTrees

\* Whoever reads the tree, whatever write has failed, finds every listed part that is
\* still in the window, and may miss an older one only while the playlist that lists
\* it could not be replaced.  Once the Append is over a listed part holds every cue
\* that overlaps it, but for a part whose own last write failed.  The cues of a
\* segment are none of them empty.
ListedPartsAreThere ==
    /\ disk.listed \cap First .. seg.top \subseteq DOMAIN disk.part
    /\ disk.listed \subseteq DOMAIN disk.part \/ Playlist \in tree.behind
    /\ seg.pc = "idle" => \A k \in (disk.listed \cap DOMAIN disk.part) \ tree.behind, g \in DOMAIN cues :
           cues[g].from < (k + 1) * PartLength /\ cues[g].to > k * PartLength => g \in disk.part[k]
    /\ \A g \in DOMAIN cues : cues[g].from < cues[g].to
\* Refuted by the code: segmenter.go:124 "so players never 404 mid-window".  evict runs
\* after a playlist that could not be written too, and takes parts the old one lists.
PlayersNeverMiss == disk.listed \subseteq DOMAIN disk.part

\* overlay.go:47 "an earlier clear never erases newer text": what is on the overlay
\* goes with its own tree, for a later cue, or when its own time is over.
ClearsOnlyItself ==
    [][disk.text # 0 /\ tree' = tree /\ disk'.text # disk.text =>
         disk'.text > disk.text \/ cues[disk.text].to <= wall]_captionVars
\* The text of one tree is never shown by the timer of another.
OnlyItsOwnText == disk.text \in {0} \cup DOMAIN cues

\* overlay.go:47 "Schedule shows the cue during its window".
ShownInItsWindow ==
    tree.live /\ seg.pc = "idle" /\ timers.fired = {} /\ (\A t \in timers.armed : t[4] > wall) =>
        \A g \in DOMAIN cues : cues[g].from <= wall /\ wall < cues[g].to => disk.text = g
=============================================================================
