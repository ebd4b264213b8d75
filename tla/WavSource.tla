----------------------------- MODULE WavSource -----------------------------
(***************************************************************************)
(* The native WAV source (ingest/file): its chunks are walked once, then   *)
(* Next reads quanta of the data chunk at the pace of the wall clock,      *)
(* looping if asked to, while another goroutine may Close it and the file  *)
(* may shrink on disk.  Sizes are bytes; time is counted in samples.       *)
(***************************************************************************)
EXTENDS Naturals, Sequences

CONSTANTS Wavs,      \* files: [riff |-> claimed end, size |-> bytes on disk, chunks |-> <<id, body>>...]
          MaxChunks, \* maxRIFFChunks
          Samples,   \* of one quantum
          MaxTime    \* model bound on the wall clock

VARIABLES wav,    \* the file on disk
          walk,   \* inspectWAV: its offset, chunks, what it has seen, its verdict
          source, \* frames: where Next is, pos, pts, loop, closed, what it returned
          now     \* the wall clock since the source was opened
wavVars == <<wav, walk, source, now>>

Header == 12
ChunkHeader == 8
Format == 16

WavInit ==
    /\ wav \in Wavs
    /\ walk = [pc |-> "riff", offset |-> Header, chunks |-> 0, format |-> FALSE, data |-> FALSE, at |-> 0, bytes |-> 0]
    /\ \E loop \in BOOLEAN :
          source = [pc |-> "none", pos |-> 0, pts |-> 0, loop |-> loop, closed |-> FALSE, cut |-> FALSE, ended |-> "none", last |-> <<0, 0>>]
    /\ now = 0

Verdict(v) == walk' = [walk EXCEPT !.pc = v]

\* inspectRIFFHeader: the size the file claims must be there.
WalkRiff == /\ walk.pc = "riff"
            /\ Verdict(IF wav.riff < Header \/ wav.riff > wav.size THEN "refused" ELSE "chunk")
            /\ UNCHANGED <<wav, source, now>>

\* inspectChunk and consumeNext: a header and a padded body inside the RIFF, one
\* format of sixteen bytes at least, one data chunk, not empty, of whole samples.
Chunk == wav.chunks[walk.chunks + 1]
Body == walk.offset + ChunkHeader
Padded(bytes) == bytes + (bytes % 2)
Truncated == walk.chunks = Len(wav.chunks) \/ wav.riff - walk.offset < ChunkHeader
             \/ Body + Padded(Chunk[2]) > wav.riff
BadChunk == CASE Chunk[1] = "fmt" -> walk.format \/ Chunk[2] < Format
              [] Chunk[1] = "data" -> walk.data \/ Chunk[2] = 0 \/ Chunk[2] % 2 # 0
              [] OTHER -> FALSE
WalkChunk ==
    /\ walk.pc = "chunk" /\ walk.offset < wav.riff
    /\ IF walk.chunks >= MaxChunks \/ Truncated \/ BadChunk THEN Verdict("refused")
       ELSE walk' = [walk EXCEPT !.chunks = @ + 1, !.offset = Body + Padded(Chunk[2]),
                                 !.format = @ \/ Chunk[1] = "fmt", !.data = @ \/ Chunk[1] = "data",
                                 !.at = IF Chunk[1] = "data" THEN Body ELSE @,
                                 !.bytes = IF Chunk[1] = "data" THEN Chunk[2] ELSE @]
    /\ UNCHANGED <<wav, source, now>>
WalkEnds ==
    /\ walk.pc = "chunk" /\ walk.offset >= wav.riff
    /\ Verdict(IF walk.format /\ walk.data THEN "accepted" ELSE "refused")
    /\ source' = [source EXCEPT !.pc = IF walk.format /\ walk.data THEN "idle" ELSE "none"]
    /\ UNCHANGED <<wav, now>>

-----------------------------------------------------------------------------
Stop(cause) == source' = [source EXCEPT !.pc = "done", !.closed = TRUE, !.ended = cause]

\* A NextBegins that would start its clock again.
LoopRestartsTheClock ==
    /\ source.pc = "idle" /\ ~source.closed
    /\ source' = [source EXCEPT !.pc = "pace", !.pos = IF @ >= walk.bytes THEN 0 ELSE @,
                                !.pts = IF source.pos >= walk.bytes THEN 0 ELSE @]
    /\ UNCHANGED <<wav, walk, now>>

\* Next: closed, at the end, at the end of a loop, whose clock goes on.
NextBegins ==
    /\ source.pc = "idle"
    /\ CASE source.closed -> source' = [source EXCEPT !.pc = "done", !.ended = "eof"]
         [] ~source.closed /\ source.pos >= walk.bytes /\ ~source.loop -> Stop("eof")
         [] OTHER -> source' = [source EXCEPT !.pc = "pace", !.pos = IF @ >= walk.bytes THEN 0 ELSE @]
    /\ UNCHANGED <<wav, walk, now>>

\* pace: until the wall clock is at the PTS, or the context is done.
Pace == /\ source.pc = "pace" /\ now >= source.pts
        /\ source' = [source EXCEPT !.pc = "read"] /\ UNCHANGED <<wav, walk, now>>
Interrupted == /\ source.pc \in {"idle", "pace"} /\ ~source.closed /\ Stop("context")
               /\ UNCHANGED <<wav, walk, now>>

Least(a, b) == IF a < b THEN a ELSE b
Take == Least(Samples, (walk.bytes - source.pos) \div 2)
\* readAt: all of it, or an error where the handle is closed or the file shorter.
Read ==
    /\ source.pc = "read"
    /\ IF source.closed \/ walk.at + source.pos + 2 * Take > wav.size THEN Stop("read")
       ELSE source' = [source EXCEPT !.pc = "idle", !.last = <<walk.at + source.pos, 2 * Take>>,
                                     !.pts = @ + Take, !.pos = @ + 2 * Take]
    /\ UNCHANGED <<wav, walk, now>>

\* The owner's Close, the clock, and whoever shortens the file.
CloseSource == source.pc \notin {"none", "done"} /\ ~source.closed /\ source' = [source EXCEPT !.closed = TRUE, !.cut = TRUE]
               /\ UNCHANGED <<wav, walk, now>>
Tick == source.pc # "none" /\ now < MaxTime /\ now' = now + 1 /\ UNCHANGED <<wav, walk, source>>
Shrink == /\ walk.pc = "accepted" /\ wav.size > walk.at /\ wav' = [wav EXCEPT !.size = walk.at]
          /\ UNCHANGED <<walk, source, now>>

WavWalk == WalkRiff \/ WalkChunk \/ WalkEnds
WavNext == WavWalk \/ NextBegins \/ Pace \/ Interrupted \/ Read \/ CloseSource \/ Tick \/ Shrink
WavProgress == WavWalk \/ NextBegins \/ Pace \/ Read \/ Tick
-----------------------------------------------------------------------------
WavTypeOK ==
    /\ walk.pc \in {"riff", "chunk", "accepted", "refused"}
    /\ source.pc \in {"none", "idle", "pace", "read", "done"}
    /\ now \in 0 .. MaxTime /\ source.pos <= walk.bytes

\* What the file's data chunk really is, by its chunks alone.
SizeOf[n \in 0 .. Len(wav.chunks)] == IF n = 0 THEN Header ELSE SizeOf[n - 1] + ChunkHeader + Padded(wav.chunks[n][2])
DataAt == LET n == CHOOSE k \in DOMAIN wav.chunks : wav.chunks[k][1] = "data" IN SizeOf[n - 1] + ChunkHeader
DataBytes == wav.chunks[CHOOSE k \in DOMAIN wav.chunks : wav.chunks[k][1] = "data"][2]

\* Only samples of the data chunk are ever played, none ahead of its time, and a
\* file that ends by itself was played to its last sample.
PlaysTheData ==
    /\ source.last[2] > 0 => source.last[1] >= DataAt /\ source.last[1] + source.last[2] <= DataAt + DataBytes
    /\ source.pc = "read" => source.pts <= now
    /\ source.ended = "eof" /\ ~source.loop /\ source.pts * 2 # DataBytes => source.cut

\* The timeline of a looped file goes on: every frame starts where the one before ended.
ClockGoesOn == [][source'.pts = source.pts + (IF source'.pos > source.pos THEN (source'.pos - source.pos) \div 2 ELSE 0)]_wavVars

\* The source ends, unless it loops or waits for its time.
WavEnded == walk.pc = "refused" \/ source.pc = "done" \/ source.loop \/ now = MaxTime
=============================================================================
