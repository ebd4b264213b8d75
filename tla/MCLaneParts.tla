----------------------------- MODULE MCLaneParts -----------------------------
EXTENDS LaneParts, TLC

\* Two calls of one lane contend for a helper; two lanes contend for a worker.
OneLane == [laneOf |-> "c1" :> "A" @@ "c2" :> "A", workers |-> 2, spawns |-> 2,
            hung |-> {"A"}, stops |-> FALSE, cancels |-> {"c1"}]
TwoLanes(hung) == [laneOf |-> "c1" :> "A" @@ "c2" :> "B", workers |-> 1, spawns |-> 1,
                   hung |-> hung, stops |-> hung = {}, cancels |-> IF hung = {} THEN {"c1"} ELSE {"c1", "c2"}]
MCPlans == {OneLane, TwoLanes({}), TwoLanes({"A"})}

\* WAV files: the size the RIFF header claims, the bytes on disk, the chunks; the
\* header takes 12 bytes and each chunk's header 8.
File(riff, size, chunks) == [riff |-> riff, size |-> size, chunks |-> chunks]
Fmt == <<"fmt", 16>>
Data(bytes) == <<"data", bytes>>
\* Whole; with a padded chunk; with too little of a chunk's header; longer than
\* its RIFF, shorter; two data chunks; a short format; half a sample; the format
\* last; no data.
MCWavs == {File(52, 52, <<Fmt, Data(8)>>), File(64, 64, <<Fmt, <<"LIST", 3>>, Data(8)>>),
           File(53, 53, <<Fmt, Data(8)>>), File(50, 52, <<Fmt, Data(8)>>),
           File(76, 70, <<Fmt, Data(8), <<"junk", 16>>>>), File(76, 76, <<Fmt, Data(8), Data(8)>>),
           File(52, 52, <<<<"fmt", 14>>, Data(10)>>), File(51, 51, <<Fmt, Data(7)>>),
           File(60, 60, <<Data(6), <<"fmt", 18>>>>), File(36, 36, <<Fmt>>)}
=============================================================================
