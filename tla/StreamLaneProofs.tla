-------------------------- MODULE StreamLaneProofs --------------------------
(***************************************************************************)
(* Why every target of a lane receives what was committed in order, each   *)
(* segment once, and why an end without an error means all of it: for      *)
(* every set of targets, dubbed or not, and every capacity of the queues.  *)
(* A segment is in one place at a time between the fan-out and the sink    *)
(* (Captioned) and between the sink and the track (AllSpoken), unless the  *)
(* stage that held it failed; and a failure reaches the group before the   *)
(* group can be waited for (Failures).                                     *)
(***************************************************************************)
EXTENDS StreamLane, TLAPS

\* Where Run is tells where its transcription is.
Opening ==
  /\ main = "open" <=> tx.open = "no"
  /\ main = "opening" <=> tx.open \in {"opening", "refusing"}
  /\ main \in {"run", "close", "closing"} => tx.open = "yes"
  /\ main \in {"open", "opening", "run", "close"} => tx.close = "no"
  /\ main = "closing" => tx.close = "closing"
  /\ main = "returned" => source.closed /\ (tx.open = "yes" => tx.done)
  /\ result = "none" <=> main \in {"open", "opening", "run"}

\* Nobody works before the transcription is open, nor after the group's wait.
Joined ==
  /\ tx.open # "yes" =>
       /\ pump = "off" /\ consumer.pc = "off"
       /\ \A t \in Target : stage[t].pc = "off" /\ voice[t].pc = "off"
  /\ tx.open = "yes" /\ main # "run" => GroupDone
  /\ \A t \in Voiced : voice[t].pc = "done" => stage[t].pc = "done"

\* What the end of a goroutine says of its input.
Ends ==
  /\ pump = "done" => groupErr \/ tx.sent
  /\ consumer.pc = "done" => groupErr \/ consumer.flushed
  /\ consumer.flushed => events = <<>> /\ tx.ended /\ ~tx.terminal
  /\ result = "ok" => tx.sent /\ consumer.flushed

\* A failure is the group's, for a dubbed target once its voice loop has joined.
FailuresAt(t) ==
  /\ stage[t].failed => stage[t].pc = "done"
  /\ voice[t].failed => voice[t].pc \in {"join", "done"}
  /\ t \notin Voiced =>
       /\ voice[t].pc \in {"off", "done"} /\ stage[t].pc # "send"
       /\ stage[t].failed => groupErr
  /\ t \in Voiced /\ voice[t].pc = "done" /\ (stage[t].failed \/ voice[t].failed) => groupErr

Failures == \A t \in Target : FailuresAt(t)

\* The queue holds the numbers that follow k.
From(k, q) == \A i \in 1 .. Len(q) : q[i] = k + i

\* Segments the translate stage has taken, and those the fan-out has yet to send.
Begun(t) == IF stage[t].pc = "translate" THEN Len(captions[t]) + 1 ELSE Len(captions[t])

Queued(t) == Begun(t) + Len(in[t].queue)

Sent(t) == IF t \in consumer.todo THEN Queued(t) + 1 ELSE Queued(t)

\* Between the fan-out and the sink.
CaptionedAt(t) ==
  /\ From(0, captions[t])
  /\ Len(captions[t]) <= Len(committed)
  /\ in[t].closed => consumer.pc = "done"
  /\ ~stage[t].failed =>
       /\ stage[t].pc = "translate" => stage[t].seg = Begun(t)
       /\ From(Begun(t), in[t].queue)
       /\ Sent(t) <= Len(committed)
       /\ consumer.pc # "done" \/ ~groupErr => Sent(t) = Len(committed)
       /\ stage[t].pc = "done" => in[t].queue = <<>> /\ in[t].closed

Captioned == \A t \in Target : CaptionedAt(t)

\* Segments the voice loop has taken, and those it is owed.
Begot(t) == IF voice[t].pc = "speak" THEN Len(takes[t]) + 1 ELSE Len(takes[t])

Ready(t) == Begot(t) + Len(jobs[t].queue)

Owed(t) == IF stage[t].pc = "send" THEN Ready(t) + 1 ELSE Ready(t)

\* Between the sink and the track.
SpokenAt(t) ==
  /\ From(0, takes[t])
  /\ Len(takes[t]) <= Len(captions[t])
  /\ jobs[t].closed => stage[t].pc = "done"
  /\ stage[t].pc = "send" => captions[t] # <<>> /\ stage[t].seg = Len(captions[t])
  /\ ~voice[t].failed =>
       /\ voice[t].pc = "speak" => voice[t].seg = Begot(t)
       /\ From(Begot(t), jobs[t].queue)
       /\ Owed(t) <= Len(captions[t])
       /\ ~stage[t].failed => Owed(t) = Len(captions[t])
       /\ voice[t].pc \in {"join", "done"} => jobs[t].queue = <<>> /\ jobs[t].closed

AllSpoken == \A t \in Voiced : SpokenAt(t)

\* Spans one after the other, up to a time.
Rising(q) ==
  /\ \A i \in 1 .. Len(q) : q[i][1] <= q[i][2]
  /\ \A i, j \in 1 .. Len(q) : j = i + 1 => q[i][2] <= q[j][1]

EndsBy(q, time) == \A i \in 1 .. Len(q) : q[i][2] <= time

LastBy(q, time) == q # <<>> => q[Len(q)][2] <= time

\* What is left to fan out follows what was, and both precede the interval that
\* the committer is in.
Chained ==
  /\ consumer.pc # "fanout" => consumer.todo = {} /\ consumer.left = <<>>
  /\ consumer.pc = "fanout" => committed # <<>>
  /\ Rising(consumer.left)
  /\ consumer.left # <<>> => LastBy(committed, consumer.left[1][1])
  /\ ~consumer.flushed =>
       /\ EndsBy(consumer.left, consumer.segStart)
       /\ LastBy(committed, consumer.segStart)
       /\ consumer.segStart <= consumer.lastEnd

Flow == Opening /\ Joined /\ Ends /\ Failures /\ Captioned /\ AllSpoken /\ Chained

LInv == TypeOK /\ Flow

-----------------------------------------------------------------------------
(* Sequences and spans.                                                    *)

\* Appending adds one at the end.
LEMMA AppendLonger ==
  ASSUME NEW S, NEW q \in Seq(S), NEW e \in S
  PROVE  Len(Append(q, e)) = Len(q) + 1 /\ Append(q, e) # <<>>
<1>1. Len(Append(q, e)) = Len(q) + 1 /\ Len(q) \in Nat
  OBVIOUS
<1>2. Len(<<>>) = 0
  OBVIOUS
<1>3. QED
  BY <1>1, <1>2

\* A queue of consecutive numbers stays one when the next is sent,
LEMMA FromAppend ==
  ASSUME NEW S, NEW q \in Seq(S), NEW k \in Nat, NEW e \in S, From(k, q), e = k + Len(q) + 1
  PROVE  /\ From(k, Append(q, e)) /\ Len(Append(q, e)) = Len(q) + 1
         /\ Append(q, e) \in Seq(S)
BY DEF From

\* and when the first is received, after which it follows that one.
LEMMA FromTail ==
  ASSUME NEW S, NEW q \in Seq(S), NEW k \in Nat, From(k, q), q # <<>>
  PROVE  /\ From(k + 1, Tail(q)) /\ Len(Tail(q)) = Len(q) - 1 /\ Tail(q) \in Seq(S)
         /\ Head(q) = k + 1 /\ Head(q) \in S /\ Len(q) \in Nat \ {0}
BY DEF From

\* An empty queue follows any number.
LEMMA NothingAfter ==
  ASSUME NEW S, NEW q \in Seq(S), NEW k \in Nat, From(k, q), q = <<>>
  PROVE  Len(q) = 0 /\ \A j \in Nat : From(j, q)
BY DEF From

\* Division and multiplication are monotone.
LEMMA DivMono ==
  ASSUME NEW a \in Nat, NEW b \in Nat, a <= b, NEW n \in Nat \ {0}
  PROVE  a \div n \in Nat /\ a \div n <= b \div n
OBVIOUS

LEMMA MulMono ==
  ASSUME NEW x \in Nat, NEW j \in Nat, NEW k \in Nat, j <= k
  PROVE  x * j \in Nat /\ x * k \in Nat /\ x * j <= x * k
OBVIOUS

\* The n spans of an update divide the interval.
LEMMA SpansDivide ==
  ASSUME TypeOK, NEW now \in Time, NEW n \in 1 .. MaxClauses
  PROVE  /\ Spans(n, now) \in Seq(Time \X Time) /\ Len(Spans(n, now)) = n
         /\ Rising(Spans(n, now)) /\ EndsBy(Spans(n, now), Upto(now))
         /\ Spans(n, now)[1][1] = consumer.segStart
         /\ Upto(now) \in Time /\ Upto(now) >= consumer.segStart /\ Upto(now) >= now
<1> DEFINE base == consumer.segStart
           width == Upto(now) - base
           Part(k) == (width * k) \div n
           End(k) == base + Part(k)
<1>1. base \in Nat /\ Upto(now) \in Nat /\ Upto(now) <= MaxFrames /\ MaxFrames \in Nat
  BY LaneAssumption DEF TypeOK, Consumer, Upto, Time, LaneAssumption
<1>2. width \in Nat /\ n \in Nat \ {0} /\ Upto(now) >= base /\ Upto(now) >= now
  BY LaneAssumption DEF TypeOK, Consumer, Upto, Time, LaneAssumption
<1>3. Part(0) = 0 /\ Part(n) = width
  BY <1>2
<1>4. ASSUME NEW k \in 0 .. n, NEW l \in 0 .. n, k <= l
      PROVE  Part(k) \in Nat /\ Part(k) <= Part(l)
  <2>1. width * k \in Nat /\ width * l \in Nat /\ width * k <= width * l
    BY <1>2, <1>4, MulMono
  <2>2. QED
    BY <1>2, <2>1, DivMono
<1>5. Spans(n, now) = [k \in 1 .. n |-> <<End(k - 1), End(k)>>]
  BY DEF Spans
<1> HIDE DEF Part
<1>6. width = Upto(now) - base
  OBVIOUS
<1> HIDE DEF base, width
<1>7. ASSUME NEW k \in 0 .. n
      PROVE  End(k) \in Nat /\ End(k) <= Upto(now) /\ End(k) <= MaxFrames
  <2>1. Part(k) \in Nat /\ Part(k) <= Part(n)
    BY <1>2, <1>4
  <2>2. QED
    BY <1>1, <1>3, <1>6, <2>1
<1>8. ASSUME NEW k \in 0 .. n, NEW l \in 0 .. n, k <= l PROVE End(k) <= End(l)
  <2>1. Part(k) \in Nat /\ Part(l) \in Nat /\ Part(k) <= Part(l)
    BY <1>4, <1>8
  <2>2. QED
    BY <1>1, <2>1
<1>9. End(0) = base
  BY <1>1, <1>3
<1>10. \A k \in 0 .. n : End(k) \in Time
  BY <1>1, <1>7 DEF Time
<1> HIDE DEF End
<1>11. Spans(n, now) \in Seq(Time \X Time) /\ Len(Spans(n, now)) = n
  BY <1>2, <1>5, <1>10
<1>12. \A k \in 1 .. n : Spans(n, now)[k] = <<End(k - 1), End(k)>>
  BY <1>5
<1>13. Rising(Spans(n, now)) /\ EndsBy(Spans(n, now), Upto(now))
  BY <1>2, <1>7, <1>8, <1>11, <1>12 DEF Rising, EndsBy
<1>14. Spans(n, now)[1][1] = base
  BY <1>2, <1>9, <1>12
<1>15. QED
  BY <1>1, <1>2, <1>11, <1>13, <1>14 DEF base, Time

\* An update that commits nothing has no spans.
LEMMA NoSpans == ASSUME NEW now PROVE Spans(0, now) = <<>>
BY DEF Spans

-----------------------------------------------------------------------------
(* What a step of the consumer comes to.                                   *)

Span == Time \X Time

\* It commits the next segment, which begins where the last one ended or later.
Commits ==
  /\ consumer'.pc = "fanout" /\ consumer'.todo = Target
  /\ \E span \in Span :
       /\ committed' = Append(committed, span)
       /\ span[1] <= span[2] /\ LastBy(committed, span[1])

\* It has nothing left to fan out.
Rests == consumer'.pc = "receive" /\ consumer'.todo = {} /\ UNCHANGED committed

\* It hands the segment at work to a target, while it is owed to others or not.
Sends(t) == Room(in[t]) /\ in' = [in EXCEPT ![t] = Send(@, Len(committed))]

Waits == consumer'.pc = "fanout" /\ UNCHANGED committed

\* It returns.
Quits(failed) ==
  /\ consumer'.pc = "done" /\ consumer'.todo = {}
  /\ Leave(failed) /\ UNCHANGED committed

CursorTyped ==
  /\ consumer' \in Consumer
  /\ committed' \in Seq(Span) /\ Len(committed') + Len(consumer'.left) <= MaxSegments

\* A cursor that may stand where the consumer stands once a run of spans is committed.
Follows(cursor, spans) ==
  /\ cursor \in Consumer /\ cursor.todo = {} /\ cursor.left = <<>>
  /\ ~cursor.flushed =>
       /\ EndsBy(spans, cursor.segStart) /\ LastBy(committed, cursor.segStart)
       /\ cursor.segStart <= cursor.lastEnd

\* Fanning out the first of the spans that are left keeps the others chained.
LEMMA FanKeeps ==
  ASSUME committed \in Seq(Span), NEW spans \in Seq(Span), NEW cursor, Follows(cursor, spans),
         Rising(spans), spans # <<>> => LastBy(committed, spans[1][1]),
         Len(committed) + Len(spans) <= MaxSegments,
         Fan(spans, cursor)
  PROVE  CursorTyped /\ Chained' /\ (Rests \/ Commits) /\ consumer'.flushed = cursor.flushed
<1>1. CASE spans = <<>>
  <2>1. consumer' = [cursor EXCEPT !.pc = "receive"] /\ committed' = committed
    BY <1>1 DEF Fan
  <2>2. consumer' \in Consumer /\ consumer'.pc = "receive" /\ consumer'.todo = {}
        /\ consumer'.left = <<>> /\ consumer'.flushed = cursor.flushed
        /\ consumer'.segStart = cursor.segStart /\ consumer'.lastEnd = cursor.lastEnd
    BY <2>1 DEF Follows, Consumer
  <2>3. QED
    BY <1>1, <2>1, <2>2 DEF Follows, CursorTyped, Chained, Rests, Rising, EndsBy, LastBy
<1>2. CASE spans # <<>>
  <2>1. /\ consumer' = [cursor EXCEPT !.pc = "fanout", !.todo = Target, !.left = Tail(spans)]
        /\ committed' = Append(committed, Head(spans))
    BY <1>2 DEF Fan
  <2>2. /\ Tail(spans) \in Seq(Span) /\ Head(spans) \in Span /\ Head(spans) = spans[1]
        /\ Len(Tail(spans)) = Len(spans) - 1 /\ Len(spans) \in Nat \ {0}
        /\ \A i \in 1 .. Len(Tail(spans)) : Tail(spans)[i] = spans[i + 1]
    BY <1>2
  <2>3. consumer' \in Consumer /\ consumer'.pc = "fanout" /\ consumer'.todo = Target
        /\ consumer'.left = Tail(spans) /\ consumer'.flushed = cursor.flushed
        /\ consumer'.segStart = cursor.segStart /\ consumer'.lastEnd = cursor.lastEnd
    BY <2>1, <2>2 DEF Follows, Consumer, Span
  <2>4. /\ committed' \in Seq(Span) /\ Len(committed') = Len(committed) + 1 /\ committed' # <<>>
        /\ committed'[Len(committed')] = spans[1]
    BY <2>1, <2>2
  <2>5. Len(committed) \in Nat
    OBVIOUS
  <2>6. Commits
    BY <1>2, <2>1, <2>2, <2>3 DEF Commits, Rising
  <2>7. Rising(Tail(spans))
    BY <2>2 DEF Rising
  <2>8. Tail(spans) # <<>> => spans[1][2] <= Tail(spans)[1][1]
    <3>1. SUFFICES ASSUME Tail(spans) # <<>> PROVE spans[1][2] <= Tail(spans)[1][1]
      OBVIOUS
    <3>2. Len(spans) >= 2 /\ Tail(spans)[1] = spans[2]
      BY <2>2, <3>1
    <3>3. QED
      BY <2>2, <3>2 DEF Rising
  <2>9. \A time : EndsBy(spans, time) => EndsBy(Tail(spans), time) /\ spans[1][2] <= time
    BY <2>2 DEF EndsBy
  <2>10. Chained'
    BY <2>3, <2>4, <2>7, <2>8, <2>9 DEF Chained, Follows, LastBy
  <2>11. QED
    BY <2>2, <2>3, <2>4, <2>5, <2>6, <2>10 DEF CursorTyped
<1>3. QED
  BY <1>1, <1>2

\* The clauses of an update, or of the flush, are committed where the last ended.
LEMMA EmitKeeps ==
  ASSUME TypeOK, Chained, consumer.pc = "receive", ~consumer.flushed,
         NEW now \in Time, NEW n \in 0 .. MaxClauses, Len(committed) + n <= MaxSegments,
         NEW cursor \in Consumer, cursor.todo = {}, cursor.left = <<>>,
         ~cursor.flushed =>
           /\ consumer.segStart <= cursor.segStart /\ cursor.segStart <= cursor.lastEnd
           /\ n > 0 => Upto(now) <= cursor.segStart,
         EmitValidated(n, now, cursor)
  PROVE  /\ CursorTyped /\ Chained' /\ consumer'.flushed = cursor.flushed
         /\ \/ (Rests \/ Commits) /\ UNCHANGED <<in, gctx, groupErr>>
            \/ Quits(TRUE)
<1>1. committed \in Seq(Span) /\ Len(committed) \in Nat
  BY DEF TypeOK, Span
<1>2. consumer.segStart \in Nat /\ cursor.segStart \in Nat /\ cursor.lastEnd \in Nat
      /\ cursor.flushed \in BOOLEAN
  BY LaneAssumption DEF TypeOK, Consumer, Time, LaneAssumption
<1>3. ASSUME LastBy(committed, consumer.segStart), NEW time \in Nat, consumer.segStart <= time
      PROVE  LastBy(committed, time)
  <2>1. committed # <<>> => committed[Len(committed)] \in Span
    BY <1>1
  <2>2. committed # <<>> => committed[Len(committed)][2] \in Nat
    BY <2>1, LaneAssumption DEF Span, Time, LaneAssumption
  <2>3. QED
    BY <1>2, <1>3, <2>2 DEF LastBy
<1>4. LastBy(committed, consumer.segStart) /\ (~cursor.flushed => LastBy(committed, cursor.segStart))
  BY <1>2, <1>3 DEF Chained
<1>5. CASE ConsumerFails(cursor)
  <2>1. consumer' = [cursor EXCEPT !.pc = "done"] /\ committed' = committed /\ Leave(TRUE)
    BY <1>5 DEF ConsumerFails
  <2>2. consumer' \in Consumer /\ consumer'.pc = "done" /\ consumer'.todo = {}
        /\ consumer'.left = <<>> /\ consumer'.flushed = cursor.flushed
        /\ consumer'.segStart = cursor.segStart /\ consumer'.lastEnd = cursor.lastEnd
    BY <2>1 DEF Consumer
  <2>3. Chained'
    BY <1>2, <1>4, <2>1, <2>2 DEF Chained, Rising, EndsBy, LastBy
  <2>4. CursorTyped
    BY <1>1, <2>1, <2>2, LaneAssumption DEF CursorTyped, LaneAssumption
  <2>5. QED
    BY <2>1, <2>2, <2>3, <2>4 DEF Quits
<1>6. CASE Fan(Spans(n, now), cursor) /\ UNCHANGED <<in, gctx, groupErr>>
  <2>1. /\ Spans(n, now) \in Seq(Span) /\ Len(Spans(n, now)) = n /\ Rising(Spans(n, now))
        /\ Spans(n, now) # <<>> => LastBy(committed, Spans(n, now)[1][1])
        /\ ~cursor.flushed => EndsBy(Spans(n, now), cursor.segStart)
    <3>1. CASE n = 0
      <4>1. Spans(n, now) = <<>>
        BY <3>1, NoSpans
      <4>2. Spans(n, now) \in Seq(Span) /\ Len(Spans(n, now)) = 0
        BY <4>1
      <4>3. Rising(Spans(n, now)) /\ \A time : EndsBy(Spans(n, now), time)
        BY <4>2 DEF Rising, EndsBy
      <4>4. QED
        BY <3>1, <4>1, <4>2, <4>3
    <3>2. CASE n # 0
      <4>1. n \in 1 .. MaxClauses
        BY <3>2
      <4>2. /\ Spans(n, now) \in Seq(Span) /\ Len(Spans(n, now)) = n /\ Rising(Spans(n, now))
            /\ EndsBy(Spans(n, now), Upto(now)) /\ Spans(n, now)[1][1] = consumer.segStart
            /\ Upto(now) \in Nat
        BY <4>1, SpansDivide, LaneAssumption DEF Span, Time, LaneAssumption
      <4>3. \A i \in 1 .. n : Spans(n, now)[i] \in Span
        BY <4>2
      <4>4. \A i \in 1 .. n : Spans(n, now)[i][2] \in Nat
        BY <4>3, LaneAssumption DEF Span, Time, LaneAssumption
      <4>5. ~cursor.flushed => EndsBy(Spans(n, now), cursor.segStart)
        BY <1>2, <4>1, <4>2, <4>4 DEF EndsBy
      <4>6. QED
        BY <1>4, <4>2, <4>5
    <3>3. QED
      BY <3>1, <3>2
  <2>2. Follows(cursor, Spans(n, now))
    BY <1>4, <2>1 DEF Follows
  <2>3. QED
    BY <1>1, <1>6, <2>1, <2>2, FanKeeps
<1>7. QED
  BY <1>5, <1>6 DEF EmitValidated

Moves ==
  \/ consumer.todo = {} /\ (Rests \/ Commits) /\ UNCHANGED <<in, gctx, groupErr>>
  \/ Quits(TRUE)
  \/ consumer.todo = {} /\ Quits(FALSE) /\ consumer'.flushed
  \/ \E t \in consumer.todo :
       /\ Sends(t) /\ UNCHANGED <<gctx, groupErr>>
       /\ \/ consumer.todo = {t} /\ (Rests \/ Commits)
          \/ Waits /\ consumer'.todo = consumer.todo \ {t}

\* Once the transcription has ended and nothing of it is left, it stays so.
Drains ==
  /\ consumer.flushed => consumer'.flushed
  /\ consumer'.flushed => events' = <<>> /\ tx.ended /\ ~tx.terminal

\* An error abandons what was left.
LEMMA Abandons ==
  ASSUME TypeOK, Chained, NEW cursor \in Consumer, cursor.todo = {}, cursor.left = <<>>,
         cursor.flushed = consumer.flushed, cursor.segStart = consumer.segStart,
         cursor.lastEnd = consumer.lastEnd,
         ConsumerFails(cursor)
  PROVE  CursorTyped /\ Chained' /\ Quits(TRUE) /\ consumer'.flushed = consumer.flushed
<1>1. consumer' = [cursor EXCEPT !.pc = "done"] /\ committed' = committed /\ Leave(TRUE)
  BY DEF ConsumerFails
<1>2. consumer' \in Consumer /\ consumer'.pc = "done" /\ consumer'.todo = {}
      /\ consumer'.left = <<>> /\ consumer'.flushed = consumer.flushed
      /\ consumer'.segStart = consumer.segStart /\ consumer'.lastEnd = consumer.lastEnd
  BY <1>1 DEF Consumer
<1>3. consumer.left \in Seq(Span) /\ committed \in Seq(Span)
      /\ Len(committed) + Len(consumer.left) <= MaxSegments
  BY DEF TypeOK, Consumer, Span
<1>4. Len(committed) <= MaxSegments /\ Len(committed) \in Nat
  BY <1>3, LaneAssumption DEF LaneAssumption
<1>5. Chained'
  BY <1>1, <1>2 DEF Chained, Rising, EndsBy
<1>6. CursorTyped
  BY <1>1, <1>2, <1>3, <1>4, LaneAssumption DEF CursorTyped, LaneAssumption
<1>7. QED
  BY <1>1, <1>2, <1>5, <1>6 DEF Quits

\* What one step of the consumer does: a receive commits, waits for more or quits.
LEMMA ReceiveMoves ==
  ASSUME LInv, Receive
  PROVE  CursorTyped /\ Chained' /\ Moves /\ Drains
<1> DEFINE update == Head(events)
           now == update.end
<1>1. TypeOK /\ Chained /\ consumer.pc = "receive" /\ consumer \in Consumer
      /\ consumer.todo = {} /\ consumer.left = <<>>
  BY DEF LInv, Flow, TypeOK, Receive, Chained
<1>2. events # <<>> /\ ~consumer.flushed
  BY DEF LInv, Flow, Ends, Receive, TxReceive
<1>3. update \in Update
  BY <1>2 DEF LInv, TypeOK, TxTypeOK
<1>4. now \in Time /\ update.final \in BOOLEAN
  BY <1>3 DEF Update, Time
<1>5. consumer.segStart \in Time /\ consumer.lastEnd \in Time /\ consumer.segStart <= consumer.lastEnd
      /\ LastBy(committed, consumer.segStart)
  BY <1>1, <1>2 DEF Consumer, Chained
<1>6. CASE now < consumer.lastEnd /\ ConsumerFails(consumer)
  <2>1. CursorTyped /\ Chained' /\ Quits(TRUE) /\ ~consumer'.flushed
    BY <1>1, <1>2, <1>6, Abandons
  <2>2. QED
    BY <1>2, <2>1 DEF Moves, Drains
<1>7. ASSUME now >= consumer.lastEnd, NEW n \in 0 .. MaxClauses, Len(committed) + n <= MaxSegments,
             EmitValidated(n, now, Advanced(update, n, now))
      PROVE  CursorTyped /\ Chained' /\ Moves /\ Drains
  <2> DEFINE cursor == Advanced(update, n, now)
  <2>1. Upto(now) = now /\ now \in Nat /\ consumer.lastEnd \in Nat /\ consumer.segStart \in Nat
    BY <1>4, <1>5, <1>7, LaneAssumption DEF Upto, Time, LaneAssumption
  <2>2. cursor = [consumer EXCEPT !.lastEnd = now, !.held = ~update.final,
                    !.segStart = IF update.final THEN now ELSE IF n > 0 THEN now ELSE @]
    BY <2>1 DEF Advanced
  <2>3. cursor \in Consumer /\ cursor.todo = {} /\ cursor.left = <<>> /\ ~cursor.flushed
        /\ cursor.lastEnd = now
        /\ cursor.segStart = IF update.final \/ n > 0 THEN now ELSE consumer.segStart
    BY <1>1, <1>2, <1>4, <2>2 DEF Consumer
  <2> HIDE DEF cursor
  <2>4. /\ consumer.segStart <= cursor.segStart /\ cursor.segStart <= cursor.lastEnd
        /\ n > 0 => Upto(now) <= cursor.segStart
    BY <1>5, <1>7, <2>1, <2>3
  <2>5. EmitValidated(n, now, cursor)
    BY <1>7 DEF cursor
  <2>6. /\ CursorTyped /\ Chained' /\ consumer'.flushed = cursor.flushed
        /\ \/ (Rests \/ Commits) /\ UNCHANGED <<in, gctx, groupErr>>
           \/ Quits(TRUE)
    BY <1>1, <1>2, <1>4, <1>7, <2>3, <2>4, <2>5, EmitKeeps
  <2>7. QED
    BY <1>1, <1>2, <2>3, <2>6 DEF Moves, Drains
<1>8. QED
  BY <1>6, <1>7 DEF Receive

\* The flush commits what the hypothesis still holds, once.
LEMMA FlushMoves ==
  ASSUME LInv, Flush
  PROVE  CursorTyped /\ Chained' /\ Moves /\ Drains
<1>1. TypeOK /\ Chained /\ consumer.pc = "receive" /\ consumer \in Consumer /\ ~consumer.flushed
      /\ consumer.todo = {} /\ consumer.left = <<>> /\ clock \in Time
      /\ events' = <<>> /\ tx.ended
  BY DEF LInv, Flow, TypeOK, Flush, Chained
<1>2. CASE tx.terminal /\ ConsumerFails(consumer)
  <2>1. CursorTyped /\ Chained' /\ Quits(TRUE) /\ ~consumer'.flushed
    BY <1>1, <1>2, Abandons
  <2>2. QED
    BY <1>1, <2>1 DEF Moves, Drains
<1>3. ASSUME ~tx.terminal, NEW n \in 0 .. MaxClauses, Len(committed) + n <= MaxSegments,
             EmitValidated(n, clock, [consumer EXCEPT !.flushed = TRUE])
      PROVE  CursorTyped /\ Chained' /\ Moves /\ Drains
  <2> DEFINE cursor == [consumer EXCEPT !.flushed = TRUE]
  <2>1. cursor \in Consumer /\ cursor.todo = {} /\ cursor.left = <<>> /\ cursor.flushed
    BY <1>1 DEF Consumer
  <2> HIDE DEF cursor
  <2>2. EmitValidated(n, clock, cursor)
    BY <1>3 DEF cursor
  <2>3. /\ CursorTyped /\ Chained' /\ consumer'.flushed = cursor.flushed
        /\ \/ (Rests \/ Commits) /\ UNCHANGED <<in, gctx, groupErr>>
           \/ Quits(TRUE)
    BY <1>1, <1>3, <2>1, <2>2, EmitKeeps
  <2>4. QED
    BY <1>1, <1>3, <2>1, <2>3 DEF Moves, Drains
<1>4. QED
  BY <1>2, <1>3 DEF Flush

\* The end of the transcription is the end of the consumer, or an error.
LEMMA EndMoves ==
  ASSUME LInv, ReceiveCancelled \/ ConsumeEnds
  PROVE  CursorTyped /\ Chained' /\ Moves /\ Drains
<1>1. TypeOK /\ Chained /\ consumer.pc = "receive" /\ consumer \in Consumer
      /\ consumer.todo = {} /\ consumer.left = <<>>
      /\ events' = events
      /\ (consumer.flushed => events = <<>> /\ tx.ended /\ ~tx.terminal)
  BY DEF LInv, Flow, TypeOK, ReceiveCancelled, ConsumeEnds, Chained, Ends
<1>2. CASE ReceiveCancelled
  <2>1. CursorTyped /\ Chained' /\ Quits(TRUE) /\ consumer'.flushed = consumer.flushed
    BY <1>1, <1>2, Abandons DEF ReceiveCancelled
  <2>2. QED
    BY <1>1, <2>1 DEF Moves, Drains
<1>3. CASE ConsumeEnds
  <2>1. consumer' = [consumer EXCEPT !.pc = "done"] /\ committed' = committed /\ Leave(FALSE)
        /\ consumer.flushed
    BY <1>3 DEF ConsumeEnds
  <2>2. consumer' \in Consumer /\ consumer'.pc = "done" /\ consumer'.todo = {}
        /\ consumer'.left = <<>> /\ consumer'.flushed
        /\ consumer'.segStart = consumer.segStart /\ consumer'.lastEnd = consumer.lastEnd
    BY <1>1, <2>1 DEF Consumer
  <2>3. Chained'
    BY <1>1, <2>1, <2>2 DEF Chained, Rising, EndsBy
  <2>4. CursorTyped
    BY <1>1, <2>1, <2>2 DEF CursorTyped, TypeOK, Span
  <2>5. QED
    BY <1>1, <2>1, <2>2, <2>3, <2>4 DEF Moves, Quits, Drains
<1>4. QED
  BY <1>2, <1>3

\* A send of the fan-out leaves the rest for the next step, or ends the segment.
LEMMA FanoutMoves ==
  ASSUME LInv, fanout
  PROVE  CursorTyped /\ Chained' /\ Moves /\ Drains
<1>1. TypeOK /\ Chained /\ consumer.pc = "fanout" /\ consumer \in Consumer
      /\ events' = events /\ (consumer.flushed => events = <<>> /\ tx.ended /\ ~tx.terminal)
  BY DEF LInv, Flow, TypeOK, fanout, Ends
<1> DEFINE cursor == [consumer EXCEPT !.todo = {}, !.left = <<>>]
<1>2. cursor \in Consumer /\ cursor.todo = {} /\ cursor.left = <<>>
      /\ cursor.flushed = consumer.flushed /\ cursor.segStart = consumer.segStart
      /\ cursor.lastEnd = consumer.lastEnd
  <2>1. <<>> \in Seq(Time \X Time)
    OBVIOUS
  <2>2. QED
    BY <1>1, <2>1 DEF Consumer
<1>3. CASE gctx /\ ConsumerFails(cursor)
  <2> HIDE DEF cursor
  <2>1. CursorTyped /\ Chained' /\ Quits(TRUE) /\ consumer'.flushed = consumer.flushed
    BY <1>1, <1>2, <1>3, Abandons
  <2>2. QED
    BY <1>1, <2>1 DEF Moves, Drains
<1>4. ASSUME NEW t \in consumer.todo, Sends(t), UNCHANGED <<gctx, groupErr>>, consumer.todo = {t},
             Fan(consumer.left, cursor)
      PROVE  CursorTyped /\ Chained' /\ Moves /\ Drains
  <2>1. committed \in Seq(Span) /\ consumer.left \in Seq(Span)
        /\ Len(committed) + Len(consumer.left) <= MaxSegments
    BY <1>1 DEF TypeOK, Consumer, Span
  <2>2. Rising(consumer.left) /\ (consumer.left # <<>> => LastBy(committed, consumer.left[1][1]))
    BY <1>1 DEF Chained
  <2> HIDE DEF cursor
  <2>3. Follows(cursor, consumer.left)
    BY <1>1, <1>2 DEF Follows, Chained
  <2>4. CursorTyped /\ Chained' /\ (Rests \/ Commits) /\ consumer'.flushed = consumer.flushed
    BY <1>2, <1>4, <2>1, <2>2, <2>3, FanKeeps
  <2>5. QED
    BY <1>1, <1>4, <2>4 DEF Moves, Drains
<1>5. ASSUME NEW t \in consumer.todo, Sends(t), UNCHANGED <<gctx, groupErr>>, consumer.todo # {t},
             consumer' = [consumer EXCEPT !.todo = @ \ {t}], committed' = committed
      PROVE  CursorTyped /\ Chained' /\ Moves /\ Drains
  <2>1. consumer' \in Consumer /\ consumer'.pc = "fanout" /\ consumer'.todo = consumer.todo \ {t}
        /\ consumer'.left = consumer.left /\ consumer'.flushed = consumer.flushed
        /\ consumer'.segStart = consumer.segStart /\ consumer'.lastEnd = consumer.lastEnd
    BY <1>1, <1>5 DEF Consumer
  <2>2. CursorTyped
    BY <1>1, <1>5, <2>1 DEF CursorTyped, TypeOK, Span
  <2>3. Chained'
    BY <1>1, <1>5, <2>1 DEF Chained
  <2>4. QED
    BY <1>1, <1>5, <2>1, <2>2, <2>3 DEF Moves, Waits, Drains
<1>6. CASE gctx /\ ConsumerFails([consumer EXCEPT !.todo = {}, !.left = <<>>])
  BY <1>3, <1>6
<1> HIDE DEF cursor
<1>7. CASE \E t \in consumer.todo :
             /\ Sends(t) /\ UNCHANGED <<gctx, groupErr>>
             /\ IF consumer.todo = {t}
                  THEN Fan(consumer.left, cursor)
                  ELSE /\ consumer' = [consumer EXCEPT !.todo = @ \ {t}]
                       /\ UNCHANGED committed
  BY <1>4, <1>5, <1>7
<1>8. QED
  BY <1>6, <1>7 DEF fanout, Sends, cursor

\* Every step of the consumer is one of these moves.
LEMMA ConsumerMoves ==
  ASSUME LInv, Consume
  PROVE  /\ CursorTyped /\ Chained' /\ Moves /\ Drains /\ ConsumerUnchanged /\ UNCHANGED tx
         /\ consumer.pc \in {"receive", "fanout"} /\ events' \in {events, Tail(events)}
         /\ events' # events => events # <<>>
BY ReceiveMoves, FlushMoves, EndMoves, FanoutMoves
DEF Consume, Receive, TxReceive, ReceiveCancelled, Flush, ConsumeEnds, fanout

-----------------------------------------------------------------------------
(* Types.                                                                  *)

StagePc == {"off", "take", "translate", "send", "done"}

VoicePc == {"off", "take", "speak", "join", "done"}

\* A stage, a voice loop and a queue keep their types in each of their steps.
LEMMA StageTyped ==
  ASSUME TypeOK, NEW t \in Target, NEW pc \in StagePc, NEW seg \in Segment \cup {None},
         NEW failed \in BOOLEAN
  PROVE  /\ [stage EXCEPT ![t].pc = pc] \in [Target -> Stage]
         /\ [stage EXCEPT ![t].pc = pc, ![t].seg = seg] \in [Target -> Stage]
         /\ [stage EXCEPT ![t].pc = pc, ![t].seg = seg, ![t].failed = failed] \in [Target -> Stage]
<1>1. \A a \in Stage : /\ [a EXCEPT !.pc = pc] \in Stage
                       /\ [a EXCEPT !.pc = pc, !.seg = seg] \in Stage
                       /\ [a EXCEPT !.pc = pc, !.seg = seg, !.failed = failed] \in Stage
  BY DEF Stage, StagePc
<1>2. QED
  BY <1>1 DEF TypeOK

LEMMA VoiceTyped ==
  ASSUME TypeOK, NEW t \in Target, NEW pc \in VoicePc, NEW seg \in Segment \cup {None},
         NEW failed \in BOOLEAN
  PROVE  /\ [voice EXCEPT ![t].pc = pc] \in [Target -> Voice]
         /\ [voice EXCEPT ![t].pc = pc, ![t].seg = seg] \in [Target -> Voice]
         /\ [voice EXCEPT ![t].pc = pc, ![t].seg = seg, ![t].failed = failed] \in [Target -> Voice]
<1>1. \A a \in Voice : /\ [a EXCEPT !.pc = pc] \in Voice
                       /\ [a EXCEPT !.pc = pc, !.seg = seg] \in Voice
                       /\ [a EXCEPT !.pc = pc, !.seg = seg, !.failed = failed] \in Voice
  BY DEF Voice, VoicePc
<1>2. QED
  BY <1>1 DEF TypeOK

\* A channel of each target, no fuller than it may be.
Queues(c) == c \in [Target -> Channel] /\ \A t \in Target : Len(c[t].queue) <= TargetQueue

LEMMA QueuesTyped ==
  ASSUME NEW c, Queues(c), NEW t \in Target
  PROVE  /\ Queues([c EXCEPT ![t].closed = TRUE])
         /\ Queues([u \in Target |-> [c[u] EXCEPT !.closed = TRUE]])
         /\ c[t].queue # <<>> => Queues([c EXCEPT ![t].queue = Tail(@)])
         /\ \A seg \in Segment : Room(c[t]) => Queues([c EXCEPT ![t] = Send(@, seg)])
<1>1. \A a \in Channel : a.queue \in Seq(Segment) /\ a.closed \in BOOLEAN
  BY DEF Channel
<1>2. \A a \in Channel : [a EXCEPT !.closed = TRUE] \in Channel
        /\ [a EXCEPT !.closed = TRUE].queue = a.queue
  BY DEF Channel
<1>3. ASSUME NEW a \in Channel, NEW q \in Seq(Segment)
      PROVE  [a EXCEPT !.queue = q] \in Channel /\ [a EXCEPT !.queue = q].queue = q
  BY DEF Channel
<1>4. ASSUME c[t].queue # <<>>
      PROVE  Tail(c[t].queue) \in Seq(Segment) /\ Len(Tail(c[t].queue)) <= TargetQueue
  <2>1. c[t].queue \in Seq(Segment) /\ Len(c[t].queue) <= TargetQueue
    BY <1>1 DEF Queues
  <2>2. Tail(c[t].queue) \in Seq(Segment) /\ Len(Tail(c[t].queue)) = Len(c[t].queue) - 1
    BY <1>4, <2>1
  <2>3. QED
    BY <2>1, <2>2, LaneAssumption DEF LaneAssumption
<1>5. ASSUME NEW seg \in Segment, Room(c[t])
      PROVE  Append(c[t].queue, seg) \in Seq(Segment) /\ Len(Append(c[t].queue, seg)) <= TargetQueue
  <2>1. c[t].queue \in Seq(Segment) /\ Len(c[t].queue) < TargetQueue
    BY <1>1, <1>5 DEF Queues, Room
  <2>2. QED
    BY <2>1, LaneAssumption DEF LaneAssumption
<1>6. Queues([c EXCEPT ![t].closed = TRUE])
      /\ Queues([u \in Target |-> [c[u] EXCEPT !.closed = TRUE]])
  BY <1>2 DEF Queues
<1>7. ASSUME NEW q \in Seq(Segment), Len(q) <= TargetQueue
      PROVE  Queues([c EXCEPT ![t] = [c[t] EXCEPT !.queue = q]])
  BY <1>3, <1>7 DEF Queues
<1>8. ASSUME c[t].queue # <<>> PROVE Queues([c EXCEPT ![t].queue = Tail(@)])
  <2>1. [c EXCEPT ![t].queue = Tail(@)] = [c EXCEPT ![t] = [c[t] EXCEPT !.queue = Tail(c[t].queue)]]
    OBVIOUS
  <2>2. QED
    BY <1>4, <1>7, <1>8, <2>1
<1>9. ASSUME NEW seg \in Segment, Room(c[t]) PROVE Queues([c EXCEPT ![t] = Send(@, seg)])
  BY <1>5, <1>7, <1>9 DEF Send
<1>10. QED
  BY <1>6, <1>8, <1>9

\* The calls of the transcription keep its type.
LEMMA CallsTyped ==
  ASSUME TxTypeOK, gctx' \in BOOLEAN,
         \/ TxOpen \/ TxPush \/ TxCloseSend \/ TxReceive \/ TxClose
         \/ TxOpened \/ TxRefused \/ TxPushed \/ TxPushFailed \/ TxClosed \/ TxOwn
         \/ UNCHANGED <<tx, events>>
  PROVE  TxTypeOK'
<1>1. CASE TxOpen \/ TxClose \/ TxOpened \/ TxRefused \/ TxClosed
  BY <1>1 DEF TxOpen, TxClose, TxOpened, TxRefused, TxClosed, TxTypeOK
<1>2. CASE TxPush \/ TxCloseSend \/ TxPushed \/ TxPushFailed
  <2>1. CASE TxPush
    <3>1. tx.pushed + 1 \in 0 .. MaxFrames
      BY <2>1, LaneAssumption DEF TxPush, TxTypeOK, LaneAssumption
    <3>2. tx' = [tx EXCEPT !.push = "busy", !.pushed = tx.pushed + 1] /\ events' = events
      BY <2>1 DEF TxPush
    <3> HIDE DEF TxPush
    <3>3. QED
      BY <3>1, <3>2 DEF TxTypeOK
  <2>2. CASE TxCloseSend \/ TxPushed \/ TxPushFailed
    BY <2>2 DEF TxCloseSend, TxPushed, TxPushFailed, TxTypeOK
  <2>3. QED
    BY <1>2, <2>1, <2>2
<1>3. CASE TxReceive
  BY <1>3, LaneAssumption DEF TxReceive, TxTypeOK, LaneAssumption
<1>4. CASE TxOwn
  <2>1. ASSUME NEW u \in Update, TxUpdate(u) PROVE TxTypeOK'
    BY <2>1, LaneAssumption DEF TxUpdate, TxTypeOK, LaneAssumption
  <2>2. ASSUME NEW terminal \in BOOLEAN, TxEnd(terminal) PROVE TxTypeOK'
    BY <2>2 DEF TxEnd, TxTypeOK
  <2>3. CASE TxDone
    BY <2>3 DEF TxDone, TxTypeOK
  <2>4. QED
    BY <1>4, <2>1, <2>2, <2>3 DEF TxOwn
<1>5. CASE UNCHANGED <<tx, events>>
  BY <1>5 DEF TxTypeOK
<1>6. QED
  BY <1>1, <1>2, <1>3, <1>4, <1>5

\* The rest of the type invariant, by what its parts speak of.
ControlTyped ==
  /\ told \in BOOLEAN /\ groupErr \in BOOLEAN
  /\ main \in {"open", "opening", "run", "close", "closing", "returned"}
  /\ result \in {"none", "ok", "err"}
  /\ source \in [read : 0 .. MaxFrames, closed : BOOLEAN]
  /\ pump \in {"off", "next", "push", "done"}
  /\ clock \in Time

TargetsTyped ==
  /\ Queues(in) /\ Queues(jobs)
  /\ stage \in [Target -> Stage] /\ voice \in [Target -> Voice]
  /\ cut \in [Target -> BOOLEAN]
  /\ captions \in [Target -> Seq(Segment)] /\ takes \in [Target -> Seq(Segment)]

Cursor ==
  /\ consumer \in Consumer
  /\ committed \in Seq(Span) /\ Len(committed) + Len(consumer.left) <= MaxSegments

\* The type invariant in the parts that different steps disturb.
LEMMA TypeParts == TypeOK <=> TxTypeOK /\ ControlTyped /\ TargetsTyped /\ Cursor
BY DEF TypeOK, ControlTyped, TargetsTyped, Cursor, Queues, Span

LEMMA TypePartsNext == TypeOK' <=> TxTypeOK' /\ ControlTyped' /\ TargetsTyped' /\ Cursor'
BY DEF TypeOK, ControlTyped, TargetsTyped, Cursor, Queues, Span

\* A segment at work is one that was committed.
LEMMA AtWork ==
  ASSUME LInv, NEW t \in Target
  PROVE  /\ stage[t].pc = "translate" => stage[t].seg \in Segment /\ stage[t].seg = Len(captions[t]) + 1
         /\ stage[t].pc = "send" => t \in Voiced /\ stage[t].seg \in Segment
         /\ voice[t].pc = "speak" => t \in Voiced /\ voice[t].seg \in Segment
                                     /\ voice[t].seg = Len(takes[t]) + 1
<1>1. /\ stage[t].seg \in Segment \cup {None} /\ voice[t].seg \in Segment \cup {None}
      /\ captions[t] \in Seq(Segment) /\ takes[t] \in Seq(Segment)
  BY DEF LInv, TypeOK, Stage, Voice
<1>2. Len(captions[t]) \in Nat /\ Len(takes[t]) \in Nat /\ (captions[t] # <<>> => Len(captions[t]) # 0)
  BY <1>1
<1>3. FailuresAt(t) /\ CaptionedAt(t) /\ (t \in Voiced => SpokenAt(t))
  BY DEF LInv, Flow, Failures, Captioned, AllSpoken
<1>4. stage[t].failed \in BOOLEAN /\ voice[t].failed \in BOOLEAN
  BY DEF LInv, TypeOK, Stage, Voice
<1>5. ASSUME stage[t].pc = "translate"
      PROVE  stage[t].seg \in Segment /\ stage[t].seg = Len(captions[t]) + 1
  BY <1>1, <1>2, <1>3, <1>5 DEF FailuresAt, CaptionedAt, Begun, None
<1>6. ASSUME stage[t].pc = "send" PROVE t \in Voiced /\ stage[t].seg \in Segment
  BY <1>1, <1>2, <1>3, <1>6 DEF FailuresAt, SpokenAt, None
<1>7. ASSUME voice[t].pc = "speak"
      PROVE  t \in Voiced /\ voice[t].seg \in Segment /\ voice[t].seg = Len(takes[t]) + 1
  BY <1>1, <1>2, <1>3, <1>7 DEF FailuresAt, SpokenAt, Begot, None
<1>8. QED
  BY <1>5, <1>6, <1>7

\* The type of the calls and of Run is kept by every step.
LEMMA CallsTypedStep ==
  ASSUME LInv, [Next]_vars
  PROVE  TxTypeOK' /\ ControlTyped'
<1>1. TxTypeOK /\ ControlTyped /\ gctx \in BOOLEAN
  BY TypeParts DEF LInv, TxTypeOK
<1>2. CASE Cancel \/ closeForCancel \/ Idle \/ UNCHANGED vars
  <2>1. TxTypeOK'
    <3>1. UNCHANGED <<tx, events>> /\ gctx' \in BOOLEAN
      BY <1>1, <1>2 DEF Cancel, closeForCancel, Idle, vars, txVars
    <3>2. QED
      BY <1>1, <3>1, CallsTyped
  <2>2. CASE Cancel
    BY <1>1, <2>1, <2>2 DEF Cancel, ControlTyped
  <2>3. CASE closeForCancel
    <3>1. /\ UNCHANGED <<told, groupErr, main, result, pump, clock>>
          /\ source' = [source EXCEPT !.closed = TRUE]
      BY <2>3 DEF closeForCancel, CloseSource
    <3>2. QED
      BY <1>1, <2>1, <3>1 DEF ControlTyped
  <2>4. CASE Idle \/ UNCHANGED vars
    BY <1>1, <2>1, <2>4 DEF Idle, vars, laneVars, ControlTyped
  <2>5. QED
    BY <1>2, <2>1, <2>2, <2>3, <2>4
<1>3. CASE Run
  <2>1. TxTypeOK'
    <3>1. gctx' \in BOOLEAN
      BY <1>1, <1>3 DEF Run, Open, Opened, OpenFails, Wait, Close
    <3>2. TxOpen \/ TxRefused \/ TxOpened \/ TxClose \/ TxClosed \/ UNCHANGED <<tx, events>>
      BY <1>3 DEF Run, Open, Opened, OpenFails, Wait, Close
    <3>3. QED
      BY <1>1, <3>1, <3>2, CallsTyped
  <2>2. ControlTyped'
    BY <1>1, <1>3 DEF Run, Open, Opened, OpenFails, Wait, Close, CloseSource, RunUnchanged, ControlTyped
  <2>3. QED
    BY <2>1, <2>2
<1>4. CASE Pump
  <2>1. gctx' \in BOOLEAN
    BY <1>1, <1>4 DEF Pump, NextFrame, NextEOF, NextFails, Push, Returns
  <2>2. TxPush \/ TxCloseSend \/ TxPushed \/ TxPushFailed \/ UNCHANGED <<tx, events>>
    BY <1>4 DEF Pump, NextFrame, NextEOF, NextFails, Push
  <2>3. TxTypeOK'
    BY <1>1, <2>1, <2>2, CallsTyped
  <2>4. ASSUME NextFrame PROVE ControlTyped'
    <3>1. source' \in [read : 0 .. MaxFrames, closed : BOOLEAN] /\ clock' \in Time
      <4>1. source.read + 1 \in 0 .. MaxFrames /\ source.read \in 0 .. MaxFrames
        BY <1>1, <2>4, LaneAssumption DEF NextFrame, ControlTyped, LaneAssumption
      <4>2. source' = [source EXCEPT !.read = source.read + 1] /\ clock' = source.read
        BY <2>4 DEF NextFrame
      <4>3. QED
        BY <1>1, <4>1, <4>2 DEF ControlTyped, Time
    <3>2. QED
      BY <1>1, <2>4, <3>1 DEF NextFrame, Returns, PumpUnchanged, ControlTyped
  <2>5. ASSUME NextEOF \/ NextFails \/ Push PROVE ControlTyped'
    BY <1>1, <2>5 DEF NextEOF, NextFails, Push, Returns, PumpUnchanged, ControlTyped
  <2>6. QED
    BY <1>4, <2>3, <2>4, <2>5 DEF Pump
<1>5. CASE Consume
  <2>1. Moves /\ ConsumerUnchanged /\ UNCHANGED tx /\ (TxReceive \/ UNCHANGED <<tx, events>>)
    BY <1>5, ConsumerMoves DEF Consume, Receive, ReceiveCancelled, Flush, ConsumeEnds, fanout
  <2>2. gctx' \in BOOLEAN /\ groupErr' \in BOOLEAN
    BY <1>1, <2>1 DEF Moves, Quits, Leave, Returns, ControlTyped
  <2>3. QED
    BY <1>1, <2>1, <2>2, CallsTyped DEF ConsumerUnchanged, ControlTyped
<1>6. ASSUME NEW t \in Target, Serve(t) PROVE TxTypeOK' /\ ControlTyped'
  <2>1. TargetUnchanged
    BY <1>6 DEF Serve, Take, TakeEnds, Caption, TranslateFails, SendJob, TakeJob, Speak, VoiceEnds, Join
  <2>2. stage[t].failed \in BOOLEAN /\ voice[t].failed \in BOOLEAN
    BY DEF LInv, TypeOK, Stage, Voice
  <2>3. gctx' \in BOOLEAN /\ groupErr' \in BOOLEAN
    BY <1>1, <1>6, <2>2 DEF Serve, Take, TakeEnds, Caption, TranslateFails, SendJob, TakeJob, Speak,
       VoiceEnds, Join, StageReturns, Returns, ControlTyped
  <2>4. QED
    BY <1>1, <2>1, <2>3, CallsTyped DEF TargetUnchanged, ControlTyped
<1>7. CASE Session
  BY <1>1, <1>7, CallsTyped DEF Session, laneVars, ControlTyped
<1>8. QED
  BY <1>2, <1>3, <1>4, <1>5, <1>6, <1>7 DEF Next

\* So is the type of the targets and of the cursor.
LEMMA TargetsTypedStep ==
  ASSUME LInv, [Next]_vars
  PROVE  TargetsTyped' /\ Cursor'
<1>1. TargetsTyped /\ Cursor
  BY TypeParts DEF LInv
<1>2. CASE Cancel \/ closeForCancel \/ Idle \/ UNCHANGED vars \/ Session \/ Pump
  BY <1>1, <1>2 DEF Cancel, closeForCancel, Idle, vars, laneVars, Session,
     Pump, NextFrame, NextEOF, NextFails, Push, PumpUnchanged, TargetsTyped, Cursor
<1>3. CASE Run
  <2>1. CASE Opened
    <3>1. stage' \in [Target -> Stage]
      <4>1. \A a \in Stage : [a EXCEPT !.pc = "take"] \in Stage
        BY DEF Stage
      <4>2. QED
        BY <1>1, <2>1, <4>1 DEF Opened, TargetsTyped
    <3>2. voice' \in [Target -> Voice]
      <4>1. \A a \in Voice : [a EXCEPT !.pc = "take"] \in Voice /\ [a EXCEPT !.pc = "done"] \in Voice
        BY DEF Voice
      <4>2. QED
        BY <1>1, <2>1, <4>1 DEF Opened, TargetsTyped
    <3>3. consumer' \in Consumer /\ consumer'.left = consumer.left
      BY <1>1, <2>1 DEF Opened, Cursor, Consumer
    <3>4. QED
      BY <1>1, <2>1, <3>1, <3>2, <3>3 DEF Opened, RunUnchanged, TargetsTyped, Cursor
  <2>2. CASE Open \/ OpenFails \/ Wait \/ Close
    BY <1>1, <2>2 DEF Open, OpenFails, Wait, Close, RunUnchanged, TargetsTyped, Cursor
  <2>3. QED
    BY <1>3, <2>1, <2>2 DEF Run
<1>4. CASE Consume
  <2>1. CursorTyped /\ Moves /\ ConsumerUnchanged
    BY <1>4, ConsumerMoves
  <2>2. Queues(in')
    <3>1. CASE in' = in
      BY <1>1, <3>1 DEF TargetsTyped
    <3>2. CASE in' = [t \in Target |-> [in[t] EXCEPT !.closed = TRUE]]
      <4>1. Target # {} => Queues([u \in Target |-> [in[u] EXCEPT !.closed = TRUE]])
        BY <1>1, QueuesTyped DEF TargetsTyped
      <4>2. Target = {} => Queues(in')
        BY <3>2 DEF Queues
      <4>3. QED
        BY <3>2, <4>1, <4>2
    <3>3. ASSUME NEW t \in consumer.todo, Sends(t) PROVE Queues(in')
      <4>1. t \in Target /\ Len(committed) \in Segment
        <5>1. consumer.todo # {} => consumer.pc = "fanout"
          BY DEF LInv, Flow, Chained
        <5>2. committed # <<>>
          BY <3>3, <5>1 DEF LInv, Flow, Chained
        <5>3. Len(committed) \in Nat \ {0} /\ Len(consumer.left) \in Nat
          BY <1>1, <5>2 DEF Cursor, Consumer
        <5>4. QED
          BY <1>1, <5>3, LaneAssumption DEF Cursor, Consumer, Segment, LaneAssumption
      <4>2. QED
        BY <1>1, <3>3, <4>1, QueuesTyped DEF TargetsTyped, Sends
    <3>4. QED
      BY <2>1, <3>1, <3>2, <3>3 DEF Moves, Quits, Leave
  <2>3. QED
    BY <1>1, <2>1, <2>2 DEF ConsumerUnchanged, TargetsTyped, CursorTyped, Cursor
<1>5. ASSUME NEW t \in Target, Serve(t) PROVE TargetsTyped' /\ Cursor'
  <2> USE <1>1 DEF StagePc, VoicePc
  <2>1. TypeOK /\ Queues(in) /\ Queues(jobs) /\ None \in Segment \cup {None}
    BY DEF LInv, TargetsTyped
  <2>2. Cursor'
    BY <1>5 DEF Serve, Take, TakeEnds, Caption, TranslateFails, SendJob, TakeJob, Speak,
       VoiceEnds, Join, TargetUnchanged, Cursor
  <2>3. ASSUME NEW failed \in BOOLEAN, StageReturns(t, failed)
        PROVE  stage' \in [Target -> Stage] /\ Queues(jobs')
    <3>1. [stage EXCEPT ![t].pc = "done", ![t].seg = None, ![t].failed = failed] \in [Target -> Stage]
      BY <2>1, StageTyped
    <3>2. Queues([jobs EXCEPT ![t].closed = TRUE])
      BY <2>1, QueuesTyped
    <3>3. QED
      BY <2>1, <2>3, <3>1, <3>2 DEF StageReturns
  <2>4. CASE Take(t)
    <3>1. in[t].queue \in Seq(Segment) /\ in[t].queue # <<>>
      BY <2>4 DEF Take, TargetsTyped, Queues, Channel
    <3>2. Head(in[t].queue) \in Segment
      BY <3>1
    <3>3. stage' \in [Target -> Stage] /\ Queues(in')
      BY <2>1, <2>4, <3>2, StageTyped, QueuesTyped DEF Take
    <3>4. QED
      BY <2>2, <2>4, <3>3 DEF Take, TargetsTyped
  <2>5. CASE TakeEnds(t) \/ TranslateFails(t)
    BY <2>2, <2>3, <2>5 DEF TakeEnds, TranslateFails, TargetsTyped
  <2>6. CASE Caption(t)
    <3>1. stage[t].seg \in Segment
      BY <2>6, AtWork DEF Caption
    <3>2. captions' \in [Target -> Seq(Segment)]
      <4>1. captions[t] \in Seq(Segment)
        BY DEF TargetsTyped
      <4>2. Append(captions[t], stage[t].seg) \in Seq(Segment)
        BY <3>1, <4>1
      <4>3. QED
        BY <2>6, <4>2 DEF Caption, TargetsTyped
    <3>3. stage' \in [Target -> Stage]
      BY <2>1, <2>6, StageTyped DEF Caption
    <3>4. QED
      BY <2>2, <2>6, <3>2, <3>3 DEF Caption, TargetsTyped
  <2>7. CASE SendJob(t)
    <3>1. stage[t].seg \in Segment
      BY <2>7, AtWork DEF SendJob
    <3>2. stage' \in [Target -> Stage] /\ Queues(jobs')
      <4>1. [stage EXCEPT ![t].pc = "take", ![t].seg = None] \in [Target -> Stage]
        BY <2>1, StageTyped
      <4>2. Room(jobs[t]) => Queues([jobs EXCEPT ![t] = Send(@, stage[t].seg)])
        BY <2>1, <3>1, QueuesTyped
      <4>3. CASE StageReturns(t, TRUE)
        BY <2>3, <4>3
      <4>4. QED
        BY <2>7, <4>1, <4>2, <4>3 DEF SendJob
    <3>3. QED
      BY <2>2, <2>7, <3>2 DEF SendJob, TargetsTyped
  <2>8. CASE TakeJob(t)
    <3>1. jobs[t].queue \in Seq(Segment) /\ jobs[t].queue # <<>>
      BY <2>8 DEF TakeJob, TargetsTyped, Queues, Channel
    <3>2. Head(jobs[t].queue) \in Segment
      BY <3>1
    <3>3. voice' \in [Target -> Voice] /\ Queues(jobs')
      BY <2>1, <2>8, <3>2, VoiceTyped, QueuesTyped DEF TakeJob
    <3>4. QED
      BY <2>2, <2>8, <3>3 DEF TakeJob, TargetsTyped
  <2>9. CASE Speak(t)
    <3>1. voice[t].seg \in Segment
      BY <2>9, AtWork DEF Speak
    <3>2. takes' \in [Target -> Seq(Segment)]
      <4>1. takes[t] \in Seq(Segment)
        BY DEF TargetsTyped
      <4>2. Append(takes[t], voice[t].seg) \in Seq(Segment)
        BY <3>1, <4>1
      <4>3. QED
        BY <2>9, <4>2 DEF Speak, TargetsTyped
    <3>3. voice' \in [Target -> Voice]
      BY <2>1, <2>9, VoiceTyped DEF Speak
    <3>4. QED
      BY <2>2, <2>9, <3>2, <3>3 DEF Speak, TargetsTyped
  <2>10. CASE VoiceEnds(t) \/ Join(t)
    <3>1. voice' \in [Target -> Voice] /\ cut' \in [Target -> BOOLEAN]
      <4>1. /\ [voice EXCEPT ![t].pc = "join", ![t].seg = None, ![t].failed = TRUE] \in [Target -> Voice]
            /\ [voice EXCEPT ![t].pc = "join"] \in [Target -> Voice]
            /\ [voice EXCEPT ![t].pc = "done"] \in [Target -> Voice]
        BY <2>1, VoiceTyped
      <4>2. QED
        BY <2>10, <4>1 DEF VoiceEnds, Join, TargetsTyped
    <3>2. QED
      BY <2>2, <2>10, <3>1 DEF VoiceEnds, Join, TargetsTyped
  <2>11. QED
    BY <1>5, <2>4, <2>5, <2>6, <2>7, <2>8, <2>9, <2>10 DEF Serve
<1>6. QED
  BY <1>2, <1>3, <1>4, <1>5 DEF Next

\* The type invariant is inductive under the lane's invariant.
LEMMA TypeStep ==
  ASSUME LInv, [Next]_vars
  PROVE  TypeOK'
BY CallsTypedStep, TargetsTypedStep, TypePartsNext

-----------------------------------------------------------------------------
(* Run and its goroutines.                                                 *)

\* What the calls of the goroutines and the session's own steps leave alone.
LEMMA CallsKeepOpen ==
  ASSUME TypeOK, TxPush \/ TxCloseSend \/ TxReceive \/ TxPushed \/ TxPushFailed \/ TxOwn
                 \/ UNCHANGED <<tx, events>>
  PROVE  /\ tx'.open = tx.open /\ tx'.close = tx.close /\ (tx.done => tx'.done)
         /\ tx.sent => tx'.sent
         /\ tx.ended => tx'.ended /\ tx'.terminal = tx.terminal
BY DEF TypeOK, TxTypeOK, TxPush, TxCloseSend, TxReceive, TxPushed, TxPushFailed, TxOwn, TxUpdate,
   TxEnd, TxDone

\* Open, Wait and Close of Run come in order with the calls on the transcription.
LEMMA OpeningStep ==
  ASSUME LInv, [Next]_vars
  PROVE  Opening'
<1>1. TypeOK /\ Opening
  BY DEF LInv, Flow
<1>2. CASE Cancel \/ Idle \/ UNCHANGED vars
  BY <1>1, <1>2 DEF Cancel, Idle, vars, txVars, laneVars, Opening
<1>3. CASE closeForCancel
  BY <1>1, <1>3 DEF closeForCancel, CloseSource, txVars, Opening, TypeOK
<1>4. CASE Open
  BY <1>1, <1>4 DEF Open, TxOpen, TxRefused, CloseSource, Opening, TypeOK, TxTypeOK
<1>5. CASE Opened
  BY <1>1, <1>5 DEF Opened, TxOpened, Opening, TypeOK, TxTypeOK
<1>6. CASE OpenFails
  BY <1>1, <1>6 DEF OpenFails, TxRefused, CloseSource, Opening, TypeOK, TxTypeOK
<1>7. CASE Wait
  BY <1>1, <1>7 DEF Wait, Opening
<1>8. CASE Close
  BY <1>1, <1>8 DEF Close, TxClose, TxClosed, CloseSource, Opening, TypeOK, TxTypeOK
<1>9. CASE Pump
  <2>1. source'.closed = source.closed /\ main' = main /\ result' = result
    BY <1>1, <1>9 DEF Pump, NextFrame, NextEOF, NextFails, Push, PumpUnchanged, TypeOK
  <2>2. TxPush \/ TxCloseSend \/ TxPushed \/ TxPushFailed \/ UNCHANGED <<tx, events>>
    BY <1>9 DEF Pump, NextFrame, NextEOF, NextFails, Push
  <2>3. QED
    BY <1>1, <2>1, <2>2, CallsKeepOpen DEF Opening
<1>10. CASE Consume \/ (\E t \in Target : Serve(t)) \/ Session
  <2>1. UNCHANGED <<source, main, result>>
    BY <1>10, ConsumerMoves DEF ConsumerUnchanged, Serve, Take, TakeEnds, Caption, TranslateFails,
       SendJob, TakeJob, Speak, VoiceEnds, Join, TargetUnchanged, Session, laneVars
  <2>2. UNCHANGED tx \/ TxOwn
    BY <1>10, ConsumerMoves DEF Serve, Take, TakeEnds, Caption, TranslateFails,
       SendJob, TakeJob, Speak, VoiceEnds, Join, TargetUnchanged, Session
  <2>3. tx'.open = tx.open /\ tx'.close = tx.close /\ (tx.done => tx'.done)
    BY <1>1, <2>2, CallsKeepOpen
  <2>4. QED
    BY <1>1, <2>1, <2>3 DEF Opening
<1>11. QED
  BY <1>2, <1>3, <1>4, <1>5, <1>6, <1>7, <1>8, <1>9, <1>10 DEF Next, Run

\* The goroutines start when Run has opened, and are done when its wait is.
LEMMA JoinedStep ==
  ASSUME LInv, [Next]_vars
  PROVE  Joined'
<1>1. TypeOK /\ Opening /\ Joined /\ Failures
  BY DEF LInv, Flow
<1>2. CASE Cancel \/ closeForCancel \/ Idle \/ UNCHANGED vars
  BY <1>1, <1>2 DEF Cancel, closeForCancel, txVars, Idle, vars, laneVars, Joined, GroupDone
<1>3. CASE Open \/ OpenFails
  BY <1>1, <1>3 DEF Open, OpenFails, RunUnchanged, TxOpen, TxRefused, Opening, Joined, TypeOK, TxTypeOK
<1>4. CASE Opened
  <2>1. tx'.open = "yes" /\ main' = "run"
    BY <1>1, <1>4 DEF Opened, TxOpened, TypeOK, TxTypeOK
  <2>2. \A t \in Voiced : voice'[t].pc = "take"
    BY <1>1, <1>4, LaneAssumption DEF Opened, TypeOK, Voice, LaneAssumption
  <2>3. QED
    BY <2>1, <2>2 DEF Joined
<1>5. CASE Wait \/ Close
  BY <1>1, <1>5 DEF Wait, Close, RunUnchanged, TxClose, TxClosed, Opening, Joined, GroupDone, TypeOK, TxTypeOK
<1>6. CASE Pump
  <2>1. TxPush \/ TxCloseSend \/ TxPushed \/ TxPushFailed \/ UNCHANGED <<tx, events>>
    BY <1>6 DEF Pump, NextFrame, NextEOF, NextFails, Push
  <2>2. tx'.open = tx.open
    BY <1>1, <2>1, CallsKeepOpen
  <2>3. pump \in {"next", "push"} /\ UNCHANGED <<main, consumer, stage, voice>>
    BY <1>6 DEF Pump, NextFrame, NextEOF, NextFails, Push, PumpUnchanged
  <2>4. QED
    BY <1>1, <2>2, <2>3 DEF Joined, GroupDone
<1>7. CASE Consume
  <2>1. consumer.pc \in {"receive", "fanout"} /\ UNCHANGED <<tx, main, pump, stage, voice>>
    BY <1>7, ConsumerMoves DEF ConsumerUnchanged
  <2>2. QED
    BY <1>1, <2>1 DEF Joined, GroupDone
<1>8. ASSUME NEW t \in Target, Serve(t) PROVE Joined'
  <2>1. UNCHANGED <<tx, main, pump, consumer>>
    BY <1>8 DEF Serve, Take, TakeEnds, Caption, TranslateFails,
       SendJob, TakeJob, Speak, VoiceEnds, Join, TargetUnchanged
  <2>2. \/ stage[t].pc \in {"take", "translate", "send"} /\ UNCHANGED voice
        \/ voice[t].pc \in {"take", "speak", "join"} /\ UNCHANGED stage
    BY <1>8 DEF Serve, Take, TakeEnds, Caption, TranslateFails,
       SendJob, TakeJob, Speak, VoiceEnds, Join
  <2>3. tx.open = "yes" /\ main = "run"
    BY <1>1, <2>2 DEF Joined, GroupDone, FailuresAt, Failures
  <2>4. \A u \in Voiced : voice'[u].pc = "done" => stage'[u].pc = "done"
    <3>1. CASE stage[t].pc # "done" /\ UNCHANGED voice
      <4>1. \A u \in Target : u # t => stage'[u] = stage[u]
        BY <1>1, <1>8, <3>1 DEF Serve, Take, TakeEnds, Caption, TranslateFails, StageReturns,
           SendJob, TakeJob, Speak, VoiceEnds, Join, TypeOK
      <4>2. t \in Voiced => voice[t].pc # "done"
        BY <1>1, <3>1 DEF Joined
      <4>3. QED
        BY <1>1, <3>1, <4>1, <4>2, LaneAssumption DEF Joined, LaneAssumption
    <3>2. CASE UNCHANGED stage
      <4>1. voice[t] \in Voice /\ voice \in [Target -> Voice]
        BY <1>1 DEF TypeOK
      <4>2. UNCHANGED voice \/ TakeJob(t) \/ Speak(t) \/ VoiceEnds(t) \/ Join(t)
        BY <1>8 DEF Serve, Take, TakeEnds, Caption, TranslateFails, SendJob
      <4>3. CASE TakeJob(t) \/ Speak(t) \/ VoiceEnds(t)
        <5>1. voice'[t].pc # "done" /\ \A u \in Target : u # t => voice'[u] = voice[u]
          BY <4>1, <4>3 DEF TakeJob, Speak, VoiceEnds, Voice
        <5>2. QED
          BY <1>1, <3>2, <5>1, LaneAssumption DEF Joined, LaneAssumption
      <4>4. CASE Join(t)
        <5>1. stage[t].pc = "done" /\ \A u \in Target : u # t => voice'[u] = voice[u]
          BY <4>1, <4>4 DEF Join
        <5>2. QED
          BY <1>1, <3>2, <5>1, LaneAssumption DEF Joined, LaneAssumption
      <4>5. QED
        BY <1>1, <3>2, <4>2, <4>3, <4>4 DEF Joined
    <3>3. QED
      BY <2>2, <3>1, <3>2
  <2>5. QED
    BY <2>1, <2>3, <2>4 DEF Joined
<1>9. CASE Session
  <2>1. tx'.open = tx.open
    BY <1>1, <1>9, CallsKeepOpen DEF Session
  <2>2. QED
    BY <1>1, <1>9, <2>1 DEF Session, laneVars, Joined, GroupDone
<1>10. QED
  BY <1>2, <1>3, <1>4, <1>5, <1>6, <1>7, <1>8, <1>9 DEF Next, Run

-----------------------------------------------------------------------------
(* Ends and failures.                                                      *)

\* A failure that is known to the group is not forgotten.
LEMMA ErrorsStay ==
  ASSUME LInv, [Next]_vars
  PROVE  groupErr => groupErr'
<1>1. CASE Consume
  BY <1>1, ConsumerMoves DEF Moves, Quits, Leave, Returns
<1>2. CASE ~Consume
  BY <1>2 DEF Next, Cancel, closeForCancel, Idle, vars, laneVars, Session, Run, Open, Opened,
     OpenFails, Wait, Close, RunUnchanged, Pump, NextFrame, NextEOF, NextFails, Push, Serve, Take,
     TakeEnds, Caption, TranslateFails, StageReturns, SendJob, TakeJob, Speak, VoiceEnds, Join, Returns
<1>3. QED
  BY <1>1, <1>2

\* The pump and the consumer end without an error only at the end of the source.
LEMMA EndsStep ==
  ASSUME LInv, [Next]_vars
  PROVE  Ends'
<1>1. TypeOK /\ Joined /\ Ends /\ (groupErr => groupErr')
  BY ErrorsStay DEF LInv, Flow
<1>2. CASE Cancel \/ closeForCancel \/ Idle \/ UNCHANGED vars
  BY <1>1, <1>2 DEF Cancel, closeForCancel, Idle, vars, txVars, laneVars, Ends
<1>3. CASE Open \/ Opened \/ OpenFails
  <2>1. /\ tx'.sent = tx.sent /\ tx'.ended = tx.ended /\ tx'.terminal = tx.terminal
        /\ events' = events /\ groupErr' = groupErr
    BY <1>1, <1>3 DEF Open, Opened, OpenFails, RunUnchanged, TxOpen, TxOpened, TxRefused, TypeOK, TxTypeOK
  <2>2. consumer'.flushed = consumer.flushed
    BY <1>1, <1>3 DEF Open, Opened, OpenFails, RunUnchanged, TypeOK, Consumer
  <2>3. (consumer'.pc = "done" => consumer.pc = "done") /\ (pump' = "done" => pump = "done")
    BY <1>1, <1>3 DEF Open, Opened, OpenFails, RunUnchanged, TypeOK, Consumer
  <2>4. result' = "ok" => result = "ok"
    BY <1>3 DEF Open, Opened, OpenFails
  <2>5. QED
    BY <1>1, <2>1, <2>2, <2>3, <2>4 DEF Ends
<1>4. CASE Wait
  BY <1>1, <1>4 DEF Wait, GroupDone, RunUnchanged, Ends
<1>5. CASE Close
  BY <1>1, <1>5 DEF Close, RunUnchanged, TxClose, TxClosed, Ends, TypeOK, TxTypeOK
<1>6. CASE Pump
  <2>1. TxPush \/ TxCloseSend \/ TxPushed \/ TxPushFailed \/ UNCHANGED <<tx, events>>
    BY <1>6 DEF Pump, NextFrame, NextEOF, NextFails, Push
  <2>2. /\ tx.sent => tx'.sent
        /\ tx.ended => tx'.ended /\ tx'.terminal = tx.terminal
    BY <1>1, <2>1, CallsKeepOpen
  <2>3. pump' = "done" => groupErr' \/ tx'.sent
    BY <1>1, <1>6 DEF Pump, NextFrame, NextEOF, NextFails, Push, TxCloseSend, Returns, TypeOK, TxTypeOK
  <2>4. UNCHANGED <<consumer, result>> /\ events' = events
    BY <1>6, <2>1 DEF Pump, NextFrame, NextEOF, NextFails, Push, PumpUnchanged,
       TxPush, TxCloseSend, TxPushed, TxPushFailed
  <2>5. QED
    BY <1>1, <2>2, <2>3, <2>4 DEF Ends
<1>7. CASE Consume
  <2>1. Moves /\ Drains /\ UNCHANGED <<tx, pump, result>>
    BY <1>7, ConsumerMoves DEF ConsumerUnchanged
  <2>2. consumer'.pc = "done" => groupErr' \/ consumer'.flushed
    BY <2>1 DEF Moves, Quits, Leave, Returns, Rests, Commits, Waits
  <2>3. QED
    BY <1>1, <2>1, <2>2 DEF Ends, Drains
<1>8. ASSUME NEW t \in Target, Serve(t) PROVE Ends'
  BY <1>1, <1>8 DEF Serve, Take, TakeEnds, Caption, TranslateFails,
       SendJob, TakeJob, Speak, VoiceEnds, Join, TargetUnchanged, Ends
<1>9. CASE Session
  <2>1. /\ tx.sent => tx'.sent
        /\ tx.ended => tx'.ended /\ tx'.terminal = tx.terminal
    BY <1>1, <1>9, CallsKeepOpen DEF Session
  <2>2. tx.ended => events' = events
    BY <1>9 DEF Session, TxOwn, TxUpdate, TxEnd, TxDone
  <2>3. QED
    BY <1>1, <1>9, <2>1, <2>2 DEF Session, laneVars, Ends
<1>10. QED
  BY <1>2, <1>3, <1>4, <1>5, <1>6, <1>7, <1>8, <1>9 DEF Next, Run

\* A step of a target is a step of its stage or of its voice loop, and of no other's.
LEMMA OthersRest ==
  ASSUME TypeOK, NEW t \in Target, Serve(t)
  PROVE  \A u \in Target : u # t =>
           /\ stage'[u] = stage[u] /\ voice'[u] = voice[u] /\ in'[u] = in[u] /\ jobs'[u] = jobs[u]
           /\ captions'[u] = captions[u] /\ takes'[u] = takes[u]
BY DEF Serve, Take, TakeEnds, Caption, TranslateFails, StageReturns, SendJob, TakeJob, Speak, VoiceEnds,
   Join, TypeOK

\* A stage or a voice loop that fails tells the group before it is done.
LEMMA FailuresStep ==
  ASSUME LInv, [Next]_vars
  PROVE  Failures'
<1>1. TypeOK /\ Joined /\ Opening /\ Failures /\ (groupErr => groupErr')
  BY ErrorsStay DEF LInv, Flow
<1>2. CASE UNCHANGED <<stage, voice>>
  BY <1>1, <1>2 DEF Failures, FailuresAt
<1>3. CASE Opened
  <2>1. ASSUME NEW t \in Target PROVE FailuresAt(t)'
    <3>1. stage[t] \in Stage /\ voice[t] \in Voice /\ stage[t].pc = "off" /\ voice[t].pc = "off"
      BY <1>1, <1>3 DEF TypeOK, Joined, Opened, TxOpened
    <3>2. /\ stage'[t].pc = "take" /\ stage'[t].failed = stage[t].failed
          /\ voice'[t].pc = IF t \in Voiced THEN "take" ELSE "done"
          /\ voice'[t].failed = voice[t].failed
      BY <1>1, <1>3, <3>1 DEF Opened, Stage, Voice, TypeOK
    <3>3. QED
      BY <1>1, <3>1, <3>2 DEF Failures, FailuresAt
  <2>2. QED
    BY <2>1 DEF Failures
<1>4. ASSUME NEW t \in Target, Serve(t) PROVE Failures'
  <2>1. \A u \in Target : u # t => stage'[u] = stage[u] /\ voice'[u] = voice[u]
    BY <1>1, <1>4, OthersRest
  <2>2. FailuresAt(t) /\ stage[t] \in Stage /\ voice[t] \in Voice
    BY <1>1 DEF Failures, TypeOK
  <2> SUFFICES FailuresAt(t)'
    BY <1>1, <2>1 DEF Failures, FailuresAt
  <2>3. ASSUME NEW failed \in BOOLEAN, stage[t].pc \notin {"off", "done"}, UNCHANGED voice,
               StageReturns(t, failed)
        PROVE  FailuresAt(t)'
    <3>1. stage'[t].pc = "done" /\ stage'[t].failed = failed
      BY <1>1, <2>2, <2>3 DEF StageReturns, TypeOK, Stage
    <3>2. t \notin Voiced => (failed => groupErr')
      BY <2>3 DEF StageReturns, Returns
    <3>3. t \in Voiced => voice[t].pc # "done"
      BY <1>1, <2>3 DEF Joined
    <3>4. QED
      BY <2>2, <2>3, <3>1, <3>2, <3>3 DEF FailuresAt
  <2>4. CASE Take(t) \/ Caption(t)
    <3>1. stage'[t].failed = stage[t].failed /\ stage'[t].pc # "done" /\ stage[t].pc # "done"
          /\ (stage'[t].pc = "send" => t \in Voiced) /\ UNCHANGED voice
      BY <1>1, <2>2, <2>4 DEF Take, Caption, TypeOK, Stage
    <3>2. QED
      BY <1>1, <2>2, <3>1 DEF FailuresAt
  <2>5. CASE TakeEnds(t) \/ TranslateFails(t)
    BY <2>3, <2>5 DEF TakeEnds, TranslateFails
  <2>6. CASE SendJob(t)
    <3>1. CASE Dead(t) /\ StageReturns(t, TRUE)
      BY <2>3, <2>6, <3>1 DEF SendJob
    <3>2. CASE stage' = [stage EXCEPT ![t].pc = "take", ![t].seg = None]
      <4>1. stage'[t].failed = stage[t].failed /\ stage'[t].pc = "take" /\ stage[t].pc = "send"
            /\ UNCHANGED voice
        BY <1>1, <2>2, <2>6, <3>2 DEF SendJob, TypeOK, Stage
      <4>2. QED
        BY <1>1, <2>2, <4>1 DEF FailuresAt
    <3>3. QED
      BY <2>6, <3>1, <3>2 DEF SendJob
  <2>7. CASE TakeJob(t) \/ Speak(t)
    <3>1. voice'[t].failed = voice[t].failed /\ voice'[t].pc \in {"speak", "take"}
          /\ voice[t].pc \in {"speak", "take"} /\ UNCHANGED stage
      BY <1>1, <2>2, <2>7 DEF TakeJob, Speak, TypeOK, Voice
    <3>2. QED
      BY <1>1, <2>2, <3>1 DEF FailuresAt
  <2>8. CASE VoiceEnds(t)
    <3>1. voice'[t].pc = "join" /\ voice[t].pc \in {"speak", "take"} /\ UNCHANGED stage
      BY <1>1, <2>2, <2>8 DEF VoiceEnds, TypeOK, Voice
    <3>2. QED
      BY <1>1, <2>2, <3>1 DEF FailuresAt
  <2>9. CASE Join(t)
    <3>1. voice'[t].pc = "done" /\ voice[t].pc = "join" /\ voice'[t].failed = voice[t].failed
          /\ UNCHANGED stage /\ (stage[t].failed \/ voice[t].failed => groupErr')
      BY <1>1, <2>2, <2>9 DEF Join, Returns, TypeOK, Voice
    <3>2. QED
      BY <1>1, <2>2, <3>1 DEF FailuresAt
  <2>10. QED
    BY <1>4, <2>4, <2>5, <2>6, <2>7, <2>8, <2>9 DEF Serve
<1>5. CASE Consume
  <2>1. UNCHANGED <<stage, voice>>
    BY <1>5, ConsumerMoves DEF ConsumerUnchanged
  <2>2. QED
    BY <1>2, <2>1
<1>6. QED
  BY <1>2, <1>3, <1>4, <1>5 DEF Next, Cancel, closeForCancel, Idle, vars, laneVars, Session, Run, Open,
     OpenFails, Wait, Close, Pump, NextFrame, NextEOF, NextFails, Push, PumpUnchanged

-----------------------------------------------------------------------------
(* Between the fan-out and the sinks.                                      *)

\* The shapes of what a target has, without the rest of the type invariant.
LEMMA TargetShapes ==
  ASSUME TypeOK, NEW t \in Target
  PROVE  /\ stage[t] \in Stage /\ voice[t] \in Voice
         /\ in[t] \in Channel /\ in[t].queue \in Seq(Segment) /\ Len(in[t].queue) \in Nat
         /\ jobs[t] \in Channel /\ jobs[t].queue \in Seq(Segment) /\ Len(jobs[t].queue) \in Nat
         /\ captions[t] \in Seq(Segment) /\ Len(captions[t]) \in Nat
         /\ takes[t] \in Seq(Segment) /\ Len(takes[t]) \in Nat
         /\ Len(committed) \in Nat /\ Begun(t) \in Nat /\ Begot(t) \in Nat
<1>1. /\ stage[t] \in Stage /\ voice[t] \in Voice /\ in[t] \in Channel /\ jobs[t] \in Channel
      /\ captions[t] \in Seq(Segment) /\ takes[t] \in Seq(Segment)
      /\ committed \in Seq(Span)
  BY DEF TypeOK, Span
<1>2. in[t].queue \in Seq(Segment) /\ jobs[t].queue \in Seq(Segment)
  BY <1>1 DEF Channel
<1>3. /\ Len(in[t].queue) \in Nat /\ Len(jobs[t].queue) \in Nat /\ Len(captions[t]) \in Nat
      /\ Len(takes[t]) \in Nat /\ Len(committed) \in Nat
  BY <1>1, <1>2
<1>4. Begun(t) \in Nat
  BY <1>3 DEF Begun
<1>5. Begot(t) \in Nat
  BY <1>3 DEF Begot
<1>6. QED
  BY <1>1, <1>2, <1>3, <1>4, <1>5

\* The fan-out sends each segment to each target once, in order.
LEMMA CaptionedConsume ==
  ASSUME LInv, Consume
  PROVE  Captioned'
<1>1. TypeOK /\ Chained /\ Captioned /\ Moves /\ ConsumerUnchanged /\ consumer.pc # "done"
  BY ConsumerMoves DEF LInv, Flow
<1> SUFFICES ASSUME NEW t \in Target PROVE CaptionedAt(t)'
  BY DEF Captioned
<1> DEFINE b == Begun(t)
           m == Len(committed)
           q == in[t].queue
<1>2. CaptionedAt(t) /\ stage'[t] = stage[t] /\ captions'[t] = captions[t] /\ Begun(t)' = b
  BY <1>1 DEF Captioned, ConsumerUnchanged, Begun
<1>3. q \in Seq(Segment) /\ Len(q) \in Nat /\ b \in Nat /\ m \in Nat /\ Len(captions[t]) \in Nat
      /\ in \in [Target -> Channel]
  BY <1>1, TargetShapes DEF TypeOK
<1>4. /\ ~in[t].closed /\ From(0, captions[t]) /\ Len(captions[t]) <= m
      /\ ~stage[t].failed =>
           /\ stage[t].pc = "translate" => stage[t].seg = b
           /\ From(b, q) /\ stage[t].pc # "done" /\ Sent(t) = m
  <2>1. in[t].closed \in BOOLEAN
    BY <1>1, TargetShapes DEF Channel
  <2>2. QED
    BY <1>1, <1>2, <2>1 DEF CaptionedAt
<1>5. /\ t \in consumer.todo => Sent(t) = b + Len(q) + 1
      /\ t \notin consumer.todo => Sent(t) = b + Len(q)
      /\ t \in consumer'.todo => Sent(t)' = b + Len(in'[t].queue) + 1
      /\ t \notin consumer'.todo => Sent(t)' = b + Len(in'[t].queue)
  BY <1>2 DEF Sent, Queued
<1>6. ASSUME m <= Len(committed'), Len(committed') \in Nat,
             in'[t].closed => consumer'.pc = "done",
             ~stage[t].failed =>
               /\ From(b, in'[t].queue) /\ Sent(t)' <= Len(committed')
               /\ consumer'.pc # "done" \/ ~groupErr' => Sent(t)' = Len(committed')
      PROVE  CaptionedAt(t)'
  <2>1. Len(captions[t]) <= Len(committed')
    BY <1>3, <1>4, <1>6
  <2>2. QED
    BY <1>2, <1>4, <1>6, <2>1 DEF CaptionedAt
<1> HIDE DEF b, m, q
\* The targets that are to be served next, once nothing of this segment is left.
<1>7. ASSUME ~in'[t].closed, Rests \/ Commits,
             ~stage[t].failed => From(b, in'[t].queue) /\ Len(in'[t].queue) \in Nat /\ b + Len(in'[t].queue) = m
      PROVE  CaptionedAt(t)'
  <2>1. CASE Rests
    <3>1. Len(committed') = m /\ t \notin consumer'.todo
      BY <2>1 DEF Rests, m
    <3>2. QED
      BY <1>3, <1>5, <1>6, <1>7, <3>1
  <2>2. CASE Commits
    <3>1. Len(committed') = m + 1 /\ t \in consumer'.todo
      BY <1>1, <2>2 DEF Commits, TypeOK, Span, m
    <3>2. QED
      BY <1>3, <1>5, <1>6, <1>7, <3>1
  <2>3. QED
    BY <1>7, <2>1, <2>2
<1>8. CASE consumer.todo = {} /\ (Rests \/ Commits) /\ UNCHANGED <<in, gctx, groupErr>>
  <2>1. ~in'[t].closed /\ in'[t].queue = q /\ (~stage[t].failed => b + Len(q) = m)
    BY <1>4, <1>5, <1>8 DEF q
  <2>2. QED
    BY <1>3, <1>4, <1>7, <1>8, <2>1
<1>9. ASSUME NEW failed \in BOOLEAN, Quits(failed), ~failed => consumer.todo = {}
      PROVE  CaptionedAt(t)'
  <2>1. in'[t].queue = q
    BY <1>3, <1>9 DEF Quits, Leave, Channel, q
  <2>2. failed => groupErr'
    BY <1>9 DEF Quits, Leave, Returns
  <2>3. consumer'.pc = "done" /\ consumer'.todo = {} /\ Len(committed') = m
    BY <1>9 DEF Quits, m
  <2>4. Sent(t)' = b + Len(q)
    BY <1>5, <2>1, <2>3
  <2>5. ~stage[t].failed => Sent(t)' <= m /\ (~failed => Sent(t)' = m)
    BY <1>3, <1>4, <1>5, <1>9, <2>4
  <2>6. QED
    BY <1>3, <1>4, <1>6, <2>1, <2>2, <2>3, <2>5
<1>10. ASSUME NEW u \in consumer.todo, Sends(u), UNCHANGED <<gctx, groupErr>>,
             \/ consumer.todo = {u} /\ (Rests \/ Commits)
             \/ Waits /\ consumer'.todo = consumer.todo \ {u}
      PROVE  CaptionedAt(t)'
  <2> DEFINE r == in'[t].queue
  <2>1. CASE t # u
    <3>1. in'[t] = in[t]
      BY <1>3, <1>10, <2>1 DEF Sends
    <3>2. ~in'[t].closed /\ in'[t].queue = q
      BY <1>4, <3>1 DEF q
    <3>3. CASE consumer.todo = {u} /\ (Rests \/ Commits)
      BY <1>3, <1>4, <1>5, <1>7, <2>1, <3>2, <3>3
    <3>4. CASE Waits /\ consumer'.todo = consumer.todo \ {u}
      <4>1. consumer'.pc = "fanout" /\ Len(committed') = m
            /\ (t \in consumer'.todo <=> t \in consumer.todo)
        BY <2>1, <3>4 DEF Waits, m
      <4>2. Sent(t)' = Sent(t)
        BY <1>5, <3>2, <4>1
      <4>3. QED
        BY <1>3, <1>4, <1>6, <3>2, <4>1, <4>2
    <3>5. QED
      BY <1>10, <3>3, <3>4
  <2>2. CASE t = u
    <3>1. in'[t].queue = Append(q, m) /\ ~in'[t].closed
      BY <1>3, <1>4, <1>10, <2>2 DEF Sends, Send, Channel, q, m
    <3>2. m \in Segment
      <4>1. consumer.todo # {} => consumer.pc = "fanout"
        BY <1>1 DEF Chained
      <4>2. committed # <<>>
        BY <1>1, <1>10, <4>1 DEF Chained
      <4>3. committed \in Seq(Span) /\ Len(consumer.left) \in Nat
            /\ m + Len(consumer.left) <= MaxSegments
        BY <1>1 DEF TypeOK, Consumer, Span, m
      <4>4. m # 0 /\ m <= MaxSegments
        BY <1>3, <4>2, <4>3, LaneAssumption DEF LaneAssumption, m
      <4>5. QED
        BY <1>3, <4>4, LaneAssumption DEF Segment, LaneAssumption
    <3>3. Len(Append(q, m)) = Len(q) + 1
      BY <1>3, <3>2
    <3>4. ASSUME ~stage[t].failed PROVE From(b, Append(q, m)) /\ b + Len(Append(q, m)) = m
      <4>1. m = b + Len(q) + 1 /\ From(b, q)
        BY <1>4, <1>5, <1>10, <2>2, <3>4
      <4>2. QED
        BY <1>3, <3>2, <3>3, <4>1, FromAppend
    <3>5. CASE consumer.todo = {u} /\ (Rests \/ Commits)
      BY <1>3, <1>7, <3>1, <3>3, <3>4, <3>5
    <3>6. CASE Waits /\ consumer'.todo = consumer.todo \ {u}
      <4>1. consumer'.pc = "fanout" /\ Len(committed') = m /\ t \notin consumer'.todo
        BY <2>2, <3>6 DEF Waits, m
      <4>2. Sent(t)' = b + Len(Append(q, m))
        BY <1>5, <3>1, <4>1
      <4>3. QED
        BY <1>3, <1>6, <3>1, <3>4, <4>1, <4>2
    <3>7. QED
      BY <1>10, <3>5, <3>6
  <2>3. QED
    BY <2>1, <2>2
<1>11. QED
  BY <1>1, <1>8, <1>9, <1>10 DEF Moves

\* The translate stage takes a segment and captions it before it takes the next.
LEMMA CaptionedServe ==
  ASSUME LInv, NEW t \in Target, Serve(t), groupErr => groupErr'
  PROVE  Captioned'
<1>1. TypeOK /\ Captioned /\ FailuresAt(t) /\ CaptionedAt(t) /\ UNCHANGED <<committed, consumer>>
  BY DEF LInv, Flow, Failures, Captioned, Serve, Take, TakeEnds, Caption, TranslateFails, SendJob,
     TakeJob, Speak, VoiceEnds, Join, TargetUnchanged
<1>2. ASSUME NEW u \in Target, u # t PROVE CaptionedAt(u)'
  <2>1. CaptionedAt(u) /\ stage'[u] = stage[u] /\ in'[u] = in[u] /\ captions'[u] = captions[u]
    BY <1>1, <1>2, OthersRest DEF Captioned
  <2>2. QED
    BY <1>1, <2>1 DEF CaptionedAt, Sent, Queued, Begun
<1> SUFFICES CaptionedAt(t)'
  BY <1>2 DEF Captioned
<1>3. /\ stage[t] \in Stage /\ in[t] \in Channel /\ in[t].queue \in Seq(Segment)
      /\ Len(in[t].queue) \in Nat /\ captions[t] \in Seq(Segment) /\ Len(captions[t]) \in Nat
      /\ Len(committed) \in Nat
      /\ stage \in [Target -> Stage] /\ in \in [Target -> Channel]
      /\ captions \in [Target -> Seq(Segment)]
  BY <1>1, TargetShapes DEF TypeOK
<1>4. ASSUME NEW failed \in BOOLEAN, StageReturns(t, failed), stage[t].pc # "done",
             ~failed => stage[t].pc = "take" /\ in[t].queue = <<>> /\ in[t].closed,
             UNCHANGED <<in, captions>>
      PROVE  CaptionedAt(t)'
  <2>1. stage'[t].pc = "done" /\ stage'[t].failed = failed
    BY <1>3, <1>4 DEF StageReturns, Stage
  <2>2. ~stage[t].failed
    BY <1>1, <1>4 DEF FailuresAt
  <2>3. QED
    BY <1>1, <1>3, <1>4, <2>1, <2>2 DEF CaptionedAt, Sent, Queued, Begun
<1>5. CASE Take(t)
  <2> DEFINE q == in[t].queue
  <2>1. /\ stage[t].pc = "take" /\ q # <<>>
        /\ stage'[t].pc = "translate" /\ stage'[t].seg = Head(q) /\ stage'[t].failed = stage[t].failed
    BY <1>3, <1>5 DEF Take, Stage
  <2>2. in'[t].queue = Tail(q) /\ in'[t].closed = in[t].closed /\ captions' = captions
    BY <1>3, <1>5 DEF Take, Channel
  <2>3. ~stage[t].failed /\ From(Len(captions[t]), q) /\ Begun(t) = Len(captions[t])
        /\ Begun(t)' = Len(captions[t]) + 1
    BY <1>1, <1>3, <2>1, <2>2 DEF FailuresAt, CaptionedAt, Begun
  <2>4. /\ From(Len(captions[t]) + 1, Tail(q)) /\ Len(Tail(q)) = Len(q) - 1
        /\ Head(q) = Len(captions[t]) + 1
    BY <1>3, <2>1, <2>3, FromTail
  <2> HIDE DEF q
  <2>5. Queued(t)' = Queued(t)
    <3>1. Queued(t) = Len(captions[t]) + Len(q)
      BY <2>3 DEF Queued, q
    <3>2. PICK l \in Nat : l = Len(q) /\ l - 1 = Len(in'[t].queue)
      BY <1>3, <2>2, <2>4 DEF q
    <3>3. PICK k \in Nat : k = Len(captions[t])
      BY <1>3
    <3>4. Queued(t)' = k + 1 + (l - 1)
      BY <2>2, <2>3, <3>2, <3>3 DEF Queued
    <3>5. QED
      BY <3>1, <3>2, <3>3, <3>4
  <2>6. Sent(t)' = Sent(t)
    BY <1>1, <2>5 DEF Sent
  <2>7. QED
    BY <1>1, <2>1, <2>2, <2>3, <2>4, <2>6 DEF CaptionedAt
<1>6. CASE TakeEnds(t)
  BY <1>4, <1>6 DEF TakeEnds
<1>7. CASE TranslateFails(t)
  BY <1>4, <1>7 DEF TranslateFails
<1>8. CASE Caption(t)
  <2> DEFINE c == captions[t]
  <2>1. /\ stage[t].pc = "translate" /\ stage'[t].pc \in {"send", "take"}
        /\ stage'[t].failed = stage[t].failed
        /\ captions'[t] = Append(c, stage[t].seg) /\ in' = in
    BY <1>3, <1>8 DEF Caption, Stage
  <2>2. stage[t].seg \in Segment /\ stage[t].seg = Len(c) + 1 /\ ~stage[t].failed
    BY <1>1, <2>1, AtWork DEF FailuresAt
  <2>3. From(0, Append(c, stage[t].seg)) /\ Len(Append(c, stage[t].seg)) = Len(c) + 1
    BY <1>1, <1>3, <2>2, FromAppend DEF CaptionedAt
  <2>4. Begun(t)' = Begun(t) /\ Begun(t) = Len(c) + 1
    BY <1>3, <2>1, <2>3 DEF Begun
  <2>5. Sent(t)' = Sent(t) /\ Sent(t) >= Len(c) + 1 /\ Sent(t) \in Nat
    <3>1. PICK l \in Nat : l = Len(in[t].queue)
      BY <1>3
    <3>2. PICK k \in Nat : k = Len(c)
      BY <1>3
    <3>3. Queued(t) = k + 1 + l /\ Queued(t)' = Queued(t)
      BY <2>1, <2>4, <3>1, <3>2 DEF Queued
    <3>4. Sent(t)' = Sent(t) /\ Sent(t) \in {k + 1 + l, k + 1 + l + 1}
      BY <1>1, <3>3 DEF Sent
    <3>5. QED
      BY <3>2, <3>4
  <2>6. Len(c) + 1 <= Len(committed)
    BY <1>1, <1>3, <2>2, <2>5 DEF CaptionedAt
  <2>7. QED
    BY <1>1, <2>1, <2>2, <2>3, <2>4, <2>5, <2>6 DEF CaptionedAt
<1>9. CASE SendJob(t)
  <2>1. CASE StageReturns(t, TRUE)
    BY <1>4, <1>9, <2>1 DEF SendJob
  <2>2. CASE stage' = [stage EXCEPT ![t].pc = "take", ![t].seg = None]
    <3>1. stage[t].pc = "send" /\ stage'[t].pc = "take" /\ stage'[t].failed = stage[t].failed
          /\ UNCHANGED <<in, captions>>
      BY <1>3, <1>9, <2>2 DEF SendJob, Stage
    <3>2. QED
      BY <1>1, <1>3, <3>1 DEF CaptionedAt, Sent, Queued, Begun
  <2>3. QED
    BY <1>9, <2>1, <2>2 DEF SendJob
<1>10. CASE TakeJob(t) \/ Speak(t) \/ VoiceEnds(t) \/ Join(t)
  <2>1. UNCHANGED <<stage, in, captions>>
    BY <1>10 DEF TakeJob, Speak, VoiceEnds, Join
  <2>2. QED
    BY <1>1, <2>1 DEF CaptionedAt, Sent, Queued, Begun
<1>11. QED
  BY <1>5, <1>6, <1>7, <1>8, <1>9, <1>10 DEF Serve

\* What was committed is captioned, queued or yet to be sent, whatever the step.
LEMMA CaptionedStep ==
  ASSUME LInv, [Next]_vars
  PROVE  Captioned'
<1>1. TypeOK /\ Opening /\ Joined /\ Chained /\ Captioned /\ (groupErr => groupErr')
  BY ErrorsStay DEF LInv, Flow
<1>2. CASE Opened
  <2>1. /\ consumer.pc = "off" /\ consumer'.pc = "receive" /\ consumer'.todo = consumer.todo
        /\ UNCHANGED <<in, captions, committed, groupErr>>
    BY <1>1, <1>2 DEF Opened, TxOpened, RunUnchanged, Joined, TypeOK, Consumer
  <2>2. \A t \in Target : /\ stage[t].pc = "off" /\ stage'[t].pc = "take"
                          /\ stage'[t].failed = stage[t].failed
    BY <1>1, <1>2 DEF Opened, TxOpened, Joined, TypeOK, Stage
  <2>3. QED
    BY <1>1, <2>1, <2>2 DEF Captioned, CaptionedAt, Sent, Queued, Begun
<1>3. CASE UNCHANGED <<stage, in, captions, committed, consumer>>
  BY <1>1, <1>3 DEF Captioned, CaptionedAt, Sent, Queued, Begun
<1>4. QED
  BY <1>1, <1>2, <1>3, CaptionedConsume, CaptionedServe DEF Next, Cancel, closeForCancel, Idle, vars,
     laneVars, Session, Run, RunUnchanged, Open, OpenFails, Wait, Close, Pump, NextFrame, NextEOF, NextFails,
     Push, PumpUnchanged

-----------------------------------------------------------------------------
(* Between the sinks and the tracks.                                       *)

\* The voice loop of a dubbed target speaks what its stage has captioned, in order.
LEMMA SpokenServe ==
  ASSUME LInv, NEW t \in Target, Serve(t)
  PROVE  AllSpoken'
<1>1. TypeOK /\ AllSpoken /\ FailuresAt(t)
  BY DEF LInv, Flow, Failures
<1>2. ASSUME NEW u \in Voiced, u # t PROVE SpokenAt(u)'
  <2>1. SpokenAt(u) /\ stage'[u] = stage[u] /\ voice'[u] = voice[u] /\ jobs'[u] = jobs[u]
        /\ captions'[u] = captions[u] /\ takes'[u] = takes[u]
    BY <1>1, <1>2, OthersRest, LaneAssumption DEF AllSpoken, LaneAssumption
  <2>2. QED
    BY <2>1 DEF SpokenAt, Begot, Ready, Owed
<1> SUFFICES ASSUME t \in Voiced PROVE SpokenAt(t)'
  BY <1>2 DEF AllSpoken
<1>3. /\ stage[t] \in Stage /\ voice[t] \in Voice /\ jobs[t] \in Channel /\ jobs[t].queue \in Seq(Segment)
      /\ captions[t] \in Seq(Segment) /\ takes[t] \in Seq(Segment)
      /\ stage \in [Target -> Stage] /\ voice \in [Target -> Voice] /\ jobs \in [Target -> Channel]
      /\ captions \in [Target -> Seq(Segment)] /\ takes \in [Target -> Seq(Segment)]
      /\ jobs[t].closed \in BOOLEAN
  BY <1>1, TargetShapes DEF TypeOK, Channel
<1>4. SpokenAt(t)
  BY <1>1 DEF AllSpoken
<1>5. PICK k \in Nat : k = Len(takes[t])
  BY <1>3
<1>6. PICK c \in Nat : c = Len(captions[t])
  BY <1>3
<1>7. PICK l \in Nat : l = Len(jobs[t].queue)
  BY <1>3
<1>8. ASSUME NEW failed \in BOOLEAN, StageReturns(t, failed), stage[t].pc \in {"take", "translate", "send"},
             ~failed => stage[t].pc = "take",
             UNCHANGED <<voice, captions, takes>>
      PROVE  SpokenAt(t)'
  <2>1. stage'[t].pc = "done" /\ stage'[t].failed = failed
        /\ jobs'[t].queue = jobs[t].queue /\ jobs'[t].closed
    BY <1>3, <1>8 DEF StageReturns, Stage, Channel
  <2>2. Begot(t)' = Begot(t) /\ Begot(t) \in {k, k + 1}
    BY <1>5, <1>8 DEF Begot
  <2>3. Ready(t) = Begot(t) + l /\ Ready(t)' = Begot(t) + l
    BY <1>7, <2>1, <2>2 DEF Ready
  <2>4. Owed(t)' = Begot(t) + l /\ Owed(t) \in {Begot(t) + l, Begot(t) + l + 1}
        /\ (~failed => Owed(t) = Begot(t) + l)
    BY <1>8, <2>1, <2>3 DEF Owed
  <2>5. ~voice[t].failed => Owed(t)' <= c /\ (~failed => Owed(t)' = c)
    BY <1>1, <1>4, <1>6, <1>8, <2>2, <2>4 DEF SpokenAt, FailuresAt
  <2>6. QED
    BY <1>4, <1>6, <1>8, <2>1, <2>2, <2>5 DEF SpokenAt
<1>9. CASE Take(t)
  <2>1. stage'[t].pc = "translate" /\ stage[t].pc = "take" /\ stage'[t].failed = stage[t].failed
        /\ UNCHANGED <<voice, jobs, captions, takes>>
    BY <1>3, <1>9 DEF Take, Stage
  <2>2. Begot(t)' = Begot(t) /\ Owed(t)' = Owed(t)
    BY <2>1 DEF Begot, Ready, Owed
  <2>3. QED
    BY <1>4, <2>1, <2>2 DEF SpokenAt
<1>10. CASE TakeEnds(t)
  BY <1>8, <1>10 DEF TakeEnds
<1>11. CASE TranslateFails(t)
  BY <1>8, <1>11 DEF TranslateFails
<1>12. CASE Caption(t)
  <2>1. /\ stage[t].pc = "translate" /\ stage'[t].pc = "send" /\ stage'[t].failed = stage[t].failed
        /\ stage'[t].seg = stage[t].seg /\ captions'[t] = Append(captions[t], stage[t].seg)
        /\ UNCHANGED <<voice, jobs, takes>>
    BY <1>3, <1>12 DEF Caption, Stage
  <2>2. stage[t].seg \in Segment /\ stage[t].seg = c + 1 /\ ~stage[t].failed
    BY <1>1, <1>6, <2>1, AtWork DEF FailuresAt
  <2>3. Len(captions'[t]) = c + 1 /\ captions'[t] # <<>>
    <3>1. Len(Append(captions[t], stage[t].seg)) = Len(captions[t]) + 1
          /\ Append(captions[t], stage[t].seg) # <<>>
      BY <1>3, <2>2, AppendLonger
    <3>2. QED
      BY <1>6, <2>1, <3>1
  <2>4. Begot(t)' = Begot(t) /\ Owed(t)' = Owed(t) + 1
    BY <2>1 DEF Begot, Ready, Owed
  <2>5. ~voice[t].failed => Owed(t)' = c + 1
    BY <1>4, <1>6, <2>2, <2>4 DEF SpokenAt
  <2>6. Len(takes'[t]) <= c + 1
    BY <1>4, <1>5, <1>6, <2>1 DEF SpokenAt
  <2>7. QED
    BY <1>4, <1>6, <2>1, <2>2, <2>3, <2>4, <2>5, <2>6 DEF SpokenAt
<1>13. CASE SendJob(t)
  <2>1. CASE StageReturns(t, TRUE)
    BY <1>8, <1>13, <2>1 DEF SendJob
  <2>2. CASE /\ Room(jobs[t])
             /\ jobs' = [jobs EXCEPT ![t] = Send(@, stage[t].seg)]
             /\ stage' = [stage EXCEPT ![t].pc = "take", ![t].seg = None]
    <3>1. /\ stage[t].pc = "send" /\ stage'[t].pc = "take" /\ stage'[t].failed = stage[t].failed
          /\ jobs'[t].queue = Append(jobs[t].queue, stage[t].seg) /\ jobs'[t].closed = jobs[t].closed
          /\ UNCHANGED <<voice, captions, takes>>
      BY <1>3, <1>13, <2>2 DEF SendJob, Stage, Send, Channel
    <3>2. stage[t].seg \in Segment /\ stage[t].seg = c /\ ~stage[t].failed /\ ~jobs[t].closed
      BY <1>1, <1>4, <1>6, <3>1, AtWork DEF FailuresAt, SpokenAt
    <3>3. Len(jobs'[t].queue) = l + 1
      BY <1>3, <1>7, <3>1, <3>2
    <3>4. Begot(t)' = Begot(t) /\ Begot(t) \in {k, k + 1}
      BY <1>5, <3>1 DEF Begot
    <3>5. Ready(t) = Begot(t) + l /\ Owed(t) = Begot(t) + l + 1 /\ Owed(t)' = Begot(t) + (l + 1)
      BY <1>7, <3>1, <3>3, <3>4 DEF Ready, Owed
    <3>6. ASSUME ~voice[t].failed
          PROVE  Owed(t)' = c /\ From(Begot(t), jobs'[t].queue)
                 /\ voice[t].pc \notin {"join", "done"}
      <4>1. Begot(t) + l + 1 = c /\ From(Begot(t), jobs[t].queue) /\ Begot(t) \in Nat
        BY <1>4, <1>6, <3>2, <3>4, <3>5, <3>6 DEF SpokenAt
      <4>2. From(Begot(t), Append(jobs[t].queue, stage[t].seg))
        BY <1>3, <1>7, <3>2, <4>1, FromAppend
      <4>3. QED
        BY <1>4, <3>1, <3>2, <3>4, <3>5, <3>6, <4>1, <4>2 DEF SpokenAt
    <3>7. QED
      BY <1>4, <1>6, <3>1, <3>2, <3>4, <3>6 DEF SpokenAt
  <2>3. QED
    BY <1>13, <2>1, <2>2 DEF SendJob
<1>14. CASE TakeJob(t)
  <2> DEFINE q == jobs[t].queue
  <2>1. /\ voice[t].pc = "take" /\ q # <<>>
        /\ voice'[t].pc = "speak" /\ voice'[t].seg = Head(q) /\ voice'[t].failed = voice[t].failed
        /\ jobs'[t].queue = Tail(q) /\ jobs'[t].closed = jobs[t].closed
        /\ UNCHANGED <<stage, captions, takes>>
    BY <1>3, <1>14 DEF TakeJob, Voice, Channel
  <2>2. ~voice[t].failed /\ Begot(t) = k /\ Begot(t)' = k + 1 /\ From(k, q)
    BY <1>1, <1>4, <1>5, <2>1 DEF FailuresAt, SpokenAt, Begot
  <2>3. From(k + 1, Tail(q)) /\ Len(Tail(q)) = Len(q) - 1 /\ Head(q) = k + 1
    BY <1>3, <2>1, <2>2, FromTail
  <2>4. Len(jobs'[t].queue) = l - 1
    BY <1>7, <2>1, <2>3
  <2>5. Ready(t) = k + l /\ Ready(t)' = k + 1 + (l - 1)
    BY <1>7, <2>2, <2>4 DEF Ready
  <2>6. Owed(t)' = Owed(t)
    BY <2>1, <2>5 DEF Owed
  <2>7. QED
    BY <1>4, <2>1, <2>2, <2>3, <2>6 DEF SpokenAt
<1>15. CASE Speak(t)
  <2>1. /\ voice[t].pc = "speak" /\ voice'[t].pc = "take" /\ voice'[t].failed = voice[t].failed
        /\ takes'[t] = Append(takes[t], voice[t].seg)
        /\ UNCHANGED <<stage, captions, jobs>>
    BY <1>3, <1>15 DEF Speak, Voice
  <2>2. voice[t].seg \in Segment /\ voice[t].seg = k + 1 /\ ~voice[t].failed
    BY <1>1, <1>5, <2>1, AtWork DEF FailuresAt
  <2>3. From(0, takes'[t]) /\ Len(takes'[t]) = k + 1
    BY <1>3, <1>4, <1>5, <2>1, <2>2, FromAppend DEF SpokenAt
  <2>4. Begot(t)' = Begot(t) /\ Begot(t) = k + 1
    BY <1>5, <2>1, <2>3 DEF Begot
  <2>5. Owed(t)' = Owed(t) /\ Owed(t) \in {k + 1 + l, k + 1 + l + 1}
    BY <1>7, <2>1, <2>4 DEF Ready, Owed
  <2>6. k + 1 <= c
    BY <1>4, <1>6, <2>2, <2>5 DEF SpokenAt
  <2>7. QED
    BY <1>4, <1>6, <2>1, <2>2, <2>3, <2>4, <2>5, <2>6 DEF SpokenAt
<1>16. CASE VoiceEnds(t)
  <2>1. /\ voice'[t].pc = "join" /\ UNCHANGED <<stage, captions, takes, jobs>>
        /\ voice'[t].failed \/ (/\ voice[t].pc = "take" /\ voice'[t].failed = voice[t].failed
                                /\ jobs[t].queue = <<>> /\ jobs[t].closed)
    BY <1>3, <1>16 DEF VoiceEnds, Voice
  <2>2. ~voice'[t].failed => Begot(t)' = Begot(t) /\ Owed(t)' = Owed(t)
    BY <2>1 DEF Begot, Ready, Owed
  <2>3. QED
    BY <1>4, <2>1, <2>2 DEF SpokenAt
<1>17. CASE Join(t)
  <2>1. /\ voice'[t].pc = "done" /\ voice[t].pc = "join" /\ voice'[t].failed = voice[t].failed
        /\ UNCHANGED <<stage, captions, takes, jobs>>
    BY <1>3, <1>17 DEF Join, Voice
  <2>2. Begot(t)' = Begot(t) /\ Owed(t)' = Owed(t)
    BY <2>1 DEF Begot, Ready, Owed
  <2>3. QED
    BY <1>4, <2>1, <2>2 DEF SpokenAt
<1>18. QED
  BY <1>9, <1>10, <1>11, <1>12, <1>13, <1>14, <1>15, <1>16, <1>17 DEF Serve

\* What was captioned is spoken, queued or yet to be sent, whatever the step.
LEMMA SpokenStep ==
  ASSUME LInv, [Next]_vars
  PROVE  AllSpoken'
<1>1. TypeOK /\ Opening /\ Joined /\ AllSpoken
  BY DEF LInv, Flow
<1>2. CASE Opened
  <2>1. UNCHANGED <<jobs, captions, takes>> /\ tx.open # "yes"
    BY <1>2 DEF Opened, TxOpened, RunUnchanged
  <2>2. \A t \in Voiced : /\ stage[t].pc = "off" /\ stage'[t].pc = "take"
                          /\ stage'[t].failed = stage[t].failed
                          /\ voice[t].pc = "off" /\ voice'[t].pc = "take"
                          /\ voice'[t].failed = voice[t].failed
    BY <1>1, <1>2, <2>1, LaneAssumption DEF Opened, Joined, TypeOK, Stage, Voice, LaneAssumption
  <2>3. QED
    BY <1>1, <2>1, <2>2 DEF AllSpoken, SpokenAt, Begot, Ready, Owed
<1>3. CASE UNCHANGED <<stage, voice, jobs, captions, takes>>
  BY <1>1, <1>3 DEF AllSpoken, SpokenAt, Begot, Ready, Owed
<1>4. CASE Consume
  BY <1>3, <1>4, ConsumerMoves DEF ConsumerUnchanged
<1>5. QED
  BY <1>2, <1>3, <1>4, SpokenServe DEF Next, Cancel, closeForCancel, Idle, vars,
     laneVars, Session, Run, RunUnchanged, Open, OpenFails, Wait, Close, Pump, NextFrame, NextEOF, NextFails,
     Push, PumpUnchanged

\* The consumer alone moves the spans.
LEMMA ChainedStep ==
  ASSUME LInv, [Next]_vars
  PROVE  Chained'
<1>1. TypeOK /\ Joined /\ Chained
  BY DEF LInv, Flow
<1>2. CASE Opened
  <2>1. /\ consumer.pc = "off" /\ consumer'.pc = "receive" /\ consumer'.todo = consumer.todo
        /\ consumer'.left = consumer.left /\ consumer'.flushed = consumer.flushed
        /\ consumer'.segStart = consumer.segStart /\ consumer'.lastEnd = consumer.lastEnd
        /\ UNCHANGED committed
    BY <1>1, <1>2 DEF Opened, TxOpened, RunUnchanged, Joined, TypeOK, Consumer
  <2>2. QED
    BY <1>1, <2>1 DEF Chained
<1>3. CASE UNCHANGED <<committed, consumer>>
  BY <1>1, <1>3 DEF Chained
<1>4. QED
  BY <1>2, <1>3, ConsumerMoves DEF Next, Cancel, closeForCancel, Idle, vars, laneVars, Session, Run,
     RunUnchanged, Open, OpenFails, Wait, Close, Pump, NextFrame, NextEOF, NextFails, Push, PumpUnchanged,
     Serve, Take, TakeEnds, Caption, TranslateFails, SendJob, TakeJob, Speak, VoiceEnds, Join, TargetUnchanged

-----------------------------------------------------------------------------
(* The invariant and what follows from it.                                 *)

\* A lane that has not started has nothing under way.
LEMMA LInvInit == Init => LInv
<1> SUFFICES ASSUME Init PROVE LInv
  OBVIOUS
<1>1. Len(<<>>) = 0 /\ (\A S : <<>> \in Seq(S)) /\ \A k : From(k, <<>>)
  BY DEF From
<1>2. TypeOK
  <2> DEFINE zero == 0 .. MaxFrames
  <2>0. 0 \in zero /\ EventQueue \in Nat
    BY LaneAssumption DEF LaneAssumption
  <2> HIDE DEF zero
  <2>1. TxTypeOK
    <3>1. events \in Seq(Update) /\ Len(events) <= EventQueue
      BY <1>1, <2>0 DEF Init, TxInit
    <3>2. QED
      BY <2>0, <3>1 DEF Init, TxInit, TxTypeOK, zero
  <2>2. ControlTyped
    <3>1. clock \in Time /\ source \in [read : 0 .. MaxFrames, closed : BOOLEAN]
      BY <2>0 DEF Init, Time, zero
    <3>2. QED
      BY <3>1 DEF Init, ControlTyped
  <2>3. Queues(in) /\ Queues(jobs)
    BY <1>1, LaneAssumption DEF Init, Queues, Channel, Empty, LaneAssumption
  <2>4. stage \in [Target -> Stage] /\ voice \in [Target -> Voice]
    BY DEF Init, Stage, Voice, None
  <2>5. cut \in [Target -> BOOLEAN] /\ captions \in [Target -> Seq(Segment)]
        /\ takes \in [Target -> Seq(Segment)]
    BY <1>1 DEF Init
  <2>6. Cursor
    BY <1>1, LaneAssumption DEF Init, Cursor, Consumer, Time, LaneAssumption
  <2>7. QED
    BY <2>1, <2>2, <2>3, <2>4, <2>5, <2>6, TypeParts DEF TargetsTyped
<1>3. Opening /\ Joined /\ Ends
  BY LaneAssumption DEF Init, TxInit, Opening, Joined, Ends, LaneAssumption
<1>4. Failures
  BY DEF Init, Failures, FailuresAt
<1>5. Captioned
  BY <1>1 DEF Init, Empty, Captioned, CaptionedAt, Sent, Queued, Begun
<1>6. AllSpoken
  <2>1. ASSUME NEW t \in Voiced PROVE SpokenAt(t)
    <3>1. /\ takes[t] = <<>> /\ captions[t] = <<>> /\ jobs[t].queue = <<>> /\ ~jobs[t].closed
          /\ stage[t].pc = "off" /\ voice[t].pc = "off"
      BY <2>1, LaneAssumption DEF Init, Empty, LaneAssumption
    <3>2. Begot(t) = 0 /\ Ready(t) = 0 /\ Owed(t) = 0
      BY <1>1, <3>1 DEF Owed, Ready, Begot
    <3>3. QED
      BY <1>1, <3>1, <3>2 DEF SpokenAt
  <2>2. QED
    BY <2>1 DEF AllSpoken
<1>7. Chained
  BY <1>1 DEF Init, Chained, Rising, EndsBy, LastBy
<1>8. QED
  BY <1>2, <1>3, <1>4, <1>5, <1>6, <1>7 DEF LInv, Flow

\* The invariant of the lane, for every set of targets and every capacity.
THEOREM LaneInvariant == Spec => []LInv
<1>1. ASSUME LInv, [Next]_vars PROVE LInv'
  BY <1>1, TypeStep, OpeningStep, JoinedStep, EndsStep, FailuresStep, CaptionedStep, SpokenStep, ChainedStep
  DEF LInv, Flow
<1>2. QED
  BY <1>1, LInvInit, PTL DEF Spec

\* A Run that has returned has closed its source, and its group is done.
LEMMA JoinedIsKept == LInv => RunIsJoined
<1> SUFFICES ASSUME LInv, main = "returned" PROVE NothingOutlivesRun
  BY DEF RunIsJoined, NothingOutlivesRun, LInv
<1>1. TypeOK /\ Opening /\ Joined
  BY DEF LInv, Flow
<1>2. source.closed /\ tx.open \in {"refused", "yes"} /\ (tx.open = "yes" => tx.done)
  BY <1>1 DEF Opening, TypeOK, TxTypeOK
<1>3. CASE tx.open = "yes"
  BY <1>1, <1>2, <1>3, LaneAssumption DEF Joined, GroupDone, NothingOutlivesRun, LaneAssumption
<1>4. CASE tx.open # "yes"
  BY <1>1, <1>2, <1>4 DEF Joined, NothingOutlivesRun
<1>5. QED
  BY <1>3, <1>4

\* When Run has returned, nothing it started is at work any more.
THEOREM NothingOutlivesTheRun == Spec => []RunIsJoined
BY LaneInvariant, JoinedIsKept, PTL

\* An end without an error is the end of the source, with everything consumed: the
\* pump and the consumer end without one only there, and the group forgets none.
THEOREM CleanEndsAreTheSources == Spec => []CleanEndIsTheSources
<1>1. LInv => CleanEndIsTheSources
  BY DEF LInv, Flow, Ends, CleanEndIsTheSources
<1>2. QED
  BY <1>1, LaneInvariant, PTL

-----------------------------------------------------------------------------
(* Every step of the lane is one that the contract allows.                 *)

\* While a goroutine works, Run has no result.
LEMMA WorkIsBeforeTheEnd ==
  ASSUME LInv
  PROVE  /\ consumer.pc \notin {"off", "done"} => result = "none"
         /\ \A t \in Target : stage[t].pc \notin {"off", "done"} => result = "none"
         /\ \A t \in Target : voice[t].pc \notin {"off", "done"} => result = "none"
<1>1. TypeOK /\ Opening /\ Joined
  BY DEF LInv, Flow
<1>2. CASE tx.open # "yes"
  BY <1>1, <1>2 DEF Joined
<1>3. CASE tx.open = "yes" /\ main = "run"
  BY <1>1, <1>3 DEF Opening
<1>4. CASE tx.open = "yes" /\ main # "run"
  BY <1>1, <1>4, LaneAssumption DEF Joined, GroupDone, LaneAssumption
<1>5. QED
  BY <1>2, <1>3, <1>4

\* A group that is done without an error has delivered everything.
LEMMA DoneIsComplete ==
  ASSUME LInv, GroupDone, ~groupErr
  PROVE  Contract!Complete
<1>1. TypeOK /\ Joined /\ Failures /\ Captioned /\ AllSpoken /\ Chained /\ consumer.todo = {}
  BY DEF LInv, Flow, Chained, GroupDone
<1> SUFFICES ASSUME NEW t \in Target
             PROVE  /\ Len(captions[t]) = Len(committed)
                    /\ t \in Voiced => Len(takes[t]) = Len(committed)
  BY DEF Contract!Complete
<1>2. stage[t].pc = "done" /\ voice[t].pc = "done" /\ ~stage[t].failed
      /\ (t \in Voiced => ~voice[t].failed)
  BY <1>1 DEF GroupDone, Joined, Failures, FailuresAt, TypeOK, Stage, Voice
<1>3. /\ Len(captions[t]) \in Nat /\ Len(takes[t]) \in Nat /\ Len(<<>>) = 0
  BY <1>1, TargetShapes
<1>4. in[t].queue = <<>> /\ Sent(t) = Len(committed)
  BY <1>1, <1>2 DEF Captioned, CaptionedAt
<1>5. Sent(t) = Len(captions[t])
  BY <1>1, <1>2, <1>3, <1>4 DEF Sent, Queued, Begun
<1>6. ASSUME t \in Voiced PROVE Len(takes[t]) = Len(captions[t])
  <2>1. jobs[t].queue = <<>> /\ Owed(t) = Len(captions[t])
    BY <1>1, <1>2, <1>6 DEF AllSpoken, SpokenAt
  <2>2. Owed(t) = Len(takes[t])
    BY <1>2, <1>3, <2>1 DEF Owed, Ready, Begot
  <2>3. QED
    BY <2>1, <2>2
<1>7. QED
  BY <1>4, <1>5, <1>6

\* A step of the consumer is a commit of the contract, or nothing to the sinks.
LEMMA CommitIsContracts ==
  ASSUME LInv, Consume
  PROVE  Contract!Commit \/ UNCHANGED Contract!contractVars
<1>1. CursorTyped /\ Moves /\ ConsumerUnchanged /\ consumer.pc \in {"receive", "fanout"}
  BY ConsumerMoves
<1>2. result = "none" /\ UNCHANGED <<captions, takes, result>>
  BY <1>1, WorkIsBeforeTheEnd DEF ConsumerUnchanged
<1>3. committed \in Seq(Span)
  BY DEF LInv, TypeOK, Span
<1>4. CASE UNCHANGED committed
  BY <1>2, <1>4 DEF Contract!contractVars
<1>5. CASE Commits
  <2>1. PICK span \in Span : committed' = Append(committed, span) /\ span[1] <= span[2]
                             /\ LastBy(committed, span[1])
    BY <1>5 DEF Commits
  <2>2. /\ Len(committed') = Len(committed) + 1 /\ committed'[Len(committed')] = span
        /\ \A i \in 1 .. Len(committed) : committed'[i] = committed[i]
    BY <1>3, <2>1
  <2>3. QED
    BY <1>2, <2>1, <2>2 DEF Contract!Commit, LastBy
<1>6. QED
  BY <1>1, <1>4, <1>5 DEF Moves, Rests, Waits, Quits

\* A step of a target is a caption or a take of the contract, or nothing.
LEMMA DeliveryIsContracts ==
  ASSUME LInv, NEW t \in Target, Serve(t)
  PROVE  Contract!Caption(t) \/ Contract!Speak(t) \/ UNCHANGED Contract!contractVars
<1>1. UNCHANGED <<committed, result>> /\ CaptionedAt(t)
  BY DEF LInv, Flow, Captioned, Serve, Take, TakeEnds, Caption, TranslateFails, SendJob, TakeJob, Speak,
     VoiceEnds, Join, TargetUnchanged
<1>2. PICK k \in Nat : k = Len(captions[t])
  BY TargetShapes DEF LInv
<1>3. PICK j \in Nat : j = Len(takes[t])
  BY TargetShapes DEF LInv
<1>4. PICK m \in Nat : m = Len(committed)
  BY TargetShapes DEF LInv
<1>5. CASE Caption(t)
  <2>1. stage[t].pc = "translate" /\ stage[t].seg = k + 1 /\ result = "none"
        /\ captions' = [captions EXCEPT ![t] = Append(@, stage[t].seg)] /\ UNCHANGED takes
    BY <1>2, <1>5, AtWork, WorkIsBeforeTheEnd DEF Caption
  <2>2. ~stage[t].failed
    BY <2>1 DEF LInv, Flow, Failures, FailuresAt
  <2>3. Begun(t) = k + 1 /\ Len(in[t].queue) \in Nat
    BY <1>2, <2>1, TargetShapes DEF Begun, LInv
  <2>4. PICK l \in Nat : l = Len(in[t].queue)
    BY <2>3
  <2>5. Sent(t) \in {k + 1 + l, k + 1 + l + 1}
    BY <2>3, <2>4 DEF Sent, Queued
  <2>6. k < m
    BY <1>1, <1>4, <2>2, <2>5 DEF CaptionedAt
  <2>7. QED
    BY <1>1, <1>2, <1>4, <2>1, <2>6 DEF Contract!Caption
<1>6. CASE Speak(t)
  <2>1. voice[t].pc = "speak" /\ t \in Voiced /\ voice[t].seg = j + 1 /\ result = "none"
        /\ takes' = [takes EXCEPT ![t] = Append(@, voice[t].seg)] /\ UNCHANGED captions
    BY <1>3, <1>6, AtWork, WorkIsBeforeTheEnd DEF Speak
  <2>2. ~voice[t].failed /\ SpokenAt(t)
    BY <2>1 DEF LInv, Flow, Failures, FailuresAt, AllSpoken
  <2>3. Begot(t) = j + 1
    BY <1>3, <2>1 DEF Begot
  <2>4. PICK l \in Nat : l = Len(jobs[t].queue)
    BY TargetShapes DEF LInv
  <2>5. Owed(t) \in {j + 1 + l, j + 1 + l + 1}
    BY <2>3, <2>4 DEF Owed, Ready
  <2>6. j < k
    BY <1>2, <2>2, <2>5 DEF SpokenAt
  <2>7. QED
    BY <1>1, <1>2, <1>3, <2>1, <2>6 DEF Contract!Speak
<1>7. CASE ~Caption(t) /\ ~Speak(t)
  BY <1>1, <1>7 DEF Serve, Take, TakeEnds, TranslateFails, SendJob, TakeJob, VoiceEnds, Join,
     Contract!contractVars
<1>8. QED
  BY <1>5, <1>6, <1>7

\* Every step of the lane is a step of the contract or a stutter.
LEMMA StepIsContracts ==
  ASSUME LInv, [Next]_vars
  PROVE  [Contract!Next]_(Contract!contractVars)
<1>1. TypeOK /\ Opening
  BY DEF LInv, Flow
<1>2. CASE Open \/ OpenFails
  <2>1. UNCHANGED <<committed, captions, takes>> /\ (result' = result \/ (result = "none" /\ result' = "err"))
    BY <1>1, <1>2 DEF Open, OpenFails, RunUnchanged, Opening
  <2>2. QED
    BY <2>1 DEF Contract!contractVars, Contract!Next, Contract!End
<1>3. CASE Wait
  <2>1. UNCHANGED <<committed, captions, takes>> /\ result = "none" /\ GroupDone
        /\ result' = IF groupErr THEN "err" ELSE "ok"
    BY <1>1, <1>3 DEF Wait, RunUnchanged, Opening
  <2>2. Contract!End
    BY <2>1, DoneIsComplete DEF Contract!End
  <2>3. QED
    BY <2>2 DEF Contract!Next
<1>4. CASE Consume
  BY <1>4, CommitIsContracts DEF Contract!Next
<1>5. ASSUME NEW t \in Target, Serve(t) PROVE [Contract!Next]_(Contract!contractVars)
  BY <1>5, DeliveryIsContracts DEF Contract!Next
<1>6. CASE \/ Cancel \/ closeForCancel \/ Opened \/ Close \/ Pump \/ Session \/ Idle
           \/ UNCHANGED vars
  BY <1>6 DEF Cancel, closeForCancel, Opened, Close, RunUnchanged, Pump, NextFrame, NextEOF, NextFails, Push,
     PumpUnchanged, Session, Idle, vars, laneVars, Contract!contractVars
<1>7. QED
  BY <1>2, <1>3, <1>4, <1>5, <1>6 DEF Next, Run

\* The lane delivers what it commits to, in order, each segment once to each target,
\* a take only after its caption, and ends without an error only when every target
\* has everything: emitValidated, fanout, the stages and group.Wait keep the promise
\* of StreamContract whatever the number of targets and the length of the queues.
THEOREM LaneKeepsContract == Spec => ImplementsContract
<1>1. Init => Contract!Init
  BY DEF Init, Contract!Init
<1>2. LInv /\ [Next]_vars => [Contract!Next]_(Contract!contractVars)
  BY StepIsContracts
<1>3. QED
  BY <1>1, <1>2, LaneInvariant, PTL DEF Spec, ImplementsContract, Contract!Spec
=============================================================================
