------------------------------- MODULE Committer -------------------------------
(***************************************************************************)
(* The wait-k commit policy (core/realtime/commit.go): partial transcripts *)
(* of an utterance become clauses nobody can take back.  The speaker's     *)
(* sentence is known to the model, not to the committer: a token carries   *)
(* the position in it that it was heard for, and agreement looks at the    *)
(* word alone, without the punctuation at its edges.                       *)
(***************************************************************************)
EXTENDS Naturals, Sequences, FiniteSets, SequencesExt, FiniteSetsExt

CONSTANTS Policies,   \* broadcastCommitPolicy and callCommitPolicy
          Sentences,  \* what is said: a sequence of words
          Splittable, \* words the decoder may write as two ("gonna", "going to")
          Closing,    \* words that end a clause
          MaxPartials \* bound: partials of an utterance

AnchorWindow == 2

VARIABLES policy,   \* committer.policy
          sentence, \* what is being said
          liberal,  \* whether this decoder splits a word at all
          heard,    \* how much of it the decoder had before it
          last,     \* committer.last; prev is always the same slice
          agreed, emitted,
          said,     \* the tokens of the clauses returned, in order
          clauses,  \* their lengths, with what made each of them end
          partials, phase
commitVars == <<policy, sentence, liberal, heard, last, agreed, emitted, said, clauses, partials, phase>>

-----------------------------------------------------------------------------
(* What the decoder writes *)

Token(word, part, at, end) == [word |-> word, part |-> part, at |-> at, end |-> end]
Written(at, split) ==
    LET w == sentence[at] IN
    IF split /\ w \in Splittable
      THEN <<Token(w, 1, at, FALSE), Token(w, 2, at, w \in Closing)>> ELSE <<Token(w, 0, at, w \in Closing)>>
\* The first n words said, the last `lost` of them misheard; a decoder closes
\* its text with a full stop, whether the sentence ends there or not.
Heard(n, lost, split) ==
    LET sure == FlattenSeq([at \in 1 .. n - lost |-> Written(at, split)])
        text == sure \o [i \in 1 .. lost |-> Token("noise", 0, n - lost + i, FALSE)]
    IN  IF text = <<>> THEN text ELSE [text EXCEPT ![Len(text)].end = TRUE]

-----------------------------------------------------------------------------
(* commit.go *)

wordsAgree(a, b) == a.word = b.word /\ a.part = b.part
lcp(a, b) ==
    Max({n \in 0 .. Len(a) : n <= Len(b) /\ \A i \in 1 .. n : wordsAgree(a[i], b[i])})
\* What closes a clause counts through closing quotes and brackets after it.
isClauseEnd(token) == token.end
clamp(v, lo, hi) == IF v < lo THEN lo ELSE IF v > hi THEN hi ELSE v

\* The frontier in a new tokenization: where it was if all before it agrees, else
\* before the last place its next words reappear, else past everything.
anchor(words) ==
    LET kept == lcp(last, words)
        pending == SubSeq(last, emitted + 1, clamp(emitted + AnchorWindow, 0, Len(last)))
        places == {j \in kept .. Len(words) - Len(pending) :
                      lcp(pending, SubSeq(words, j + 1, Len(words))) = Len(pending)}
    IN  IF emitted = 0 THEN 0
        ELSE IF kept >= emitted THEN emitted
        ELSE IF pending = <<>> \/ places = {} THEN Len(words) ELSE Max(places)

\* From the frontier to end: a clause at its closing word once it is long enough
\* and in any case at its longest; force takes the rest.
cut(text, from, end, force) ==
    LET step(c, i) ==
            LET n == i - c.start IN
            IF (isClauseEnd(text[i]) /\ n >= policy.minClause) \/ n >= policy.maxClause
              THEN [start |-> i, cuts |-> Append(c.cuts, [len |-> n, forced |-> FALSE])] ELSE c
        walked == FoldLeft(step, [start |-> from, cuts |-> <<>>],
                           [k \in 1 .. (IF end > from THEN end - from ELSE 0) |-> from + k])
    IN  IF force /\ walked.start < end
          THEN [start |-> end, cuts |-> Append(walked.cuts, [len |-> end - walked.start, forced |-> TRUE])]
          ELSE walked
Cut(text, from, end, force) ==
    LET done == cut(text, from, end, force) IN
    /\ emitted' = done.start
    /\ clauses' = clauses \o done.cuts
    /\ said' = said \o SubSeq(text, from + 1, done.start)

stableEnd(words, agreement, frontier) == clamp(agreement - policy.holdTail, frontier, Len(words))

CommitInit ==
    /\ policy \in Policies /\ sentence \in Sentences /\ liberal \in BOOLEAN
    /\ heard = 0 /\ last = <<>> /\ agreed = 0 /\ emitted = 0
    /\ said = <<>> /\ clauses = <<>> /\ partials = 0 /\ phase = "speaking"

\* commit of a partial, which the provider never sends Stable: observe, then cut
\* what agreed.  Audio is only added to
\* a window, and a decoder does not write less of it than before.
Partial ==
    /\ phase = "speaking" /\ partials < MaxPartials /\ partials' = partials + 1
    /\ \E n \in heard .. Len(sentence), lost \in 0 .. policy.holdTail, split \in {FALSE, liberal} :
         /\ lost <= n /\ n > 0 /\ heard' = n
         /\ LET words == Heard(n, lost, split)
                agreement == lcp(last, words)
            IN  /\ last' = words /\ agreed' = agreement
                /\ Cut(words, anchor(words), stableEnd(words, agreement, anchor(words)), FALSE)
    /\ UNCHANGED <<policy, sentence, liberal, phase>>

\* commit of a final: all of it is stable, and the committer starts over.
Final ==
    /\ phase = "speaking" /\ phase' = "closed"
    /\ \E split \in {FALSE, liberal} :
         LET words == Heard(Len(sentence), 0, split)
             done == cut(words, anchor(words), Len(words), TRUE)
         IN  /\ clauses' = clauses \o done.cuts
             /\ said' = said \o SubSeq(words, anchor(words) + 1, done.start)
    /\ heard' = 0 /\ last' = <<>> /\ agreed' = 0 /\ emitted' = 0
    /\ UNCHANGED <<policy, sentence, liberal, partials>>

\* The stream ends without a final: flushHold takes what agreed, held or not.
FlushHold ==
    /\ phase = "speaking" /\ phase' = "flushed"
    /\ Cut(last, emitted, clamp(agreed, 0, Len(last)), TRUE)
    /\ UNCHANGED <<policy, sentence, liberal, heard, last, agreed, partials>>

\* The next utterance finds a committer that remembers nothing.
NextUtterance ==
    /\ phase = "closed" /\ phase' = "speaking" /\ partials' = 0
    /\ sentence' \in Sentences /\ sentence' # sentence
    /\ said' = <<>> /\ clauses' = <<>>
    /\ UNCHANGED <<policy, liberal, heard, last, agreed, emitted>>

CommitNext == Partial \/ Final \/ FlushHold \/ NextUtterance
-----------------------------------------------------------------------------
\* The slices the code takes exist.
CommitTypeOK ==
    /\ emitted \in 0 .. Len(last) /\ agreed \in 0 .. Len(last)
    /\ Len(said) = FoldLeft(LAMBDA n, c : n + c.len, 0, clauses)

\* Words go out in the order they were said and none of them twice, however the
\* decoder writes it: commit.go:103 "when alignment is ambiguous it skips rather
\* than duplicates, because a duplicate is audible".
Follows(a, b) == a.at < b.at \/ (a.at = b.at /\ a.part = 1 /\ b.part = 2)
SaidOnce == \A i \in 1 .. Len(said) - 1 : Follows(said[i], said[i + 1])

\* What the anchor keeps of that: it takes a word it finds for the one it looks
\* for, so the decoder writes a text one way, or no word of it comes back.
UnambiguousSaidOnce == ~liberal \/ IsInjective(sentence) => SaidOnce

\* With a decoder that only revises the words the policy holds back, what a final
\* closes was said whole, and nothing misheard was ever spoken.
SaidWhole ==
    ~liberal => /\ phase # "flushed" => \A i \in DOMAIN said : said[i].word = sentence[i]
                /\ phase = "closed" => Len(said) = Len(sentence)

\* A clause is never longer than the policy's bound on latency, and only the end
\* of a text makes one shorter than its least.
ClausesFit == \A i \in DOMAIN clauses :
    /\ clauses[i].len \in 1 .. policy.maxClause
    /\ clauses[i].len < policy.minClause => clauses[i].forced /\ i = Len(clauses)
=============================================================================
