--------------------------- MODULE StreamContract ---------------------------
(***************************************************************************)
(* What one run of the streaming lane promises to its sinks and tracks,    *)
(* without queues, goroutines, contexts or providers:                      *)
(*   - segments are committed one after the other, and the span of each    *)
(*     begins no earlier than the one before it ends;                      *)
(*   - every target receives them in that order, each once, and its track  *)
(*     a take only after its sink had the caption;                         *)
(*   - the run ends once, after which nothing arrives, and without an      *)
(*     error only if every target has received everything.                 *)
(***************************************************************************)
EXTENDS Naturals, Sequences

CONSTANTS Target, Voiced

VARIABLES
  committed,  \* the spans of the segments, in order
  captions,   \* target -> the segments its sink has received
  takes,      \* target -> the segments its track has received
  outcome     \* none, ok, err

contractVars == <<committed, captions, takes, outcome>>

Init ==
  /\ committed = <<>>
  /\ captions = [t \in Target |-> <<>>]
  /\ takes = [t \in Target |-> <<>>]
  /\ outcome = "none"

Commit ==
  /\ outcome = "none"
  /\ Len(committed') = Len(committed) + 1
  /\ \A i \in 1 .. Len(committed) : committed'[i] = committed[i]
  /\ LET new == committed'[Len(committed')]
     IN  /\ new[1] <= new[2]
         /\ committed # <<>> => committed[Len(committed)][2] <= new[1]
  /\ UNCHANGED <<captions, takes, outcome>>

Caption(t) ==
  /\ outcome = "none" /\ Len(captions[t]) < Len(committed)
  /\ captions' = [captions EXCEPT ![t] = Append(@, Len(@) + 1)]
  /\ UNCHANGED <<committed, takes, outcome>>

Speak(t) ==
  /\ outcome = "none" /\ t \in Voiced /\ Len(takes[t]) < Len(captions[t])
  /\ takes' = [takes EXCEPT ![t] = Append(@, Len(@) + 1)]
  /\ UNCHANGED <<committed, captions, outcome>>

Complete ==
  \A t \in Target :
    /\ Len(captions[t]) = Len(committed)
    /\ t \in Voiced => Len(takes[t]) = Len(committed)

End ==
  /\ outcome = "none"
  /\ outcome' = "err" \/ (outcome' = "ok" /\ Complete)
  /\ UNCHANGED <<committed, captions, takes>>

Next == Commit \/ End \/ \E t \in Target : Caption(t) \/ Speak(t)

Spec == Init /\ [][Next]_contractVars
=============================================================================
