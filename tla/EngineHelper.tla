---------------------------- MODULE EngineHelper ----------------------------
(***************************************************************************)
(* The translation and the voice helper processes (speechengine/mt.go and  *)
(* tts.go): a loop that reads one request, asks a child process (the       *)
(* compiled translator, or Piper) and writes one answer.  The translator   *)
(* answers with a line of text, Piper with the path of the file it wrote.  *)
(***************************************************************************)
EXTENDS Naturals, Sequences

CONSTANTS Requests, \* bound: requests the daemon sends
          Kinds     \* "mt", "tts"

VARIABLES helper, \* [kind, pc, at: the request in hand, reply: the line read for it, exit]
          child,  \* the child: its life, its input, the request it has, its output
          acks,   \* the line read from it: for Piper, a buffer of one line
          answers \* the answers written, by the request the child answered
loopVars == <<helper, child, acks, answers>>

None == 0
\* A line Piper was not asked for.
Unasked == Requests + 1

LoopInit ==
    /\ helper \in [kind : Kinds, pc : {"scan"}, at : {None}, reply : {None}, exit : {"none"}]
    /\ child = [at |-> "live", input |-> TRUE, asked |-> None, hung |-> FALSE, chatty |-> FALSE]
    /\ acks = <<>> /\ answers = <<>>

Goto(pc) == helper' = [helper EXCEPT !.pc = pc]
End(exit) == helper' = [helper EXCEPT !.pc = "close", !.exit = exit]
\* abort: kill the child and close its input.
Killed == [child EXCEPT !.at = IF @ = "live" THEN "dying" ELSE @, !.input = FALSE]

-----------------------------------------------------------------------------
(* The request loop *)

\* A blank request is answered without the child; one that does not decode, or
\* the end of the input, ends the loop.
Scan ==
    /\ helper.pc = "scan"
    /\ \/ /\ helper.at < Requests
          /\ \/ helper' = [helper EXCEPT !.pc = "write", !.at = @ + 1] /\ UNCHANGED answers
             \/ helper' = [helper EXCEPT !.at = @ + 1] /\ answers' = Append(answers, helper.at + 1)
       \/ (End("ok") \/ End("failed")) /\ UNCHANGED answers
    /\ UNCHANGED <<child, acks>>

\* The write returns, with the child's input open or not, or its timer fires.
WriteRequest ==
    /\ helper.pc = "write"
    /\ \/ /\ child.at = "live" /\ child.input
          /\ child' = [child EXCEPT !.asked = helper.at] /\ Goto("read")
       \/ child.at # "live" /\ End("failed") /\ UNCHANGED child
       \/ child.hung /\ End("failed") /\ child' = Killed
    /\ UNCHANGED <<acks, answers>>

\* readTranslationReply and requestWithin: a line, the end of the child's output,
\* or the timer.  Piper's line must name the file it was asked for.
ReadReply ==
    /\ helper.pc = "read"
    /\ \/ /\ acks # <<>> /\ acks' = Tail(acks) /\ UNCHANGED child
          /\ IF helper.kind = "tts" /\ Head(acks) # helper.at THEN End("failed")
             ELSE helper' = [helper EXCEPT !.pc = "answer", !.reply = Head(acks)]
       \/ acks = <<>> /\ child.at = "done" /\ End("failed") /\ UNCHANGED <<child, acks>>
       \/ child.hung /\ End("failed") /\ child' = Killed /\ UNCHANGED acks
    /\ UNCHANGED answers

\* waitForPCM16WAV: Piper's file is read again for as long as it is incomplete; one
\* that is corrupt, too long, or not whole within the window ends the loop.
FileUnreadable == helper.kind = "tts" /\ End("failed")

Answer ==
    /\ helper.pc = "answer"
    /\ \/ Goto("scan") /\ answers' = Append(answers, helper.reply)
       \/ FileUnreadable /\ UNCHANGED answers
    /\ UNCHANGED <<child, acks>>

\* mtProc.close kills the translator; piperProc.close closes Piper's input and
\* kills it after a grace.
Close ==
    /\ helper.pc = "close" /\ Goto("reap")
    /\ child' = IF helper.kind = "mt" THEN Killed ELSE [child EXCEPT !.input = FALSE]
    /\ UNCHANGED <<acks, answers>>
Grace == /\ helper.pc = "reap" /\ child.at = "live" /\ child' = Killed
         /\ UNCHANGED <<helper, acks, answers>>
Reaped == /\ helper.pc = "reap" /\ child.at = "done" /\ Goto("exit")
          /\ UNCHANGED <<child, acks, answers>>

-----------------------------------------------------------------------------
(* The child, and the pump of Piper's output *)

\* pumpAcks never blocks: a line that finds the buffer full is dropped.
Put(line) == acks' = IF acks = <<>> THEN <<line>> ELSE acks
ChildAnswers ==
    /\ child.at = "live" /\ child.asked # None /\ ~child.hung
    /\ Put(child.asked) /\ child' = [child EXCEPT !.asked = None]
    /\ UNCHANGED <<helper, answers>>
\* Piper may write a line nobody asked for, once in a behaviour.
ChildChatters ==
    /\ child.at = "live" /\ helper.kind = "tts" /\ ~child.chatty
    /\ Put(Unasked) /\ child' = [child EXCEPT !.chatty = TRUE]
    /\ UNCHANGED <<helper, answers>>
ChildHangs == /\ child.at = "live" /\ child' = [child EXCEPT !.hung = TRUE] /\ UNCHANGED <<helper, acks, answers>>
\* It crashes, or ends because its input did; a killed one ends.
ChildExits ==
    /\ child.at = "dying" \/ (child.at = "live" /\ ~child.hung)
    /\ child' = [child EXCEPT !.at = "done", !.asked = None] /\ UNCHANGED <<helper, acks, answers>>

HelperStep == Scan \/ WriteRequest \/ ReadReply \/ Answer \/ Close \/ Grace \/ Reaped
LoopNext == HelperStep \/ ChildAnswers \/ ChildChatters \/ ChildHangs \/ ChildExits
\* The loop runs, its timers fire, and a killed child ends.
LoopProgress == HelperStep \/ ChildAnswers \/ (child.at = "dying" /\ ChildExits)
-----------------------------------------------------------------------------
\* Answers are in lockstep: the i-th is the i-th request's, also when the child
\* is late, dies, or writes a line nobody asked for.
AnswersInLockstep == \A i \in DOMAIN answers : answers[i] = i

\* The helper has ended, and left no child behind.
HelperEnded == helper.pc = "exit" /\ child.at = "done"
=============================================================================
