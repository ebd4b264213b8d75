---------------------------- MODULE Transcription ---------------------------
(***************************************************************************)
(* What a transcription promises to the lane that opened it                *)
(* (internal/core/realtime/ports.go, Transcriber and Transcription), with  *)
(* no process, pipe or goroutine behind it:                                *)
(*   - updates cover audio that was pushed;                                *)
(*   - Events closes once, after the terminal error is known, and nothing  *)
(*     comes after it;                                                     *)
(*   - an end that nobody caused, by CloseSend, by cancelling the context  *)
(*     or by giving up the opening, is an error;                           *)
(*   - Push and Open fail only under a cancelled context or once all that  *)
(*     belongs to the session is gone;                                     *)
(*   - Close returns when it is gone.                                      *)
(* The lane is modelled over this; SttSession is shown to implement it.    *)
(***************************************************************************)
EXTENDS Naturals, Sequences

CONSTANTS
  MaxFrames,  \* model bound: frames the source ever delivers
  EventQueue  \* capacity of the Events channel

VARIABLES
  gctx,   \* the context of the session is cancelled
  tx,     \* the session, as its callers see it
  events  \* the Events channel, head first

txVars == <<gctx, tx, events>>

Update == [end : 0 .. MaxFrames, final : BOOLEAN]

TxTypeOK ==
  /\ gctx \in BOOLEAN
  /\ tx \in [open : {"no", "opening", "yes", "refusing", "refused"}, push : {"idle", "busy", "failed"},
             pushed : 0 .. MaxFrames, sent : BOOLEAN,
             ended : BOOLEAN, terminal : BOOLEAN, done : BOOLEAN,
             close : {"no", "closing", "closed"}]
  /\ events \in Seq(Update) /\ Len(events) <= EventQueue

TxInit ==
  /\ gctx = FALSE
  /\ tx = [open |-> "no", push |-> "idle", pushed |-> 0, sent |-> FALSE,
           ended |-> FALSE, terminal |-> FALSE, done |-> FALSE, close |-> "no"]
  /\ events = <<>>

-----------------------------------------------------------------------------
(* What the lane does.                                                     *)

TxOpen ==
  /\ tx.open = "no" /\ ~gctx
  /\ tx' = [tx EXCEPT !.open = "opening"]
  /\ UNCHANGED events

TxPush ==
  /\ tx.open = "yes" /\ tx.push = "idle" /\ ~tx.sent /\ ~gctx
  /\ tx.pushed < MaxFrames
  /\ tx' = [tx EXCEPT !.push = "busy", !.pushed = @ + 1]
  /\ UNCHANGED events

TxCloseSend ==
  /\ tx.open = "yes" /\ tx.push = "idle" /\ ~tx.sent
  /\ tx' = [tx EXCEPT !.sent = TRUE]
  /\ UNCHANGED events

TxReceive ==
  /\ events # <<>>
  /\ events' = Tail(events)
  /\ UNCHANGED tx

TxClose ==
  /\ tx.open = "yes" /\ tx.push # "busy" /\ tx.close = "no"
  /\ tx' = [tx EXCEPT !.close = "closing"]
  /\ UNCHANGED events

-----------------------------------------------------------------------------
(* What the session does.                                                  *)

TxOpened ==
  /\ tx.open = "opening"
  /\ tx' = [tx EXCEPT !.open = "yes"]
  /\ UNCHANGED events

TxRefused ==
  /\ \/ /\ tx.open = "opening"
        /\ tx' = [tx EXCEPT !.open = "refusing"]
     \/ /\ tx.open = "no" \/ (tx.open = "refusing" /\ tx.done)
        /\ tx' = [tx EXCEPT !.open = "refused"]
  /\ UNCHANGED events

TxPushed ==
  /\ tx.push = "busy"
  /\ tx' = [tx EXCEPT !.push = "idle"]
  /\ UNCHANGED events

TxPushFailed ==
  /\ tx.push = "busy" /\ (gctx \/ tx.done)
  /\ tx' = [tx EXCEPT !.push = "failed"]
  /\ UNCHANGED events

TxUpdate(u) ==
  /\ tx.open \in {"opening", "refusing", "yes"} /\ ~tx.ended
  /\ u.end <= tx.pushed
  /\ Len(events) < EventQueue
  /\ events' = Append(events, u)
  /\ UNCHANGED tx

TxEnd(terminal) ==
  /\ tx.open \in {"opening", "refusing", "yes"} /\ ~tx.ended
  /\ ~terminal => tx.sent \/ gctx \/ tx.open = "refusing" \/ tx.close # "no"
  /\ tx' = [tx EXCEPT !.ended = TRUE, !.terminal = terminal]
  /\ UNCHANGED events

TxDone ==
  /\ tx.ended /\ ~tx.done
  /\ tx' = [tx EXCEPT !.done = TRUE]
  /\ UNCHANGED events

TxClosed ==
  /\ tx.close = "closing" /\ tx.done
  /\ tx' = [tx EXCEPT !.close = "closed"]
  /\ UNCHANGED events

\* The session's own steps, in which its callers have no part.
TxOwn ==
  \/ \E u \in Update : TxUpdate(u)
  \/ \E terminal \in BOOLEAN : TxEnd(terminal)
  \/ TxDone

\* The caller may cancel the context at any time.
TxNext ==
  \/ /\ \/ TxOpen \/ TxPush \/ TxCloseSend \/ TxReceive \/ TxClose
        \/ TxOpened \/ TxRefused \/ TxPushed \/ TxPushFailed \/ TxClosed
        \/ TxOwn
     /\ UNCHANGED gctx
  \/ gctx' = TRUE /\ UNCHANGED <<tx, events>>

TxSpec == TxInit /\ [][TxNext]_txVars
=============================================================================
