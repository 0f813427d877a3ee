---------------------------- MODULE RunnerStream ----------------------------
(***************************************************************************)
(* One streamed answer on its way through the server: the reader goroutine *)
(* of LLMRunnerService.sendMessageStream, the forwarder of the pool, the   *)
(* goroutine of the chat turn, which also collects the text that goes into *)
(* the assistant's row, and the gRPC handler, joined by three buffered     *)
(* channels.  All but the forwarder watch the request's context, which     *)
(* ends when the client leaves or the handler returns.                     *)
(*                                                                         *)
(* The behaviour starts when the runner's first message has arrived and    *)
(* the turn's draft row exists.                                            *)
(***************************************************************************)
EXTENDS Naturals, Sequences, SequencesExt

CONSTANTS
    Kinds,       \* what messages carry: of "text", "reasoning", "both", "blank"
    Cap,         \* the capacity of each of the three channels (100 in the code)
    MaxMsgs      \* bound: messages the runner sends

ASSUME KindsAssumption == Kinds \subseteq {"text", "reasoning", "both", "blank"}
ASSUME CapAssumption == Cap \in Nat \ {0}
ASSUME MsgsAssumption == MaxMsgs \in Nat \ {0}

VARIABLES
    ctx,         \* "live", "cancelled", or "returned" when the handler is done
    msgs,        \* how many messages of the runner have been received
    said,        \* history: the pieces those messages carry
    reader,      \* sendMessageStream's goroutine
    output,      \* its channel
    fwd,         \* forwardStream's goroutine
    out,         \* its channel
    turn,        \* the turn's goroutine
    written,     \* its fullResponse
    clientChan,  \* its channel
    row,         \* the content of the assistant's row
    handler,     \* streamSendLoop
    shown        \* the pieces it has sent to the client

vars == <<ctx, msgs, said, reader, output, fwd, out, turn, written, clientChan,
          row, handler, shown>>

NoMsg == [no |-> 0, kind |-> "blank"]
Msgs == [no : 1 .. MaxMsgs, kind : Kinds]
Notice == <<0, "notice">>

Reasons(m) == m.kind \in {"reasoning", "both"}
Speaks(m) == m.kind \in {"text", "both"}

\* What a message is to the client: first its reasoning, then its text.
Pieces(m) ==
    (IF Reasons(m) THEN <<<<m.no, "reasoning">>>> ELSE <<>>) \o
    (IF Speaks(m) THEN <<<<m.no, "text">>>> ELSE <<>>)

\* A message with neither is not forwarded.
Received(m) == IF m.kind = "blank" THEN "recv" ELSE "put"

Init ==
    /\ ctx = "live" /\ msgs = 1
    /\ \E k \in Kinds, done \in BOOLEAN :
          LET m == [no |-> 1, kind |-> k]
          IN  /\ said = Pieces(m)
              /\ reader = [at |-> IF k = "blank" /\ done THEN "gone" ELSE Received(m),
                           msg |-> m, done |-> done]
    /\ output = <<>> /\ out = <<>> /\ clientChan = <<>>
    /\ fwd = [at |-> "take", msg |-> NoMsg]
    /\ \E notice \in BOOLEAN :
          turn = [at |-> IF notice THEN "notice" ELSE "take", msg |-> NoMsg]
    /\ written = <<>> /\ row = <<>>
    /\ handler = [at |-> "take", piece |-> Notice] /\ shown = <<>>

\* The client leaves, or its deadline passes.
Cancel ==
    /\ ctx = "live"
    /\ ctx' = "cancelled"
    /\ UNCHANGED <<msgs, said, reader, output, fwd, out, turn, written, clientChan,
                   row, handler, shown>>

-----------------------------------------------------------------------------
(* sendMessageStream *)

(* Mutant: done is looked at before the message's content. *)
ReaderPutDoneFirst ==
    /\ reader.at = "put"
    /\ reader.done \/ Len(output) < Cap
    /\ output' = IF reader.done THEN output ELSE Append(output, reader.msg)
    /\ reader' = [reader EXCEPT !.at = IF reader.done THEN "gone" ELSE "recv"]
    /\ UNCHANGED <<ctx, msgs, said, fwd, out, turn, written, clientChan, row, handler,
                   shown>>

ReaderPut ==
    /\ reader.at = "put" /\ Len(output) < Cap
    /\ output' = Append(output, reader.msg)
    /\ reader' = [reader EXCEPT !.at = IF reader.done THEN "gone" ELSE "recv"]
    /\ UNCHANGED <<ctx, msgs, said, fwd, out, turn, written, clientChan, row, handler,
                   shown>>

ReaderQuit ==
    /\ reader.at = "put" /\ ctx # "live"
    /\ reader' = [reader EXCEPT !.at = "gone"]
    /\ UNCHANGED <<ctx, msgs, said, output, fwd, out, turn, written, clientChan, row,
                   handler, shown>>

Recv(k, done) ==
    LET m == [no |-> msgs + 1, kind |-> k]
    IN  /\ reader.at = "recv" /\ msgs < MaxMsgs
        /\ msgs' = msgs + 1
        /\ said' = said \o Pieces(m)
        /\ reader' = [at |-> IF k = "blank" /\ done THEN "gone" ELSE Received(m),
                      msg |-> m, done |-> done]
        /\ UNCHANGED <<ctx, output, fwd, out, turn, written, clientChan, row,
                       handler, shown>>

(* End of stream, or any error: the reader goes, and its channel is closed; the
   goroutines after it cannot tell which it was. *)
RecvErr ==
    /\ reader.at = "recv"
    /\ reader' = [reader EXCEPT !.at = "gone"]
    /\ UNCHANGED <<ctx, msgs, said, output, fwd, out, turn, written, clientChan, row,
                   handler, shown>>

-----------------------------------------------------------------------------
(* forwardStream *)

FwdTake ==
    /\ fwd.at = "take" /\ output # <<>>
    /\ fwd' = [at |-> "put", msg |-> Head(output)]
    /\ output' = Tail(output)
    /\ UNCHANGED <<ctx, msgs, said, reader, out, turn, written, clientChan, row,
                   handler, shown>>

(* Mutant: the select gets a default case. *)
FwdPutOrDrop ==
    /\ fwd.at = "put"
    /\ out' = IF Len(out) < Cap THEN Append(out, fwd.msg) ELSE out
    /\ fwd' = [at |-> "take", msg |-> NoMsg]
    /\ UNCHANGED <<ctx, msgs, said, reader, output, turn, written, clientChan, row,
                   handler, shown>>

\* The select has this one case: nothing but room in the channel ends it.
FwdPut ==
    /\ fwd.at = "put" /\ Len(out) < Cap
    /\ out' = Append(out, fwd.msg)
    /\ fwd' = [at |-> "take", msg |-> NoMsg]
    /\ UNCHANGED <<ctx, msgs, said, reader, output, turn, written, clientChan, row,
                   handler, shown>>

\* The runner's counter is given back and the channel closed.
FwdEnd ==
    /\ fwd.at = "take" /\ output = <<>> /\ reader.at = "gone"
    /\ fwd' = [at |-> "gone", msg |-> NoMsg]
    /\ UNCHANGED <<ctx, msgs, said, reader, output, out, turn, written, clientChan,
                   row, handler, shown>>

-----------------------------------------------------------------------------
(* The turn: ChatUseCase.SendMessage's goroutine and forwardLLMStreamChunks *)

\* Text is collected before it is sent.
Collect(m) == written' = IF Speaks(m) THEN Append(written, <<m.no, "text">>) ELSE written

TurnNotice ==
    /\ turn.at = "notice" /\ Len(clientChan) < Cap
    /\ clientChan' = Append(clientChan, Notice)
    /\ turn' = [turn EXCEPT !.at = "take"]
    /\ UNCHANGED <<ctx, msgs, said, reader, output, fwd, out, written, row, handler,
                   shown>>

TurnTake ==
    LET m == Head(out)
    IN  /\ turn.at = "take" /\ out # <<>>
        /\ out' = Tail(out)
        /\ IF Reasons(m)
           THEN turn' = [at |-> "reason", msg |-> m] /\ UNCHANGED written
           ELSE turn' = [at |-> "text", msg |-> m] /\ Collect(m)
        /\ UNCHANGED <<ctx, msgs, said, reader, output, fwd, clientChan, row, handler,
                       shown>>

TurnReason ==
    /\ turn.at = "reason" /\ Len(clientChan) < Cap
    /\ clientChan' = Append(clientChan, <<turn.msg.no, "reasoning">>)
    /\ turn' = [turn EXCEPT !.at = IF Speaks(turn.msg) THEN "text" ELSE "take"]
    /\ Collect(turn.msg)
    /\ UNCHANGED <<ctx, msgs, said, reader, output, fwd, out, row, handler, shown>>

TurnText ==
    /\ turn.at = "text" /\ Len(clientChan) < Cap
    /\ clientChan' = Append(clientChan, <<turn.msg.no, "text">>)
    /\ turn' = [turn EXCEPT !.at = "take"]
    /\ UNCHANGED <<ctx, msgs, said, reader, output, fwd, out, written, row, handler,
                   shown>>

(* Mutant: the sends of the answer's pieces do not watch the context. *)
TurnQuitNoticeOnly ==
    /\ turn.at = "notice" /\ ctx # "live"
    /\ turn' = [turn EXCEPT !.at = "close"]
    /\ UNCHANGED <<ctx, msgs, said, reader, output, fwd, out, written, clientChan,
                   row, handler, shown>>

TurnQuit ==
    /\ turn.at \in {"notice", "reason", "text"} /\ ctx # "live"
    /\ turn' = [turn EXCEPT !.at = "close"]
    /\ UNCHANGED <<ctx, msgs, said, reader, output, fwd, out, written, clientChan,
                   row, handler, shown>>

TurnEnd ==
    /\ turn.at = "take" /\ out = <<>> /\ fwd.at = "gone"
    /\ turn' = [turn EXCEPT !.at = "close"]
    /\ UNCHANGED <<ctx, msgs, said, reader, output, fwd, out, written, clientChan,
                   row, handler, shown>>

\* The deferred calls, last first: the channel is closed, then the row written.
TurnClose ==
    /\ turn.at = "close"
    /\ turn' = [turn EXCEPT !.at = "save"]
    /\ UNCHANGED <<ctx, msgs, said, reader, output, fwd, out, written, clientChan,
                   row, handler, shown>>

TurnSave ==
    /\ turn.at = "save"
    /\ row' = written
    /\ turn' = [turn EXCEPT !.at = "gone"]
    /\ UNCHANGED <<ctx, msgs, said, reader, output, fwd, out, written, clientChan,
                   handler, shown>>

\* The write's error is dropped: the row stays the empty draft.
TurnSaveFails ==
    /\ turn.at = "save"
    /\ turn' = [turn EXCEPT !.at = "gone"]
    /\ UNCHANGED <<ctx, msgs, said, reader, output, fwd, out, written, clientChan,
                   row, handler, shown>>

-----------------------------------------------------------------------------
(* streamSendLoop *)

HandlerTake ==
    /\ handler.at = "take" /\ clientChan # <<>>
    /\ handler' = [at |-> "send", piece |-> Head(clientChan)]
    /\ clientChan' = Tail(clientChan)
    /\ UNCHANGED <<ctx, msgs, said, reader, output, fwd, out, turn, written, row,
                   shown>>

HandlerSend ==
    /\ handler.at = "send"
    /\ shown' = Append(shown, handler.piece)
    /\ handler' = [handler EXCEPT !.at = "take"]
    /\ UNCHANGED <<ctx, msgs, said, reader, output, fwd, out, turn, written,
                   clientChan, row>>

\* The channel is closed and empty: the final message, and the context ends.
HandlerFinal ==
    /\ handler.at = "take" /\ clientChan = <<>> /\ turn.at \in {"save", "gone"}
    /\ handler' = [handler EXCEPT !.at = "ok"]
    /\ ctx' = IF ctx = "live" THEN "returned" ELSE ctx
    /\ UNCHANGED <<msgs, said, reader, output, fwd, out, turn, written, clientChan,
                   row, shown>>

\* Sending a chunk or the final message fails: the client has left.
HandlerFail ==
    /\ ctx = "cancelled"
    /\ \/ handler.at = "send"
       \/ handler.at = "take" /\ clientChan = <<>> /\ turn.at \in {"save", "gone"}
    /\ handler' = [handler EXCEPT !.at = "failed"]
    /\ UNCHANGED <<ctx, msgs, said, reader, output, fwd, out, turn, written,
                   clientChan, row, shown>>

-----------------------------------------------------------------------------
Reader ==
    \/ ReaderPut
    \/ ReaderQuit
    \/ \E k \in Kinds, done \in BOOLEAN : Recv(k, done)
    \/ RecvErr

Forwarder == FwdTake \/ FwdPut \/ FwdEnd

Turn ==
    \/ TurnNotice \/ TurnTake \/ TurnReason \/ TurnText
    \/ TurnQuit \/ TurnEnd \/ TurnClose \/ TurnSave \/ TurnSaveFails

Handler == HandlerTake \/ HandlerSend \/ HandlerFinal \/ HandlerFail

\* Everything has ended, or the forwarder waits for a reader that has left.
Over ==
    /\ reader.at = "gone" /\ turn.at = "gone" /\ handler.at \in {"ok", "failed"}
    /\ \/ fwd.at = "gone"
       \/ fwd.at = "put" /\ Len(out) = Cap
    /\ UNCHANGED vars

Next == Cancel \/ Reader \/ Forwarder \/ Turn \/ Handler \/ Over

Spec == Init /\ [][Next]_vars

(* Each goroutine goes on when it can.  For the reader this assumes that the
   runner's next message, its end or an error comes. *)
FairSpec ==
    /\ Spec
    /\ WF_vars(Reader) /\ WF_vars(Forwarder) /\ WF_vars(Turn) /\ WF_vars(Handler)

-----------------------------------------------------------------------------
(* Properties *)

Queue == UNION {[1 .. n -> Msgs] : n \in 0 .. Cap}
IsPiece(p) == p \in (0 .. MaxMsgs) \X {"notice", "reasoning", "text"}

(* The state is what the code can hold: no channel is over its capacity. *)
TypeOK ==
    /\ ctx \in {"live", "cancelled", "returned"} /\ msgs \in 1 .. MaxMsgs
    /\ reader \in [at : {"put", "recv", "gone"}, msg : Msgs, done : BOOLEAN]
    /\ output \in Queue /\ out \in Queue
    /\ fwd \in [at : {"take", "put", "gone"}, msg : Msgs \cup {NoMsg}]
    /\ turn \in [at : {"notice", "take", "reason", "text", "close", "save", "gone"},
                 msg : Msgs \cup {NoMsg}]
    /\ Len(clientChan) <= Cap
    /\ \A s \in {said, written, clientChan, row, shown} :
          \A i \in DOMAIN s : IsPiece(s[i])
    /\ handler.at \in {"take", "send", "ok", "failed"} /\ IsPiece(handler.piece)

\* What the client is shown of the answer, the notice left out.
Body(s) == FlattenSeq([i \in DOMAIN s |-> IF s[i] # Notice THEN <<s[i]>> ELSE <<>>])

\* What has become of the assistant's row.
Fate ==
    IF turn.at # "gone" THEN "draft" ELSE IF row = written THEN "stored" ELSE "lost"

(* The pipeline implements AnswerStream: whatever the interleaving and whenever
   the client leaves, the client is shown the runner's answer in order without
   gaps, and the row is stored with all the text the client is ever shown; or,
   when its one write fails, it stays the empty draft, also for a client that
   is shown the whole answer and gets the final message. *)
Relay == INSTANCE AnswerStream
            WITH Batches <- {Pieces([no |-> n, kind |-> k]) : n \in 1 .. MaxMsgs, k \in Kinds},
                 Text <- {<<n, "text">> : n \in 1 .. MaxMsgs},
                 shown <- Body(shown), fate <- Fate
IsAnswerStream == Relay!Spec

(* A final message sent to a client that had not left means that it was shown
   everything the runner said until the runner's stream ended. *)
FinalIsWhole == ctx = "returned" => reader.at = "gone" /\ Body(shown) = said

Stuck ==
    /\ ctx = "cancelled" /\ turn.at = "gone"
    /\ fwd.at = "put" /\ Len(out) = Cap

(* The handler returns and the turn ends, having tried to write the row, also
   when the client leaves; and the forwarder ends and gives the runner's counter
   back, or, only after the client has left and with its channel full, it is
   stuck for good. *)
EverybodyEnds ==
    /\ <>(turn.at = "gone" /\ handler.at \in {"ok", "failed"})
    /\ <>(fwd.at = "gone") \/ <>[]Stuck
=============================================================================
