---------------------------- MODULE AnswerStream ----------------------------
(***************************************************************************)
(* What a chat call promises about one streamed answer, whatever buffers,  *)
(* goroutines and disconnects lie between the runner, the client and the   *)
(* assistant's row in the messages table: the client is shown the answer   *)
(* in order and without gaps, and the row is either stored, once, with a   *)
(* piece of the answer's text that has all the text the client is ever     *)
(* shown, or lost, and then the draft stays as it was and nobody is told.  *)
(***************************************************************************)
EXTENDS Naturals, Sequences, SequencesExt

CONSTANTS
    Batches,     \* what a chunk of the runner may carry: sequences of pieces
    Text         \* the pieces of the answer proper, not of the model's reasoning

VARIABLES
    said,        \* the pieces that the runner has produced
    shown,       \* the pieces that the client has been sent
    row,         \* the content of the row, the empty draft to begin with
    fate         \* what has become of the row: "draft", "stored" or "lost"

Texts(s) == FlattenSeq([i \in DOMAIN s |-> IF s[i] \in Text THEN <<s[i]>> ELSE <<>>])

Init == said \in Batches /\ shown = <<>> /\ row = <<>> /\ fate = "draft"

Say == said' \in {said \o b : b \in Batches} /\ UNCHANGED <<shown, row, fate>>

Show ==
    /\ Len(shown) < Len(said)
    /\ shown' = Append(shown, said[Len(shown) + 1])
    /\ fate = "stored" => IsPrefix(Texts(shown'), row)
    /\ UNCHANGED <<said, row, fate>>

Write ==
    /\ fate = "draft" /\ fate' = "stored"
    /\ row' \in {SubSeq(Texts(said), 1, n) : n \in 0 .. Len(Texts(said))}
    /\ IsPrefix(Texts(shown), row')
    /\ UNCHANGED <<said, shown>>

\* The one write fails: the row stays empty, whatever the client has seen or will.
Lose == fate = "draft" /\ fate' = "lost" /\ UNCHANGED <<said, shown, row>>

Next == Say \/ Show \/ Write \/ Lose

Spec == Init /\ [][Next]_<<said, shown, row, fate>>
=============================================================================
