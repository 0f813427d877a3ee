---------------------------- MODULE MCHistoryCap ----------------------------
(* The prompt of a first message that is longer than the context, for TLC:
   the estimate of a prompt of a session's system message and the message. *)
EXTENDS HistoryCap

LongMessage ==
    { <<Message(0, "system", runes, 0), Message(1, "user", 12000, 0)>> :
        runes \in {18, 96, 97, 400} }

Sums == {300}
=============================================================================
