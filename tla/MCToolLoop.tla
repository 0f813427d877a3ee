----------------------------- MODULE MCToolLoop -----------------------------
(* Finite instances of ToolLoop for TLC. *)
EXTENDS ToolLoop

sys == Message(0, "system", 80, 0)
asks(id) == [Message(id, "assistant", 80, 0) EXCEPT !.calls = 1]
image(id) == [Message(id, "user", 40, 260) EXCEPT !.vision = TRUE]

Histories ==
    { <<sys, Message(1, "user", 400, 0)>>,
      <<sys, image(1), Message(2, "assistant", 80, 0), Message(3, "user", 900, 0)>>,
      <<sys, Message(1, "user", 900, 0), image(2), Message(3, "assistant", 80, 0),
        Message(4, "user", 40, 0)>>,
      <<sys, Message(1, "user", 40, 0), asks(2), Message(3, "tool", 880, 2),
        Message(4, "assistant", 80, 0), Message(5, "user", 900, 0)>>,
      <<Message(0, "system", 400, 0), Message(1, "user", 2000, 0)>> }

Sums == {1000}
Results == {40, 1200}
=============================================================================
