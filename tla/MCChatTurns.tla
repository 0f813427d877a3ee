---------------------------- MODULE MCChatTurns ----------------------------
(***************************************************************************)
(* Finite instances of ChatTurns for TLC.  What holds of calls made one    *)
(* after the other is checked in the same run as what holds when they      *)
(* overlap: alone says that no two calls have overlapped so far.           *)
(***************************************************************************)
EXTENDS ChatTurns, TLC

VARIABLE alone

Symmetry == Permutations(Call)

MCInit == Init /\ alone = TRUE

MCNext ==
    /\ Next
    /\ alone' = (alone /\ \A c, d \in Call : calls'[c] # Idle /\ calls'[d] # Idle => c = d)

MCSpec == MCInit /\ [][MCNext]_<<vars, alone>>

(* One call at a time: an answer comes right after a user's message, whatever
   fails and whenever the server is killed. *)
AloneAlternates == alone => Alternates

(* One call at a time: the runner is asked about the chat as it is shown. *)
AlonePromptIsChat == alone => PromptIsChat

(* One call at a time: a version of a user's message shows all the rows that
   followed it at that time. *)
AloneVersionsShowBranches == alone => VersionsShowBranches
=============================================================================
