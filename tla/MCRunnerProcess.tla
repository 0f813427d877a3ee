-------------------------- MODULE MCRunnerProcess --------------------------
(***************************************************************************)
(* RunnerProcess for TLC with two calls.  Calls are alike and so are names *)
(* of models, so one order of the two requests is enough, and the first    *)
(* call asks for one model while the second may ask for any.  Images are   *)
(* sent to a process with slots only.                                      *)
(***************************************************************************)
EXTENDS RunnerProcess

First == CHOOSE c \in Call : TRUE
Second == CHOOSE c \in Call : c # First

Rank == [none |-> 0, send |-> 1, vision |-> 2, embed |-> 3, batch |-> 4, unload |-> 5]

Enough ==
    /\ calls[First].name \in {"none", CHOOSE m \in Model : TRUE}
    /\ calls[First].op # "none" /\ calls[Second].op # "none" =>
           Rank[calls[First].op] <= Rank[calls[Second].op]
    /\ cap = 0 => \A c \in Call : calls[c].op # "vision"

MCNext == Next /\ Enough'

MCFairSpec ==
    /\ Init /\ [][MCNext]_vars
    /\ \A c \in Call :
           /\ WF_vars(~Down /\ Handle(c))
           /\ WF_vars(~Down /\ (Emit(c) \/ GenerationEnds(c)))
    /\ WF_vars(~Down /\ CloseAtEnd)
=============================================================================
