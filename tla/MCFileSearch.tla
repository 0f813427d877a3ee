---------------------------- MODULE MCFileSearch ----------------------------
(***************************************************************************)
(* FileSearch for TLC: either one document with everything that can happen *)
(* to it, or two that share the limit of a session, in a server with one   *)
(* model.                                                                  *)
(***************************************************************************)
EXTENDS FileSearch, TLC

VARIABLE alone \* the only document, or NoDocument

CONSTANT NoDocument

mcvars == <<vars, alone>>

MCInit ==
    /\ Init
    /\ alone \in {NoDocument, CHOOSE u \in Upload : TRUE}
    /\ alone = NoDocument => (full = FALSE /\ picked = CHOOSE m \in Model : TRUE)

MCNext ==
    /\ Next
    /\ IF alone = NoDocument
          THEN UNCHANGED <<full, picked>>
          ELSE \A u \in Upload \ {alone} : UNCHANGED app[u]
    /\ UNCHANGED alone

MCFairSpec == MCInit /\ [][MCNext]_mcvars
    /\ \A u \in Upload : WF_vars(JobStep(u)) /\ WF_vars(AppStep(u))
=============================================================================
