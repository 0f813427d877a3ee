---------------------------- MODULE MCWikiIndex ----------------------------
(***************************************************************************)
(* WikiIndex for TLC.  The two paths are visited in one order and sorted   *)
(* in the other: a directory's files come before "docs.md" in the walk.    *)
(* A behaviour has either edits of the directory or questions.             *)
(***************************************************************************)
EXTENDS WikiIndex, TLC

PathOne == "docs/a.md"
PathTwo == "docs.md"
MCPath == {PathOne, PathTwo}
MCWalkOrder == <<PathOne, PathTwo>>
MCSortOrder == <<PathTwo, PathOne>>
MCChunks == "short" :> 1 @@ "long" :> 2 @@ "blank" :> 0

Default == [incremental |-> FALSE, maxFiles |-> 0, maxChunks |-> 0, visible |-> Path,
            supported |-> Path, wanted |-> Path, locale |-> ""]
Incremental == [Default EXCEPT !.incremental = TRUE]
Asking == {[Default EXCEPT !.locale = "ru"], [Default EXCEPT !.wanted = {PathTwo}]}
Indexing == {Default, Incremental,
           [Incremental EXCEPT !.maxChunks = 2],
           [Incremental EXCEPT !.maxFiles = 1, !.supported = {PathTwo}],
           [Incremental EXCEPT !.wanted = {PathTwo}],
           [Incremental EXCEPT !.visible = {PathTwo}]}
MCArgs == Indexing \cup Asking

VARIABLE asksOnly

MCInit ==
    /\ Init /\ asksOnly \in BOOLEAN
    /\ IF asksOnly THEN \A p \in Path : disk[p] = "short" ELSE \A a \in Ask : asked[a] = PathOne
MCNext ==
    /\ Next /\ UNCHANGED asksOnly
    /\ IF asksOnly THEN /\ edits' = 0
                        /\ \A c \in Call : pc'[c] # "idle" => args'[c] \in Asking
                   ELSE /\ ask' = ask
                        /\ \A c \in Call : pc'[c] # "idle" => args'[c] \in Indexing
MCSpec == MCInit /\ [][MCNext]_<<vars, asksOnly>>

MCSymmetry == Permutations(Call)
=============================================================================
