----------------------------- MODULE WikiIndex -----------------------------
(***************************************************************************)
(* The index of the wiki server (mcp-servers/mcp-wiki).                    *)
(*                                                                         *)
(* index_wiki_folder walks the directory, reads every document, cuts it    *)
(* into chunks, merges what it read with what the calls before it knew     *)
(* (under wikiService.mu), and rebuilds the search index from all of that  *)
(* (under Index.mu).  The walk and the rebuild are outside of              *)
(* wikiService.mu, so calls overlap: one copies the documents, another     *)
(* replaces them, the first commits on top of that, and their rebuilds may *)
(* come in either order.  The directory is edited meanwhile.  ask_wiki     *)
(* takes three looks at the index, each with a lock of its own or none.    *)
(*                                                                         *)
(* A document is a content, its hash and its text in one; of its chunks    *)
(* only the number is kept, for every cut keeps the first ones of a file.  *)
(* Texts are taken to have a word to search for in every chunk, in either  *)
(* locale: Retriever.Build leaves out a chunk that has none, of stop words *)
(* or signs alone, which no question could find.                           *)
(***************************************************************************)
EXTENDS Integers, FiniteSets, Sequences, Functions

CONSTANTS
    Call,      \* calls of index_wiki_folder, each made once
    Ask,       \* calls of ask_wiki or ask_wiki_markdown
    Path,      \* paths of files, relative to the directory of the wiki
    WalkOrder, \* the order in which filepath.WalkDir visits them
    SortOrder, \* the order in which sort.Strings puts them
    Doc,       \* contents of files
    Chunks,    \* the chunks of a content; 0 when it is too large, cannot
               \* be read, or has no text
    Args,      \* the arguments of the calls
    MaxEdits,  \* bounds the edits of the directory
    Absent,    \* no such file
    NoCall

Locale == {"", "ru"}

ASSUME WikiIndexAssumption ==
    /\ Absent \notin Doc /\ NoCall \notin Call /\ MaxEdits \in Nat
    /\ WalkOrder \in Seq(Path) /\ Range(WalkOrder) = Path
    /\ SortOrder \in Seq(Path) /\ Range(SortOrder) = Path
    /\ Chunks \in [Doc -> Nat]
    /\ Args # {}
    /\ Args \subseteq [incremental : BOOLEAN, maxFiles : Nat, maxChunks : Nat,
                       visible : SUBSET Path, supported : SUBSET Path,
                       wanted : SUBSET Path, locale : Locale]

VARIABLES
    disk,    \* the files of the directory
    edits,
    files,   \* wikiService.files
    index,   \* the chunks in the Index
    locale,  \* Index.tokenLocale
    report,  \* lastReport: the call, and what its rebuild put in
    pc,      \* the calls: where each is
    args,
    prev,    \* prevFiles, the copy taken at the start
    pos,     \* the next entry of WalkOrder
    scanned, seen, updates,
    input,   \* inputChunks
    touched, \* history: the paths edited since the call began
    disturbed, \* history: another call committed while it walked, or its
             \* request ended while it read its last document
    last,    \* history: the calls that committed and rebuilt last
    ask,     \* the questions: where each is
    asked,   \* the path whose text each asks for
    terms,   \* the locale its words are stemmed in
    steady   \* history: the index had that text ever since, in one locale

walk == <<pos, scanned, seen, updates>>
asks == <<ask, asked, terms>>
vars == <<disk, edits, files, index, locale, report, pc, args, prev, walk,
          input, touched, disturbed, last, asks, steady>>

Nothing == [doc |-> Absent, n |-> 0]
Record == [doc : Doc \cup {Absent}, n : Nat]
NoFiles == [p \in Path |-> Nothing]
Known(f) == {p \in Path : f[p] # Nothing}

Count(f) == SumFunction([p \in Path |-> f[p].n])

(* Mutant: only the walk keeps to the limit. *)
CutNot(f, max) == f

\* The first max chunks of f, in the order of the paths; 0 for no limit.
Before(f, p) ==
    LET at == CHOOSE i \in 1..Len(SortOrder) : SortOrder[i] = p
    IN SumFunction([q \in {SortOrder[i] : i \in 1..(at - 1)} |-> f[q].n])
Cut(f, max) ==
    IF max = 0 THEN f
    ELSE [p \in Path |->
            LET kept == {k \in 1..f[p].n : Before(f, p) + k <= max}
            IN IF kept = {} THEN Nothing
               ELSE [doc |-> f[p].doc, n |-> Cardinality(kept)]]

HasText(d) == d # Absent /\ Chunks[d] > 0

\* A full walk with the default arguments, which has the server to itself:
\* the one at the start.  When it fails the server starts all the same.
Whole(d) == [p \in Path |-> IF HasText(d[p]) THEN [doc |-> d[p], n |-> Chunks[d[p]]]
                            ELSE Nothing]

Init ==
    /\ disk \in [Path -> Doc \cup {Absent}] /\ edits = 0
    /\ files \in {NoFiles, Whole(disk)} /\ index = files /\ locale = ""
    /\ report = [of |-> NoCall, input |-> files]
    /\ pc = [c \in Call |-> "idle"] /\ args = [c \in Call |-> CHOOSE a \in Args : TRUE]
    /\ prev = [c \in Call |-> NoFiles] /\ pos = [c \in Call |-> 1]
    /\ scanned = [c \in Call |-> 0] /\ seen = [c \in Call |-> {}]
    /\ updates = [c \in Call |-> NoFiles] /\ input = [c \in Call |-> NoFiles]
    /\ touched = [c \in Call |-> {}] /\ disturbed = [c \in Call |-> FALSE]
    /\ last = [commit |-> NoCall, build |-> NoCall]
    /\ ask = [a \in Ask |-> "idle"] /\ asked \in [Ask -> Path]
    /\ terms = [a \in Ask |-> ""] /\ steady = [a \in Ask |-> FALSE]
-----------------------------------------------------------------------------
\* Somebody writes, creates or deletes a file.
Edit(p, d) ==
    /\ edits < MaxEdits /\ disk[p] # d
    /\ disk' = [disk EXCEPT ![p] = d] /\ edits' = edits + 1
    /\ touched' = [c \in Call |-> IF pc[c] = "idle" THEN {} ELSE touched[c] \cup {p}]
    /\ UNCHANGED <<files, index, locale, report, pc, args, prev, walk, input, disturbed,
                   last, asks, steady>>

Begin(c, a) ==
    /\ pc[c] = "idle"
    /\ pc' = [pc EXCEPT ![c] = "walk"] /\ args' = [args EXCEPT ![c] = a]
    /\ prev' = [prev EXCEPT ![c] = files]
    /\ UNCHANGED <<disk, edits, files, index, locale, report, walk, input, touched,
                   disturbed, last, asks, steady>>

Ended == Len(WalkOrder) + 1
Here(c) == WalkOrder[pos[c]]
Walking(c) == pc[c] = "walk" /\ pos[c] < Ended

\* The entries of a directory are listed before the files are read: of a file
\* edited since the call began the list may say what was or what is.
Listed(c) == (disk[Here(c)] # Absent \/ Here(c) \in touched[c]) /\ Here(c) \in args[c].visible
Unlisted(c, p) == disk[p] = Absent \/ p \in touched[c] \/ p \notin args[c].visible

Visits(c) ==
    /\ pc' = pc
    /\ UNCHANGED <<disk, edits, files, index, locale, report, args, prev, input,
                   touched, disturbed, last, asks, steady>>
Onward(c) == pos' = [pos EXCEPT ![c] = @ + 1]
Stop(c) == pos' = [pos EXCEPT ![c] = Ended]
Scan(c) == scanned' = [scanned EXCEPT ![c] = @ + 1]
See(c) == seen' = [seen EXCEPT ![c] = @ \cup {Here(c)}]

TooMany(c) == args[c].maxFiles > 0 /\ scanned[c] >= args[c].maxFiles
Unread(c) ==
    \/ Here(c) \notin args[c].wanted
    \/ args[c].incremental /\ prev[c][Here(c)].doc = disk[Here(c)]
    \/ ~HasText(disk[Here(c)])

PassBy(c) ==
    /\ Walking(c) /\ Unlisted(c, Here(c))
    /\ Onward(c) /\ UNCHANGED <<scanned, seen, updates>> /\ Visits(c)

ReachMaxFiles(c) ==
    /\ Walking(c) /\ Listed(c) /\ TooMany(c)
    /\ Scan(c) /\ Stop(c) /\ UNCHANGED <<seen, updates>> /\ Visits(c)

SkipUnsupported(c) ==
    /\ Walking(c) /\ Listed(c) /\ ~TooMany(c) /\ Here(c) \notin args[c].supported
    /\ Scan(c) /\ Onward(c) /\ UNCHANGED <<seen, updates>> /\ Visits(c)

(* Mutant: only what is read is marked as seen. *)
SkipUnseen(c) ==
    /\ Walking(c) /\ Listed(c) /\ ~TooMany(c) /\ Here(c) \in args[c].supported
    /\ Unread(c)
    /\ Scan(c) /\ Onward(c) /\ UNCHANGED <<seen, updates>> /\ Visits(c)

\* Seen, and so not removed from the index, but nothing new of it is read:
\* left out by a glob, not readable, as it was, too large, without a text.
SkipSeen(c) ==
    /\ Walking(c) /\ Listed(c) /\ ~TooMany(c) /\ Here(c) \in args[c].supported
    /\ Unread(c)
    /\ Scan(c) /\ See(c) /\ Onward(c) /\ UNCHANGED updates /\ Visits(c)

\* The chunks of it that are taken.
Share(c) ==
    LET all == Chunks[disk[Here(c)]]
        max == args[c].maxChunks
    IN IF max = 0 THEN all
       ELSE Cardinality({k \in 1..all : Count(updates[c]) + k <= max})

Take(c) ==
    /\ Walking(c) /\ Listed(c) /\ ~TooMany(c) /\ Here(c) \in args[c].supported
    /\ ~Unread(c)
    /\ Scan(c) /\ See(c)
    /\ updates' = [updates EXCEPT ![c][Here(c)] = [doc |-> disk[Here(c)], n |-> Share(c)]]
    /\ IF args[c].maxChunks > 0 /\ Count(updates'[c]) >= args[c].maxChunks
       THEN Stop(c) ELSE Onward(c)
    /\ Visits(c)

\* What the walk kept for itself.
Forget(c) ==
    /\ prev' = [prev EXCEPT ![c] = NoFiles] /\ pos' = [pos EXCEPT ![c] = 1]
    /\ scanned' = [scanned EXCEPT ![c] = 0] /\ seen' = [seen EXCEPT ![c] = {}]
    /\ updates' = [updates EXCEPT ![c] = NoFiles]

\* The context of the request ends: the walk fails at the next entry.
Cancel(c) ==
    /\ Walking(c)
    /\ pc' = [pc EXCEPT ![c] = "failed"]
    /\ Forget(c)
    /\ UNCHANGED <<disk, edits, files, index, locale, report, args, input, touched,
                   disturbed, last, asks, steady>>

\* It ends while the text of the last entry is extracted: that document is
\* skipped with a warning, nothing asks again, and the call commits without it.
CancelReading(c) ==
    /\ Walking(c) /\ Listed(c) /\ ~TooMany(c) /\ Here(c) \in args[c].supported
    /\ ~Unread(c)
    /\ \A i \in (pos[c] + 1)..Len(WalkOrder) : Unlisted(c, WalkOrder[i])
    /\ Scan(c) /\ See(c) /\ Stop(c)
    /\ disturbed' = [disturbed EXCEPT ![c] = TRUE]
    /\ UNCHANGED <<disk, edits, files, index, locale, report, pc, args, prev, updates,
                   input, touched, last, asks, steady>>

(* Mutant: an incremental call removes nothing. *)
MergedAll(c) ==
    [p \in Path |-> IF updates[c][p] # Nothing THEN updates[c][p]
                    ELSE IF args[c].incremental THEN files[p]
                    ELSE Nothing]

Merged(c) ==
    [p \in Path |-> IF updates[c][p] # Nothing THEN updates[c][p]
                    ELSE IF args[c].incremental /\ p \in seen[c] THEN files[p]
                    ELSE Nothing]

(* Mutant: what the limit cuts off stays known as indexed. *)
CommitUncut(c) ==
    /\ pc[c] = "walk" /\ pos[c] = Ended
    /\ pc' = [pc EXCEPT ![c] = "build"]
    /\ files' = Merged(c)
    /\ input' = [input EXCEPT ![c] = Cut(files', args[c].maxChunks)]
    /\ disturbed' = [d \in Call |-> disturbed[d] \/ (d # c /\ pc[d] = "walk")]
    /\ last' = [last EXCEPT !.commit = c]
    /\ Forget(c)
    /\ UNCHANGED <<disk, edits, index, locale, report, args, touched, asks, steady>>

Commit(c) ==
    /\ pc[c] = "walk" /\ pos[c] = Ended
    /\ pc' = [pc EXCEPT ![c] = "build"]
    /\ files' = Cut(Merged(c), args[c].maxChunks)
    /\ input' = [input EXCEPT ![c] = files']
    /\ disturbed' = [d \in Call |-> disturbed[d] \/ (d # c /\ pc[d] = "walk")]
    /\ last' = [last EXCEPT !.commit = c]
    /\ Forget(c)
    /\ UNCHANGED <<disk, edits, index, locale, report, args, touched, asks, steady>>

\* Retriever.Build, of chunks that each have a word to search for.
Build(c) ==
    /\ pc[c] = "build"
    /\ pc' = [pc EXCEPT ![c] = "report"]
    /\ index' = input[c] /\ locale' = args[c].locale
    /\ last' = [last EXCEPT !.build = c]
    /\ steady' = [a \in Ask |-> steady[a] /\ input[c][asked[a]] # Nothing
                                          /\ locale = args[c].locale]
    /\ UNCHANGED <<disk, edits, files, report, args, prev, walk, input, touched, disturbed,
                   asks>>

Report(c) ==
    /\ pc[c] = "report"
    /\ pc' = [pc EXCEPT ![c] = "done"]
    /\ report' = [of |-> c, input |-> input[c]]
    /\ input' = [input EXCEPT ![c] = NoFiles]
    /\ UNCHANGED <<disk, edits, files, index, locale, args, prev, walk, touched, disturbed,
                   last, asks, steady>>
-----------------------------------------------------------------------------
Asks(a, next) ==
    /\ ask' = [ask EXCEPT ![a] = next] /\ asked' = asked
    /\ UNCHANGED <<disk, edits, files, index, locale, report, pc, args, prev, walk,
                   input, touched, disturbed, last>>

\* Retriever.Stats.
LookIfEmpty(a) ==
    /\ ask[a] = "idle"
    /\ Asks(a, IF Known(index) = {} THEN "empty" ELSE "stem")
    /\ steady' = [steady EXCEPT ![a] = index[asked[a]] # Nothing]
    /\ UNCHANGED terms

(* Mutant: the words of a question are not stemmed. *)
StemNot(a) ==
    /\ ask[a] = "stem"
    /\ Asks(a, "search") /\ terms' = [terms EXCEPT ![a] = ""]
    /\ UNCHANGED steady

\* The query is stemmed before the lock is taken: tokenLocale is read while a
\* rebuild may write it, and half a string may be read.
Stem(a) ==
    /\ ask[a] = "stem"
    /\ Asks(a, "search") /\ terms' = [terms EXCEPT ![a] = locale]
    /\ UNCHANGED steady

StemTorn(a) ==
    /\ ask[a] = "stem"
    /\ \E c \in Call : pc[c] = "build" /\ args[c].locale # locale
    /\ Asks(a, "failed")
    /\ UNCHANGED <<terms, steady>>

\* Words stemmed in another locale than the index are not found in it.
Search(a) ==
    /\ ask[a] = "search"
    /\ Asks(a, IF index[asked[a]] # Nothing /\ terms[a] = locale
               THEN "found" ELSE "absent")
    /\ UNCHANGED <<terms, steady>>
-----------------------------------------------------------------------------
Index(c) ==
    \/ (\E a \in Args : Begin(c, a)) \/ PassBy(c) \/ ReachMaxFiles(c)
    \/ SkipUnsupported(c) \/ SkipSeen(c)
    \/ Take(c) \/ Cancel(c) \/ CancelReading(c) \/ Commit(c) \/ Build(c) \/ Report(c)

Question(a) == LookIfEmpty(a) \/ Stem(a) \/ StemTorn(a) \/ Search(a)

Next ==
    \/ \E p \in Path, d \in Doc \cup {Absent} : Edit(p, d)
    \/ \E c \in Call : Index(c)
    \/ \E a \in Ask : Question(a)

Spec == Init /\ [][Next]_vars
-----------------------------------------------------------------------------
(***************************************************************************)
(* Properties.                                                             *)
(***************************************************************************)
TypeOK ==
    /\ disk \in [Path -> Doc \cup {Absent}] /\ edits \in Nat
    /\ files \in [Path -> Record] /\ index \in [Path -> Record] /\ locale \in Locale
    /\ report \in [of : Call \cup {NoCall}, input : [Path -> Record]]
    /\ pc \in [Call -> {"idle", "walk", "build", "report", "done", "failed"}]
    /\ args \in [Call -> Args] /\ prev \in [Call -> [Path -> Record]]
    /\ pos \in [Call -> 1..Ended] /\ scanned \in [Call -> Nat]
    /\ seen \in [Call -> SUBSET Path] /\ updates \in [Call -> [Path -> Record]]
    /\ input \in [Call -> [Path -> Record]]
    /\ touched \in [Call -> SUBSET Path] /\ disturbed \in [Call -> BOOLEAN]
    /\ last \in [commit : Call \cup {NoCall}, build : Call \cup {NoCall}]
    /\ ask \in [Ask -> {"idle", "empty", "stem", "failed", "search", "found", "absent"}]
    /\ asked \in [Ask -> Path] /\ terms \in [Ask -> Locale] /\ steady \in [Ask -> BOOLEAN]

Limited(c) == args[c].maxFiles > 0 \/ args[c].maxChunks > 0
InScope(c, p) == p \in args[c].visible \cap args[c].supported

SomeCut == \E d \in Call : pc[d] # "idle" /\ args[d].maxChunks > 0

\* f says of p what the directory says, as far as the call c asks.
Current(f, c, p) ==
    IF disk[p] = Absent \/ ~InScope(c, p) THEN f[p] = Nothing
    ELSE IF p \in args[c].wanted /\ HasText(disk[p])
         THEN /\ f[p].doc = disk[p]
              /\ f[p].n = Chunks[disk[p]] \/ (args[c].incremental /\ SomeCut)
         ELSE args[c].incremental \/ f[p] = Nothing

\* Once a call without limits that nothing disturbed has rebuilt the index, the
\* index agrees with the directory in every file nobody edited since the call
\* began.  What an incremental call may leave: the old text of a file that it
\* cannot read or that a glob leaves out, and what an earlier max_chunks cut
\* of the same text.
FreshAfterIndexing ==
    \A c \in Call, p \in Path :
        last.build = c /\ ~Limited(c) /\ ~disturbed[c] /\ p \notin touched[c] => Current(index, c, p)

\* A document that lies in the directory as it is known leaves the index only
\* by a call that has a limit, does not look for it, replaces everything and
\* has it left out, or was disturbed by another call or an edit of it.
KeptWhileThere ==
    [][\A c \in Call, p \in Path :
         pc[c] = "walk" /\ pc'[c] = "build" /\ files[p] # Nothing /\ files[p].doc = disk[p]
            /\ files'[p] # files[p]
         => \/ Limited(c) \/ disturbed[c] \/ p \in touched[c] \/ ~InScope(c, p)
            \/ ~args[c].incremental]_vars

\* The index never holds more chunks than the call that built it asks for,
\* whatever the calls before it left in it.
CapKept ==
    last.build # NoCall /\ args[last.build].maxChunks > 0
        => Count(index) <= args[last.build].maxChunks

\* As long as the calls do not overtake each other between the merge, the
\* rebuild and the report, the index is what is known of the files, and the
\* report is of that index.
InOrderAgrees ==
    /\ last.commit = last.build => index = files
    /\ report.of = last.build => report.input = index

\* A question about a text that the index had all the time, in one locale, is
\* not answered with "not in the documents" or "nothing is indexed", however
\* many rebuilds take place between its looks at the index.
FoundIfHeld == \A a \in Ask : ask[a] \in {"empty", "absent"} => ~steady[a]
=============================================================================
