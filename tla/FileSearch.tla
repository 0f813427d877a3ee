----------------------------- MODULE FileSearch -----------------------------
(***************************************************************************)
(* A document on its way into an answer: the app uploads it                *)
(* (ChatUseCase.PutSessionFile), a background goroutine of the server cuts *)
(* it into chunks and embeds them (IndexSessionFile), the app polls for    *)
(* the end of that and then sends the message, and the prompt is built     *)
(* from the chunks that a search finds (buildDocumentContextPipeline).     *)
(*                                                                         *)
(* The upload, the goroutine and the app share three things in the         *)
(* database: the row of the file, the row of its index, and its chunks.    *)
(* Nobody but the goroutine ever works on an index: what it leaves stays.  *)
(***************************************************************************)
EXTENDS Integers, FiniteSets

CONSTANTS
    Upload,   \* documents, each sent by an app of the session's user
    Model,    \* the embedding models of the runners
    MaxFiles, \* maxSessionArtifactFileCount
    MaxKills, \* bounds the deaths of the server
    NoModel

ASSUME FileSearchAssumption ==
    /\ MaxFiles \in Nat \ {0} /\ MaxKills \in Nat
    /\ IsFiniteSet(Upload) /\ Model # {} /\ NoModel \notin Model

VARIABLES
    full,   \* preferFullDocumentWhenFits
    picked, \* what resolveModelForUser would answer now
    row,    \* the files' rows: path "." until the path is stored
    disk,   \* the documents written to the disk
    live,   \* the rows whose time is not up
    index,  \* the rows of the indexes
    chunks, \* the models each document's chunks are embedded with
    job,    \* the background goroutines
    app,    \* the apps, and the handlers they wait for
    peak,   \* history: the most uploads at once between count and row
    kills

vars == <<full, picked, row, disk, live, index, chunks, job, app, peak, kills>>

App(at, rag, model, result) == [at |-> at, rag |-> rag, model |-> model, result |-> result]
Job(at, model, cut) == [at |-> at, model |-> model, cut |-> cut]

Init ==
    /\ full \in BOOLEAN /\ picked \in Model
    /\ row = [u \in Upload |-> "none"] /\ disk = {} /\ live = {}
    /\ index = [u \in Upload |-> [status |-> "none", model |-> NoModel]]
    /\ chunks = [u \in Upload |-> {}]
    /\ job = [u \in Upload |-> Job("none", NoModel, FALSE)]
    /\ app = [u \in Upload |-> App("idle", FALSE, NoModel, "none")]
    /\ peak = 0 /\ kills = 0

files == <<row, disk, live>>
search == <<index, chunks>>
outside == <<full, picked, kills>>

At(u, where) == app[u].at = where
Goes(u, where) == app' = [app EXCEPT ![u] = App(where, @.rag, @.model, @.result)]
Ends(u, result) == app' = [app EXCEPT ![u] = App("end", @.rag, @.model, result)]

JobAt(u, where) == job[u].at = where
JobGoes(u, where) == job' = [job EXCEPT ![u] = Job(where, @.model, @.cut)]
JobEnds(u) == job' = [job EXCEPT ![u] = Job("over", NoModel, @.cut)]

Counted == {u \in Upload : At(u, "create")}
Working == {"check", "embed", "store", "mark"}
Ended == {"over", "unmarked", "killed"}

-----------------------------------------------------------------------------
(* The upload: PutSessionFile and saveFileInSession *)

(* Mutant: an upload may also make the number one larger than the limit. *)
PlaceLeftOneMore == Cardinality(live) <= MaxFiles

PlaceLeft == Cardinality(live) < MaxFiles

CountFiles(u) ==
    /\ At(u, "idle")
    /\ IF PlaceLeft
          THEN /\ Goes(u, "create")
               /\ peak' = IF Cardinality(Counted) < peak THEN peak
                          ELSE Cardinality(Counted) + 1
          ELSE Ends(u, "refused") /\ UNCHANGED peak
    /\ UNCHANGED <<files, search, job, outside>>

CreateRow(u) ==
    /\ At(u, "create")
    /\ row' = [row EXCEPT ![u] = "dot"] /\ live' = live \cup {u}
    /\ Goes(u, "write")
    /\ UNCHANGED <<disk, search, job, peak, outside>>

(* Mutant: the path is stored before the file is written. *)
StoreFileLate(u) ==
    /\ At(u, "write")
    /\ row' = [row EXCEPT ![u] = "stored"]
    /\ Goes(u, "wait")
    /\ job' = [job EXCEPT ![u].at = "check"]
    /\ UNCHANGED <<disk, live, search, peak, outside>>

WriteFile(u) ==
    /\ At(u, "write")
    /\ disk' = disk \cup {u}
    /\ Goes(u, "path")
    /\ UNCHANGED <<row, live, search, job, peak, outside>>

\* The reply may be lost when the goroutine is already started.
StorePath(u) ==
    /\ At(u, "path")
    /\ row' = [row EXCEPT ![u] = "stored"]
    /\ JobGoes(u, "check")
    /\ Goes(u, "wait") \/ Ends(u, "notUploaded")
    /\ UNCHANGED <<disk, live, search, peak, outside>>

\* An error of the database or of the disk, or a client that has gone: what was
\* done is left as it is.
UploadFails(u) ==
    /\ app[u].at \in {"create", "write", "path"}
    /\ Ends(u, "notUploaded")
    /\ UNCHANGED <<files, search, job, peak, outside>>

Expire(u) ==
    /\ u \in live /\ app[u].at \notin {"write", "path"}
    /\ live' = live \ {u}
    /\ UNCHANGED <<row, disk, search, job, app, peak, outside>>

-----------------------------------------------------------------------------
(* The goroutine: IndexSessionFile *)

\* Without a row for the index: the file's time is up or it cannot be read,
\* no model answers, the deadline has passed.
CheckFails(u) ==
    /\ JobAt(u, "check")
    /\ JobEnds(u)
    /\ UNCHANGED <<files, search, app, peak, outside>>

StartIndexing(u) ==
    /\ JobAt(u, "check") /\ u \in live /\ u \in disk /\ ~job[u].cut
    /\ index' = [index EXCEPT ![u] = [status |-> "indexing", model |-> picked]]
    /\ job' = [job EXCEPT ![u] = Job("embed", picked, FALSE)]
    /\ UNCHANGED <<files, chunks, app, peak, outside>>

Embed(u) ==
    /\ JobAt(u, "embed") /\ ~job[u].cut
    /\ JobGoes(u, "store")
    /\ UNCHANGED <<files, search, app, peak, outside>>

(* Mutant: a document that cannot be embedded is given up without a mark. *)
EmbedFailsUnmarked(u) ==
    /\ JobAt(u, "embed")
    /\ JobEnds(u)
    /\ UNCHANGED <<files, search, app, peak, outside>>

EmbedFails(u) ==
    /\ JobAt(u, "embed")
    /\ JobGoes(u, "mark")
    /\ UNCHANGED <<files, search, app, peak, outside>>

(* Mutant: the index is called ready before its chunks are stored. *)
StoreChunksLater(u) ==
    /\ JobAt(u, "store") /\ ~job[u].cut
    /\ index' = [index EXCEPT ![u].status = "ready"]
    /\ IF index[u].status = "ready"
          THEN /\ chunks' = [chunks EXCEPT ![u] = @ \cup {job[u].model}]
               /\ JobEnds(u)
          ELSE UNCHANGED <<chunks, job>>
    /\ UNCHANGED <<files, app, peak, outside>>

\* ReplaceFileChunks: chunks and row in one transaction.
StoreChunks(u) ==
    /\ JobAt(u, "store") /\ ~job[u].cut
    /\ chunks' = [chunks EXCEPT ![u] = @ \cup {job[u].model}]
    /\ index' = [index EXCEPT ![u] = [status |-> "ready", model |-> job[u].model]]
    /\ JobEnds(u)
    /\ UNCHANGED <<files, app, peak, outside>>

StoreFails(u) ==
    /\ JobAt(u, "store")
    /\ JobGoes(u, "mark")
    /\ UNCHANGED <<files, search, app, peak, outside>>

\* MarkFileRAGIndexFailed has the context of the whole indexing.
MarkFailed(u) ==
    /\ JobAt(u, "mark") /\ ~job[u].cut
    /\ index' = [index EXCEPT ![u] = [status |-> "failed", model |-> @.model]]
    /\ JobEnds(u)
    /\ UNCHANGED <<files, chunks, app, peak, outside>>

\* The mark fails itself, as it must after the deadline, and may when the
\* database that has refused the chunks refuses it too.  Nobody looks at its error.
MarkFails(u) ==
    /\ JobAt(u, "mark")
    /\ job' = [job EXCEPT ![u] = Job("unmarked", NoModel, @.cut)]
    /\ UNCHANGED <<files, search, app, peak, outside>>

Deadline(u) ==
    /\ job[u].at \in Working /\ ~job[u].cut
    /\ job' = [job EXCEPT ![u] = Job(@.at, @.model, TRUE)]
    /\ UNCHANGED <<files, search, app, peak, outside>>

-----------------------------------------------------------------------------
(* The app: waitForSessionFileRagReady and its send *)

HearReady(u) ==
    /\ At(u, "wait") /\ index[u].status = "ready"
    /\ app' = [app EXCEPT ![u] = App("send", TRUE, @.model, @.result)]
    /\ UNCHANGED <<files, search, job, peak, outside>>

HearFailed(u) ==
    /\ At(u, "wait") /\ index[u].status = "failed"
    /\ Goes(u, "send")
    /\ UNCHANGED <<files, search, job, peak, outside>>

(* Mutant: the app waits for as long as the index says "indexing". *)
GiveUpPatiently(u) ==
    /\ At(u, "wait") /\ index[u].status # "indexing"
    /\ Goes(u, "send")
    /\ UNCHANGED <<files, search, job, peak, outside>>

\* After 90 seconds, or after a poll that fails.
GiveUp(u) ==
    /\ At(u, "wait")
    /\ Goes(u, "send")
    /\ UNCHANGED <<files, search, job, peak, outside>>

\* loadSessionAttachmentForSend, before the user's message is stored.
Load(u) ==
    /\ At(u, "send")
    /\ IF row[u] = "stored" /\ u \in disk /\ u \in live
          THEN Goes(u, "look")
          ELSE Ends(u, "notLoaded")
    /\ UNCHANGED <<files, search, job, peak, outside>>

\* The message is stored by now; an error from here on is a refusal.
LookAsked(u) ==
    /\ At(u, "look") /\ app[u].rag
    /\ CASE full -> Ends(u, "answered")
         [] ~full /\ index[u].status = "failed" -> Ends(u, "indexFailed")
         [] ~full /\ index[u].status \in {"none", "indexing"} -> Ends(u, "notReady")
         [] OTHER -> Goes(u, "search")
    /\ UNCHANGED <<files, search, job, peak, outside>>

\* A document without use_file_rag is searched like one of several.
LookUnasked(u) ==
    /\ At(u, "look") /\ ~app[u].rag
    /\ IF index[u].status = "ready" THEN Goes(u, "search") ELSE Ends(u, "noHits")
    /\ UNCHANGED <<files, search, job, peak, outside>>

\* SearchSessionKnowledge chooses its model anew; only chunks of that model count.
Search(u) ==
    /\ At(u, "search")
    /\ IF picked \in chunks[u]
          THEN Ends(u, "answered")
          ELSE app' = [app EXCEPT ![u] = App("end", @.rag, picked, "noHits")]
    /\ UNCHANGED <<files, search, job, peak, outside>>

\* No model, or no embedding of the question: an error for a send that asks for
\* the search, and one document without hits for any other.
SearchFails(u) ==
    /\ At(u, "search")
    /\ Ends(u, IF app[u].rag THEN "searchFailed" ELSE "noHits")
    /\ UNCHANGED <<files, search, job, peak, outside>>

-----------------------------------------------------------------------------
(* The rest of the system *)

\* Another runner for the session, or a runner that comes or goes.
PickModel ==
    /\ picked' \in Model \ {picked}
    /\ UNCHANGED <<full, kills, files, search, job, app, peak>>

\* The server dies and is started again: goroutines and handlers are gone, and
\* nothing looks for indexes without one.
Kill ==
    /\ kills < MaxKills
    /\ kills' = kills + 1
    /\ job' = [u \in Upload |->
           IF job[u].at \in Working
           THEN Job("killed", NoModel, TRUE) ELSE job[u]]
    /\ app' = [u \in Upload |->
           CASE app[u].at \in {"create", "write", "path"} ->
                    App("end", FALSE, NoModel, "notUploaded")
             [] app[u].at \in {"look", "search"} ->
                    App("end", app[u].rag, NoModel, "lost")
             [] OTHER -> app[u]]
    /\ UNCHANGED <<full, picked, files, search, peak>>

\* What the server does to the end once it has begun; the embedding itself may hang.
JobStep(u) ==
    \/ CheckFails(u) \/ StartIndexing(u) \/ (EmbedFails(u) /\ job[u].cut)
    \/ StoreChunks(u) \/ StoreFails(u) \/ MarkFailed(u) \/ MarkFails(u)
    \/ Deadline(u)

AppStep(u) ==
    \/ CreateRow(u) \/ WriteFile(u) \/ StorePath(u) \/ UploadFails(u)
    \/ HearReady(u) \/ HearFailed(u) \/ GiveUp(u) \/ Load(u) \/ LookAsked(u)
    \/ LookUnasked(u) \/ Search(u) \/ SearchFails(u)

Next ==
    \/ \E u \in Upload :
           \/ CountFiles(u) \/ CreateRow(u) \/ WriteFile(u) \/ StorePath(u)
           \/ UploadFails(u) \/ Expire(u)
           \/ CheckFails(u) \/ StartIndexing(u) \/ Embed(u) \/ EmbedFails(u)
           \/ StoreChunks(u) \/ StoreFails(u) \/ MarkFailed(u) \/ MarkFails(u)
           \/ Deadline(u)
           \/ HearReady(u) \/ HearFailed(u) \/ GiveUp(u) \/ Load(u)
           \/ LookAsked(u) \/ LookUnasked(u) \/ Search(u) \/ SearchFails(u)
    \/ PickModel
    \/ Kill

Spec == Init /\ [][Next]_vars

FairSpec == Spec /\ \A u \in Upload : WF_vars(JobStep(u)) /\ WF_vars(AppStep(u))

-----------------------------------------------------------------------------
(* Properties *)

Results == {"none", "refused", "notUploaded", "notLoaded", "answered", "indexFailed",
            "notReady", "noHits", "searchFailed", "lost"}

IndexRec == [status : {"none", "indexing", "failed", "ready"}, model : Model \cup {NoModel}]
JobAts == Working \cup Ended \cup {"none"}
JobRec == [at : JobAts, model : Model \cup {NoModel}, cut : BOOLEAN]
AppAt == {"idle", "create", "write", "path", "wait", "send", "look", "search", "end"}
AppRec == [at : AppAt, rag : BOOLEAN, model : Model \cup {NoModel}, result : Results]

Typed ==
    /\ full \in BOOLEAN /\ picked \in Model
    /\ row \in [Upload -> {"none", "dot", "stored"}]
    /\ disk \subseteq Upload /\ live \subseteq Upload
    /\ index \in [Upload -> IndexRec]
    /\ chunks \in [Upload -> SUBSET (Model \cup {NoModel})]
    /\ job \in [Upload -> JobRec] /\ app \in [Upload -> AppRec]
    /\ peak \in Nat /\ kills \in 0..MaxKills

\* Every variable keeps its type; rows of indexes and chunks have a model.
TypeOK ==
    /\ Typed
    /\ \A u \in Upload :
           /\ (index[u].model = NoModel) <=> (index[u].status = "none")
           /\ NoModel \notin chunks[u]

\* The count and the row it allows are two steps of PutSessionFile, and uploads
\* pass between them; the limit is exceeded by no more than the uploads that were
\* there at once, less one, and never when they come one by one.
QuotaKept == Cardinality(live) <= MaxFiles + peak - 1

\* Whoever is started on a document finds it whole: the goroutine and the send
\* only ever see files that are written and whose path is stored.  A row that
\* stays without one belongs to an upload that failed, and still counts.
FilesWhole ==
    \A u \in Upload :
        /\ (job[u].at # "none" \/ app[u].rag) => (row[u] = "stored" /\ u \in disk)
        /\ (row[u] = "dot" /\ At(u, "end")) => app[u].result = "notUploaded"

\* The app is told that a document is ready and asks for the search: by then no
\* step of the indexing can take that back.  The send is not refused for the
\* state of the index, and finds nothing only if the session's model has changed
\* between the indexing and the search.
ReadyIsFound ==
    \A u \in Upload :
        (app[u].rag /\ At(u, "end")) =>
            /\ app[u].result \notin {"indexFailed", "notReady"}
            /\ app[u].result = "noHits" => app[u].model # index[u].model

\* An index says "indexing" with nobody working on it only when the server died
\* during the indexing, or when the indexing failed and then its mark failed too,
\* as it does after the deadline: no path out of the goroutine goes without a mark.
IndexingExcused ==
    \A u \in Upload :
        index[u].status = "indexing" =>
            job[u].at \in {"embed", "store", "mark", "unmarked", "killed"}

\* An upload that is begun ends in an answer or an error, though the index may
\* say "indexing" for ever: the app stops waiting.  The goroutine it started ends
\* as well, though an embedding may hang: its deadline cuts it off.
UploadsEnd ==
    \A u \in Upload :
        /\ At(u, "create") ~> At(u, "end")
        /\ (job[u].at \in Working) ~> (job[u].at \in Ended)

-----------------------------------------------------------------------------
(* What the code says and does not do *)

\* The app that gives up waiting tells its user that the message goes without
\* the search (rag_ingestion_ui.dart:70): it would be answered, not refused for
\* what the search did not find.
SentWithoutSearch ==
    \A u \in Upload : (At(u, "end") /\ ~app[u].rag) => app[u].result # "noHits"
=============================================================================
