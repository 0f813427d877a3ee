-------------------------- MODULE FileSearchProofs --------------------------
(***************************************************************************)
(* Proofs about FileSearch, for any documents, models, limit and number of *)
(* deaths of the server.                                                   *)
(***************************************************************************)
EXTENDS FileSearch, FiniteSetTheorems, TLAPS

\* How far the upload of a document has come, and what that leaves.
BegunOf(u) ==
    /\ app[u].at \in {"idle", "create"} =>
           row[u] = "none" /\ u \notin live /\ job[u].at = "none"
    /\ app[u].at \in {"write", "path"} => row[u] = "dot" /\ job[u].at = "none"
    /\ app[u].at = "path" => u \in disk
    /\ app[u].at \in {"wait", "send", "look", "search"} => row[u] = "stored"
    /\ job[u].at # "none" => row[u] = "stored"
    /\ row[u] = "stored" => u \in disk
    /\ app[u].at # "end" => app[u].result = "none"
    /\ (row[u] = "dot" /\ app[u].at = "end") => app[u].result = "notUploaded"

\* The row of an index says where its goroutine is, and a ready one has chunks.
IndexedOf(u) ==
    /\ (index[u].model = NoModel) <=> (index[u].status = "none")
    /\ NoModel \notin chunks[u]
    /\ job[u].at \in {"none", "check"} => index[u].status = "none"
    /\ job[u].at \in {"embed", "store", "mark"} =>
           index[u].status = "indexing" /\ job[u].model = index[u].model
    /\ index[u].status = "indexing" =>
           job[u].at \in {"embed", "store", "mark", "unmarked", "killed"}
    /\ index[u].status = "ready" => job[u].at = "over" /\ index[u].model \in chunks[u]

\* Whoever asks for the search has seen the index ready, and it still is.
ToldOf(u) ==
    app[u].rag = TRUE =>
        /\ index[u].status = "ready" /\ row[u] = "stored"
        /\ app[u].at \in {"send", "look", "search", "end"}
        /\ app[u].result \notin {"indexFailed", "notReady"}
        /\ app[u].result = "noHits" => app[u].model # index[u].model

Begun == \A u \in Upload : BegunOf(u)
Indexed == \A u \in Upload : IndexedOf(u)
Told == \A u \in Upload : ToldOf(u)

\* The uploads between their count and their row make room for themselves only
\* by having been there at once.
Room ==
    /\ Cardinality(Counted) <= peak
    /\ Cardinality(live) >= MaxFiles =>
           Cardinality(live) + Cardinality(Counted) <= MaxFiles + peak - 1

DocStep(u) ==
    \/ CountFiles(u) \/ CreateRow(u) \/ WriteFile(u) \/ StorePath(u) \/ UploadFails(u)
    \/ Expire(u) \/ CheckFails(u) \/ StartIndexing(u) \/ Embed(u) \/ EmbedFails(u)
    \/ StoreChunks(u) \/ StoreFails(u) \/ MarkFailed(u) \/ MarkFails(u) \/ Deadline(u) \/ HearReady(u)
    \/ HearFailed(u) \/ GiveUp(u) \/ Load(u) \/ LookAsked(u) \/ LookUnasked(u)
    \/ Search(u) \/ SearchFails(u)

Untouched(v) ==
    /\ row'[v] = row[v] /\ index'[v] = index[v] /\ chunks'[v] = chunks[v]
    /\ job'[v] = job[v] /\ app'[v] = app[v]
    /\ (v \in disk' <=> v \in disk) /\ (v \in live' <=> v \in live)

AppIs(u, at, rag, model, result) ==
    /\ app' \in [Upload -> AppRec]
    /\ app'[u].at = at /\ app'[u].rag = rag
    /\ app'[u].model = model /\ app'[u].result = result
    /\ \A v \in Upload \ {u} : app'[v] = app[v]

JobIs(u, at, model, cut) ==
    /\ job' \in [Upload -> JobRec]
    /\ job'[u].at = at /\ job'[u].model = model /\ job'[u].cut = cut
    /\ \A v \in Upload \ {u} : job'[v] = job[v]

IndexIs(u, status, model) ==
    /\ index' \in [Upload -> IndexRec]
    /\ index'[u].status = status /\ index'[u].model = model
    /\ \A v \in Upload \ {u} : index'[v] = index[v]

\* What the death of the server does to a document's goroutine and app.
KillOf(u) ==
    /\ job[u].at \in Working =>
           job'[u].at = "killed" /\ job'[u].model = NoModel /\ job'[u].cut = TRUE
    /\ job[u].at \notin Working => job'[u] = job[u]
    /\ app[u].at \in {"create", "write", "path"} =>
           app'[u].at = "end" /\ app'[u].rag = FALSE /\ app'[u].result = "notUploaded"
    /\ app[u].at \in {"look", "search"} =>
           app'[u].at = "end" /\ app'[u].rag = app[u].rag /\ app'[u].result = "lost"
    /\ app[u].at \notin {"create", "write", "path", "look", "search"} => app'[u] = app[u]

-----------------------------------------------------------------------------
LEMMA StepCases ==
    ASSUME [Next]_vars
    PROVE  (\E u \in Upload : DocStep(u)) \/ PickModel \/ Kill \/ UNCHANGED vars
BY DEF Next, DocStep

LEMMA AppFields ==
    ASSUME Typed, NEW u \in Upload
    PROVE  /\ app[u].at \in AppAt /\ app[u].rag \in BOOLEAN
           /\ app[u].model \in Model \cup {NoModel} /\ app[u].result \in Results
           /\ picked \in Model
<1>1. app[u] \in AppRec /\ picked \in Model
  BY DEF Typed
<1> QED
  BY <1>1 DEF AppRec

LEMMA JobFields ==
    ASSUME Typed, NEW u \in Upload
    PROVE  /\ job[u].at \in JobAts /\ job[u].cut \in BOOLEAN
           /\ job[u].model \in Model \cup {NoModel} /\ picked \in Model
<1>1. job[u] \in JobRec /\ picked \in Model
  BY DEF Typed
<1> QED
  BY <1>1 DEF JobRec

LEMMA IndexFields ==
    ASSUME Typed, NEW u \in Upload
    PROVE  index[u].model \in Model \cup {NoModel}
<1>1. index[u] \in IndexRec
  BY DEF Typed
<1> QED
  BY <1>1 DEF IndexRec

LEMMA AppUpdate ==
    ASSUME Typed, NEW u \in Upload, NEW at \in AppAt, NEW rag \in BOOLEAN,
           NEW model \in Model \cup {NoModel}, NEW result \in Results,
           app' = [app EXCEPT ![u] = App(at, rag, model, result)]
    PROVE  AppIs(u, at, rag, model, result)
<1> DEFINE a == App(at, rag, model, result)
<1>1. a \in AppRec /\ a.at = at /\ a.rag = rag /\ a.model = model /\ a.result = result
  BY DEF App, AppRec
<1>2. app \in [Upload -> AppRec] /\ app' = [app EXCEPT ![u] = a]
  BY DEF Typed
<1> HIDE DEF a
<1> QED
  BY <1>1, <1>2 DEF AppIs

LEMMA JobUpdate ==
    ASSUME Typed, NEW u \in Upload, NEW at \in JobAts,
           NEW model \in Model \cup {NoModel}, NEW cut \in BOOLEAN,
           job' = [job EXCEPT ![u] = Job(at, model, cut)]
    PROVE  JobIs(u, at, model, cut)
<1> DEFINE j == Job(at, model, cut)
<1>1. j \in JobRec /\ j.at = at /\ j.model = model /\ j.cut = cut
  BY DEF Job, JobRec
<1>2. job \in [Upload -> JobRec] /\ job' = [job EXCEPT ![u] = j]
  BY DEF Typed
<1> HIDE DEF j
<1> QED
  BY <1>1, <1>2 DEF JobIs

LEMMA IndexUpdate ==
    ASSUME Typed, NEW u \in Upload, NEW status \in {"none", "indexing", "failed", "ready"},
           NEW model \in Model \cup {NoModel},
           index' = [index EXCEPT ![u] = [status |-> status, model |-> model]]
    PROVE  IndexIs(u, status, model)
<1> DEFINE i == [status |-> status, model |-> model]
<1>1. i \in IndexRec /\ i.status = status /\ i.model = model
  BY DEF IndexRec
<1>2. index \in [Upload -> IndexRec] /\ index' = [index EXCEPT ![u] = i]
  BY DEF Typed
<1> HIDE DEF i
<1> QED
  BY <1>1, <1>2 DEF IndexIs

LEMMA GoesEffect ==
    ASSUME Typed, NEW u \in Upload, NEW at \in AppAt, Goes(u, at)
    PROVE  AppIs(u, at, app[u].rag, app[u].model, app[u].result)
BY AppFields, AppUpdate DEF Goes

LEMMA EndsEffect ==
    ASSUME Typed, NEW u \in Upload, NEW result \in Results, Ends(u, result)
    PROVE  AppIs(u, "end", app[u].rag, app[u].model, result)
BY AppFields, AppUpdate DEF Ends, AppAt

LEMMA HearReadyEffect ==
    ASSUME Typed, NEW u \in Upload, HearReady(u)
    PROVE  AppIs(u, "send", TRUE, app[u].model, app[u].result)
BY AppFields, AppUpdate DEF HearReady, AppAt

LEMMA MissEffect ==
    ASSUME Typed, NEW u \in Upload, Search(u), picked \notin chunks[u]
    PROVE  AppIs(u, "end", app[u].rag, picked, "noHits")
BY AppFields, AppUpdate DEF Search, AppAt, Results

LEMMA JobGoesEffect ==
    ASSUME Typed, NEW u \in Upload, NEW at \in JobAts, JobGoes(u, at)
    PROVE  JobIs(u, at, job[u].model, job[u].cut)
BY JobFields, JobUpdate DEF JobGoes

LEMMA JobEndsEffect ==
    ASSUME Typed, NEW u \in Upload, JobEnds(u)
    PROVE  JobIs(u, "over", NoModel, job[u].cut)
BY JobFields, JobUpdate DEF JobEnds, JobAts, Ended

LEMMA MarkFailsEffect ==
    ASSUME Typed, NEW u \in Upload, MarkFails(u)
    PROVE  JobIs(u, "unmarked", NoModel, job[u].cut)
BY JobFields, JobUpdate DEF MarkFails, JobAts, Ended

LEMMA StartJobEffect ==
    ASSUME Typed, NEW u \in Upload, StartIndexing(u)
    PROVE  JobIs(u, "embed", picked, FALSE)
BY JobFields, JobUpdate DEF StartIndexing, JobAts, Working

LEMMA DeadlineEffect ==
    ASSUME Typed, NEW u \in Upload, Deadline(u)
    PROVE  JobIs(u, job[u].at, job[u].model, TRUE)
BY JobFields, JobUpdate DEF Deadline

LEMMA FailedEffect ==
    ASSUME Typed, NEW u \in Upload, MarkFailed(u)
    PROVE  IndexIs(u, "failed", index[u].model)
BY IndexFields, IndexUpdate DEF MarkFailed

LEMMA StartIndexEffect ==
    ASSUME Typed, NEW u \in Upload, StartIndexing(u)
    PROVE  IndexIs(u, "indexing", picked)
BY AppFields, IndexUpdate DEF StartIndexing

LEMMA StoreEffect ==
    ASSUME Typed, NEW u \in Upload, StoreChunks(u)
    PROVE  IndexIs(u, "ready", job[u].model)
BY JobFields, IndexUpdate DEF StoreChunks

LEMMA KillKeeps ==
    ASSUME Kill
    PROVE  /\ row' = row /\ disk' = disk /\ live' = live /\ index' = index
           /\ chunks' = chunks /\ full' = full /\ picked' = picked /\ peak' = peak
           /\ kills < MaxKills /\ kills' = kills + 1
BY DEF Kill, files, search

LEMMA KillEffect ==
    ASSUME Typed, Kill
    PROVE  /\ app' \in [Upload -> AppRec] /\ job' \in [Upload -> JobRec]
           /\ \A u \in Upload : KillOf(u)
<1>1. app \in [Upload -> AppRec] /\ job \in [Upload -> JobRec]
  BY DEF Typed
<1>2. \A u \in Upload :
          /\ job'[u] = IF job[u].at \in Working THEN Job("killed", NoModel, TRUE) ELSE job[u]
          /\ app'[u] = CASE app[u].at \in {"create", "write", "path"} ->
                                App("end", FALSE, NoModel, "notUploaded")
                         [] app[u].at \in {"look", "search"} ->
                                App("end", app[u].rag, NoModel, "lost")
                         [] OTHER -> app[u]
  BY <1>1 DEF Kill
<1>3. job' = [u \in Upload |-> job'[u]] /\ app' = [u \in Upload |-> app'[u]]
  BY <1>1 DEF Kill
<1>4. ASSUME NEW u \in Upload PROVE app'[u] \in AppRec
  <2>1. /\ App("end", FALSE, NoModel, "notUploaded") \in AppRec
        /\ App("end", app[u].rag, NoModel, "lost") \in AppRec
    BY AppFields DEF App, AppRec, AppAt, Results
  <2> QED
    BY <1>1, <1>2, <2>1
<1>5. ASSUME NEW u \in Upload PROVE job'[u] \in JobRec
  <2>1. Job("killed", NoModel, TRUE) \in JobRec
    BY DEF Job, JobRec, JobAts, Ended
  <2> QED
    BY <1>1, <1>2, <2>1
<1> QED
  BY <1>2, <1>3, <1>4, <1>5 DEF App, Job, KillOf

\* A step about one document leaves the others alone.
LEMMA OneDocument ==
    ASSUME Typed, NEW u \in Upload, DocStep(u)
    PROVE  \A v \in Upload \ {u} : Untouched(v)
<1>1. CASE CountFiles(u)
  BY <1>1, GoesEffect, EndsEffect DEF CountFiles, At, PlaceLeft, AppIs, AppAt, Results, files, search, outside, Untouched, Typed
<1>2. CASE CreateRow(u)
  BY <1>2, GoesEffect DEF CreateRow, At, AppIs, AppAt, files, search, outside, Untouched, Typed
<1>3. CASE WriteFile(u)
  BY <1>3, GoesEffect DEF WriteFile, At, AppIs, AppAt, files, search, outside, Untouched, Typed
<1>4. CASE StorePath(u)
  BY <1>4, GoesEffect, EndsEffect, JobGoesEffect DEF StorePath, At, AppIs, JobIs, AppAt, Results, JobAts, Working, files, search, outside, Untouched, Typed
<1>5. CASE UploadFails(u)
  BY <1>5, EndsEffect DEF UploadFails, At, AppIs, Results, files, search, outside, Untouched, Typed
<1>6. CASE Expire(u)
  BY <1>6 DEF Expire, files, search, outside, Untouched, Typed
<1>7. CASE CheckFails(u)
  BY <1>7, JobEndsEffect DEF CheckFails, JobAt, JobIs, files, search, outside, Untouched, Typed
<1>8. CASE StartIndexing(u)
  BY <1>8, StartJobEffect, StartIndexEffect DEF StartIndexing, JobAt, JobIs, IndexIs, files, search, outside, Untouched, Typed
<1>9. CASE Embed(u)
  BY <1>9, JobGoesEffect DEF Embed, JobAt, JobIs, JobAts, Working, files, search, outside, Untouched, Typed
<1>10. CASE EmbedFails(u)
  BY <1>10, JobGoesEffect DEF EmbedFails, JobAt, JobIs, JobAts, Working, files, search, outside, Untouched, Typed
<1>11. CASE StoreChunks(u)
  BY <1>11, StoreEffect, JobEndsEffect DEF StoreChunks, JobAt, IndexIs, JobIs, files, search, outside, Untouched, Typed
<1>12. CASE StoreFails(u)
  BY <1>12, JobGoesEffect DEF StoreFails, JobAt, JobIs, JobAts, Working, files, search, outside, Untouched, Typed
<1>13. CASE MarkFailed(u)
  BY <1>13, FailedEffect, JobEndsEffect DEF MarkFailed, JobAt, IndexIs, JobIs, files, search, outside, Untouched, Typed
<1>14. CASE Deadline(u)
  BY <1>14, DeadlineEffect DEF Deadline, JobIs, files, search, outside, Untouched, Typed
<1>15. CASE HearReady(u)
  BY <1>15, HearReadyEffect DEF HearReady, At, AppIs, files, search, outside, Untouched, Typed
<1>16. CASE HearFailed(u)
  BY <1>16, GoesEffect DEF HearFailed, At, AppIs, AppAt, files, search, outside, Untouched, Typed
<1>17. CASE GiveUp(u)
  BY <1>17, GoesEffect DEF GiveUp, At, AppIs, AppAt, files, search, outside, Untouched, Typed
<1>18. CASE Load(u)
  BY <1>18, GoesEffect, EndsEffect DEF Load, At, AppIs, AppAt, Results, files, search, outside, Untouched, Typed
<1>19. CASE LookAsked(u)
  BY <1>19, GoesEffect, EndsEffect DEF LookAsked, At, AppIs, AppAt, Results, files, search, outside, Untouched, Typed
<1>20. CASE LookUnasked(u)
  BY <1>20, GoesEffect, EndsEffect DEF LookUnasked, At, AppIs, AppAt, Results, files, search, outside, Untouched, Typed
<1>21. CASE Search(u)
  BY <1>21, EndsEffect, MissEffect DEF Search, At, AppIs, Results, files, search, outside, Untouched, Typed
<1>22. CASE SearchFails(u)
  BY <1>22, EndsEffect DEF SearchFails, At, AppIs, Results, files, search, outside, Untouched, Typed
<1>23. CASE MarkFails(u)
  BY <1>23, MarkFailsEffect DEF MarkFails, JobIs, files, search, outside, Untouched, Typed
<1> QED
  BY <1>1, <1>2, <1>3, <1>4, <1>5, <1>6, <1>7, <1>8, <1>9, <1>10, <1>11, <1>12, <1>13, <1>14, <1>15, <1>16, <1>17, <1>18, <1>19, <1>20, <1>21, <1>22, <1>23 DEF DocStep

-----------------------------------------------------------------------------
LEMMA FilesFinite ==
    ASSUME Typed
    PROVE  /\ IsFiniteSet(live) /\ IsFiniteSet(Counted)
           /\ Cardinality(live) \in Nat /\ Cardinality(Counted) \in Nat
BY FileSearchAssumption, FS_Subset, FS_CardinalityType DEF Typed, Counted

LEMMA TypedHolds == Spec => []Typed
<1>1. Init => Typed
  BY FileSearchAssumption DEF Init, Typed, App, Job, AppRec, JobRec, IndexRec, AppAt,
     JobAts, Working, Results
<1>2. Typed /\ [Next]_vars => Typed'
  <2> SUFFICES ASSUME Typed, [Next]_vars PROVE Typed'
    OBVIOUS
  <2>1. ASSUME NEW u \in Upload, CountFiles(u) PROVE Typed'
    BY <2>1, GoesEffect, EndsEffect, FilesFinite DEF CountFiles, At, PlaceLeft, AppIs, AppAt, Results, files, search, outside, Typed
  <2>2. ASSUME NEW u \in Upload, CreateRow(u) PROVE Typed'
    BY <2>2, GoesEffect DEF CreateRow, At, AppIs, AppAt, files, search, outside, Typed
  <2>3. ASSUME NEW u \in Upload, WriteFile(u) PROVE Typed'
    BY <2>3, GoesEffect DEF WriteFile, At, AppIs, AppAt, files, search, outside, Typed
  <2>4. ASSUME NEW u \in Upload, StorePath(u) PROVE Typed'
    BY <2>4, GoesEffect, EndsEffect, JobGoesEffect DEF StorePath, At, AppIs, JobIs, AppAt, Results, JobAts, Working, files, search, outside, Typed
  <2>5. ASSUME NEW u \in Upload, UploadFails(u) PROVE Typed'
    BY <2>5, EndsEffect DEF UploadFails, At, AppIs, Results, files, search, outside, Typed
  <2>6. ASSUME NEW u \in Upload, Expire(u) PROVE Typed'
    BY <2>6 DEF Expire, files, search, outside, Typed
  <2>7. ASSUME NEW u \in Upload, CheckFails(u) PROVE Typed'
    BY <2>7, JobEndsEffect DEF CheckFails, JobAt, JobIs, files, search, outside, Typed
  <2>8. ASSUME NEW u \in Upload, StartIndexing(u) PROVE Typed'
    BY <2>8, StartJobEffect, StartIndexEffect DEF StartIndexing, JobAt, JobIs, IndexIs, files, search, outside, Typed
  <2>9. ASSUME NEW u \in Upload, Embed(u) PROVE Typed'
    BY <2>9, JobGoesEffect DEF Embed, JobAt, JobIs, JobAts, Working, files, search, outside, Typed
  <2>10. ASSUME NEW u \in Upload, EmbedFails(u) PROVE Typed'
    BY <2>10, JobGoesEffect DEF EmbedFails, JobAt, JobIs, JobAts, Working, files, search, outside, Typed
  <2>11. ASSUME NEW u \in Upload, StoreChunks(u) PROVE Typed'
    <3>1. chunks' \in [Upload -> SUBSET (Model \cup {NoModel})]
      BY <2>11, JobFields DEF StoreChunks, Typed
    <3> QED
      BY <2>11, <3>1, StoreEffect, JobEndsEffect DEF StoreChunks, IndexIs, JobIs, files, outside, Typed
  <2>12. ASSUME NEW u \in Upload, StoreFails(u) PROVE Typed'
    BY <2>12, JobGoesEffect DEF StoreFails, JobAt, JobIs, JobAts, Working, files, search, outside, Typed
  <2>13. ASSUME NEW u \in Upload, MarkFailed(u) PROVE Typed'
    BY <2>13, FailedEffect, JobEndsEffect DEF MarkFailed, JobAt, IndexIs, JobIs, files, search, outside, Typed
  <2>14. ASSUME NEW u \in Upload, Deadline(u) PROVE Typed'
    BY <2>14, DeadlineEffect DEF Deadline, JobIs, files, search, outside, Typed
  <2>15. ASSUME NEW u \in Upload, HearReady(u) PROVE Typed'
    BY <2>15, HearReadyEffect DEF HearReady, At, AppIs, files, search, outside, Typed
  <2>16. ASSUME NEW u \in Upload, HearFailed(u) PROVE Typed'
    BY <2>16, GoesEffect DEF HearFailed, At, AppIs, AppAt, files, search, outside, Typed
  <2>17. ASSUME NEW u \in Upload, GiveUp(u) PROVE Typed'
    BY <2>17, GoesEffect DEF GiveUp, At, AppIs, AppAt, files, search, outside, Typed
  <2>18. ASSUME NEW u \in Upload, Load(u) PROVE Typed'
    BY <2>18, GoesEffect, EndsEffect DEF Load, At, AppIs, AppAt, Results, files, search, outside, Typed
  <2>19. ASSUME NEW u \in Upload, LookAsked(u) PROVE Typed'
    BY <2>19, GoesEffect, EndsEffect DEF LookAsked, At, AppIs, AppAt, Results, files, search, outside, Typed
  <2>20. ASSUME NEW u \in Upload, LookUnasked(u) PROVE Typed'
    BY <2>20, GoesEffect, EndsEffect DEF LookUnasked, At, AppIs, AppAt, Results, files, search, outside, Typed
  <2>21. ASSUME NEW u \in Upload, Search(u) PROVE Typed'
    BY <2>21, EndsEffect, MissEffect DEF Search, At, AppIs, Results, files, search, outside, Typed
  <2>22. ASSUME NEW u \in Upload, SearchFails(u) PROVE Typed'
    BY <2>22, EndsEffect DEF SearchFails, At, AppIs, Results, files, search, outside, Typed
  <2>23. CASE PickModel
    BY <2>23 DEF PickModel, files, search, Typed
  <2>24. CASE Kill
    <3>1. kills' \in 0..MaxKills
      BY <2>24, KillKeeps, FileSearchAssumption DEF Typed
    <3> QED
      BY <2>24, <3>1, KillEffect, KillKeeps DEF Typed
  <2>25. CASE UNCHANGED vars
    BY <2>25 DEF vars, Typed
  <2>26. ASSUME NEW u \in Upload, MarkFails(u) PROVE Typed'
    BY <2>26, MarkFailsEffect DEF MarkFails, JobIs, files, search, outside, Typed
  <2>27. \A u \in Upload : DocStep(u) => Typed'
    BY <2>1, <2>2, <2>3, <2>4, <2>5, <2>6, <2>7, <2>8, <2>9, <2>10, <2>11, <2>12, <2>13, <2>14, <2>15, <2>16, <2>17, <2>18, <2>19, <2>20, <2>21, <2>22, <2>26 DEF DocStep
  <2> QED
    BY <2>23, <2>24, <2>25, <2>27, StepCases
<1> QED
  BY <1>1, <1>2, PTL DEF Spec

-----------------------------------------------------------------------------
LEMMA BegunStep == ASSUME Typed, Begun, [Next]_vars PROVE Begun'
<1>1. ASSUME NEW u \in Upload, CountFiles(u) PROVE BegunOf(u)'
  BY <1>1, GoesEffect, EndsEffect DEF CountFiles, At, PlaceLeft, AppIs, AppAt, Results, files, search, outside, BegunOf, Begun, Typed
<1>2. ASSUME NEW u \in Upload, CreateRow(u) PROVE BegunOf(u)'
  BY <1>2, GoesEffect DEF CreateRow, At, AppIs, AppAt, files, search, outside, BegunOf, Begun, Typed
<1>3. ASSUME NEW u \in Upload, WriteFile(u) PROVE BegunOf(u)'
  BY <1>3, GoesEffect DEF WriteFile, At, AppIs, AppAt, files, search, outside, BegunOf, Begun, Typed
<1>4. ASSUME NEW u \in Upload, StorePath(u) PROVE BegunOf(u)'
  BY <1>4, GoesEffect, EndsEffect, JobGoesEffect DEF StorePath, At, AppIs, JobIs, AppAt, Results, JobAts, Working, files, search, outside, BegunOf, Begun, Typed
<1>5. ASSUME NEW u \in Upload, UploadFails(u) PROVE BegunOf(u)'
  BY <1>5, EndsEffect DEF UploadFails, At, AppIs, Results, files, search, outside, BegunOf, Begun, Typed
<1>6. ASSUME NEW u \in Upload, Expire(u) PROVE BegunOf(u)'
  BY <1>6 DEF Expire, files, search, outside, BegunOf, Begun, Typed
<1>7. ASSUME NEW u \in Upload, CheckFails(u) PROVE BegunOf(u)'
  BY <1>7, JobEndsEffect DEF CheckFails, JobAt, JobIs, files, search, outside, BegunOf, Begun, Typed
<1>8. ASSUME NEW u \in Upload, StartIndexing(u) PROVE BegunOf(u)'
  BY <1>8, StartJobEffect, StartIndexEffect DEF StartIndexing, JobAt, JobIs, IndexIs, files, search, outside, BegunOf, Begun, Typed
<1>9. ASSUME NEW u \in Upload, Embed(u) PROVE BegunOf(u)'
  BY <1>9, JobGoesEffect DEF Embed, JobAt, JobIs, JobAts, Working, files, search, outside, BegunOf, Begun, Typed
<1>10. ASSUME NEW u \in Upload, EmbedFails(u) PROVE BegunOf(u)'
  BY <1>10, JobGoesEffect DEF EmbedFails, JobAt, JobIs, JobAts, Working, files, search, outside, BegunOf, Begun, Typed
<1>11. ASSUME NEW u \in Upload, StoreChunks(u) PROVE BegunOf(u)'
  BY <1>11, StoreEffect, JobEndsEffect DEF StoreChunks, JobAt, IndexIs, JobIs, files, search, outside, BegunOf, Begun, Typed
<1>12. ASSUME NEW u \in Upload, StoreFails(u) PROVE BegunOf(u)'
  BY <1>12, JobGoesEffect DEF StoreFails, JobAt, JobIs, JobAts, Working, files, search, outside, BegunOf, Begun, Typed
<1>13. ASSUME NEW u \in Upload, MarkFailed(u) PROVE BegunOf(u)'
  BY <1>13, FailedEffect, JobEndsEffect DEF MarkFailed, JobAt, IndexIs, JobIs, files, search, outside, BegunOf, Begun, Typed
<1>14. ASSUME NEW u \in Upload, Deadline(u) PROVE BegunOf(u)'
  BY <1>14, DeadlineEffect DEF Deadline, JobIs, files, search, outside, BegunOf, Begun, Typed
<1>15. ASSUME NEW u \in Upload, HearReady(u) PROVE BegunOf(u)'
  BY <1>15, HearReadyEffect DEF HearReady, At, AppIs, files, search, outside, BegunOf, Begun, Typed
<1>16. ASSUME NEW u \in Upload, HearFailed(u) PROVE BegunOf(u)'
  BY <1>16, GoesEffect DEF HearFailed, At, AppIs, AppAt, files, search, outside, BegunOf, Begun, Typed
<1>17. ASSUME NEW u \in Upload, GiveUp(u) PROVE BegunOf(u)'
  BY <1>17, GoesEffect DEF GiveUp, At, AppIs, AppAt, files, search, outside, BegunOf, Begun, Typed
<1>18. ASSUME NEW u \in Upload, Load(u) PROVE BegunOf(u)'
  BY <1>18, GoesEffect, EndsEffect DEF Load, At, AppIs, AppAt, Results, files, search, outside, BegunOf, Begun, Typed
<1>19. ASSUME NEW u \in Upload, LookAsked(u) PROVE BegunOf(u)'
  BY <1>19, GoesEffect, EndsEffect DEF LookAsked, At, AppIs, AppAt, Results, files, search, outside, BegunOf, Begun, Typed
<1>20. ASSUME NEW u \in Upload, LookUnasked(u) PROVE BegunOf(u)'
  BY <1>20, GoesEffect, EndsEffect DEF LookUnasked, At, AppIs, AppAt, Results, files, search, outside, BegunOf, Begun, Typed
<1>21. ASSUME NEW u \in Upload, Search(u) PROVE BegunOf(u)'
  BY <1>21, EndsEffect, MissEffect DEF Search, At, AppIs, Results, files, search, outside, BegunOf, Begun, Typed
<1>22. ASSUME NEW u \in Upload, SearchFails(u) PROVE BegunOf(u)'
  BY <1>22, EndsEffect DEF SearchFails, At, AppIs, Results, files, search, outside, BegunOf, Begun, Typed
<1>23. ASSUME NEW u \in Upload, MarkFails(u) PROVE BegunOf(u)'
  BY <1>23, MarkFailsEffect DEF MarkFails, JobAt, JobIs, files, search, outside, BegunOf, Begun, Typed
<1>24. ASSUME NEW u \in Upload, DocStep(u) PROVE Begun'
  <2>1. BegunOf(u)'
    BY <1>24, <1>1, <1>2, <1>3, <1>4, <1>5, <1>6, <1>7, <1>8, <1>9, <1>10, <1>11, <1>12, <1>13, <1>14, <1>15, <1>16, <1>17, <1>18, <1>19, <1>20, <1>21, <1>22, <1>23 DEF DocStep
  <2>2. \A v \in Upload \ {u} : BegunOf(v)'
    BY <1>24, OneDocument DEF Untouched, Begun, BegunOf
  <2> QED
    BY <2>1, <2>2 DEF Begun
<1>25. CASE PickModel
  BY <1>25 DEF PickModel, files, search, Begun, BegunOf
<1>26. ASSUME Kill, NEW u \in Upload PROVE BegunOf(u)'
  <2>1. KillOf(u)
    BY <1>26, KillEffect
  <2>2. BegunOf(u)
    BY DEF Begun
  <2>3. /\ row' = row /\ disk' = disk /\ live' = live /\ index' = index
        /\ chunks' = chunks
    BY <1>26, KillKeeps
  <2> QED
    BY <2>1, <2>2, <2>3 DEF KillOf, BegunOf, Working
<1>27. CASE UNCHANGED vars
  BY <1>27 DEF vars, Begun, BegunOf
<1> QED
  BY <1>24, <1>25, <1>26, <1>27, StepCases DEF Begun

LEMMA IndexedStep == ASSUME Typed, Begun, Indexed, [Next]_vars PROVE Indexed'
<1>1. ASSUME NEW u \in Upload, CountFiles(u) PROVE IndexedOf(u)'
  BY <1>1, GoesEffect, EndsEffect DEF CountFiles, At, PlaceLeft, AppIs, AppAt, Results, files, search, outside, IndexedOf, BegunOf, Begun, Indexed, Typed
<1>2. ASSUME NEW u \in Upload, CreateRow(u) PROVE IndexedOf(u)'
  BY <1>2, GoesEffect DEF CreateRow, At, AppIs, AppAt, files, search, outside, IndexedOf, BegunOf, Begun, Indexed, Typed
<1>3. ASSUME NEW u \in Upload, WriteFile(u) PROVE IndexedOf(u)'
  BY <1>3, GoesEffect DEF WriteFile, At, AppIs, AppAt, files, search, outside, IndexedOf, BegunOf, Begun, Indexed, Typed
<1>4. ASSUME NEW u \in Upload, StorePath(u) PROVE IndexedOf(u)'
  BY <1>4, GoesEffect, EndsEffect, JobGoesEffect DEF StorePath, At, AppIs, JobIs, AppAt, Results, JobAts, Working, files, search, outside, IndexedOf, BegunOf, Begun, Indexed, Typed
<1>5. ASSUME NEW u \in Upload, UploadFails(u) PROVE IndexedOf(u)'
  BY <1>5, EndsEffect DEF UploadFails, At, AppIs, Results, files, search, outside, IndexedOf, BegunOf, Begun, Indexed, Typed
<1>6. ASSUME NEW u \in Upload, Expire(u) PROVE IndexedOf(u)'
  BY <1>6 DEF Expire, files, search, outside, IndexedOf, BegunOf, Begun, Indexed, Typed
<1>7. ASSUME NEW u \in Upload, CheckFails(u) PROVE IndexedOf(u)'
  BY <1>7, JobEndsEffect DEF CheckFails, JobAt, JobIs, files, search, outside, IndexedOf, BegunOf, Begun, Indexed, Typed
<1>8. ASSUME NEW u \in Upload, StartIndexing(u) PROVE IndexedOf(u)'
  <2>1. index'[u].status = "indexing" /\ index'[u].model = picked
    BY <1>8, StartIndexEffect DEF IndexIs
  <2>2. job'[u].at = "embed" /\ job'[u].model = picked
    BY <1>8, StartJobEffect DEF JobIs
  <2>3. chunks' = chunks /\ NoModel \notin chunks[u] /\ picked # NoModel
    BY <1>8, AppFields, FileSearchAssumption DEF StartIndexing, Indexed, IndexedOf
  <2> QED
    BY <2>1, <2>2, <2>3 DEF IndexedOf
<1>9. ASSUME NEW u \in Upload, Embed(u) PROVE IndexedOf(u)'
  BY <1>9, JobGoesEffect DEF Embed, JobAt, JobIs, JobAts, Working, files, search, outside, IndexedOf, BegunOf, Begun, Indexed, Typed
<1>10. ASSUME NEW u \in Upload, EmbedFails(u) PROVE IndexedOf(u)'
  BY <1>10, JobGoesEffect DEF EmbedFails, JobAt, JobIs, JobAts, Working, files, search, outside, IndexedOf, BegunOf, Begun, Indexed, Typed
<1>11. ASSUME NEW u \in Upload, StoreChunks(u) PROVE IndexedOf(u)'
  BY <1>11, StoreEffect, JobEndsEffect DEF StoreChunks, JobAt, IndexIs, JobIs, files, search, outside, IndexedOf, BegunOf, Begun, Indexed, Typed
<1>12. ASSUME NEW u \in Upload, StoreFails(u) PROVE IndexedOf(u)'
  BY <1>12, JobGoesEffect DEF StoreFails, JobAt, JobIs, JobAts, Working, files, search, outside, IndexedOf, BegunOf, Begun, Indexed, Typed
<1>13. ASSUME NEW u \in Upload, MarkFailed(u) PROVE IndexedOf(u)'
  BY <1>13, FailedEffect, JobEndsEffect DEF MarkFailed, JobAt, IndexIs, JobIs, files, search, outside, IndexedOf, BegunOf, Begun, Indexed, Typed
<1>14. ASSUME NEW u \in Upload, Deadline(u) PROVE IndexedOf(u)'
  <2>1. job'[u].at = job[u].at /\ job'[u].model = job[u].model /\ job'[u].cut = TRUE
    BY <1>14, DeadlineEffect DEF JobIs
  <2>2. index' = index /\ chunks' = chunks /\ IndexedOf(u)
    BY <1>14 DEF Deadline, search, Indexed
  <2> QED
    BY <2>1, <2>2 DEF IndexedOf
<1>15. ASSUME NEW u \in Upload, HearReady(u) PROVE IndexedOf(u)'
  BY <1>15, HearReadyEffect DEF HearReady, At, AppIs, files, search, outside, IndexedOf, BegunOf, Begun, Indexed, Typed
<1>16. ASSUME NEW u \in Upload, HearFailed(u) PROVE IndexedOf(u)'
  BY <1>16, GoesEffect DEF HearFailed, At, AppIs, AppAt, files, search, outside, IndexedOf, BegunOf, Begun, Indexed, Typed
<1>17. ASSUME NEW u \in Upload, GiveUp(u) PROVE IndexedOf(u)'
  BY <1>17, GoesEffect DEF GiveUp, At, AppIs, AppAt, files, search, outside, IndexedOf, BegunOf, Begun, Indexed, Typed
<1>18. ASSUME NEW u \in Upload, Load(u) PROVE IndexedOf(u)'
  BY <1>18, GoesEffect, EndsEffect DEF Load, At, AppIs, AppAt, Results, files, search, outside, IndexedOf, BegunOf, Begun, Indexed, Typed
<1>19. ASSUME NEW u \in Upload, LookAsked(u) PROVE IndexedOf(u)'
  BY <1>19, GoesEffect, EndsEffect DEF LookAsked, At, AppIs, AppAt, Results, files, search, outside, IndexedOf, BegunOf, Begun, Indexed, Typed
<1>20. ASSUME NEW u \in Upload, LookUnasked(u) PROVE IndexedOf(u)'
  BY <1>20, GoesEffect, EndsEffect DEF LookUnasked, At, AppIs, AppAt, Results, files, search, outside, IndexedOf, BegunOf, Begun, Indexed, Typed
<1>21. ASSUME NEW u \in Upload, Search(u) PROVE IndexedOf(u)'
  BY <1>21, EndsEffect, MissEffect DEF Search, At, AppIs, Results, files, search, outside, IndexedOf, BegunOf, Begun, Indexed, Typed
<1>22. ASSUME NEW u \in Upload, SearchFails(u) PROVE IndexedOf(u)'
  BY <1>22, EndsEffect DEF SearchFails, At, AppIs, Results, files, search, outside, IndexedOf, BegunOf, Begun, Indexed, Typed
<1>23. ASSUME NEW u \in Upload, MarkFails(u) PROVE IndexedOf(u)'
  BY <1>23, MarkFailsEffect DEF MarkFails, JobAt, JobIs, files, search, outside, IndexedOf, BegunOf, Begun, Indexed, Typed
<1>24. ASSUME NEW u \in Upload, DocStep(u) PROVE Indexed'
  <2>1. IndexedOf(u)'
    BY <1>24, <1>1, <1>2, <1>3, <1>4, <1>5, <1>6, <1>7, <1>8, <1>9, <1>10, <1>11, <1>12, <1>13, <1>14, <1>15, <1>16, <1>17, <1>18, <1>19, <1>20, <1>21, <1>22, <1>23 DEF DocStep
  <2>2. \A v \in Upload \ {u} : IndexedOf(v)'
    BY <1>24, OneDocument DEF Untouched, Indexed, IndexedOf
  <2> QED
    BY <2>1, <2>2 DEF Indexed
<1>25. CASE PickModel
  BY <1>25 DEF PickModel, files, search, Indexed, IndexedOf
<1>26. ASSUME Kill, NEW u \in Upload PROVE IndexedOf(u)'
  <2>1. KillOf(u)
    BY <1>26, KillEffect
  <2>2. IndexedOf(u)
    BY DEF Indexed
  <2>3. /\ row' = row /\ disk' = disk /\ live' = live /\ index' = index
        /\ chunks' = chunks
    BY <1>26, KillKeeps
  <2> QED
    BY <2>1, <2>2, <2>3 DEF KillOf, IndexedOf, Working
<1>27. CASE UNCHANGED vars
  BY <1>27 DEF vars, Indexed, IndexedOf
<1> QED
  BY <1>24, <1>25, <1>26, <1>27, StepCases DEF Indexed

LEMMA ToldStep == ASSUME Typed, Begun, Indexed, Told, [Next]_vars PROVE Told'
<1>1. ASSUME NEW u \in Upload, CountFiles(u) PROVE ToldOf(u)'
  BY <1>1, GoesEffect, EndsEffect DEF CountFiles, At, PlaceLeft, AppIs, AppAt, Results, files, search, outside, ToldOf, IndexedOf, BegunOf, Begun, Indexed, Told, Typed
<1>2. ASSUME NEW u \in Upload, CreateRow(u) PROVE ToldOf(u)'
  BY <1>2, GoesEffect DEF CreateRow, At, AppIs, AppAt, files, search, outside, ToldOf, IndexedOf, BegunOf, Begun, Indexed, Told, Typed
<1>3. ASSUME NEW u \in Upload, WriteFile(u) PROVE ToldOf(u)'
  BY <1>3, GoesEffect DEF WriteFile, At, AppIs, AppAt, files, search, outside, ToldOf, IndexedOf, BegunOf, Begun, Indexed, Told, Typed
<1>4. ASSUME NEW u \in Upload, StorePath(u) PROVE ToldOf(u)'
  BY <1>4, GoesEffect, EndsEffect, JobGoesEffect DEF StorePath, At, AppIs, JobIs, AppAt, Results, JobAts, Working, files, search, outside, ToldOf, IndexedOf, BegunOf, Begun, Indexed, Told, Typed
<1>5. ASSUME NEW u \in Upload, UploadFails(u) PROVE ToldOf(u)'
  BY <1>5, EndsEffect DEF UploadFails, At, AppIs, Results, files, search, outside, ToldOf, IndexedOf, BegunOf, Begun, Indexed, Told, Typed
<1>6. ASSUME NEW u \in Upload, Expire(u) PROVE ToldOf(u)'
  BY <1>6 DEF Expire, files, search, outside, ToldOf, IndexedOf, BegunOf, Begun, Indexed, Told, Typed
<1>7. ASSUME NEW u \in Upload, CheckFails(u) PROVE ToldOf(u)'
  BY <1>7, JobEndsEffect DEF CheckFails, JobAt, JobIs, files, search, outside, ToldOf, IndexedOf, BegunOf, Begun, Indexed, Told, Typed
<1>8. ASSUME NEW u \in Upload, StartIndexing(u) PROVE ToldOf(u)'
  BY <1>8, StartJobEffect, StartIndexEffect DEF StartIndexing, JobAt, JobIs, IndexIs, files, search, outside, ToldOf, IndexedOf, BegunOf, Begun, Indexed, Told, Typed
<1>9. ASSUME NEW u \in Upload, Embed(u) PROVE ToldOf(u)'
  BY <1>9, JobGoesEffect DEF Embed, JobAt, JobIs, JobAts, Working, files, search, outside, ToldOf, IndexedOf, BegunOf, Begun, Indexed, Told, Typed
<1>10. ASSUME NEW u \in Upload, EmbedFails(u) PROVE ToldOf(u)'
  BY <1>10, JobGoesEffect DEF EmbedFails, JobAt, JobIs, JobAts, Working, files, search, outside, ToldOf, IndexedOf, BegunOf, Begun, Indexed, Told, Typed
<1>11. ASSUME NEW u \in Upload, StoreChunks(u) PROVE ToldOf(u)'
  BY <1>11, StoreEffect, JobEndsEffect DEF StoreChunks, JobAt, IndexIs, JobIs, files, search, outside, ToldOf, IndexedOf, BegunOf, Begun, Indexed, Told, Typed
<1>12. ASSUME NEW u \in Upload, StoreFails(u) PROVE ToldOf(u)'
  BY <1>12, JobGoesEffect DEF StoreFails, JobAt, JobIs, JobAts, Working, files, search, outside, ToldOf, IndexedOf, BegunOf, Begun, Indexed, Told, Typed
<1>13. ASSUME NEW u \in Upload, MarkFailed(u) PROVE ToldOf(u)'
  BY <1>13, FailedEffect, JobEndsEffect DEF MarkFailed, JobAt, IndexIs, JobIs, files, search, outside, ToldOf, IndexedOf, BegunOf, Begun, Indexed, Told, Typed
<1>14. ASSUME NEW u \in Upload, Deadline(u) PROVE ToldOf(u)'
  BY <1>14, DeadlineEffect DEF Deadline, JobIs, files, search, outside, ToldOf, IndexedOf, BegunOf, Begun, Indexed, Told, Typed
<1>15. ASSUME NEW u \in Upload, HearReady(u) PROVE ToldOf(u)'
  BY <1>15, HearReadyEffect DEF HearReady, At, AppIs, files, search, outside, ToldOf, IndexedOf, BegunOf, Begun, Indexed, Told, Typed
<1>16. ASSUME NEW u \in Upload, HearFailed(u) PROVE ToldOf(u)'
  BY <1>16, GoesEffect DEF HearFailed, At, AppIs, AppAt, files, search, outside, ToldOf, IndexedOf, BegunOf, Begun, Indexed, Told, Typed
<1>17. ASSUME NEW u \in Upload, GiveUp(u) PROVE ToldOf(u)'
  BY <1>17, GoesEffect DEF GiveUp, At, AppIs, AppAt, files, search, outside, ToldOf, IndexedOf, BegunOf, Begun, Indexed, Told, Typed
<1>18. ASSUME NEW u \in Upload, Load(u) PROVE ToldOf(u)'
  BY <1>18, GoesEffect, EndsEffect DEF Load, At, AppIs, AppAt, Results, files, search, outside, ToldOf, IndexedOf, BegunOf, Begun, Indexed, Told, Typed
<1>19. ASSUME NEW u \in Upload, LookAsked(u) PROVE ToldOf(u)'
  BY <1>19, GoesEffect, EndsEffect DEF LookAsked, At, AppIs, AppAt, Results, files, search, outside, ToldOf, IndexedOf, BegunOf, Begun, Indexed, Told, Typed
<1>20. ASSUME NEW u \in Upload, LookUnasked(u) PROVE ToldOf(u)'
  BY <1>20, GoesEffect, EndsEffect DEF LookUnasked, At, AppIs, AppAt, Results, files, search, outside, ToldOf, IndexedOf, BegunOf, Begun, Indexed, Told, Typed
<1>21. ASSUME NEW u \in Upload, Search(u) PROVE ToldOf(u)'
  BY <1>21, EndsEffect, MissEffect DEF Search, At, AppIs, Results, files, search, outside, ToldOf, IndexedOf, BegunOf, Begun, Indexed, Told, Typed
<1>22. ASSUME NEW u \in Upload, SearchFails(u) PROVE ToldOf(u)'
  BY <1>22, EndsEffect DEF SearchFails, At, AppIs, Results, files, search, outside, ToldOf, IndexedOf, BegunOf, Begun, Indexed, Told, Typed
<1>23. ASSUME NEW u \in Upload, MarkFails(u) PROVE ToldOf(u)'
  BY <1>23, MarkFailsEffect DEF MarkFails, JobAt, JobIs, files, search, outside, ToldOf, IndexedOf, BegunOf, Begun, Indexed, Told, Typed
<1>24. ASSUME NEW u \in Upload, DocStep(u) PROVE Told'
  <2>1. ToldOf(u)'
    BY <1>24, <1>1, <1>2, <1>3, <1>4, <1>5, <1>6, <1>7, <1>8, <1>9, <1>10, <1>11, <1>12, <1>13, <1>14, <1>15, <1>16, <1>17, <1>18, <1>19, <1>20, <1>21, <1>22, <1>23 DEF DocStep
  <2>2. \A v \in Upload \ {u} : ToldOf(v)'
    BY <1>24, OneDocument DEF Untouched, Told, ToldOf
  <2> QED
    BY <2>1, <2>2 DEF Told
<1>25. CASE PickModel
  BY <1>25 DEF PickModel, files, search, Told, ToldOf
<1>26. ASSUME Kill, NEW u \in Upload PROVE ToldOf(u)'
  <2>1. KillOf(u)
    BY <1>26, KillEffect
  <2>2. ToldOf(u)
    BY DEF Told
  <2>3. /\ row' = row /\ disk' = disk /\ live' = live /\ index' = index
        /\ chunks' = chunks
    BY <1>26, KillKeeps
  <2> QED
    BY <2>1, <2>2, <2>3 DEF KillOf, ToldOf, Working
<1>27. CASE UNCHANGED vars
  BY <1>27 DEF vars, Told, ToldOf
<1> QED
  BY <1>24, <1>25, <1>26, <1>27, StepCases DEF Told

-----------------------------------------------------------------------------
LEMMA Documents == Spec => [](Typed /\ Begun /\ Indexed /\ Told)
<1>1. Init => Begun /\ Indexed /\ Told
  BY DEF Init, Begun, Indexed, Told, BegunOf, IndexedOf, ToldOf, App, Job
<1>2. Typed /\ (Begun /\ Indexed /\ Told) /\ [Next]_vars => (Begun /\ Indexed /\ Told)'
  BY BegunStep, IndexedStep, ToldStep
<1> QED
  BY <1>1, <1>2, TypedHolds, PTL DEF Spec

(* Every variable keeps its type, and an index has a model. *)
THEOREM Typing == Spec => []TypeOK
<1>1. Typed /\ Indexed => TypeOK
  BY DEF TypeOK, Indexed, IndexedOf
<1> QED
  BY <1>1, Documents, PTL

(* Whoever works on a document finds it whole; a row without a path belongs to
   a failed upload. *)
THEOREM Whole == Spec => []FilesWhole
<1>1. Typed /\ Begun /\ Told => FilesWhole
  BY AppFields DEF Begun, Told, BegunOf, ToldOf, FilesWhole, At
<1> QED
  BY <1>1, Documents, PTL

(* An index is left "indexing" only by the death of the server, or by a failure
   whose mark failed as well. *)
THEOREM Excused == Spec => []IndexingExcused
<1>1. Indexed => IndexingExcused
  BY DEF Indexed, IndexedOf, IndexingExcused
<1> QED
  BY <1>1, Documents, PTL

(* A search asked for after the app saw "ready" is never refused for the state
   of the index, and misses only with another model. *)
THEOREM Found == Spec => []ReadyIsFound
<1>1. Typed /\ Told => ReadyIsFound
  BY AppFields DEF Told, ToldOf, ReadyIsFound, At
<1> QED
  BY <1>1, Documents, PTL
-----------------------------------------------------------------------------
\* Neither more rows nor more uploads on their way to one.
Shrinks == live' \subseteq live /\ Counted' \subseteq Counted /\ peak' = peak

LEMMA ShrinkSteps ==
    ASSUME Typed, [Next]_vars, \A u \in Upload : ~CountFiles(u) /\ ~CreateRow(u)
    PROVE  Shrinks
<1>1. ASSUME NEW u \in Upload, WriteFile(u) PROVE Shrinks
  BY <1>1, GoesEffect DEF WriteFile, Counted, At, AppIs, AppAt, files, Shrinks
<1>2. ASSUME NEW u \in Upload, StorePath(u) PROVE Shrinks
  BY <1>2, GoesEffect, EndsEffect DEF StorePath, Counted, At, AppIs, AppAt, Results, files, Shrinks
<1>3. ASSUME NEW u \in Upload, UploadFails(u) PROVE Shrinks
  BY <1>3, EndsEffect DEF UploadFails, Counted, At, AppIs, Results, files, Shrinks
<1>4. ASSUME NEW u \in Upload, Expire(u) PROVE Shrinks
  BY <1>4 DEF Expire, Counted, At, files, Shrinks
<1>5. ASSUME NEW u \in Upload, CheckFails(u) PROVE Shrinks
  BY <1>5 DEF CheckFails, Counted, At, files, Shrinks
<1>6. ASSUME NEW u \in Upload, StartIndexing(u) PROVE Shrinks
  BY <1>6 DEF StartIndexing, Counted, At, files, Shrinks
<1>7. ASSUME NEW u \in Upload, Embed(u) PROVE Shrinks
  BY <1>7 DEF Embed, Counted, At, files, Shrinks
<1>8. ASSUME NEW u \in Upload, EmbedFails(u) PROVE Shrinks
  BY <1>8 DEF EmbedFails, Counted, At, files, Shrinks
<1>9. ASSUME NEW u \in Upload, StoreChunks(u) PROVE Shrinks
  BY <1>9 DEF StoreChunks, Counted, At, files, Shrinks
<1>10. ASSUME NEW u \in Upload, StoreFails(u) PROVE Shrinks
  BY <1>10 DEF StoreFails, Counted, At, files, Shrinks
<1>11. ASSUME NEW u \in Upload, MarkFailed(u) PROVE Shrinks
  BY <1>11 DEF MarkFailed, Counted, At, files, Shrinks
<1>12. ASSUME NEW u \in Upload, Deadline(u) PROVE Shrinks
  BY <1>12 DEF Deadline, Counted, At, files, Shrinks
<1>13. ASSUME NEW u \in Upload, HearReady(u) PROVE Shrinks
  BY <1>13, HearReadyEffect DEF HearReady, Counted, At, AppIs, files, Shrinks
<1>14. ASSUME NEW u \in Upload, HearFailed(u) PROVE Shrinks
  BY <1>14, GoesEffect DEF HearFailed, Counted, At, AppIs, AppAt, files, Shrinks
<1>15. ASSUME NEW u \in Upload, GiveUp(u) PROVE Shrinks
  BY <1>15, GoesEffect DEF GiveUp, Counted, At, AppIs, AppAt, files, Shrinks
<1>16. ASSUME NEW u \in Upload, Load(u) PROVE Shrinks
  BY <1>16, GoesEffect, EndsEffect DEF Load, Counted, At, AppIs, AppAt, Results, files, Shrinks
<1>17. ASSUME NEW u \in Upload, LookAsked(u) PROVE Shrinks
  BY <1>17, GoesEffect, EndsEffect DEF LookAsked, Counted, At, AppIs, AppAt, Results, files, Shrinks
<1>18. ASSUME NEW u \in Upload, LookUnasked(u) PROVE Shrinks
  BY <1>18, GoesEffect, EndsEffect DEF LookUnasked, Counted, At, AppIs, AppAt, Results, files, Shrinks
<1>19. ASSUME NEW u \in Upload, Search(u) PROVE Shrinks
  BY <1>19, EndsEffect, MissEffect DEF Search, Counted, At, AppIs, Results, files, Shrinks
<1>20. ASSUME NEW u \in Upload, SearchFails(u) PROVE Shrinks
  BY <1>20, EndsEffect DEF SearchFails, Counted, At, AppIs, Results, files, Shrinks
<1>21. CASE PickModel
  BY <1>21 DEF PickModel, files, Counted, At, Shrinks
<1>22. CASE Kill
  BY <1>22, KillKeeps, KillEffect DEF KillOf, Counted, At, Shrinks
<1>23. CASE UNCHANGED vars
  BY <1>23 DEF vars, Counted, At, Shrinks
<1>24. ASSUME NEW u \in Upload, MarkFails(u) PROVE Shrinks
  BY <1>24 DEF MarkFails, Counted, At, files, Shrinks
<1> QED
  BY <1>1, <1>2, <1>3, <1>4, <1>5, <1>6, <1>7, <1>8, <1>9, <1>10, <1>11, <1>12, <1>13, <1>14, <1>15, <1>16, <1>17, <1>18, <1>19, <1>20, <1>21, <1>22, <1>23, <1>24, StepCases DEF DocStep

LEMMA ShrinkKeepsRoom == ASSUME Typed, Room, Shrinks PROVE Room'
<1>1. /\ Cardinality(live') \in Nat /\ Cardinality(live') <= Cardinality(live)
      /\ Cardinality(Counted') \in Nat /\ Cardinality(Counted') <= Cardinality(Counted)
  BY FilesFinite, FS_Subset, FS_CardinalityType DEF Shrinks
<1>2. peak' = peak /\ peak \in Nat /\ MaxFiles \in Nat
  BY FileSearchAssumption DEF Typed, Shrinks
<1> QED
  BY <1>1, <1>2, FilesFinite DEF Room

LEMMA CountKeepsRoom ==
    ASSUME Typed, Begun, Room, NEW u \in Upload, CountFiles(u)
    PROVE  Room'
<1>1. CASE PlaceLeft
  <2>1. Goes(u, "create") /\ live' = live
        /\ peak' = IF Cardinality(Counted) < peak THEN peak ELSE Cardinality(Counted) + 1
    BY <1>1 DEF CountFiles, files
  <2>2. Counted' = Counted \cup {u}
    BY <2>1, GoesEffect DEF AppIs, AppAt, Counted, At
  <2>3. u \notin Counted
    BY DEF CountFiles, Counted, At
  <2>4. Cardinality(Counted') = Cardinality(Counted) + 1
    BY <2>2, <2>3, FilesFinite, FS_AddElement
  <2>5. Cardinality(live) < MaxFiles /\ peak \in Nat /\ MaxFiles \in Nat
    BY <1>1, FileSearchAssumption DEF PlaceLeft, Typed
  <2> QED
    BY <2>1, <2>4, <2>5, FilesFinite DEF Room
<1>2. CASE ~PlaceLeft
  <2>1. Ends(u, "refused") /\ live' = live /\ peak' = peak
    BY <1>2 DEF CountFiles, files
  <2>2. Counted' \subseteq Counted
    BY <2>1, EndsEffect DEF AppIs, Results, Counted, At
  <2> QED
    BY <2>1, <2>2, ShrinkKeepsRoom DEF Shrinks
<1> QED
  BY <1>1, <1>2

LEMMA CreateKeepsRoom ==
    ASSUME Typed, Begun, Room, NEW u \in Upload, CreateRow(u)
    PROVE  Room'
<1>1. u \in Counted /\ u \notin live
  BY DEF CreateRow, Counted, At, Begun, BegunOf
<1>2. Goes(u, "write") /\ live' = live \cup {u} /\ peak' = peak
  BY DEF CreateRow
<1>3. Counted' = Counted \ {u}
  BY <1>2, GoesEffect DEF AppIs, AppAt, Counted, At
<1>4. Cardinality(live') = Cardinality(live) + 1
  BY <1>1, <1>2, FilesFinite, FS_AddElement
<1>5. Cardinality(Counted') = Cardinality(Counted) - 1
  BY <1>1, <1>3, FilesFinite, FS_RemoveElement
<1>6. peak \in Nat /\ MaxFiles \in Nat
  BY FileSearchAssumption DEF Typed
<1> QED
  BY <1>2, <1>4, <1>5, <1>6, FilesFinite DEF Room

(* The limit on a session's files is exceeded by no more than the uploads that
   were between their count and their row at once, less one. *)
THEOREM Quota == Spec => []QuotaKept
<1>1. Init => Room
  <2> SUFFICES ASSUME Init PROVE Room
    OBVIOUS
  <2>1. live = {} /\ peak = 0
    BY DEF Init
  <2>2. Counted = {}
    BY DEF Init, Counted, At, App
  <2> QED
    BY <2>1, <2>2, FS_EmptySet, FileSearchAssumption DEF Room
<1>2. Typed /\ Begun /\ Room /\ [Next]_vars => Room'
  BY ShrinkSteps, ShrinkKeepsRoom, CountKeepsRoom, CreateKeepsRoom
<1>3. Typed /\ Room => QuotaKept
  <2> SUFFICES ASSUME Typed, Room PROVE QuotaKept
    OBVIOUS
  <2>1. peak \in Nat /\ MaxFiles \in Nat
    BY FileSearchAssumption DEF Typed
  <2> QED
    BY <2>1, FilesFinite DEF Room, QuotaKept
<1> QED
  BY <1>1, <1>2, <1>3, Documents, PTL DEF Spec
=============================================================================
