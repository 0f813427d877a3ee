# TLA+ models of gen-runner

gen-runner is a chat server (Go, gRPC, PostgreSQL) in front of a set of LLM runners, with runner processes, MCP
servers and a client app of its own. This directory models the parts of it in which something can go wrong that a
test hardly reaches: goroutines that share maps, counters and channels, calls that read rows and write them later,
loops that cut prompts, failures and restarts between two steps. TLC checks every model on small instances; TLAPS
proves the safety of the runner pool, of the registry, of the answer stream and that it implements its abstract specification, of the tool loop, of chat
turns, of the MCP sessions and list caches, of the way of a document into an answer, of the runner process and of the
wiki server's index, for any number of calls, runners, messages, rows, files and any limits.

    tlc -config RunnerPool.cfg RunnerPool        # model-check one run (PROJECT.json lists them)
    tlapm RunnerPoolProofs.tla                   # check the proofs of a module

## 1. The system

| Component | State | Operations | Talks to |
| --- | --- | --- | --- |
| Runner pool, `internal/service/pool.go` | one gRPC client, one atomic counter of calls in flight and one probe-cache entry per address | pickRunner, SendMessage*, Embed*, WaitRunnerIdle, UnloadModelOnRunner, ResetMemoryOnRunner, CloseAddr(Forget), probes | registry (read), runners (RPC), administrators' handlers |
| Answer stream, `llm_runner_service.go`, `pool.go` forwardStream, `chat_usecase_stream_forward.go`, `chat_handler.go` streamSendLoop | three channels of 100, the collected text, the assistant's row | reader, forwarder, turn and handler, four goroutines in a row | runner, `messages`, client |
| Runner registry, `registry.go`, `runner_handler.go`, `runner_repository.go` | table `runners`; a map in each server process; the pool's clients | CreateRunner, UpdateRunner, DeleteRunner, syncRegistry, start | pool (closeAddr), pickRunner |
| Chat turns, `chat_usecase_send_message.go`, `chat_usecase_assistant_ops.go`, `message_repository.go` | `messages` (soft deletion), `message_edits` | SendMessage, Regenerate, Continue, Edit; the views of older versions | pool, handlers |
| Tool loop, `chat_tool_loop.go` | the prompt, the rows of a round, the goroutines of its tools | rounds of runner's answer, parallel tools, one transaction | MCP client, pool, history cap |
| History cap, `llm_history_tokens.go`, `chat_usecase_history_tokens.go`, `history_drop_summary.go` | the prompt | drop, shorten, sum up | pool |
| MCP client, `mcpclient/` | session per server, three list caches, retry policy | run with one retry, closeServer, cached lists, invalidation | MCP servers |
| Documents and RAG, `document_ingest_usecase.go`, `document_rag_repository.go` | index status and chunks per file | IndexSessionFile, search | pool (EmbedBatch), the prompt |
| Session files, `chat_usecase.go`, `file_repository.go` | rows and files, a quota | PutSessionFile, loading for a message | indexing in the background |
| Runner process, `llm-runner/`, `cmd/gen-llm-runner` | generation slots, the loaded model; a round-robin pool with retries | SendMessage, Embed(Batch), UnloadModel, the end of the process | llama bindings |
| MCP wiki server, `mcp-servers/mcp-wiki` | records of files, the search index, the last report | index_wiki_folder, ask_wiki, wiki_index_status | the wiki's directory |
| Authentication, users | rows of tokens and users | Login, Refresh, Logout, ChangePassword | every handler |
| Client (Flutter), other MCP servers, tools, configuration, protocols | - | - | - |

What is hard in it:

* *Concurrency.* `closeAddr` takes the pool's maps apart in three critical sections while calls hold what
  they took out of them; chat calls of one session run without any lock on the session; administrators' calls
  read the table and replace the registry in two steps; a runner frees the one loaded model whoever is using it;
  calls of the wiki server walk a directory without a lock and merge what they found afterwards.
* *Channels.* Four goroutines pass an answer through bounded channels. All but one of their sends watch the
  request's context.
* *Partial failure.* A chat call is a sequence of statements with a slow runner in the middle; each may fail,
  and the answer is stored by a deferred call whose error is dropped. A round of tools acts on other systems before
  the transaction that records it.
* *Loops with estimates.* Prompts are dropped from, shortened and summed up until an estimate fits.
* *Time.* Tools, embeddings, indexing and the app's waiting for it each have limits of their own, and what is
  no longer awaited goes on.
* *Crashes.* What is only in memory (the text so far, the old text of a regenerated answer, an indexing) is lost.

What makes each component correct: the pool's counters are exact and unloads wait for the calls they found;
a client sees the runner's answer in order, without gaps, and never more than the row will hold if it can be written; a server's
registry is the table, and deleted runners stay deleted; no text of a chat disappears without a trace, and a
chat that is used one call at a time keeps its shape; what tools have done is on record, and the runner sees calls with
their results; prompts are cut as far as needed and no further; an MCP session is one call's at a time, is not closed under
it and does not stay open for nobody; a cached list is not served long after it changed; a document said to be ready is found;
a call computes with the model it asked for while it has a slot, and other calls do not close it meanwhile; the wiki's index is what its directory says. And whatever is begun, ends.

`PROJECT.json` lists the components and, line by line, the hazards.

## 2. Modules

| Module | Models | Extends or instantiates |
| --- | --- | --- |
| `RunnerPool` | the pool, chat calls and administrators' calls on it | - |
| `RunnerPoolProofs` | four theorems about the pool, four about the registry | `RunnerPool`, `RunnerRegistry`, TLAPS |
| `AnswerStream` | what a client and a row are promised of one answer (abstract) | - |
| `RunnerStream` | the pipeline of goroutines; implements `AnswerStream` | `AnswerStream` by refinement |
| `RunnerStreamProofs` | four theorems about it, the refinement among them, and six about the tool loop and its cut of the prompt | `RunnerStream`, `ToolLoop`, TLAPS |
| `RunnerRegistry`, `MCRunnerRegistry` | table, registries, clients under administration and restarts | - |
| `ChatTurns`, `MCChatTurns` | the rows of a session under the four chat calls | - |
| `ChatTurnsProofs` | seven theorems about chat turns | `MCChatTurns`, TLAPS |
| `HistoryCap`, `MCHistoryCap` | how a prompt is cut to the context | - |
| `ToolLoop`, `MCToolLoop` | one turn of a session with tools | `HistoryCap` |
| `McpListCache` | a cached list of an MCP server, its fetches and invalidations | - |
| `McpListCacheProofs` | three theorems about the list cache | `McpListCache`, TLAPS |
| `McpSessionPool` | the pooled session of an MCP server | - |
| `McpSessionPoolProofs` | five theorems about it | `McpSessionPool`, TLAPS |
| `FileSearch`, `MCFileSearch` | upload, indexing, the app's waiting, and the search of a document | - |
| `FileSearchProofs` | five theorems about it | `FileSearch`, TLAPS |
| `RunnerProcess`, `MCRunnerProcess` | slots, the loaded model and its locks, prompts, generation and end of a runner process | - |
| `RunnerProcessProofs` | five theorems about it | `RunnerProcess`, TLAPS |
| `WikiIndex`, `MCWikiIndex` | the wiki server's index under overlapping calls | - |
| `WikiIndexProofs` | seven theorems about it | `WikiIndex`, TLAPS |

Two modules of proofs are about two components each, whose names are therefore disjoint (`RegistryInit`, `LoopInit`, `turnCtx`, ...): the pool and the registry it picks from, the answer stream and the loop around it.

The modules meet where one's action is another's step: `RunnerStream`'s forwarder is the call that `RunnerPool` has at
`"stream"` (its `Stall` is `RunnerStream`'s `Stuck`); the addresses `RunnerPool` picks from are any set because
`RunnerRegistry` says what the registry may list; `ChatTurns`'s `Finish` and `FinishUnsaved` are `RunnerStream`'s `TurnSave` and `TurnSaveFails`; `ToolLoop` runs the steps of `HistoryCap` as
its own (`CapPrompt`), before and between rounds; `ToolLoop`'s tools and `McpListCache`'s `Fetch` are calls of `McpSessionPool`; an answer in
`RunnerProcess` is what `RunnerStream` receives, and `Embed` in `FileSearch` is an `"embed"` or `"batch"` call of it; a call
of `index_wiki_folder` is a tool of `ToolLoop` like any other.

### RunnerPool

`client[a]`, `counter[a]` say whether `Pool.clients` and `Pool.inflight` have an entry for address `a`. A goroutine keeps the
client and counter it was handed after `closeAddr` has dropped them, so objects are numbered: `clientNo[a]` and
`counterNo[a]` count the deletions, and object *e* of *a* is the pool's own only while *e* is the current number.
`load[a][e]` is the value of counter *e*, forgotten ones included. `GetClient` and `GetOrCreateInflight` are the two ways an entry
comes back. A call goes through pick (snapshot of the addresses, two rounds, candidates holding the client they were
asked on) or names its runner, then fetches the counter, adds to it, opens, streams, releases: five separate steps,
because `closeAddr` may run between any two. An administrator's call waits (`WaitRunnerIdle` captures one counter), gives
up after two minutes, unloads, and for a reset closes the address, in `closeAddr`'s separate sections.

Abstracted: the probe cache and the scores (an address is skipped, answers or does not; any candidate may win). `OnRunner`
does getClient and the choice in one step, since nothing happens between them.

### RunnerStream and AnswerStream

One action per channel operation or return of the reader (`sendMessageStream`), the forwarder (`forwardStream`), the turn
(the goroutine of `SendMessage` with `forwardLLMStreamChunks`) and the handler (`streamSendLoop`). A message has text, reasoning,
both or neither; what a message becomes for the client is `Pieces`. A `select` on a send and `ctx.Done()` is two actions
(`ReaderPut`/`ReaderQuit`, `TurnText`/`TurnQuit`); the forwarder has only one, as in the code. The deferred calls run in
the code's order: channel closed (`TurnClose`), then row written (`TurnSave`), or not (`TurnSaveFails`): the error of that one write is dropped,
and the row stays the empty draft that the client has seen a whole answer for. `Recv` covers messages with and without `done`, and
`RecvErr` end of stream and every error, which the goroutines downstream cannot tell apart.

`AnswerStream` has no channels: the runner says pieces, the client is shown them one by one, the row is stored once with
a prefix of the text that has everything the client is ever shown, or lost, when its one write fails. `RunnerStream` implements it with `shown` without the notice
and `fate` as what the turn, once it is gone, has left (`Fate`).

### RunnerRegistry

The table as a function from ids to rows, each server's registry as the rows it works with, the pool's clients per server.
`CreateRow`, `UpdateRead`/`FindRow`/`SaveRow`/`CloseOld` and `DeleteRead`/`CloseDeleted`/`DeleteRow` are the statements of the three handlers
in their order, `ListRows` and `Replace` those of `syncRegistry`. `SaveRow` inserts when the update matches no row, which is what
the ORM's `Save` does. `UNIQUE (host, port)` is `Free`. `Restart` loses a server's calls and clients and reads the table
again. History variables record whether calls overlapped (`excused`, `crowded`) and when an id was deleted.

### ChatTurns

`rows` is the session's part of `messages`, an id being a position; `gone` is the soft deletion. A text is a sequence of call
numbers: the n-th call brings text n, a continued answer has two. `edits` is `message_edits` with both kinds of records, `at` the times
of creation on a logical clock. Each statement of the four calls is an action; what happens between reading and the
first write (settings, history cap, prompt) takes no action and can be as long as it likes. `Finish` is the
deferred `UpdateContent` with what had come, maybe nothing; `FinishUnsaved` is the same with the error that the code drops; `Record` the record
of a regenerated answer; `Fail` is any failed statement or a runner that refuses; `Crash` kills all calls. `VersionTail` is the
time window of `GetSessionMessagesForUserMessageVersion`. A call lasts until its row is written, although its client has been told
before that the answer is over. `MCChatTurns` adds `alone`, which says that no two calls have overlapped so far, so that one run checks
both what always holds and what holds of calls made one after the other (the `Alone...` properties).

A turn with tools is `ToolLoop`'s; with tools on, Regenerate and Continue are refused by the code. What
the runner is asked is kept as the set of rows, before the token cap.

### HistoryCap

One action per pass of a loop of `capLLMHistoryTokens`. A message has a role, a number of runes and an estimate of the rest (names, calls, images); its
tokens are the code's arithmetic (`TokensOf`). `Measure` compares the sum with the limit, `DropOldest` takes the oldest message after the system
message, and with a question about an image its answer, `Shrink` cuts the last message that is not protected to three quarters and puts
the notice after it, `Summary` puts what a runner made of the dropped messages into the system message, after which everything is
measured again. `total` is the loop's running estimate, which the code never compares with the prompt again: `CutToFit` does.

### ToolLoop

`runChatToolLoop` of one turn. A round: the prompt is cut (`CapPrompt`), the runner answers (`Answers`) or asks for tools (`AsksForTools`), each
tool's goroutine looks at the abort (`ToolChecks`), tells the client and starts (`ToolStarts`) or aborts the others (`ToolAborts`), the tool acts
(`Effect`) and ends (`ToolEnds`) or is given up (`ToolTimeout`) while `runFnWithContext`'s goroutine goes on; `Join` waits for all, `SaveRound` is
the transaction and the next prompt. `effects` is history: the tools that have acted. A send to the client succeeds while its context lives, and may
or may not afterwards (`Send`). `Leave` ends the context, `Kill` the server.

Left out: how a model's text is parsed into tool calls, how names are resolved, and what a tool does. They decide which of `Answers`, `AsksForTools` and
`AskFails` happens, which the model leaves open.

### McpListCache

One MCP server and one of the three equal caches (tools, resources, prompts). A list is the number of the server's version
of it; a fingerprint, the hash of the configuration a caller has read, leads to a list of its own. A caller reads the clock (`Begin`)
and the cache (`Look`), joins a fetch of its fingerprint or makes one (`Join`, singleflight), and every member of the flight stores what came
with the clock of its own start (`Store`), which drops the server's other entries. The sweep of expired entries of `Store` is the part of that
which concerns other servers. `InvalidateServerTools` is an administrator's call or the server's notification; nothing
forces it, since notifications get lost. `ended` (when a version ceased to be current) and `settled` (the version at the last invalidation that nobody
was on the way across) are history.

`MaxCall` is the longest a call takes from its first reading of the clock. It is an assumption: operations have timeouts, but the
wait for the session's mutex, which precedes them, is only as short as the calls ahead are few.

### McpSessionPool

`byID` is the server's entry of the pool's map. `closeServer` takes an entry out of the map while calls hold or await it, so entries are
numbered, like the pool's sessions. `Enter` is the critical section of the pool's mutex, `Lock` that of the entry, which a call keeps until it
returns, the second attempt included. `Check` drops a session of another fingerprint or one idle too long (any may be). The functions run on a session
are `listTools`, whose pages are collected outside of the function and therefore survive into the second attempt, and `CallTool`, which runs
again if it has attempts left. In the code a tool has two only if its own name parses as an alias (`retry_policy.go:69`), and
then the second follows any error, not only the transport's; `Attempts` is a constant for that.

Abstracted: which errors count as the transport's, the runtime part of a fingerprint, and sessions that are made for one call (stdio, or with
reuse off).

### FileSearch

A document on its way into an answer: the app uploads it (`CountFiles`, `CreateRow`, `WriteFile`, `StorePath`, four steps of `PutSessionFile`, of
which any may fail and leave what was done), the server's goroutine indexes it (`StartIndexing`, `Embed`, `StoreChunks`, or `MarkFailed`), the app polls
(`HearReady`, `HearFailed`, `GiveUp` after 90 seconds), sends (`Load`), and the server searches (`LookAsked`, `LookUnasked`, `Search`). `index` and `chunks` are
the two tables, `picked` the model that `resolveModelForUser` would answer at the moment. `Deadline` cuts the indexing's context off, with which `MarkFailed` has its own
statement made, too, so that after it only `MarkFails` is left; that may happen at any time as well, since the code drops the mark's error. A statement that fails is taken to have changed nothing. `Kill` is the death and restart of the server. The app's part is `chat_bloc.dart` `_sendMessageInternal` with
`session_file_rag_wait.dart`, for one document in a message.

Left out: the text of documents and chunks, scores and thresholds of a search (a chunk of the right model counts as found), the quota of
bytes and the rate limit, which is a window of times in memory.

### RunnerProcess

The handlers of the runner's gRPC server on the one loaded model. `models` are all models ever loaded, with whether they are still open, so that a call that
has taken one (`ref`) can be seen to use a freed one. A call acquires a slot, makes sure of its model (`EnsureKeeps`, or `StartClosing`, `EnsureCloses`, `EnsureLoads`), takes it under another lock (`TakeModel`), opens
a context (`NewContext`) and computes; a SendMessage has a goroutine (`gens`) that generates into a channel while the handler forwards. The unloading comes before a slot is
given back (at `"unload"`), that of an EmbedBatch after it, since it is deferred first (`"late"`).

Between making sure of the model and taking it, a SendMessage makes its prompt (`resolveChatPrompt`). It reads `s.model` three times without `s.mu`: `ReadTemplate`, `CheckModel`, `ReadForFormat`. If the model was unloaded before
the first or the third, a method of a nil model panics, which nothing recovers (`Panic`, and `Dies`: the process and its memory are gone). An image makes no prompt; its call looks at the model under the lock (`LookForVision`).

Locks: `calls[c].locks` is `s.mu`, held from `StartClosing` to the end of the load or of the unloading; readers of `s.model` that take the lock wait for it (`LockFree`). A model's own mutex is `Closing`: while somebody is in its `Close`, or waits there
for its readers, no reader gets in. Reads under it are one step, since they end by themselves, but for `FormatChatPrompt`, which takes the read lock (`LockForFormat`) and takes it again in `ChatTemplate` (`FormatPrompt`). If a `Close` begins in between, it waits for the
prompt, the prompt for it (Go's RWMutex lets no reader past a waiting writer), and everybody who needs `s.mu` for both (`Stuck`).

`Stop`, `StopByForce`, `UnloadAtEnd`, `CloseAtEnd`, `Exit` are `serve.go`; `Crash` is what the use of a freed model may lead to, and nothing has to.

Left out: native inference, GPU layers, tokens, the order of waiting for slots (any waiter may get one), and two options that are off unless a configuration has them, the draft model of speculative decoding and
`chat_api_enabled` (whose generation asks `getChatFormat` of the model).

### WikiIndex

The index of the wiki server. `files` is `wikiService.files`, a record of a content (its hash and its text in one) and of the number of its chunks: every cut keeps the first
chunks of a file, so the number says which. A call copies what is known (`Begin`), visits the entries in the order of `WalkDir` (`PassBy`, `ReachMaxFiles`,
`SkipUnsupported`, `SkipSeen`, `Take`, one per return of the callback), merges under the mutex (`Commit`, with `Merged` for what is read and what stays, and `Cut` for
`max_chunks` in the order of the sorted paths), rebuilds under the index's own (`Build`), and stores its report. `Edit` changes the directory at any moment; a directory's
entries are listed before its files are read, so an edited file may be met as it was or as it is. `Cancel` is the end of the request; `CancelReading` the same while the text of
the last entry is extracted, when nothing asks again and the call commits. A question looks three times: at the emptiness, at the locale without a lock (`Stem`, or `StemTorn`
when a rebuild writes it meanwhile), and at the index. `touched`, `disturbed`, `last`, `steady` are history, for the properties.

The scores of the search are left out: a text that the index has is found by a question stemmed like it. So is the one thing by which the index differs from what a rebuild is given: `Retriever.Build` leaves out a chunk without a term (all stop words
or signs), which no question could find; the texts of the model have a term in every chunk, in either locale. The globs, the hidden files, an unreadable directory and the extensions of a
call are the sets `wanted`, `visible` and `supported` of its arguments.

## 3. Runs

| Run | Instance | What it shows |
| --- | --- | --- |
| `pool` | 1 address, 2 calls, 1 administrator, 2 `closeAddr` | exact counters, waits, forgotten counters only drain; picks, calls and administrators end |
| `stream` | 4 messages of 3 kinds, channels of 1, a row that is written or not | refinement of `AnswerStream`; a final message is whole; everybody ends or is stuck as described |
| `registry_one_server` | 1 server, 2 administrators, 1 request, 2 addresses, 2 ids, 4 calls or restarts | the registry follows the table; no client left behind; how a deleted runner can come back |
| `chat` | 2 calls at a time, 4 in all | nothing lost but in two ways; deletions recorded; deleted rows frozen; and while calls come one by one: shape of the chat, prompts, version views |
| `history_shrink` | a message of 12000 runes, 512 tokens, four lengths of the system message | violation: see below |
| `tool_loop` | 2 rounds, 2 tools, 5 histories of which 4 need cutting, results of 40 or 1200 runes, summaries of 1000, 512 tokens | cuts are as large as needed; effects are on record; calls stay with results; the turn ends and the client hears how |
| `mcp_list` | 2 callers, 2 fingerprints, lifetime and call of 1, clock to 3, 1 change of each list | age of a served list; when an invalidation is final |
| `mcp_pool` | 2 calls at a time, 3 in all, tools and lists of 2 pages, 2 attempts, 2 fingerprints, 1 closing | the session in use is the call's own; none left open but as described; pages in order; calls end |
| `file_search` | one document with everything, or two that share 1 place and one model; 2 models, 1 kill | quota, whole files, ready is found, who leaves an index at "indexing"; everything ends |
| `file_unsearched` | 1 document, 2 models, no kill | violation: see below |
| `runner_process` | 2 calls of any kinds (in one order of the two), 2 models, no limit or 1 slot, with and without unloading, answers of 2 chunks, channel of 1; images only with the slot | slots and models; what closes a model that is used or read; what stays loaded; calls end, with three exceptions |
| `wiki_index` | 2 calls with 6 kinds of arguments and 1 edit, or with 2 kinds and a question; 2 paths, texts of 0, 1 and 2 chunks | the index against the directory, against what is known, under its limit; questions find what is held |

Why these bounds are enough. *Pool:* the code treats addresses independently except in a pick, where a round is over whatever the number;
two `closeAddr` calls make three generations of counters, the current one, one that is held and one that is older than a
wait's, which is all `UnloadWaited` tells apart; two calls and an administrator give each pair of actors that can disturb each other, and the proofs cover any number.
*Stream:* the code only asks whether a channel is full or empty, and a capacity of one has both with every other message;
four messages fill the pipeline of five places and hands that ends at a handler which has left; proved for any capacity and number. *Registry:* two calls overlap in
every way there is, two addresses allow a move and a conflict, and a deletion, a late save and a third call that sees the
result take four operations; proved for any number, for one server where it is true of one only. *Chat:* the shortest histories of loss take three calls, and an edit of an edited branch takes four; the proofs cover any number. *Tool loop:* the second round is the
first whose prompt has rows of an earlier one, two tools are one that aborts and one that is aborted, and the histories are one that fits, two that lose an image with its answer first or later, one with the call and the result of a tool of an earlier turn, and one with nothing
to drop; what the tools do, what is stored and what the prompt looks like is proved of any number. *List cache:* one who fetches and one who joins late, or is of another configuration, disturb each other in every way there is, and the clock lets an entry
expire after the last change; the proofs cover any number. *Session pool:* a call that holds an entry, one that waits for it, and a third that makes or finds the next entry; proved for any number. *Documents:* two uploads race for one place; what happens to one
document does not depend on others otherwise, so the rest of the run has one; proved for any number. *Runner process:* two calls, each of any kind, are one that uses a model and one that takes it away. `MCRunnerProcess` has them come in one order of their kinds, and the first ask for one name, since calls are alike and so are names; a call with an image differs from one
without only in the prompt it does not make, so it comes with the slot, where closing is what the properties are about. Proved for any number of calls and slots, with none of these limits. *Wiki:* the two paths are walked in one order and sorted in
the other, which is what the two cuts by `max_chunks` differ in; two calls overlap in every way there is; questions only read, so they need no edits beside them. All of it is proved for any number. Each bound
(`MaxCloses`, `MaxMsgs`, `MaxIds`, `MaxOps`, `MaxCalls`, `MaxChanges`, `MaxChunks`, `MaxKills`, `MaxEdits`) is a guard where the thing bounded begins, so that
what has begun can always end. The instances that stop at their bound or at the end of a turn do not check for
deadlock; those of the pool, the stream and the list cache do. Symmetry is used in safety runs only, over sets whose members no definition tells apart.

Each module states a `TypeOK` (`RegistryTypeOK`, `LoopTypeOK`). It is proved (for chat turns its part `Base`), and it is not among the runs' properties: the others' are
documentation of the state.

### Disagreements

* `history_shrink`: `shrinkMessagesToApproxTokenBudget` takes a message to three quarters and adds a notice of 54 runes, so it converges to about 213 runes and never reaches the 96 at which it
  would be emptied. With a first user message longer than the context (protected) and a system message of more than 96 runes, the loop never ends. `llm_history_tokens_test.go:52` expects that very prompt to be cut, with a system
  message of 18 runes, for which it is. `ClientHearsEnd` of the tool loop has this as its one exception.
* `file_unsearched`: the app says that the message goes without the search when the index is not ready in time (`rag_ingestion_ui.dart:70`). The server searches a single document all the same, finds nothing, and refuses the message, which
  is stored by then.

What the positive properties say about the code's weak points is in their wording:

* Pool and stream: a forwarder is stuck for good after the client left with the buffer full (`EverybodyEnds`): its runner's counter then never reaches zero, every later idle wait
  runs into its timeout, and the administrator's call ends even so. `UnloadWaited` excepts calls counted on a counter that an earlier `closeAddr` dropped.
* Registry: `EveryServerFresh` and `NoClientLeft` hold as long as administrators' calls do not overlap, and for one server process: the registry is process memory, which only the server that served a call refreshes.
* Chat: `NothingLost` names the two ways an answer is lost: two calls that hold it at a time, and a Regenerate that resets it and ends without a record. The check that only the last answer is regenerated and the
  reset are separate statements, so an answer in the middle may be reset. `VersionsShowBranches` allows a version to show, besides its own rows, rows that edits of later messages had cut. A runner that fails or runs out of time in the
  middle of an answer ends the stream like a whole answer, and the part is stored as the answer.
* Tool loop: `EffectsOnRecord` allows the effects of the last round to be missing when its transaction fails, and a tool that was given up to act after it is recorded as failed. `PromptIsRecent` allows results to lose their call right after
  the system message, where the cut may have begun between them, in this turn's messages or an earlier one's.
* MCP: `NoSessionLeft` excepts entries taken out of the pool while calls held or awaited them: there a second session of the server is opened, where nobody looks for it. `AgeBounded` adds the duration of a call for fetches
  in common; `InvalidationLasts` is about invalidations that cross no caller on its way with a list; `PagesInOrder` allows a second attempt to have the first one's pages before its own.
* Documents: `QuotaKept` allows as many uploads too many as overlap, less one. `IndexingExcused`: an index stays at "indexing" after the death of the server, or when the indexing and then the mark of its failure failed, as the mark does after the indexing's deadline and may at any time; nothing looks for such indexes. `ReadyIsFound`: a ready
  document is not found when the session's model has changed.
* Stream: when the one write of an answer fails, its row stays empty and nobody is told (`Lose`); the client has seen the answer, and the next prompt does not have it.
* Runner process: `SlotsKept` counts the calls that are served: goroutines of clients that left compute beyond the limit until they notice. `SlotProtectsModel` names what closes a model that is computed with, or that a prompt is made with: an Unload, an EmbedBatch after its slot, the
  end of the process. What they can do to a prompt is a panic, or two that wait for each other. Without a slot or with more, any other call can. `CallsEnd` has both as exceptions, and a client that stays and
  does not read, which keeps its slot. `NothingStays`: a client that leaves in the middle leaves the model loaded.
* Wiki: `FreshAfterIndexing` is about calls without limits. An incremental call does not take up again what `max_chunks` once cut from an unchanged file, since the hash is equal (`SomeCut`); it keeps the old text of a file that has become unreadable, too
  large or empty, and drops every document a limit kept the walk from. A full call whose request ends while the last document's text is extracted commits without that document
  (`disturbed`). `InOrderAgrees` says nothing while calls have overtaken each other.

## 4. Fairness

`RunnerPool`: weak fairness for what a goroutine does by itself (fetch, add, close, drop), which is Go's scheduler; for
a pick in progress, since probes have a timeout of three seconds; for `Release`, since a runner's stream ends or breaks; for
`WaitTimeout`, the two minutes. None for starting calls or for `WaitIdle`. `RunnerStream`: weak fairness for each of the four
goroutines. For the reader this assumes that the runner's stream delivers a message, ends or fails: the code sets no deadline of its
own on an answer, so a runner that stays connected and silent for ever is outside the assumption. None for `Cancel`: no liveness property depends on the client leaving.

`McpSessionPool`: weak fairness for a call's own steps, by their timeouts, and strong fairness
for getting an entry's mutex (`Lock`, `CloseTaken`), which comes and goes: `sync.Mutex` hands itself to the longest waiter once that has waited for a
millisecond. It is the only use of strong fairness.

`ToolLoop`: weak fairness for the loop (the runner answers or fails, the database does) and for the goroutines of the round, whose waits have a time limit; none for the tools'
work itself. `HistoryCap`: its loop goes on. `RunnerProcess`: weak fairness for what a handler does by itself (`Handle`), for each generation's next token or end, and for the end of the process once it has the lock (`CloseAtEnd`); none for `Send`, which waits for the client to read: `CallsEnd` says instead that
calls end unless some client stays for ever without reading (`Unread`). Locks need no strong fairness: a call comes once, so others take the lock from it only so many times, and a lock that is never given back is what `Stuck` is. Nobody has to call, leave, unload, stop or crash, and an engine need not fail.
`FileSearch`: weak fairness for the steps of the goroutine but not for the success of its embedding, which may hang until `Deadline`; and for the app's next step. The models of the list cache, the registry, the chat and the wiki
server state safety only, and assume no fairness.

## 5. Proofs

`RunnerPoolProofs` proves for any finite set of calls, any addresses and administrators and any number of closes:

* `TypeCorrect`: `Spec => []TypeOK`. The inductive part is that a goroutine's client and counter numbers are never beyond
  what the pool has made, and numbers only grow.
* `CountersExact`: `Spec => []LoadIsHolders`. Each step changes the holders of at most one counter by one call; a lemma each for adding
  and for removing a member relates that to the cardinality. A new counter starts with no holders since nobody can
  hold a number that has not been given out, which is where `TypeOK` is needed.
* `UnloadAfterCalls`: `Spec => []UnloadWaited`. `UnloadWaited` is not inductive: nothing in it says that the calls a wait remembers are
  in flight at its address. `AheadInFlight` adds that, and that they were counted no later than the wait's counter. When the
  wait ends with its counter at zero, `LoadIsHolders` makes the holders empty, so those left hold older counters. Adding to a counter between
  `WaitStart` and `WaitIdle` does not matter, because the set remembered only shrinks.
* `DroppedNeverGrows`: `Spec => ForgottenOnlyDrains`, an action property from `TypeOK`: only `Add` increases a load, on the
  counter the call had fetched.

and of the registry, for any administrators, requests, addresses and bounds, from `BoundsAssumption`:

* `RegistryTypeCorrect`: `RegistrySpec => []RegistryTypeOK`. That addresses stay unique is not obvious of `SaveRow`, which may insert a row for an id that was deleted. The inductive invariant `Rows` adds what a call in progress knows of its
  row (`Known`): its id was given out, and what it found is no younger than the table; a call about to save an id that is not there found it before its deletion.
* `OlderUpdateOnly`: `RegistrySpec => BackOnlyByOlderUpdate`, an action property, from that last part of `Known`. It holds for any number of servers, and across restarts.
* `OneServerFresh` and `OneServerNoClientLeft`: `EveryServerFresh` and `NoClientLeft`, for one server process (`Server = {one}`): with two, the second registry is not refreshed by a call that the first one serves, and both are false. An overlap
  excuses the registry until a call has run alone. The invariant `Tidy` therefore says of a call that is still alone that no other is in progress and that the list it has read is the table (`Single`), of a registry that is not excused that it is the table until a call writes
  (`Fresh`), and, as long as calls have not overlapped at all, that the clients are of rows that are there but for the one whose client is about to be closed (`Listed`).

`ChatTurnsProofs` proves for any set of calls, any number of rows, records and calls made, and any overlap, failure or crash:

* `BaseHolds`: `Spec => []Base`. `Base` is what every later proof needs of types and pointers: rows, records and calls have their
  fields, the rows that calls and records point at exist and have the right role, and a call is only at the statements of its own operation.
* `DeletedStaysAsItWas`: `Spec => DeletedFrozen`. `UpdateContent` skips deleted rows, and `EditTx` cuts only rows that are not deleted.
* `DeletionsOnRecord`: `Spec => []DeletedIsRecorded`. An edit reads the last id, other calls add rows, and then it cuts: the proof
  needs from `Base` that `max` and a record's `to` never pass the number of rows, so a row added later is covered by no earlier record.
* `TextsAreKept`: `Spec => []NothingLost`. `NothingLost` speaks of rows and records only; whether a write loses a text depends on what its
  call read before. The inductive invariant `Kept` adds the two facts that relate them. `AnswersAsRead`: whoever holds an answer that was never
  `shared` is its only holder and finds the row as it left it (the text read, until the reset; empty or the text read, while
  it streams). `UsersKept`: a user's row holds what every edit still to write has read, or a text that some record has as the new one; the
  second case is two edits of one message at a time, where the first one's text survives in its own record. Each action has a
  lemma for each part of `Kept`.

* `AnswersFollow` and `PromptsFit`: `MCSpec => []AloneAlternates` and `MCSpec => []AlonePromptIsChat`, of calls made one by one. Neither is inductive, since both follow from what a call read some statements ago. The invariant `Alone` says that what
  the one call has read is so still: the prompt it took is the chat, its answer is the last row, a draft comes after a user's message, and no row comes after those it is about to cut.
* `VersionsShown`: `MCSpec => []AloneVersionsShowBranches`. The code shows a version by a window of times, the property is about rows. The inductive invariant `Branched` relates the two: times are in the order in which rows and records were made (`Ordered`,
  `StampIsLast`); an edit cut rows that are older than it, and what is visible after its message is younger (`CutAll`); its tail are the rows between it and the message's edit before, and what else was there had been cut (`TailIs`). The k-th edit of a message is chosen by counting
  (`Nth`): that there is one for each k, and none between it and the next, is proved of any finite set with distinct times (`RankExists`, `RanksNext`), by the library's theorem on injections of finite sets.

`Base` takes the place of `TypeOK` in these proofs. `TypeOK` also bounds contents and times by the number of calls made, which no other
theorem needs; its proof is planned.

`McpListCacheProofs` proves for any callers and fingerprints, any lifetime, any longest call, with and without coalescing:

* `ListsAgeOut`: `Spec => []AgeBounded`. The inductive part (`Ages`) is about callers, who carry the list before the cache has it: the one that
  fetched started before its version ended, whoever joined did at most `MaxCall` after that, because no call lasts longer than that.
* `InvalidationsLast`: `Spec => []InvalidationLasts`. The inductive part (`Settled`) says that callers on their way hold nothing older than `settled` either.
* `TypeCorrect`: `Spec => []TypeOK`, with `Single`, the one entry of a server.

`FileSearchProofs` proves for any finite set of uploads, any models, limit of files and number of kills, from `FileSearchAssumption`:

* `Typing`: `Spec => []TypeOK`; `Whole`: `Spec => []FilesWhole`; `Excused`: `Spec => []IndexingExcused`; `Found`: `Spec => []ReadyIsFound`. The inductive part is per document: `Begun` (where the app and the goroutine are tells what the row and the
  disk have), `Indexed` (the status of the index and the chunks tell where its goroutine is, and "ready" means that the goroutine is over and the chunks of the index's model are there) and `Told` (an app that asks for the search has seen "ready", and
  nothing takes that back). `ReadyIsFound` follows because a second goroutine for a document does not exist.
* `Quota`: `Spec => []QuotaKept`. `Room` is the strengthening: the live rows and the uploads between count and row exceed the limit by no more than the uploads that were ever between the two at once, less one.

`WikiIndexProofs` proves for any calls, paths, arguments, contents, edits and questions, from `WikiIndexAssumption`:

* `Typing`: `Spec => []TypeOK`.
* `InOrderCalls`: `Spec => []InOrderAgrees`. `InOrder` adds what the call that merged or rebuilt last has in hand until it reports.
* `HeldIsFound`: `Spec => []FoundIfHeld`. `Held` says where a question is and what it has stemmed while the index has its text.
* `Fresh` and `Kept`: `Spec => []FreshAfterIndexing` and `Spec => KeptWhileThere`. The inductive invariant `IInv` is `TypeOK`, `InOrder`, `Records` (a record is of a whole text unless some call had a limit) and `Walks`: of a path nobody has edited, what an undisturbed walk
  has seen is what the directory has in the call's scope, and what it has taken is what is new in it (`SawOf`), for the paths visited so far. At the end of the walk every path is visited, and the merge is what the directory has; the
  rebuild and the report pass it on.
* `WithinCap`: `Spec => []CapKept`, with `Capped` in `IInv`. What fits is a sum along an order of the paths, and what the index holds a sum over a set, both of any size. Sums over finite sets are defined by choosing an element after another, so `Total` needs that the
  choice does not matter; `InductSubsets`, induction over the subsets of a finite set, follows from the well-foundedness of strict inclusion and takes the place of the library's theorem, which has an operator as a parameter.

`RunnerStreamProofs` proves for any kinds of messages, any capacity of the channels and any number of messages, from `KindsAssumption`, `CapAssumption` and `MsgsAssumption`:

* `Inductive`: `Spec => []IInv`. Neither `FinalIsWhole` nor the refinement says where the pieces are that the runner has said and the client has not seen. The inductive invariant `IInv` is `Types`, `Control` (which goroutine may be
  where, given the context and the channels that are closed), `FinalIsWhole` and `Accounts`, which accounts for every piece: what the runner has said is what the client was sent, then what the turn has in hand, then what lies in the
  channels in their order, then, for a cancelled call only, what a goroutine dropped when it quit. The row gets the text of a prefix that reaches at least to what the client will see, or stays empty.
* `Typing`: `Spec => []TypeOK`; `FinalAfterAll`: `Spec => []FinalIsWhole`.
* `Implements`: `Spec => IsAnswerStream`. Each step of the pipeline is one step of `AnswerStream` or a stutter: a message that the reader receives is `Say`, a piece that the handler sends is `Show` (`Accounts` gives that it is the next one), `TurnSave` is
  `Write`, `TurnSaveFails` is `Lose`, and all else only moves pieces between the places of `Accounts`.

  `Texts` and `Body` are flattenings of sequences of sequences (`FlattenSeq`), so the accounts need that flattening distributes over concatenation (`FlattenAppend`, `FlattenConcat`). That is an induction over the length. The library's induction theorems have an operator as
  a parameter and cannot be used; `Induct` states induction for a set of numbers and follows from the well-foundedness of `<`.

and of the tool loop, for any context and lengths, any histories as `PromptsAssumption` says, and any numbers of rounds and tools (fewer than a hundred, which is how the model numbers messages):

* `ToolsOnRecord`: `LoopSpec => []EffectsOnRecord`. A tool that was given up may act at any later time, so its row has to be there when its round is over, whether it has acted by then or not. The invariant `LoopInv` says so of all tools at work (`Recorded`), and of a tool whose
  result is taken for a success that it has acted (`Acted`).
* `ClientHearsRightly`: `LoopSpec => []HeardRightly`, the safety half of `ClientHearsEnd`, with `Heard`: the turn's last message is the answer exactly from where it is stored. That the turn ends is liveness.
* `RecentPrompt`: `LoopSpec => []PromptIsRecent`. What the runner gets is cut at any of the loop's passes, and the protected end must be the right one all the time. `Shape` says of a prompt, the number of its protected messages and the round: the protected end is the last
  round's message with its calls, and a result follows its call or another result unless it comes right after the system message and is older. Dropping one or two messages keeps it (`OldestDropped`; the dropping never reaches the protected end), shortening keeps it
  (`OnlyRunes`), and the messages of the next round give it a new end (`RoundAdded`).
* `CutAsNeeded`: `LoopSpec => []CutToFit`, and `CutAlone`: `CapFairSpec => []CutToFit` for the cut of a turn without tools. `CutInv` says of the first cut of a prompt that the running total is the estimate of what is left, and that before the last of what was dropped the
  prompt did not fit. `DropInNeed` is the pass of the loop: what goes (`LastUnit`) and what is left add up to what was there (`SumWithout`), and the pairing of a question about an image with its answer is decided alike by the loop, which looks ahead, and by the
  property, which looks back. The estimate is a fold over the messages; `TokensAdd` is the function it is defined by, `TokensAll` reads it as a sum from the first message to the last, and `SumTogether` adds the sums of two parts, by `Induct` over their lengths.
* `LoopTyping`: `LoopSpec => []LoopTypeOK`, from `LoopInv` with `Bounds`: a round past the check of `NextRound` is not the last allowed one yet, and a message's id is told only once it is stored.

`McpSessionPoolProofs` proves for any calls, administrators and fingerprints, any number of pages and any bounds, from `ActorAssumption`, `FpAssumption` and `PagesAssumption`:

* `Inductive`: `Spec => []IInv`. `SessionServes` speaks of calls that are talking to their server; whether one will find its session in order depends on the steps before, and on everybody else who may touch the entry. `IInv` adds `Mutexes` (an entry's owner is a call at work on
  that entry, and a call at work on it is its owner), `Sessions` (a session in an entry is open and in no other entry), `Known` (what a call that holds an entry knows of its session at each statement), `Found` (the entry of a call is the pool's, or was taken out
  while in use) and `Paged` (what a call has collected, between its pages too).
* `Typing`: `Spec => []TypeOK`; `SessionsServe`: `Spec => []SessionServes`; `NoneLeft`: `Spec => []NoSessionLeft`; `PagesCollected`: `Spec => []PagesInOrder`. An administrator closes a session only with the entry's mutex, so by `Mutexes` no
  call is talking over it; a call that opens one does so in an entry that is accounted for by `Found`.

`RunnerProcessProofs` proves for any finite set of calls, any models, any settings, lengths of answers and buffers, from `RunnerAssumption`:

* `Inductive`: `Spec => []IInv`. `Slots`: the slots in use are the handlers past the semaphore, counted. `Steps`: where a handler is tells what its call is and whether it has a goroutine. `Refs`: what a handler uses has been loaded, and with one slot has the name it asked
  for; and with one slot what is loaded has that name as long as the handler makes its prompt and is yet to take the model. `Pending`: with unloading after each call, whatever is loaded has a handler that will unload it or whose client left. The steps are sorted by what they do to the state
  (`StepKinds`: a call comes, stays, walks on, enters or leaves the semaphore, loads, begins or finishes a computation, is cut off, answers; the process stops or dies), and each part of the invariant is proved of each class.
* `Typing`: `Spec => []TypeOK`; `SlotsHold`: `Spec => []SlotsKept`, from `Slots` and `Refs`; `NothingLeft`: `Spec => []NothingStays`, from `Pending`.
* `ModelProtected`: `Spec => SlotProtectsModel`, an action property. Whoever else could free the model under a call, or take the lock to close it (a load of another, an unload at the end of a call), is past the semaphore too, and with one slot that is the call itself.

The assumptions are those the modules name: the calls in progress are finitely many, the null values are not members of their sets, bounds, times and capacities are numbers (capacities and pages at least one), the two orders of paths have every path, a session's prompt has its system message first and no result without what it answers but at the cut.

Only model-checked: liveness under fairness and everything that needs ENABLED, which is out of the prover's reach, and `TypeOK` of `ChatTurns`. RECURSIVE operators would be out of reach too; the modules use none.

## 6. Not modelled, and the plan

In the order of what is at stake:

1. Proofs: `TypeOK` of `ChatTurns` (a content's texts increase, since a Continue reads before it gets its number).
2. The probe cache of the pool (five seconds, backoff from one second to thirty, results of late probes after closeAddr), the fallback to a draft model, and the session's settings, which only choose among what the models leave open.
3. The client's chat screen (`chat_bloc.dart`), where streams of different kinds of events share one subscription; a message with several documents.
4. The cache of summaries and the window of the upload limit, both in memory and bounded.

Left out for good: authentication and users (single rows written by single calls; access control is no property of an interleaving), the failover pool of `llm-runner/pool.go` (nothing but its own tests uses it), the MCP servers for
Bitrix24 and for demonstration and the tools (one request in, requests to another program, one answer out), the download of models, the text of prompts, the splitting and scoring of documents, native inference, editor and web search
calls, configuration. They are data, input and output, or code of others.
