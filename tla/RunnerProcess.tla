--------------------------- MODULE RunnerProcess ---------------------------
(***************************************************************************)
(* The process that runs the models: the gRPC handlers of                  *)
(* llm-runner/server.go, the one loaded model of                           *)
(* llm-runner/service/llama_service.go, and the end of the process in      *)
(* cmd/gen-llm-runner/serve.go.                                            *)
(*                                                                         *)
(* A call waits for one of cap slots and makes sure its model is the       *)
(* loaded one.  A SendMessage then makes its prompt with s.model, which it *)
(* reads without s.mu; every call takes the model under s.mu, gives the    *)
(* lock back and computes.  The answer of a SendMessage is made by a       *)
(* goroutine that outlives the handler when the client goes away.  Nothing *)
(* counts who uses a model: whoever unloads it or loads another frees it   *)
(* as soon as nobody has the model's own lock.                             *)
(*                                                                         *)
(* The locks: s.mu of the service is held by whoever closes or loads a     *)
(* model, as long as that takes.  The mutex of a model is held by its      *)
(* Close, and by readers for the length of a call to it; one of them,      *)
(* FormatChatPrompt, takes it a second time while it has it, which a       *)
(* waiting Close does not let it.                                          *)
(*                                                                         *)
(* Left out are the options that are off unless a configuration has them:  *)
(* the draft model of speculative decoding, and chat_api_enabled.          *)
(***************************************************************************)
EXTENDS Integers, Sequences, FiniteSets

CONSTANTS
    Call,      \* the calls a process gets
    Model,     \* the names of the models in its directory
    Caps,      \* the settings of max_concurrent_generations; 0: no limit
    MaxChunks, \* bounds an answer
    Buffer     \* the chunks that fit in the channel of an answer

ASSUME RunnerAssumption ==
    /\ Caps \subseteq Nat /\ MaxChunks \in Nat /\ Buffer \in Nat \ {0}
    /\ IsFiniteSet(Call)

VARIABLES
    cap,         \* capacity of Server.sem
    unloadAfter, \* model_retention: unload_after_rpc
    sem,         \* len(Server.sem)
    models,      \* every model ever loaded
    loaded,      \* LlamaService.model: an index of models, 0 is nil
    calls,       \* the handlers
    gens,        \* the goroutines that make the answers
    stop         \* where the end of the process is

vars == <<cap, unloadAfter, sem, models, loaded, calls, gens, stop>>

Nil == 0

\* at: the next step of the handler; ref: the model it has read or taken; locks:
\* it holds s.mu, to close the loaded model or to load one; quit: the call's
\* context is done, because its time is up or because the client has left;
\* heard: hasContent; cut: the handler returned because Send failed.
NoCall == [op |-> "none", name |-> "none", at |-> "idle", ref |-> Nil, locks |-> FALSE,
           quit |-> "no", heard |-> FALSE, cut |-> FALSE]
NoGen == [at |-> "none", left |-> 0, out |-> 0]

Init ==
    /\ cap \in Caps /\ unloadAfter \in BOOLEAN
    /\ sem = 0 /\ models = <<>> /\ loaded = Nil
    /\ calls = [c \in Call |-> NoCall]
    /\ gens = [c \in Call |-> NoGen]
    /\ stop = "no"

At(c, where) == calls[c].at = where
Goes(c, where) == calls' = [calls EXCEPT ![c].at = where]

\* The same, when the handler is through with its model and its context.
GoesOff(c, where) == calls' = [calls EXCEPT
    ![c] = [@ EXCEPT !.at = where, !.ref = Nil, !.locks = FALSE, !.quit = "no",
                     !.heard = FALSE]]

\* With a model that was read, or with Nil.
GoesWith(c, where, ref) == calls' = [calls EXCEPT
    ![c] = [@ EXCEPT !.at = where, !.ref = ref, !.locks = FALSE]]

config == <<cap, unloadAfter>>
memory == <<models, loaded>>

\* s.mu; the end of the process holds it while it closes the model.
LockFree == stop # "closing" /\ \A c \in Call : ~calls[c].locks

\* Somebody is in Close of the model, or waits there for its readers.
Closing(m) == ~LockFree /\ m # Nil /\ m = loaded

\* Close and what follows it under s.mu: the model is freed whoever is using it,
\* but not while a FormatChatPrompt has its lock.
CloseLoaded ==
    /\ \A c \in Call : At(c, "nested") => calls[c].ref # loaded
    /\ models' = [models EXCEPT ![loaded].open = FALSE]
    /\ loaded' = Nil

Using(c) == At(c, "compute") \/ gens[c].at = "run"
Orphan(c) == gens[c].at = "run" /\ ~At(c, "stream")
Freed(c) == Using(c) /\ ~models[calls[c].ref].open

Down == stop = "down"

\* The process is gone, and all that it had in memory.
Dies ==
    /\ sem' = 0 /\ models' = <<>> /\ loaded' = Nil
    /\ calls' = [c \in Call |-> NoCall]
    /\ gens' = [c \in Call |-> NoGen]
    /\ stop' = "down"
    /\ UNCHANGED config

-----------------------------------------------------------------------------
(* Slots *)

Receive(c) ==
    /\ At(c, "idle") /\ stop = "no"
    /\ \E op \in {"send", "vision", "embed", "batch"}, name \in Model :
           calls' = [calls EXCEPT ![c] =
               [NoCall EXCEPT !.op = op, !.name = name, !.at = "queue"]]
    /\ UNCHANGED <<config, sem, memory, gens, stop>>

ReceiveUnload(c) ==
    /\ At(c, "idle") /\ stop = "no"
    /\ calls' = [calls EXCEPT ![c] = [NoCall EXCEPT !.op = "unload", !.at = "admin"]]
    /\ UNCHANGED <<config, sem, memory, gens, stop>>

Acquire(c) ==
    /\ At(c, "queue") /\ (cap = 0 \/ sem < cap)
    /\ sem' = IF cap = 0 THEN sem ELSE sem + 1
    /\ Goes(c, "ensure")
    /\ UNCHANGED <<config, memory, gens, stop>>

\* The unloading of an EmbedBatch is deferred before its slot is asked for.
LeaveQueue(c) ==
    /\ At(c, "queue") /\ cap # 0 /\ calls[c].quit # "no"
    /\ GoesOff(c, IF calls[c].op = "batch" THEN "late" ELSE "done")
    /\ UNCHANGED <<config, sem, memory, gens, stop>>

(* Mutant: an Embed unloads after its slot, like an EmbedBatch does. *)
ReleaseLate(c) ==
    /\ At(c, "release")
    /\ sem' = IF cap = 0 THEN sem ELSE sem - 1
    /\ Goes(c, IF calls[c].op \in {"send", "vision"} THEN "done" ELSE "late")
    /\ UNCHANGED <<config, memory, gens, stop>>

Release(c) ==
    /\ At(c, "release")
    /\ sem' = IF cap = 0 THEN sem ELSE sem - 1
    /\ Goes(c, IF calls[c].op = "batch" THEN "late" ELSE "done")
    /\ UNCHANGED <<config, memory, gens, stop>>

\* The client goes away, or the time a SendMessage was given is up.  The
\* handlers look at their context in the queue and while they stream only, so
\* that is where it is said to end.
ClientLeaves(c) ==
    /\ calls[c].at \in {"queue", "stream"} /\ calls[c].quit # "left"
    /\ calls' = [calls EXCEPT ![c].quit = "left"]
    /\ UNCHANGED <<config, sem, memory, gens, stop>>

TimeUp(c) ==
    /\ At(c, "stream") /\ calls[c].quit = "no"
    /\ calls' = [calls EXCEPT ![c].quit = "time"]
    /\ UNCHANGED <<config, sem, memory, gens, stop>>

-----------------------------------------------------------------------------
(* The model *)

AfterError(c) == IF calls[c].op = "batch" THEN "release" ELSE "unload"

AfterEnsure(c) ==
    CASE calls[c].op = "send" -> "template"
      [] calls[c].op = "vision" -> "vision"
      [] OTHER -> "ref"

IsLoaded(name) == loaded # Nil /\ models[loaded].name = name

(* Mutant: a loaded model is kept whatever its name. *)
EnsureKeepsAny(c) ==
    /\ At(c, "ensure") /\ LockFree /\ loaded # Nil
    /\ Goes(c, AfterEnsure(c))
    /\ UNCHANGED <<config, sem, memory, gens, stop>>

EnsureKeeps(c) ==
    /\ At(c, "ensure") /\ LockFree /\ IsLoaded(calls[c].name)
    /\ Goes(c, AfterEnsure(c))
    /\ UNCHANGED <<config, sem, memory, gens, stop>>

\* Another model, or none, is loaded: s.mu stays locked until the wanted one is.
EnsureCloses(c) ==
    /\ At(c, "ensure") /\ calls[c].locks /\ loaded # Nil
    /\ CloseLoaded
    /\ UNCHANGED <<config, sem, calls, gens, stop>>

EnsureLoads(c) ==
    /\ At(c, "ensure") /\ (calls[c].locks \/ LockFree) /\ loaded = Nil
    /\ models' = Append(models, [name |-> calls[c].name, open |-> TRUE])
    /\ loaded' = Len(models')
    /\ GoesWith(c, AfterEnsure(c), Nil)
    /\ UNCHANGED <<config, sem, gens, stop>>

\* No file has the name; or the file cannot be loaded, when the old model is
\* already closed.
EnsureFails(c) ==
    /\ At(c, "ensure")
    /\ LockFree \/ (calls[c].locks /\ loaded = Nil)
    /\ GoesOff(c, AfterError(c))
    /\ UNCHANGED <<config, sem, memory, gens, stop>>

\* The lock is taken to close the loaded model: ensureModel for a call that wants
\* another, and UnloadModel.
StartClosing(c) ==
    /\ LockFree /\ loaded # Nil
    /\ \/ At(c, "ensure") /\ ~IsLoaded(calls[c].name)
       \/ calls[c].at \in {"unload", "late"} /\ unloadAfter
       \/ At(c, "admin")
    /\ calls' = [calls EXCEPT ![c].locks = TRUE]
    /\ UNCHANGED <<config, sem, memory, gens, stop>>

\* With an image: s.model under the lock, and whether it can see.  The model may
\* have no projector, or be gone.
LookForVision(c) ==
    /\ At(c, "vision") /\ LockFree
    /\ \/ loaded # Nil /\ Goes(c, "ref")
       \/ GoesOff(c, AfterError(c))
    /\ UNCHANGED <<config, sem, memory, gens, stop>>

\* resolveChatPrompt: s.model.ChatTemplate(), s.model read without the lock.
ReadTemplate(c) ==
    /\ At(c, "template") /\ loaded # Nil
    /\ GoesWith(c, "check", loaded)
    /\ UNCHANGED <<config, sem, memory, gens, stop>>

\* ChatTemplate has returned, which a Close keeps waiting; applyModelChatTemplate
\* looks at s.model again, and without one the prompt is made without it.
CheckModel(c) ==
    /\ At(c, "check") /\ ~Closing(calls[c].ref)
    /\ GoesWith(c, IF loaded = Nil THEN "ref" ELSE "format", Nil)
    /\ UNCHANGED <<config, sem, memory, gens, stop>>

\* s.model.FormatChatPrompt: s.model is read a third time.
ReadForFormat(c) ==
    /\ At(c, "format") /\ loaded # Nil
    /\ GoesWith(c, "rlock", loaded)
    /\ UNCHANGED <<config, sem, memory, gens, stop>>

\* Its RLock.  A closed model is an error, and the prompt is made without it; with
\* a template of the model's YAML it is made here.
LockForFormat(c) ==
    /\ At(c, "rlock") /\ ~Closing(calls[c].ref)
    /\ \/ models[calls[c].ref].open /\ Goes(c, "nested")
       \/ GoesWith(c, "ref", Nil)
    /\ UNCHANGED <<config, sem, memory, gens, stop>>

\* The RLock of the ChatTemplate inside, and both given back.
FormatPrompt(c) ==
    /\ At(c, "nested") /\ ~Closing(calls[c].ref)
    /\ GoesWith(c, "ref", Nil)
    /\ UNCHANGED <<config, sem, memory, gens, stop>>

\* A method of a nil model: a panic that nothing recovers.
Panic(c) ==
    /\ calls[c].at \in {"template", "format"} /\ loaded = Nil
    /\ Dies

\* Another call may have changed the model since this one made sure of it.
TakeModel(c) ==
    /\ At(c, "ref") /\ LockFree
    /\ GoesWith(c, IF loaded = Nil THEN AfterError(c) ELSE "context", loaded)
    /\ UNCHANGED <<config, sem, memory, gens, stop>>

\* NewContext waits for a Close; a SendMessage without an image locks s.mu before
\* it, in ensureDraftModel.
MayGoOn(c) == IF calls[c].op = "send" THEN LockFree ELSE ~Closing(calls[c].ref)

(* Model.NewContext looks whether the model is open, and uses it from there on
   without the lock. *)
NewContext(c) ==
    /\ At(c, "context") /\ MayGoOn(c) /\ models[calls[c].ref].open
    /\ IF calls[c].op \in {"send", "vision"}
       THEN /\ Goes(c, "stream")
            /\ gens' = [gens EXCEPT ![c] =
                   [at |-> "run", left |-> MaxChunks, out |-> 0]]
       ELSE Goes(c, "compute") /\ UNCHANGED gens
    /\ UNCHANGED <<config, sem, memory, stop>>

\* The model is closed, there is no memory, or the prompt is too long.
NewContextFails(c) ==
    /\ At(c, "context") /\ MayGoOn(c)
    /\ GoesOff(c, AfterError(c))
    /\ UNCHANGED <<config, sem, memory, gens, stop>>

Compute(c) ==
    /\ At(c, "compute")
    /\ GoesOff(c, IF calls[c].op = "batch" THEN "release" ELSE "unload")
    /\ UNCHANGED <<config, sem, memory, gens, stop>>

-----------------------------------------------------------------------------
(* Answers *)

\* emitChunk: waits for room in the channel; once the context is done the chunk
\* may be dropped instead, and there is no next one.
Emit(c) ==
    /\ gens[c].at = "run" /\ gens[c].left > 0 /\ gens[c].out < Buffer
    /\ gens' = [gens EXCEPT ![c].left = @ - 1, ![c].out = @ + 1]
    /\ UNCHANGED <<config, sem, memory, calls, stop>>

Over(c) == gens' = [gens EXCEPT ![c] =
    IF Orphan(c) THEN NoGen ELSE [@ EXCEPT !.at = "over", !.left = 0]]

(* Mutant: a generation does not look at the context between two tokens. *)
GenerationEndsDeaf(c) ==
    /\ gens[c].at = "run" /\ gens[c].left = 0
    /\ Over(c)
    /\ UNCHANGED <<config, sem, memory, calls, stop>>

\* The whole answer is out, or the call's context is done.
GenerationEnds(c) ==
    /\ gens[c].at = "run" /\ (gens[c].left = 0 \/ calls[c].quit # "no")
    /\ Over(c)
    /\ UNCHANGED <<config, sem, memory, calls, stop>>

\* The engine gives up in the middle; the channel is closed like after a whole
\* answer.
GenerationFails(c) ==
    /\ gens[c].at = "run"
    /\ Over(c)
    /\ UNCHANGED <<config, sem, memory, calls, stop>>

Forward(c) ==
    /\ At(c, "stream") /\ gens[c].out > 0
    /\ gens' = [gens EXCEPT ![c].out = @ - 1]
    /\ calls' = [calls EXCEPT ![c].heard = TRUE]
    /\ UNCHANGED <<config, sem, memory, stop>>

\* Send fails: the handler returns past the unloading, and leaves the goroutine
\* to the context that ends with it.
SendFails(c) ==
    /\ At(c, "stream") /\ calls[c].quit = "left"
    /\ \/ gens[c].out > 0
       \/ gens[c].at = "over" /\ calls[c].heard
    /\ calls' = [calls EXCEPT ![c].at = "release", ![c].cut = TRUE, ![c].heard = FALSE]
    /\ gens' = [gens EXCEPT ![c] = IF @.at = "over" THEN NoGen ELSE @]
    /\ UNCHANGED <<config, sem, memory, stop>>

\* The channel is closed: Done is sent.
StreamEnds(c) ==
    /\ At(c, "stream") /\ gens[c].at = "over" /\ gens[c].out = 0 /\ calls[c].heard
    /\ GoesOff(c, "unload")
    /\ gens' = [gens EXCEPT ![c] = NoGen]
    /\ UNCHANGED <<config, sem, memory, stop>>

\* It is closed and nothing came: an error is returned.
StreamFails(c) ==
    /\ At(c, "stream") /\ gens[c].at = "over" /\ gens[c].out = 0 /\ ~calls[c].heard
    /\ GoesOff(c, "unload")
    /\ gens' = [gens EXCEPT ![c] = NoGen]
    /\ UNCHANGED <<config, sem, memory, stop>>

-----------------------------------------------------------------------------
(* Unloading *)

AfterUnload(c) == IF At(c, "unload") THEN "release" ELSE "done"

(* Mutant: nothing is unloaded after an embedding. *)
NothingToUnloadOfEmbed(c) ==
    /\ \/ /\ calls[c].at \in {"unload", "late"}
          /\ ~unloadAfter \/ calls[c].op = "embed" \/ (LockFree /\ loaded = Nil)
       \/ At(c, "admin") /\ LockFree /\ loaded = Nil
    /\ Goes(c, AfterUnload(c))
    /\ UNCHANGED <<config, sem, memory, gens, stop>>

\* UnloadModel with nothing loaded, and maybeUnloadAfterRPC of a runner that keeps
\* its model.
NothingToUnload(c) ==
    /\ \/ calls[c].at \in {"unload", "late"} /\ (~unloadAfter \/ (LockFree /\ loaded = Nil))
       \/ At(c, "admin") /\ LockFree /\ loaded = Nil
    /\ Goes(c, AfterUnload(c))
    /\ UNCHANGED <<config, sem, memory, gens, stop>>

\* UnloadModel: maybeUnloadAfterRPC before the slot is given back, that of an
\* EmbedBatch, which no longer has a slot, or an administrator's.
UnloadModel(c) ==
    /\ calls[c].at \in {"unload", "late", "admin"} /\ calls[c].locks
    /\ CloseLoaded
    /\ GoesWith(c, AfterUnload(c), Nil)
    /\ UNCHANGED <<config, sem, gens, stop>>

-----------------------------------------------------------------------------
(* The end of the process *)

Stop ==
    /\ stop = "no" /\ stop' = "grace"
    /\ UNCHANGED <<config, sem, memory, calls, gens>>

\* After 15 seconds the calls that go on are cut off, not waited for.
StopByForce ==
    /\ stop = "grace" /\ \E c \in Call : ~At(c, "idle") /\ ~At(c, "done")
    /\ stop' = "force"
    /\ calls' = [c \in Call |->
           IF At(c, "idle") \/ At(c, "done") THEN calls[c]
           ELSE [calls[c] EXCEPT !.quit = "left"]]
    /\ UNCHANGED <<config, sem, memory, gens>>

UnloadAtEnd ==
    /\ \/ stop = "grace" /\ \A c \in Call : At(c, "idle") \/ At(c, "done")
       \/ stop = "force"
    /\ LockFree
    /\ stop' = IF loaded = Nil THEN "unloaded" ELSE "closing"
    /\ UNCHANGED <<config, sem, memory, calls, gens>>

CloseAtEnd ==
    /\ stop = "closing"
    /\ CloseLoaded
    /\ stop' = "unloaded"
    /\ UNCHANGED <<config, sem, calls, gens>>

Exit == stop = "unloaded" /\ Dies

\* A freed model is used: the process may die of it.
Crash == (\E c \in Call : Freed(c)) /\ Dies

-----------------------------------------------------------------------------
\* The steps that nobody outside of the process can keep from being taken.
Handle(c) ==
    \/ Acquire(c) \/ LeaveQueue(c) \/ Release(c)
    \/ EnsureKeeps(c) \/ EnsureCloses(c) \/ EnsureLoads(c) \/ EnsureFails(c)
    \/ StartClosing(c) \/ LookForVision(c)
    \/ ReadTemplate(c) \/ CheckModel(c) \/ ReadForFormat(c) \/ LockForFormat(c)
    \/ FormatPrompt(c) \/ Panic(c)
    \/ TakeModel(c) \/ NewContext(c) \/ NewContextFails(c) \/ Compute(c)
    \/ SendFails(c) \/ StreamFails(c)
    \/ NothingToUnload(c) \/ UnloadModel(c)

\* The steps that wait for the client to read.
Send(c) == Forward(c) \/ StreamEnds(c)

Generate(c) == Emit(c) \/ GenerationEnds(c) \/ GenerationFails(c)

Next ==
    /\ ~Down
    /\ \/ \E c \in Call :
              \/ Receive(c) \/ ReceiveUnload(c) \/ ClientLeaves(c) \/ TimeUp(c)
              \/ Handle(c) \/ Send(c) \/ Generate(c)
       \/ Stop \/ StopByForce \/ UnloadAtEnd \/ CloseAtEnd \/ Exit \/ Crash

Spec == Init /\ [][Next]_vars

(* Handlers and native code go on, and so does the end of the process with the
   lock it has.  Nobody has to call, read, leave, stop or crash. *)
FairSpec ==
    /\ Spec
    /\ \A c \in Call :
           /\ WF_vars(~Down /\ Handle(c))
           /\ WF_vars(~Down /\ (Emit(c) \/ GenerationEnds(c)))
    /\ WF_vars(~Down /\ CloseAtEnd)

-----------------------------------------------------------------------------
(* Properties *)

\* The places of resolveChatPrompt.
Prompting == {"template", "check", "format", "rlock", "nested"}

Places == Prompting \cup
    {"idle", "queue", "ensure", "vision", "ref", "context", "compute", "stream",
     "unload", "release", "late", "admin", "done"}

\* The handlers past the semaphore.
Inside(c) == calls[c].at \in Prompting \cup
    {"ensure", "vision", "ref", "context", "compute", "stream", "unload", "release"}

(* Every variable has a value of its kind, and the slots in use are those of
   the handlers that took one. *)
TypeOK ==
    /\ cap \in Caps /\ unloadAfter \in BOOLEAN
    /\ models \in Seq([name : Model, open : BOOLEAN])
    /\ loaded \in 0 .. Len(models)
    /\ calls \in [Call -> [op : {"none", "send", "vision", "embed", "batch", "unload"},
                           name : Model \cup {"none"}, at : Places,
                           ref : 0 .. Len(models), locks : BOOLEAN, quit : {"no", "time", "left"},
                           heard : BOOLEAN, cut : BOOLEAN]]
    /\ gens \in [Call -> [at : {"none", "run", "over"}, left : 0 .. MaxChunks,
                          out : 0 .. Buffer]]
    /\ stop \in {"no", "grace", "force", "closing", "unloaded", "down"}
    /\ sem \in 0 .. Cardinality(Call)

(* The limit of generations holds for the calls that are served: what computes
   beyond it are the goroutines of clients that have left.  And with one slot a
   call computes with the model it asked for, whoever unloads or loads what
   between its steps. *)
SlotsKept ==
    /\ cap # 0 => Cardinality({c \in Call : Using(c) /\ ~Orphan(c)}) <= cap
    /\ cap = 1 => \A c \in Call : Using(c) => models[calls[c].ref].name = calls[c].name

\* An Unload, or a batch that unloads after its slot.
Unloads(d) == At(d, "admin") \/ (At(d, "late") /\ calls[d].op = "batch")

(* With one slot the model of a call that is served is freed under it by an
   Unload, by a batch that unloads after its slot, or by the end of the
   process, and by nothing else; and nothing else takes the lock to close it
   while the call makes its prompt with it, reading s.model without the lock:
   so nothing else can make that reading panic, or have the prompt and a Close
   wait for each other. *)
SlotProtectsModel ==
    [][cap = 1 => \A c \in Call :
           /\ Using(c) /\ ~Freed(c) /\ Freed(c)' =>
                  \/ Orphan(c) \/ stop' # stop
                  \/ \E d \in Call : Unloads(d) /\ At(d, "done")'
           /\ calls[c].at \in Prompting /\ LockFree /\ ~LockFree' =>
                  \/ stop' = "closing"
                  \/ \E d \in Call : Unloads(d) /\ calls'[d].locks]_vars

(* When every call has ended, a runner that unloads after each has nothing
   loaded, unless a client went away before its answer was complete. *)
NothingStays ==
    unloadAfter /\ (\A c \in Call : At(c, "idle") \/ At(c, "done")) /\ loaded # Nil =>
        \E c \in Call : calls[c].cut

\* A FormatChatPrompt has the lock of a model that somebody closes: it waits for
\* the Close, the Close for it, and whoever needs s.mu for both.
Stuck == \E c \in Call : At(c, "nested") /\ Closing(calls[c].ref)

\* The client stays, and does not read what it is sent.
Unread(c) ==
    /\ At(c, "stream") /\ calls[c].quit # "left"
    /\ gens[c].out > 0 \/ (gens[c].at = "over" /\ calls[c].heard)

(* A call that came in ends, and so does what it started, even after its client
   has left; unless a freed or missing model or the end of the process ends
   everything, a prompt and a Close have locked each other out, or some client
   stays for ever without reading. *)
CallsEnd ==
    \/ \E d \in Call : <>[]Unread(d)
    \/ \A c \in Call :
           At(c, "queue") ~> Down \/ Stuck \/ (At(c, "done") /\ ~Using(c))
=============================================================================
