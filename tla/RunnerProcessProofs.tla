------------------------ MODULE RunnerProcessProofs ------------------------
(***************************************************************************)
(* Proofs about RunnerProcess, for any finite set of calls, any models,    *)
(* settings, lengths of answers and buffers.                               *)
(***************************************************************************)
EXTENDS RunnerProcess, FiniteSetTheorems, SequenceTheorems, TLAPS

-----------------------------------------------------------------------------
(* The inductive invariant *)

\* A handler, its goroutine, and a model of the process.
CallRec == [op : {"none", "send", "vision", "embed", "batch", "unload"},
            name : Model \cup {"none"}, at : Places, ref : 0 .. Len(models),
            locks : BOOLEAN, quit : {"no", "time", "left"}, heard : BOOLEAN, cut : BOOLEAN]
GenRec == [at : {"none", "run", "over"}, left : 0 .. MaxChunks, out : 0 .. Buffer]
ModelRec == [name : Model, open : BOOLEAN]

\* TypeOK without its bounds, in the form that steps preserve it.
Kinds ==
    /\ cap \in Caps /\ unloadAfter \in BOOLEAN
    /\ models \in Seq(ModelRec) /\ loaded \in 0 .. Len(models)
    /\ calls \in [Call -> CallRec] /\ gens \in [Call -> GenRec]
    /\ stop \in {"no", "grace", "force", "closing", "unloaded", "down"}

\* Where a handler is tells whether it has a goroutine, and who a late or an
\* idle one can be.
PlaceOK(c) ==
    /\ gens[c].at = "over" => At(c, "stream")
    /\ gens[c].at = "run" => calls[c].at \in {"stream", "release", "done"}
    /\ At(c, "release") /\ gens[c].at = "run" => calls[c].op # "batch"
    /\ At(c, "stream") => calls[c].op # "batch"
    /\ At(c, "late") => calls[c].op = "batch"
    /\ calls[c].at \in {"queue", "ensure"} => calls[c].name \in Model
    /\ At(c, "idle") => ~calls[c].cut

\* The places of a handler that is about to take the model.
Taking == Prompting \cup {"vision", "ref"}

\* A model that is used, or about to be, has been loaded, and with one slot it
\* is the one that was asked for.
RefOK(c) ==
    /\ At(c, "context") \/ Using(c) =>
           /\ calls[c].ref \in 1 .. Len(models)
           /\ cap = 1 => models[calls[c].ref].name = calls[c].name
    /\ cap = 1 /\ calls[c].at \in Taking /\ loaded # Nil =>
           models[loaded].name = calls[c].name

\* The handlers that will unload, if the setting says so, or were cut off.
WillUnload(c) ==
    \/ calls[c].at \in Taking \cup {"context", "compute", "stream", "unload", "late"}
    \/ At(c, "release") /\ calls[c].op = "batch"
    \/ calls[c].cut

Insiders == {c \in Call : Inside(c)}

(* The slots in use are the handlers past the semaphore; each handler is where
   its call can be; what it uses is there and is what it asked for; and what is
   loaded has somebody who will unload it. *)
Slots == sem = (IF cap = 0 THEN 0 ELSE Cardinality(Insiders)) /\ (cap # 0 => sem <= cap)
Steps == \A c \in Call : PlaceOK(c)
Refs == \A c \in Call : RefOK(c)
Pending == unloadAfter /\ loaded # Nil => \E c \in Call : WillUnload(c)

IInv == TypeOK /\ Slots /\ Steps /\ Refs /\ Pending

-----------------------------------------------------------------------------
(* What a step does to the record of a handler, and to no other *)

\* A step of c leaves the other handlers and goroutines alone.
Others(c) == \A d \in Call \ {c} : calls'[d] = calls[d] /\ gens'[d] = gens[d]

\* The fields of c that the invariants speak of.
Keeps(c) ==
    /\ calls'[c].op = calls[c].op /\ calls'[c].name = calls[c].name
    /\ calls'[c].cut = calls[c].cut

\* c is at w now, is the call it was, and has taken no lock.
Moved(c, w) ==
    /\ calls' \in [Call -> CallRec]
    /\ calls'[c].at = w /\ Keeps(c) /\ (calls'[c].locks => calls[c].locks)
    /\ \A d \in Call \ {c} : calls'[d] = calls[d]

\* Every place of a handler is one.
LEMMA PlacesAre ==
    /\ {"idle", "queue", "ensure", "ref", "context", "compute", "vision"} \subseteq Places
    /\ {"stream", "unload", "release", "late", "admin", "done"} \subseteq Places
    /\ Prompting = {"template", "check", "format", "rlock", "nested"} /\ Prompting \subseteq Places
BY DEF Places, Prompting

LEMMA GoesTo ==
    ASSUME Kinds, NEW c \in Call, NEW w \in Places, Goes(c, w)
    PROVE  Moved(c, w) /\ calls'[c].ref = calls[c].ref
<1>1. calls[c] \in CallRec
  BY DEF Kinds
<1>2. [calls[c] EXCEPT !.at = w] \in CallRec
  BY <1>1 DEF CallRec
<1>3. calls' = [calls EXCEPT ![c] = [calls[c] EXCEPT !.at = w]]
  BY DEF Kinds, Goes
<1>4. calls'[c] = [calls[c] EXCEPT !.at = w] /\ \A d \in Call \ {c} : calls'[d] = calls[d]
  BY <1>3 DEF Kinds
<1>5. calls' \in [Call -> CallRec]
  BY <1>2, <1>3 DEF Kinds
<1> QED
  BY <1>1, <1>4, <1>5 DEF CallRec, Moved, Keeps

LEMMA GoesOffTo ==
    ASSUME Kinds, NEW c \in Call, NEW w \in Places, GoesOff(c, w)
    PROVE  Moved(c, w) /\ calls'[c].ref = Nil
<1> DEFINE r == [calls[c] EXCEPT !.at = w, !.ref = Nil, !.locks = FALSE, !.quit = "no",
                                 !.heard = FALSE]
<1>1. calls[c] \in CallRec /\ Nil \in 0 .. Len(models)
  BY LenProperties DEF Kinds, Nil
<1>2. r \in CallRec
  BY <1>1 DEF CallRec
<1>3. calls' = [calls EXCEPT ![c] = r]
  BY DEF Kinds, GoesOff
<1>4. calls'[c] = r /\ \A d \in Call \ {c} : calls'[d] = calls[d]
  BY <1>3 DEF Kinds
<1>5. calls' \in [Call -> CallRec]
  BY <1>2, <1>3 DEF Kinds
<1> QED
  BY <1>1, <1>4, <1>5 DEF CallRec, Moved, Keeps

LEMMA GoesWithTo ==
    ASSUME Kinds, NEW c \in Call, NEW w \in Places, NEW m \in 0 .. Len(models), GoesWith(c, w, m)
    PROVE  Moved(c, w) /\ calls'[c].ref = m
<1> DEFINE r == [calls[c] EXCEPT !.at = w, !.ref = m, !.locks = FALSE]
<1>1. calls[c] \in CallRec
  BY DEF Kinds
<1>2. r \in CallRec
  BY <1>1 DEF CallRec
<1>3. calls' = [calls EXCEPT ![c] = r]
  BY DEF Kinds, GoesWith
<1>4. calls'[c] = r /\ \A d \in Call \ {c} : calls'[d] = calls[d]
  BY <1>3 DEF Kinds
<1>5. calls' \in [Call -> CallRec]
  BY <1>2, <1>3 DEF Kinds
<1> QED
  BY <1>1, <1>4, <1>5 DEF CallRec, Moved, Keeps

LEMMA NilIs ==
    ASSUME Kinds
    PROVE  Nil \in 0 .. Len(models) /\ loaded \in 0 .. Len(models)
BY LenProperties DEF Kinds, Nil

LEMMA NoCallIs ==
    ASSUME Kinds
    PROVE  NoCall \in CallRec
BY NilIs, PlacesAre DEF CallRec, NoCall

-----------------------------------------------------------------------------
(* What closing or loading a model does to the memory of the process *)

MemoryKept ==
    /\ models' \in Seq(ModelRec) /\ loaded' \in 0 .. Len(models')
    /\ Len(models) <= Len(models')
    /\ \A i \in 1 .. Len(models) : models'[i].name = models[i].name

\* Closing frees a model, and changes nothing else.
LEMMA MemoryClosed ==
    ASSUME Kinds, UNCHANGED memory \/ CloseLoaded
    PROVE  MemoryKept
<1>0. Len(models) \in Nat
  BY LenProperties DEF Kinds
<1>1. CASE UNCHANGED memory
  BY <1>1, LenProperties DEF memory, Kinds, MemoryKept
<1>2. CASE CloseLoaded /\ loaded = Nil
  <2>1. DOMAIN models = 1 .. Len(models) /\ Nil \notin DOMAIN models
    BY <1>0, LenProperties DEF Kinds, Nil
  <2>2. models = [i \in DOMAIN models |-> models[i]]
    BY DEF Kinds
  <2>3. models' = models /\ loaded' = loaded
    BY <1>2, <2>1, <2>2 DEF CloseLoaded
  <2> QED
    BY <1>1, <2>3 DEF memory
<1>3. CASE CloseLoaded /\ loaded # Nil
  <2> DEFINE m == [models[loaded] EXCEPT !.open = FALSE]
  <2>1. loaded \in 1 .. Len(models) /\ models[loaded] \in ModelRec
    BY <1>3 DEF Kinds, Nil
  <2>2. m \in ModelRec /\ m.name = models[loaded].name
    BY <2>1 DEF ModelRec
  <2>3. models' = [models EXCEPT ![loaded] = m]
    BY <1>3, <2>1 DEF CloseLoaded
  <2>4. /\ models' \in Seq(ModelRec) /\ Len(models') = Len(models)
        /\ \A i \in 1 .. Len(models) : models'[i] = IF i = loaded THEN m ELSE models[i]
    BY <2>1, <2>2, <2>3, ExceptSeq DEF Kinds
  <2>5. loaded' = Nil
    BY <1>3 DEF CloseLoaded
  <2> HIDE DEF m
  <2>6. \A i \in 1 .. Len(models) : models'[i].name = models[i].name
    BY <2>2, <2>4
  <2> QED
    BY <1>0, <2>4, <2>5, <2>6 DEF MemoryKept, Nil
<1> QED
  BY <1>1, <1>2, <1>3

LEMMA MemoryLoaded ==
    ASSUME Kinds, NEW name \in Model,
           models' = Append(models, [name |-> name, open |-> TRUE]), loaded' = Len(models')
    PROVE  MemoryKept /\ Len(models') = Len(models) + 1 /\ models'[Len(models')].name = name
<1>1. [name |-> name, open |-> TRUE] \in ModelRec
  BY DEF ModelRec
<1>2. Len(models) \in Nat
  BY LenProperties DEF Kinds
<1>3. /\ models' \in Seq(ModelRec) /\ Len(models') = Len(models) + 1
      /\ \A i \in 1 .. Len(models) : models'[i] = models[i]
      /\ models'[Len(models) + 1] = [name |-> name, open |-> TRUE]
  BY <1>1, AppendProperties DEF Kinds
<1> QED
  BY <1>2, <1>3 DEF MemoryKept

\* A model is closed, by a handler that has a slot or by one that
\* SlotProtectsModel names.
Named(d) == (At(d, "admin") \/ (At(d, "late") /\ calls[d].op = "batch")) /\ At(d, "done")'
Closes(c) == CloseLoaded /\ (calls[c].at \in {"ensure", "unload"} \/ Named(c))

\* What becomes of a goroutine.
LEMMA GensOf ==
    ASSUME Kinds, NEW c \in Call,
           \/ UNCHANGED gens
           \/ gens' = [gens EXCEPT ![c] = [at |-> "run", left |-> MaxChunks, out |-> 0]]
           \/ gens[c].left > 0 /\ gens[c].out < Buffer
              /\ gens' = [gens EXCEPT ![c].left = @ - 1, ![c].out = @ + 1]
           \/ gens[c].out > 0 /\ gens' = [gens EXCEPT ![c].out = @ - 1]
           \/ Over(c)
           \/ gens' = [gens EXCEPT ![c] = NoGen]
           \/ gens' = [gens EXCEPT ![c] = IF @.at = "over" THEN NoGen ELSE @]
    PROVE  gens' \in [Call -> GenRec]
<1>0. gens[c] \in GenRec /\ MaxChunks \in Nat /\ Buffer \in Nat \ {0}
  BY RunnerAssumption DEF Kinds
<1>1. NoGen \in GenRec /\ [at |-> "run", left |-> MaxChunks, out |-> 0] \in GenRec
  BY <1>0 DEF GenRec, NoGen
<1>2. ASSUME gens[c].left > 0, gens[c].out < Buffer
      PROVE  [gens[c] EXCEPT !.left = @ - 1, !.out = @ + 1] \in GenRec
  <2>1. gens[c].left - 1 \in 0 .. MaxChunks /\ gens[c].out + 1 \in 0 .. Buffer
    BY <1>0, <1>2 DEF GenRec
  <2> QED
    BY <1>0, <2>1 DEF GenRec
<1>3. ASSUME gens[c].out > 0 PROVE [gens[c] EXCEPT !.out = @ - 1] \in GenRec
  BY <1>0, <1>3 DEF GenRec
<1>4. [gens[c] EXCEPT !.at = "over", !.left = 0] \in GenRec
  <2>1. 0 \in 0 .. MaxChunks
    BY <1>0
  <2> QED
    BY <1>0, <2>1 DEF GenRec
<1>5. CASE gens[c].left > 0 /\ gens[c].out < Buffer
           /\ gens' = [gens EXCEPT ![c].left = @ - 1, ![c].out = @ + 1]
  <2>1. gens' = [gens EXCEPT ![c] = [gens[c] EXCEPT !.left = @ - 1, !.out = @ + 1]]
    BY <1>0, <1>5 DEF Kinds
  <2> QED
    BY <2>1, <1>2, <1>5 DEF Kinds
<1>6. CASE gens[c].out > 0 /\ gens' = [gens EXCEPT ![c].out = @ - 1]
  BY <1>3, <1>6 DEF Kinds
<1>7. CASE Over(c)
  BY <1>1, <1>4, <1>7 DEF Over, Kinds
<1> QED
  BY <1>0, <1>1, <1>5, <1>6, <1>7 DEF Kinds

-----------------------------------------------------------------------------
(* The kinds of steps *)

\* A step of c that changes neither the settings nor the end of the process.
StepOf(c) ==
    /\ UNCHANGED <<cap, unloadAfter, stop>>
    /\ calls' \in [Call -> CallRec] /\ gens' \in [Call -> GenRec]
    /\ Others(c)

\* A call comes in.
Comes(c) ==
    /\ StepOf(c) /\ UNCHANGED <<sem, memory, gens>>
    /\ At(c, "idle") /\ ~calls'[c].cut /\ ~calls'[c].locks
    /\ calls'[c].at \in {"queue", "admin"} /\ (At(c, "queue")' => calls'[c].name \in Model)

\* c stays where it is, and may take s.mu, or close the model it does not want.
Stays(c) ==
    /\ StepOf(c) /\ UNCHANGED sem /\ (UNCHANGED memory \/ Closes(c))
    /\ Keeps(c) /\ calls'[c].at = calls[c].at /\ calls'[c].ref = calls[c].ref
    /\ gens'[c].at = gens[c].at
    /\ ~UNCHANGED memory => ~Using(c)
    /\ calls'[c].locks =>
           \/ calls[c].locks \/ calls[c].at \in {"ensure", "unload"}
           \/ At(c, "admin") \/ (At(c, "late") /\ calls[c].op = "batch")

\* c goes on, with the slot it has or has not, and may close the model.
Walks(c) ==
    /\ StepOf(c) /\ UNCHANGED <<sem, gens>> /\ (UNCHANGED memory \/ Closes(c))
    /\ Keeps(c) /\ (calls'[c].locks => calls[c].locks)
    /\ calls[c].at \notin {"idle", "stream", "release", "done"}
    /\ calls'[c].at \in Taking \cup {"context", "unload", "release", "late", "done"}
    /\ Inside(c)' <=> Inside(c)
    /\ At(c, "late")' => calls[c].op = "batch"
    /\ At(c, "context")' => calls'[c].ref = loaded /\ loaded # Nil /\ At(c, "ref")
    /\ calls'[c].at \in Taking =>
           calls[c].at \in Taking \/ (At(c, "ensure") /\ IsLoaded(calls[c].name))
    /\ unloadAfter /\ loaded' # Nil /\ WillUnload(c) => WillUnload(c)'

\* c has a slot, or gives it back.
Enters(c) ==
    /\ StepOf(c) /\ UNCHANGED <<memory, gens>> /\ Keeps(c) /\ (calls'[c].locks => calls[c].locks)
    /\ At(c, "queue") /\ At(c, "ensure")'
    /\ cap = 0 \/ sem < cap
    /\ sem' = IF cap = 0 THEN sem ELSE sem + 1

Leaves(c) ==
    /\ StepOf(c) /\ UNCHANGED <<memory, gens>> /\ Keeps(c) /\ (calls'[c].locks => calls[c].locks)
    /\ calls'[c].ref = calls[c].ref
    /\ At(c, "release") /\ calls'[c].at = IF calls[c].op = "batch" THEN "late" ELSE "done"
    /\ sem' = IF cap = 0 THEN sem ELSE sem - 1

\* c has loaded its model.
Loads(c) ==
    /\ StepOf(c) /\ UNCHANGED <<sem, gens>> /\ Keeps(c) /\ (calls'[c].locks => calls[c].locks)
    /\ At(c, "ensure") /\ calls'[c].at \in Taking
    /\ MemoryKept /\ loaded' = Len(models') /\ models'[Len(models')].name = calls[c].name

\* c begins to use its model, with a goroutine or without.
Begins(c) ==
    /\ StepOf(c) /\ UNCHANGED <<sem, memory>> /\ Keeps(c) /\ (calls'[c].locks => calls[c].locks)
    /\ At(c, "context") /\ calls'[c].ref = calls[c].ref
    /\ \/ calls[c].op # "batch" /\ At(c, "stream")' /\ gens'[c].at = "run"
       \/ At(c, "compute")' /\ gens'[c] = gens[c]

\* Its goroutine ends.
Finishes(c) ==
    /\ StepOf(c) /\ UNCHANGED <<sem, memory, calls>> /\ gens[c].at = "run"
    /\ gens'[c].at = IF At(c, "stream") THEN "over" ELSE "none"

\* It leaves its goroutine behind, or has heard it to the end.
Cut(c) ==
    /\ StepOf(c) /\ UNCHANGED <<sem, memory>>
    /\ calls'[c].op = calls[c].op /\ calls'[c].name = calls[c].name
    /\ calls'[c].ref = calls[c].ref /\ (calls'[c].locks => calls[c].locks)
    /\ At(c, "stream") /\ At(c, "release")' /\ calls'[c].cut
    /\ gens'[c].at = IF gens[c].at = "over" THEN "none" ELSE gens[c].at

Answers(c) ==
    /\ StepOf(c) /\ UNCHANGED <<sem, memory>> /\ Keeps(c) /\ (calls'[c].locks => calls[c].locks)
    /\ At(c, "stream") /\ At(c, "unload")' /\ gens'[c].at = "none"

\* The end of the process goes on.
Stopping ==
    /\ UNCHANGED <<cap, unloadAfter, sem, gens>> /\ (UNCHANGED memory \/ CloseLoaded)
    /\ stop' # stop /\ stop' \in {"grace", "force", "closing", "unloaded"}
    /\ calls' \in [Call -> CallRec]
    /\ \A c \in Call : /\ Keeps(c) /\ calls'[c].at = calls[c].at
                       /\ calls'[c].ref = calls[c].ref /\ calls'[c].locks = calls[c].locks

LEMMA StepIs ==
    ASSUME Kinds, NEW c \in Call, UNCHANGED config, UNCHANGED stop, gens' = gens,
           NEW w, Moved(c, w)
    PROVE  StepOf(c)
BY DEF Kinds, Moved, StepOf, Others, config

\* The actions of the module are steps of these kinds.
LEMMA ComesStep ==
    ASSUME Kinds, NEW c \in Call, Receive(c) \/ ReceiveUnload(c)
    PROVE  Comes(c)
<1>1. CASE Receive(c)
  <2>1. PICK op \in {"send", "vision", "embed", "batch"}, name \in Model :
            calls' = [calls EXCEPT ![c] = [NoCall EXCEPT !.op = op, !.name = name, !.at = "queue"]]
    BY <1>1 DEF Receive
  <2> DEFINE r == [NoCall EXCEPT !.op = op, !.name = name, !.at = "queue"]
  <2>2. r \in CallRec
    BY NoCallIs, PlacesAre DEF CallRec
  <2>3. r.at = "queue" /\ r.name \in Model /\ ~r.cut /\ ~r.locks
    BY DEF NoCall
  <2>4. calls'[c] = r /\ calls' \in [Call -> CallRec] /\ \A d \in Call \ {c} : calls'[d] = calls[d]
    BY <2>1, <2>2 DEF Kinds
  <2> HIDE DEF r
  <2> QED
    BY <1>1, <2>3, <2>4 DEF Receive, Comes, StepOf, Others, Kinds, At, config
<1>2. CASE ReceiveUnload(c)
  <2> DEFINE r == [NoCall EXCEPT !.op = "unload", !.at = "admin"]
  <2>1. r \in CallRec
    BY NoCallIs, PlacesAre DEF CallRec
  <2>2. r.at = "admin" /\ ~r.cut /\ ~r.locks
    BY DEF NoCall
  <2>3. calls'[c] = r /\ calls' \in [Call -> CallRec] /\ \A d \in Call \ {c} : calls'[d] = calls[d]
    BY <1>2, <2>1 DEF ReceiveUnload, Kinds
  <2> HIDE DEF r
  <2> QED
    BY <1>2, <2>2, <2>3 DEF ReceiveUnload, Comes, StepOf, Others, Kinds, At, config
<1> QED
  BY <1>1, <1>2

LEMMA StaysStep ==
    ASSUME Kinds, Steps, NEW c \in Call,
           \/ ClientLeaves(c) \/ TimeUp(c) \/ Forward(c) \/ Emit(c)
           \/ StartClosing(c) \/ EnsureCloses(c)
    PROVE  Stays(c)
<1>0. calls[c] \in CallRec /\ gens[c] \in GenRec
  BY DEF Kinds
<1>1. CASE ClientLeaves(c)
  <2>1. [calls[c] EXCEPT !.quit = "left"] \in CallRec
    BY <1>0 DEF CallRec
  <2> QED
    BY <1>0, <1>1, <2>1 DEF ClientLeaves, Kinds, CallRec, Stays, StepOf, Others, Keeps, config
<1>2. CASE TimeUp(c)
  <2>1. [calls[c] EXCEPT !.quit = "time"] \in CallRec
    BY <1>0 DEF CallRec
  <2> QED
    BY <1>0, <1>2, <2>1 DEF TimeUp, Kinds, CallRec, Stays, StepOf, Others, Keeps, config
<1>3. CASE Forward(c)
  <2>1. [calls[c] EXCEPT !.heard = TRUE] \in CallRec
    BY <1>0 DEF CallRec
  <2>2. gens' \in [Call -> GenRec]
    BY <1>3, GensOf DEF Forward
  <2> QED
    BY <1>0, <1>3, <2>1, <2>2
       DEF Forward, Kinds, CallRec, GenRec, Stays, StepOf, Others, Keeps, config
<1>4. CASE Emit(c)
  <2>1. gens' \in [Call -> GenRec]
    BY <1>4, GensOf DEF Emit
  <2> QED
    BY <1>0, <1>4, <2>1 DEF Emit, Kinds, GenRec, Stays, StepOf, Others, Keeps, config
<1>5. CASE StartClosing(c)
  <2>1. [calls[c] EXCEPT !.locks = TRUE] \in CallRec
    BY <1>0 DEF CallRec
  <2>2. \/ calls[c].at \in {"ensure", "unload"} \/ At(c, "admin")
        \/ (At(c, "late") /\ calls[c].op = "batch")
    BY <1>5 DEF StartClosing, Steps, PlaceOK, At
  <2> QED
    BY <1>0, <1>5, <2>1, <2>2
       DEF StartClosing, Kinds, CallRec, Stays, StepOf, Others, Keeps, config
<1>6. CASE EnsureCloses(c)
  <2>1. ~Using(c) /\ Closes(c)
    BY <1>6 DEF EnsureCloses, Closes, Steps, PlaceOK, At, Using
  <2> QED
    BY <1>6, <2>1 DEF EnsureCloses, Kinds, Stays, StepOf, Others, Keeps, At, config
<1> QED
  BY <1>1, <1>2, <1>3, <1>4, <1>5, <1>6

\* What a walk is, seen from where it begins and ends.
LEMMA WalkIs ==
    ASSUME Kinds, NEW c \in Call, NEW w \in Places, Moved(c, w),
           UNCHANGED config, UNCHANGED <<sem, gens, stop>>, UNCHANGED memory \/ Closes(c),
           calls[c].at \notin {"idle", "stream", "release", "done"},
           w \in Taking \cup {"context", "unload", "release", "late", "done"},
           calls[c].at \in {"queue", "late", "admin"} <=> w \in {"late", "done"},
           w = "late" => calls[c].op = "batch",
           w = "context" => calls'[c].ref = loaded /\ loaded # Nil /\ At(c, "ref"),
           w \in Taking => calls[c].at \in Taking \/ (At(c, "ensure") /\ IsLoaded(calls[c].name)),
           \/ w \in Taking \cup {"context", "unload", "late"}
           \/ w = "release" /\ calls[c].op = "batch"
           \/ At(c, "queue")
           \/ loaded' = Nil \/ ~unloadAfter
    PROVE  Walks(c)
<1>1. StepOf(c)
  BY StepIs
<1>2. Keeps(c) /\ calls'[c].at = w /\ (calls'[c].locks => calls[c].locks) /\ calls[c].at \in Places
  BY DEF Moved, Kinds, CallRec
<1>3. Inside(c) <=> calls[c].at \notin {"idle", "queue", "late", "admin", "done"}
  BY <1>2 DEF Inside, Places, Prompting
<1>4. Inside(c)' <=> w \notin {"idle", "queue", "late", "admin", "done"}
  BY <1>2, PlacesAre DEF Inside, Places, Prompting
<1>5. Inside(c)' <=> Inside(c)
  BY <1>3, <1>4, PlacesAre DEF Taking
<1>6. unloadAfter /\ loaded' # Nil /\ WillUnload(c) => WillUnload(c)'
  BY <1>2, PlacesAre DEF WillUnload, At, Keeps, Taking
<1> QED
  BY <1>1, <1>2, <1>5, <1>6 DEF Walks, At

LEMMA WalksStep ==
    ASSUME Kinds, Steps, NEW c \in Call,
           \/ LeaveQueue(c) \/ EnsureKeeps(c) \/ EnsureFails(c) \/ LookForVision(c)
           \/ ReadTemplate(c) \/ CheckModel(c) \/ ReadForFormat(c) \/ LockForFormat(c)
           \/ FormatPrompt(c) \/ TakeModel(c) \/ NewContextFails(c) \/ Compute(c)
           \/ NothingToUnload(c) \/ UnloadModel(c)
    PROVE  Walks(c)
<1> USE NilIs, PlacesAre DEF At, Taking
<1>1. CASE LeaveQueue(c)
  BY <1>1, GoesOffTo, WalkIs DEF LeaveQueue
<1>2. CASE EnsureKeeps(c)
  <2>1. AfterEnsure(c) \in {"template", "vision", "ref"}
    BY DEF AfterEnsure
  <2> QED
    BY <1>2, <2>1, GoesTo, WalkIs DEF EnsureKeeps
<1>3. CASE EnsureFails(c)
  BY <1>3, GoesOffTo, WalkIs DEF EnsureFails, AfterError
<1>4. CASE LookForVision(c)
  <2>1. CASE Goes(c, "ref")
    BY <1>4, <2>1, GoesTo, WalkIs DEF LookForVision
  <2>2. CASE GoesOff(c, AfterError(c))
    BY <1>4, <2>2, GoesOffTo, WalkIs DEF LookForVision, AfterError
  <2> QED
    BY <1>4, <2>1, <2>2 DEF LookForVision
<1>5. CASE ReadTemplate(c)
  BY <1>5, GoesWithTo, WalkIs DEF ReadTemplate
<1>6. CASE CheckModel(c)
  BY <1>6, GoesWithTo, WalkIs DEF CheckModel
<1>7. CASE ReadForFormat(c)
  BY <1>7, GoesWithTo, WalkIs DEF ReadForFormat
<1>8. CASE LockForFormat(c)
  <2>1. CASE Goes(c, "nested")
    BY <1>8, <2>1, GoesTo, WalkIs DEF LockForFormat
  <2>2. CASE GoesWith(c, "ref", Nil)
    BY <1>8, <2>2, GoesWithTo, WalkIs DEF LockForFormat
  <2> QED
    BY <1>8, <2>1, <2>2 DEF LockForFormat
<1>9. CASE FormatPrompt(c)
  BY <1>9, GoesWithTo, WalkIs DEF FormatPrompt
<1>10. CASE TakeModel(c)
  BY <1>10, GoesWithTo, WalkIs DEF TakeModel, AfterError
<1>11. CASE NewContextFails(c)
  BY <1>11, GoesOffTo, WalkIs DEF NewContextFails, AfterError
<1>12. CASE Compute(c)
  BY <1>12, GoesOffTo, WalkIs DEF Compute
<1>13. CASE NothingToUnload(c)
  <2>1. loaded' = Nil \/ ~unloadAfter
    BY <1>13 DEF NothingToUnload, memory
  <2> QED
    BY <1>13, <2>1, GoesTo, WalkIs DEF NothingToUnload, AfterUnload
<1>14. CASE UnloadModel(c)
  <2>1. Moved(c, AfterUnload(c)) /\ CloseLoaded /\ loaded' = Nil
    BY <1>14, GoesWithTo DEF UnloadModel, AfterUnload, CloseLoaded
  <2>2. Closes(c)
    BY <1>14, <2>1 DEF UnloadModel, Closes, Named, Moved, AfterUnload, Steps, PlaceOK
  <2> QED
    BY <1>14, <2>1, <2>2, WalkIs DEF UnloadModel, AfterUnload
<1> QED
  BY <1>1, <1>2, <1>3, <1>4, <1>5, <1>6, <1>7, <1>8, <1>9, <1>10, <1>11, <1>12, <1>13, <1>14

LEMMA OtherSteps ==
    ASSUME Kinds, Steps, NEW c \in Call
    PROVE  /\ Acquire(c) => Enters(c)
           /\ Release(c) => Leaves(c)
           /\ EnsureLoads(c) => Loads(c)
           /\ NewContext(c) => Begins(c)
           /\ GenerationEnds(c) \/ GenerationFails(c) => Finishes(c)
           /\ SendFails(c) => Cut(c)
           /\ StreamEnds(c) \/ StreamFails(c) => Answers(c)
<1>0. calls[c] \in CallRec /\ gens[c] \in GenRec
  BY DEF Kinds
<1>1. ASSUME Acquire(c) PROVE Enters(c)
  <2>1. Moved(c, "ensure")
    BY <1>1, GoesTo, PlacesAre DEF Acquire
  <2> QED
    BY <1>1, <2>1, StepIs DEF Acquire, Enters, Moved, At
<1>2. ASSUME Release(c) PROVE Leaves(c)
  <2> DEFINE w == IF calls[c].op = "batch" THEN "late" ELSE "done"
  <2>1. Moved(c, w) /\ calls'[c].ref = calls[c].ref
    BY <1>2, GoesTo, PlacesAre DEF Release
  <2> QED
    BY <1>2, <2>1, StepIs DEF Release, Leaves, Moved, At
<1>3. ASSUME EnsureLoads(c) PROVE Loads(c)
  <2>1. AfterEnsure(c) \in {"template", "vision", "ref"} /\ AfterEnsure(c) \in Taking
    BY PlacesAre DEF AfterEnsure, Taking
  <2>2. Moved(c, AfterEnsure(c))
    BY <1>3, <2>1, GoesWithTo, NilIs, PlacesAre DEF EnsureLoads
  <2>3. MemoryKept /\ loaded' = Len(models') /\ models'[Len(models')].name = calls[c].name
    BY <1>3, MemoryLoaded DEF EnsureLoads, Steps, PlaceOK, At
  <2> QED
    BY <1>3, <2>1, <2>2, <2>3, StepIs DEF EnsureLoads, Loads, Moved, At
<1>4. ASSUME NewContext(c) PROVE Begins(c)
  <2>1. gens' \in [Call -> GenRec]
    BY <1>4, GensOf DEF NewContext
  <2>2. CASE calls[c].op \in {"send", "vision"}
    <3>1. Moved(c, "stream") /\ calls'[c].ref = calls[c].ref
      BY <1>4, <2>2, GoesTo, PlacesAre DEF NewContext
    <3>2. gens' = [gens EXCEPT ![c] = [at |-> "run", left |-> MaxChunks, out |-> 0]]
      BY <1>4, <2>2 DEF NewContext
    <3>3. gens'[c].at = "run" /\ \A d \in Call \ {c} : gens'[d] = gens[d]
      BY <3>2 DEF Kinds
    <3> QED
      BY <1>4, <2>1, <2>2, <3>1, <3>3 DEF NewContext, Begins, StepOf, Others, Moved, config, At
  <2>3. CASE calls[c].op \notin {"send", "vision"}
    <3>1. Moved(c, "compute") /\ calls'[c].ref = calls[c].ref /\ gens' = gens
      BY <1>4, <2>3, GoesTo, PlacesAre DEF NewContext
    <3> QED
      BY <1>4, <2>1, <3>1 DEF NewContext, Begins, StepOf, Others, Moved, config, At
  <2> QED
    BY <2>2, <2>3
<1>5. ASSUME GenerationEnds(c) \/ GenerationFails(c) PROVE Finishes(c)
  <2>1. Over(c) /\ gens[c].at = "run" /\ UNCHANGED <<config, sem, memory, calls, stop>>
    BY <1>5 DEF GenerationEnds, GenerationFails
  <2>2. gens' \in [Call -> GenRec]
    BY <2>1, GensOf
  <2>3. gens' = [gens EXCEPT ![c] = IF Orphan(c) THEN NoGen ELSE [gens[c] EXCEPT !.at = "over", !.left = 0]]
    BY <2>1 DEF Over, Kinds
  <2>4. /\ gens'[c].at = IF At(c, "stream") THEN "over" ELSE "none"
        /\ \A d \in Call \ {c} : gens'[d] = gens[d]
    BY <1>0, <2>1, <2>3 DEF Orphan, NoGen, Kinds, GenRec
  <2> QED
    BY <2>1, <2>2, <2>4 DEF Finishes, StepOf, Others, Kinds, config
<1>6. ASSUME SendFails(c) PROVE Cut(c)
  <2> DEFINE r == [calls[c] EXCEPT !.at = "release", !.cut = TRUE, !.heard = FALSE]
  <2>1. gens' \in [Call -> GenRec]
    BY <1>6, GensOf DEF SendFails
  <2>2. /\ r \in CallRec /\ r.op = calls[c].op /\ r.name = calls[c].name /\ r.ref = calls[c].ref
        /\ r.locks = calls[c].locks /\ r.at = "release" /\ r.cut
    BY <1>0, PlacesAre DEF CallRec
  <2>3. calls' = [calls EXCEPT ![c] = r]
    BY <1>6 DEF SendFails, Kinds
  <2> HIDE DEF r
  <2>4. calls' \in [Call -> CallRec] /\ calls'[c] = r /\ \A d \in Call \ {c} : calls'[d] = calls[d]
    BY <2>2, <2>3 DEF Kinds
  <2>5. /\ gens'[c].at = IF gens[c].at = "over" THEN "none" ELSE gens[c].at
        /\ \A d \in Call \ {c} : gens'[d] = gens[d]
    BY <1>6 DEF SendFails, Kinds, NoGen
  <2> QED
    BY <1>6, <2>1, <2>2, <2>4, <2>5 DEF SendFails, Cut, StepOf, Others, config, At
<1>7. ASSUME StreamEnds(c) \/ StreamFails(c) PROVE Answers(c)
  <2>1. /\ GoesOff(c, "unload") /\ gens' = [gens EXCEPT ![c] = NoGen] /\ At(c, "stream")
        /\ UNCHANGED <<config, sem, memory, stop>>
    BY <1>7 DEF StreamEnds, StreamFails
  <2>2. gens' \in [Call -> GenRec]
    BY <2>1, GensOf
  <2>3. Moved(c, "unload")
    BY <2>1, GoesOffTo, PlacesAre
  <2>4. gens'[c].at = "none" /\ \A d \in Call \ {c} : gens'[d] = gens[d]
    BY <2>1 DEF Kinds, NoGen
  <2> QED
    BY <2>1, <2>2, <2>3, <2>4 DEF Answers, StepOf, Others, Moved, config, At
<1> QED
  BY <1>1, <1>2, <1>3, <1>4, <1>5, <1>6, <1>7

LEMMA StoppingStep ==
    ASSUME Kinds, Stop \/ StopByForce \/ UnloadAtEnd \/ CloseAtEnd
    PROVE  Stopping
<1>1. CASE Stop
  BY <1>1 DEF Stop, Stopping, Keeps, Kinds, config
<1>2. CASE StopByForce
  <2>1. ASSUME NEW c \in Call
        PROVE  /\ calls'[c] \in CallRec /\ Keeps(c) /\ calls'[c].at = calls[c].at
               /\ calls'[c].ref = calls[c].ref /\ calls'[c].locks = calls[c].locks
    <3>1. calls'[c] = IF At(c, "idle") \/ At(c, "done") THEN calls[c]
                      ELSE [calls[c] EXCEPT !.quit = "left"]
      BY <1>2 DEF StopByForce
    <3>2. calls[c] \in CallRec
      BY DEF Kinds
    <3> QED
      BY <3>1, <3>2 DEF CallRec, Keeps
  <2>2. calls' \in [Call -> CallRec]
    BY <1>2, <2>1 DEF StopByForce
  <2> QED
    BY <1>2, <2>1, <2>2 DEF StopByForce, Stopping, config
<1>3. CASE UnloadAtEnd
  BY <1>3 DEF UnloadAtEnd, Stopping, Keeps, Kinds, config
<1>4. CASE CloseAtEnd
  BY <1>4 DEF CloseAtEnd, Stopping, Keeps, Kinds, config
<1> QED
  BY <1>1, <1>2, <1>3, <1>4

\* Every step is one of these.
LEMMA StepKinds ==
    ASSUME Kinds, Steps, Next
    PROVE  \/ \E c \in Call :
                  \/ Comes(c) \/ Stays(c) \/ Walks(c) \/ Enters(c) \/ Leaves(c) \/ Loads(c)
                  \/ Begins(c) \/ Finishes(c) \/ Cut(c) \/ Answers(c)
           \/ Stopping \/ Dies
<1>1. CASE \E c \in Call : Receive(c) \/ ReceiveUnload(c) \/ ClientLeaves(c) \/ TimeUp(c)
  BY <1>1, ComesStep, StaysStep
<1>2. CASE \E c \in Call : Handle(c)
  <2>1. PICK c \in Call : Handle(c)
    BY <1>2
  <2> QED
    BY <2>1, StaysStep, WalksStep, OtherSteps DEF Handle, Panic
<1>3. CASE \E c \in Call : Send(c) \/ Generate(c)
  BY <1>3, StaysStep, OtherSteps DEF Send, Generate
<1>4. CASE Stop \/ StopByForce \/ UnloadAtEnd \/ CloseAtEnd \/ Exit \/ Crash
  BY <1>4, StoppingStep DEF Exit, Crash
<1> QED
  BY <1>1, <1>2, <1>3, <1>4 DEF Next

\* The steps of a call that leave the slots alone.
SlotStays(c) ==
    \/ Comes(c) \/ Stays(c) \/ Walks(c) \/ Loads(c) \/ Begins(c) \/ Finishes(c)
    \/ Cut(c) \/ Answers(c)
StepBy(c) == SlotStays(c) \/ Enters(c) \/ Leaves(c)

\* All but the loading of a model keep the memory, or close a model.
LEMMA MemoryOf ==
    ASSUME Kinds, NEW c \in Call, StepBy(c)
    PROVE  StepOf(c) /\ MemoryKept /\ (Loads(c) \/ UNCHANGED memory \/ Closes(c))
<1>1. StepOf(c) /\ (Loads(c) \/ UNCHANGED memory \/ Closes(c))
  BY DEF StepBy, SlotStays, Comes, Stays, Walks, Loads, Begins, Finishes, Cut, Answers, Enters, Leaves
<1>2. MemoryKept
  BY <1>1, MemoryClosed DEF Loads, Closes
<1> QED
  BY <1>1, <1>2

LEMMA KindsFrom ==
    ASSUME Kinds, UNCHANGED <<cap, unloadAfter>>, MemoryKept,
           calls' \in [Call -> CallRec], gens' \in [Call -> GenRec],
           stop' \in {"no", "grace", "force", "closing", "unloaded", "down"}
    PROVE  Kinds'
<1>1. Len(models) \in Nat /\ Len(models') \in Nat /\ Len(models) <= Len(models')
  BY LenProperties DEF MemoryKept, Kinds
<1>2. calls' \in [Call -> CallRec]'
  BY <1>1 DEF CallRec
<1> QED
  BY <1>2 DEF Kinds, GenRec, ModelRec, MemoryKept

LEMMA KindsStep ==
    ASSUME Kinds, Stopping \/ \E c \in Call : StepBy(c)
    PROVE  Kinds'
<1>1. CASE Stopping
  BY <1>1, MemoryClosed, KindsFrom DEF Stopping, Kinds
<1>2. ASSUME NEW c \in Call, StepBy(c) PROVE Kinds'
  <2>1. StepOf(c) /\ MemoryKept
    BY <1>2, MemoryOf
  <2> QED
    BY <2>1, KindsFrom DEF StepOf, Kinds
<1> QED
  BY <1>1, <1>2

-----------------------------------------------------------------------------
(* The slots in use are the handlers past the semaphore. *)

LEMMA InsidersFinite == IsFiniteSet(Insiders) /\ Cardinality(Insiders) <= Cardinality(Call)
BY RunnerAssumption, FS_Subset DEF Insiders

LEMMA SlotsSame ==
    ASSUME Slots, UNCHANGED <<cap, sem>>, \A d \in Call : Inside(d)' <=> Inside(d)
    PROVE  Slots'
<1>1. Insiders' = Insiders
  BY DEF Insiders
<1> QED
  BY <1>1 DEF Slots

\* Where a handler has its slot.
LEMMA InsideIs ==
    ASSUME Kinds, NEW c \in Call
    PROVE  Inside(c) <=> calls[c].at \notin {"idle", "queue", "late", "admin", "done"}
<1>1. calls[c].at \in Places
  BY DEF Kinds, CallRec
<1> QED
  BY <1>1 DEF Inside, Places, Prompting

LEMMA SlotsStep ==
    ASSUME Kinds, Kinds', Slots, Stopping \/ \E c \in Call : StepBy(c)
    PROVE  Slots'
<1>0. cap \in Nat /\ Cardinality(Insiders) \in Nat
  BY RunnerAssumption, InsidersFinite, FS_CardinalityType DEF Kinds
<1>1. CASE Stopping
  <2>1. \A d \in Call : Inside(d)' <=> Inside(d)
    BY <1>1 DEF Stopping, Inside
  <2> QED
    BY <1>1, <2>1, SlotsSame DEF Stopping
<1>2. ASSUME NEW c \in Call, StepBy(c) PROVE Slots'
  <2>0. \A d \in Call \ {c} : Inside(d)' <=> Inside(d)
    BY <1>2, MemoryOf DEF StepOf, Others, Inside
  <2>1. CASE SlotStays(c)
    <3>1. Inside(c)' <=> Inside(c)
      BY <2>1, PlacesAre DEF SlotStays, Comes, Stays, Walks, Loads, Begins, Finishes, Cut, Answers,
         Inside, At, Taking
    <3>2. UNCHANGED <<cap, sem>>
      BY <2>1 DEF SlotStays, Comes, Stays, Walks, Loads, Begins, Finishes, Cut, Answers, StepOf
    <3> QED
      BY <2>0, <3>1, <3>2, SlotsSame
  <2>2. CASE Enters(c)
    <3>1. ~Inside(c) /\ Inside(c)'
      BY <2>2 DEF Enters, Inside, At, Prompting
    <3>2. Insiders' = Insiders \cup {c} /\ c \notin Insiders
      BY <2>0, <3>1 DEF Insiders
    <3>3. Cardinality(Insiders') = Cardinality(Insiders) + 1
      BY <3>2, InsidersFinite, FS_AddElement
    <3> QED
      BY <1>0, <2>2, <3>3 DEF Enters, StepOf, Slots
  <2>3. CASE Leaves(c)
    <3>1. Inside(c) /\ ~Inside(c)'
      BY <2>3 DEF Leaves, Inside, At, Prompting
    <3>2. Insiders' = Insiders \ {c} /\ c \in Insiders
      BY <2>0, <3>1 DEF Insiders
    <3>3. Cardinality(Insiders') = Cardinality(Insiders) - 1
      BY <3>2, InsidersFinite, FS_RemoveElement
    <3> QED
      BY <1>0, <2>3, <3>3 DEF Leaves, StepOf, Slots
  <2> QED
    BY <1>2, <2>1, <2>2, <2>3 DEF StepBy
<1> QED
  BY <1>1, <1>2

\* With one slot there is one handler past the semaphore.
LEMMA OneInside ==
    ASSUME Slots, cap = 1, NEW c \in Call, NEW d \in Call, Inside(c), Inside(d)
    PROVE  c = d
<1>1. Cardinality(Insiders) <= 1 /\ {c} \subseteq Insiders
  BY DEF Slots, Insiders
<1>2. Cardinality({c}) = 1
  BY FS_Singleton
<1>3. Cardinality(Insiders) \in Nat /\ 1 <= Cardinality(Insiders)
  BY <1>1, <1>2, InsidersFinite, FS_Subset, FS_CardinalityType
<1>4. Cardinality(Insiders) = Cardinality({c})
  BY <1>1, <1>2, <1>3
<1>5. Insiders = {c}
  BY <1>1, <1>4, InsidersFinite, FS_Subset
<1> QED
  BY <1>5 DEF Insiders

-----------------------------------------------------------------------------
(* Where handlers and goroutines can be *)

LEMMA StepsStep ==
    ASSUME Kinds, Steps, Stopping \/ \E c \in Call : StepBy(c)
    PROVE  Steps'
<1>1. CASE Stopping
  BY <1>1 DEF Stopping, Steps, PlaceOK, At, Keeps
<1>2. ASSUME NEW c \in Call, StepBy(c) PROVE Steps'
  <2>0. gens[c] \in GenRec /\ PlaceOK(c)
    BY DEF Kinds, Steps
  <2>1. Others(c)
    BY <1>2, MemoryOf DEF StepOf
  <2>2. PlaceOK(c)'
    <3>1. CASE Comes(c) \/ Stays(c)
      BY <2>0, <3>1 DEF Comes, Stays, Keeps, PlaceOK, At
    <3>2. CASE Walks(c) \/ Loads(c)
      BY <2>0, <3>2, PlacesAre DEF Walks, Loads, Keeps, PlaceOK, At, Taking
    <3>3. CASE Enters(c) \/ Leaves(c)
      BY <2>0, <3>3 DEF Enters, Leaves, Keeps, PlaceOK, At
    <3>4. CASE Begins(c) \/ Finishes(c)
      BY <2>0, <3>4 DEF Begins, Finishes, Keeps, PlaceOK, At
    <3>5. CASE Cut(c) \/ Answers(c)
      BY <2>0, <3>5 DEF Cut, Answers, Keeps, PlaceOK, At
    <3> QED
      BY <1>2, <3>1, <3>2, <3>3, <3>4, <3>5 DEF StepBy, SlotStays
  <2> QED
    BY <2>1, <2>2 DEF Steps, Others, PlaceOK, At
<1> QED
  BY <1>1, <1>2

-----------------------------------------------------------------------------
(* The models that are used *)

\* The model that is loaded after a step, for the handlers about to take it.
LoadedFor(c) ==
    cap = 1 /\ calls[c].at \in Taking /\ loaded' # Nil => models'[loaded'].name = calls[c].name

LEMMA ClosedFor ==
    ASSUME Kinds, Refs, UNCHANGED memory \/ CloseLoaded, NEW c \in Call
    PROVE  LoadedFor(c)
<1>1. CASE UNCHANGED memory
  BY <1>1 DEF memory, LoadedFor, Refs, RefOK
<1>2. CASE CloseLoaded
  BY <1>2 DEF CloseLoaded, LoadedFor
<1> QED
  BY <1>1, <1>2

\* A handler whose record and goroutine stay as they are.
LEMMA RefStays ==
    ASSUME Kinds, UNCHANGED cap, MemoryKept, NEW c \in Call, RefOK(c), LoadedFor(c),
           calls'[c].at = calls[c].at, calls'[c].ref = calls[c].ref,
           calls'[c].name = calls[c].name, gens'[c].at = gens[c].at
    PROVE  RefOK(c)'
<1>1. Len(models) \in Nat /\ Len(models') \in Nat
  BY LenProperties DEF Kinds, MemoryKept
<1> QED
  BY <1>1 DEF MemoryKept, RefOK, LoadedFor, At, Using

LEMMA RefsStep ==
    ASSUME Kinds, Slots, Steps, Refs, Stopping \/ \E c \in Call : StepBy(c)
    PROVE  Refs'
<1>1. CASE Stopping
  <2>1. MemoryKept /\ \A d \in Call : LoadedFor(d)
    BY <1>1, MemoryClosed, ClosedFor DEF Stopping
  <2> QED
    BY <1>1, <2>1, RefStays DEF Stopping, Keeps, Refs
<1>2. ASSUME NEW c \in Call, StepBy(c) PROVE Refs'
  <2>0. PlaceOK(c) /\ RefOK(c) /\ loaded \in 0 .. Len(models) /\ Len(models) \in Nat
    BY LenProperties DEF Kinds, Steps, Refs
  <2>1. /\ StepOf(c) /\ MemoryKept /\ UNCHANGED cap
        /\ Loads(c) \/ UNCHANGED memory \/ Closes(c)
    BY <1>2, MemoryOf DEF StepOf
  <2>2. ASSUME NEW d \in Call \ {c} PROVE LoadedFor(d)
    <3>1. CASE Loads(c)
      <4>1. Inside(c)
        BY <3>1 DEF Loads, Inside, At
      <4>2. calls[d].at \in Taking => Inside(d)
        BY DEF Inside, Taking
      <4> QED
        BY <4>1, <4>2, OneInside DEF LoadedFor
    <3> QED
      BY <2>1, <3>1, ClosedFor DEF Closes
  <2>3. ASSUME NEW d \in Call \ {c} PROVE RefOK(d)'
    BY <2>1, <2>2, <2>3, RefStays DEF StepOf, Others, Refs
  <2>4. RefOK(c)'
    <3>1. CASE Comes(c) \/ Enters(c) \/ Answers(c)
      BY <2>0, <3>1, PlacesAre DEF Comes, Enters, Answers, PlaceOK, RefOK, At, Using, Taking
    <3>2. CASE Stays(c)
      <4>1. LoadedFor(c)
        BY <3>2, ClosedFor DEF Stays, Closes
      <4> QED
        BY <2>0, <2>1, <3>2, <4>1, RefStays DEF Stays, Keeps
    <3>3. CASE Walks(c)
      <4>1. ~Using(c)'
        BY <2>0, <3>3, PlacesAre DEF Walks, PlaceOK, At, Using, Taking
      <4>2. At(c, "context")' => /\ calls'[c].ref \in 1 .. Len(models')
                                 /\ cap' = 1 => models'[calls'[c].ref].name = calls'[c].name
        <5> SUFFICES ASSUME At(c, "context")'
                     PROVE  /\ calls'[c].ref \in 1 .. Len(models')
                            /\ cap' = 1 => models'[calls'[c].ref].name = calls'[c].name
          OBVIOUS
        <5>1. calls'[c].ref = loaded /\ loaded \in 1 .. Len(models) /\ At(c, "ref")
          BY <2>0, <3>3 DEF Walks, Nil
        <5>2. cap = 1 => models[loaded].name = calls[c].name
          BY <2>0, <5>1, PlacesAre DEF RefOK, At, Taking, Nil
        <5>3. Len(models') \in Nat /\ Len(models) <= Len(models')
          BY <2>1, LenProperties DEF MemoryKept
        <5> QED
          BY <2>0, <2>1, <3>3, <5>1, <5>2, <5>3 DEF MemoryKept, Walks, Keeps
      <4>3. cap' = 1 /\ (calls'[c].at \in Taking) /\ loaded' # Nil =>
                models'[loaded'].name = calls'[c].name
        <5>1. CASE UNCHANGED memory
          BY <2>0, <2>1, <3>3, <5>1 DEF memory, Walks, Keeps, RefOK, IsLoaded
        <5>2. CASE CloseLoaded
          BY <5>2 DEF CloseLoaded
        <5> QED
          BY <3>3, <5>1, <5>2 DEF Walks, Closes
      <4> QED
        BY <4>1, <4>2, <4>3 DEF RefOK
    <3>4. CASE Loads(c)
      <4>1. ~At(c, "context")' /\ ~Using(c)'
        BY <2>0, <3>4, PlacesAre DEF Loads, PlaceOK, At, Using, Taking
      <4> QED
        BY <3>4, <4>1 DEF Loads, Keeps, RefOK
    <3>5. CASE Begins(c) \/ Finishes(c) \/ Cut(c) \/ Leaves(c)
      <4>1. /\ UNCHANGED <<cap, memory>> /\ calls'[c].ref = calls[c].ref /\ calls'[c].name = calls[c].name
            /\ calls'[c].at \notin Taking \cup {"context"}
            /\ Using(c)' => At(c, "context") \/ Using(c)
        BY <2>0, <2>1, <3>5, PlacesAre
           DEF Begins, Finishes, Cut, Leaves, Keeps, PlaceOK, At, Using, Taking
      <4> QED
        BY <2>0, <4>1 DEF RefOK, memory, At
    <3> QED
      BY <1>2, <3>1, <3>2, <3>3, <3>4, <3>5 DEF StepBy, SlotStays
  <2> QED
    BY <2>3, <2>4 DEF Refs
<1> QED
  BY <1>1, <1>2

-----------------------------------------------------------------------------
(* Who will unload *)

LEMMA PendingStep ==
    ASSUME Kinds, Steps, Pending, Stopping \/ \E c \in Call : StepBy(c)
    PROVE  Pending'
<1>1. CASE Stopping
  <2>1. \A c \in Call : WillUnload(c) => WillUnload(c)'
    BY <1>1 DEF Stopping, Keeps, WillUnload, At
  <2> QED
    BY <1>1, <2>1 DEF Stopping, Pending, memory, CloseLoaded
<1>2. ASSUME NEW c \in Call, StepBy(c) PROVE Pending'
  <2>0. PlaceOK(c) /\ Others(c) /\ UNCHANGED unloadAfter
    BY <1>2, MemoryOf DEF Steps, StepOf
  <2>1. CASE Loads(c)
    <3>1. WillUnload(c)'
      BY <2>1 DEF Loads, WillUnload
    <3> QED
      BY <3>1 DEF Pending
  <2>2. CASE loaded' = Nil \/ ~unloadAfter
    BY <2>0, <2>2 DEF Pending
  <2>3. CASE ~Loads(c) /\ loaded' # Nil /\ unloadAfter
    <3>1. UNCHANGED memory
      BY <1>2, <2>3, MemoryOf DEF Closes, CloseLoaded
    <3>2. ASSUME WillUnload(c) PROVE WillUnload(c)'
      <4>1. CASE Comes(c) \/ Stays(c)
        BY <2>0, <3>2, <4>1, PlacesAre DEF Comes, Stays, Keeps, PlaceOK, WillUnload, At, Taking
      <4>2. CASE Walks(c)
        BY <2>0, <2>3, <3>2, <4>2 DEF Walks
      <4>3. CASE Enters(c) \/ Leaves(c)
        BY <2>0, <3>2, <4>3, PlacesAre DEF Enters, Leaves, Keeps, WillUnload, At, Taking
      <4>4. CASE Begins(c) \/ Finishes(c)
        BY <3>2, <4>4, PlacesAre DEF Begins, Finishes, WillUnload, At, Taking
      <4>5. CASE Cut(c) \/ Answers(c)
        BY <3>2, <4>5, PlacesAre DEF Cut, Answers, WillUnload, At, Taking
      <4> QED
        BY <1>2, <2>3, <4>1, <4>2, <4>3, <4>4, <4>5 DEF StepBy, SlotStays
    <3>3. \A d \in Call \ {c} : WillUnload(d) => WillUnload(d)'
      BY <2>0 DEF Others, WillUnload, At
    <3> QED
      BY <2>0, <3>1, <3>2, <3>3 DEF Pending, memory
  <2> QED
    BY <2>1, <2>2, <2>3
<1> QED
  BY <1>1, <1>2

-----------------------------------------------------------------------------
(* The inductive invariant *)

LEMMA TypesFrom ==
    ASSUME Kinds, Slots
    PROVE  TypeOK
<1>1. Cardinality(Insiders) \in Nat /\ Cardinality(Call) \in Nat
  BY RunnerAssumption, InsidersFinite, FS_CardinalityType
<1>2. sem \in 0 .. Cardinality(Call)
  BY <1>1, InsidersFinite DEF Slots
<1> QED
  BY <1>2 DEF Kinds, CallRec, GenRec, ModelRec, TypeOK

LEMMA KindsOf == TypeOK => Kinds
BY DEF TypeOK, Kinds, CallRec, GenRec, ModelRec

\* A process that nobody has called yet, and one that is gone.
Empty ==
    /\ cap \in Caps /\ unloadAfter \in BOOLEAN
    /\ sem = 0 /\ models = <<>> /\ loaded = Nil
    /\ calls = [c \in Call |-> NoCall] /\ gens = [c \in Call |-> NoGen]
    /\ stop \in {"no", "down"}

LEMMA EmptyInv == Empty => Kinds /\ Slots /\ Steps /\ Refs /\ Pending
<1> SUFFICES ASSUME Empty PROVE Kinds /\ Slots /\ Steps /\ Refs /\ Pending
  OBVIOUS
<1>1. models = <<>> /\ models \in Seq(ModelRec) /\ Len(models) = 0 /\ loaded = 0
  BY EmptySeq DEF Empty, Nil
<1>2. NoGen \in GenRec
  <2>1. 0 \in 0 .. MaxChunks /\ 0 \in 0 .. Buffer
    BY RunnerAssumption
  <2> QED
    BY <2>1 DEF GenRec, NoGen
<1>3. NoCall \in CallRec
  BY <1>1, PlacesAre DEF CallRec, NoCall, Nil
<1>4. Kinds
  BY <1>1, <1>2, <1>3 DEF Empty, Kinds
<1>5. Slots
  <2>1. \A c \in Call : ~Inside(c)
    BY PlacesAre DEF Empty, Inside, NoCall
  <2>2. Insiders = {}
    BY <2>1 DEF Insiders
  <2>3. cap \in Nat
    BY RunnerAssumption DEF Empty
  <2> QED
    BY <2>2, <2>3, FS_EmptySet DEF Empty, Slots
<1>6. Steps /\ Refs
  BY PlacesAre DEF Empty, Steps, PlaceOK, Refs, RefOK, Using, At, Taking, NoCall, NoGen
<1>7. Pending
  BY DEF Empty, Pending
<1> QED
  BY <1>4, <1>5, <1>6, <1>7

LEMMA InvInit == Init => IInv
<1>1. Init => Empty
  BY DEF Init, Empty
<1> QED
  BY <1>1, EmptyInv, TypesFrom DEF IInv

LEMMA InvStep == IInv /\ [Next]_vars => IInv'
<1> SUFFICES ASSUME IInv, [Next]_vars PROVE IInv'
  OBVIOUS
<1>0. Kinds /\ Slots /\ Steps /\ Refs /\ Pending
  BY KindsOf DEF IInv
<1>1. CASE Dies
  <2>1. Empty'
    BY <1>0, <1>1 DEF Dies, Empty, Kinds, config
  <2> QED
    BY <2>1, EmptyInv, TypesFrom, PTL DEF IInv
<1>2. CASE Stopping \/ \E c \in Call : StepBy(c)
  <2>1. Kinds'
    BY <1>0, <1>2, KindsStep
  <2>2. Slots' /\ Steps' /\ Refs' /\ Pending'
    BY <1>0, <1>2, <2>1, SlotsStep, StepsStep, RefsStep, PendingStep
  <2>3. TypeOK'
    BY <2>1, <2>2, TypesFrom, PTL
  <2> QED
    BY <2>2, <2>3 DEF IInv
<1>3. CASE UNCHANGED vars
  BY <1>3 DEF vars, IInv, TypeOK, Slots, Insiders, Inside, Steps, PlaceOK, Refs, RefOK, Using, At,
     Pending, WillUnload
<1> QED
  BY <1>0, <1>1, <1>2, <1>3, StepKinds DEF StepBy, SlotStays

(* The inductive invariant: the slots in use are the handlers past the
   semaphore, a goroutine works for a SendMessage that streams or has been cut
   off, a model in use with one slot is the one that was asked for, and a
   loaded model has a handler that will unload it. *)
THEOREM Inductive == Spec => []IInv
BY InvInit, InvStep, PTL DEF Spec

(* Every variable has a value of its kind, and there are never more slots in
   use than there are calls. *)
THEOREM Typing == Spec => []TypeOK
<1>1. IInv => TypeOK
  BY DEF IInv
<1> QED
  BY <1>1, Inductive, PTL

(* The semaphore of the runner process (llm-runner/server.go): the limit of
   generations holds for the calls that are served, and with one slot a call
   computes with the model it asked for, whoever unloads or loads what between
   its steps. *)
THEOREM SlotsHold == Spec => []SlotsKept
<1>1. IInv => SlotsKept
  <2> SUFFICES ASSUME IInv PROVE SlotsKept
    OBVIOUS
  <2> DEFINE served == {c \in Call : Using(c) /\ ~Orphan(c)}
  <2>1. served \subseteq Insiders
    BY DEF Insiders, Inside, Using, Orphan, At
  <2>2. /\ Cardinality(served) \in Nat /\ Cardinality(Insiders) \in Nat
        /\ Cardinality(served) <= Cardinality(Insiders)
    BY <2>1, InsidersFinite, FS_Subset, FS_CardinalityType
  <2>3. cap \in Nat
    BY RunnerAssumption, KindsOf DEF IInv, Kinds
  <2>4. cap # 0 => Cardinality(served) <= cap
    BY <2>2, <2>3 DEF IInv, Slots
  <2> HIDE DEF served
  <2>5. cap = 1 => \A c \in Call : Using(c) => models[calls[c].ref].name = calls[c].name
    BY DEF IInv, Refs, RefOK
  <2> QED
    BY <2>4, <2>5 DEF SlotsKept, served
<1> QED
  BY <1>1, Inductive, PTL

(* maybeUnloadAfterRPC and the deferred unloading of an EmbedBatch: when every
   call has ended, a runner that unloads after each has nothing loaded, unless
   a client went away before its answer was complete. *)
THEOREM NothingLeft == Spec => []NothingStays
<1>1. IInv => NothingStays
  BY PlacesAre DEF IInv, Pending, WillUnload, NothingStays, At, Taking
<1> QED
  BY <1>1, Inductive, PTL

-----------------------------------------------------------------------------
(* What frees a model in use *)

LEMMA ServedIsInside ==
    ASSUME NEW c \in Call, Using(c), ~Orphan(c)
    PROVE  Inside(c) /\ calls[c].at \in {"compute", "stream"}
BY DEF Using, Orphan, Inside, At

\* A handler that computes does not take another model.
LEMMA RefOfServed ==
    ASSUME Steps, Refs, NEW c \in Call, NEW d \in Call, StepBy(d), calls[c].at \in {"compute", "stream"},
           Using(c)'
    PROVE  calls'[c].ref = calls[c].ref
<1>1. CASE c # d
  BY <1>1, MemoryOf DEF StepBy, SlotStays, Comes, Stays, Walks, Loads, Begins, Finishes, Cut, Answers,
     Enters, Leaves, StepOf, Others
<1>2. CASE c = d
  <2>1. PlaceOK(c)
    BY DEF Steps
  <2>2. ~Walks(c)
    BY <2>1, <1>2, PlacesAre DEF Walks, Using, At, PlaceOK, Taking
  <2> QED
    BY <1>2, <2>1, <2>2 DEF StepBy, SlotStays, Comes, Stays, Loads, Begins, Finishes, Cut, Answers,
       Enters, Leaves, At, Using, PlaceOK
<1> QED
  BY <1>1, <1>2

LEMMA FreedOnlyBy ==
    ASSUME IInv, Next, NEW c \in Call, cap = 1, Using(c), ~Freed(c), Freed(c)', ~Orphan(c),
           stop' = stop
    PROVE  \E d \in Call : Named(d)
<1>0. /\ Kinds /\ Slots /\ Steps /\ Refs
      /\ Inside(c) /\ calls[c].at \in {"compute", "stream"} /\ Using(c)'
      /\ calls[c].ref \in 1 .. Len(models)
  BY KindsOf, ServedIsInside DEF IInv, Freed, Refs, RefOK
<1>1. ~Stopping
  BY DEF Stopping
<1>2. ~Dies
  BY DEF Dies, Freed, Using, At, NoCall, NoGen
<1>3. PICK d \in Call : StepBy(d)
  BY <1>0, <1>1, <1>2, StepKinds DEF StepBy, SlotStays
<1>4. calls'[c].ref = calls[c].ref
  BY <1>0, <1>3, RefOfServed
<1>5. Inside(d) => c = d
  BY <1>0, OneInside
<1>6. ~UNCHANGED memory
  BY <1>4 DEF memory, Freed
<1>7. ~Loads(d)
  <2>1. Loads(d) => Inside(d) /\ At(d, "ensure")
    BY DEF Loads, Inside, At
  <2> QED
    BY <1>0, <1>5, <2>1 DEF At
<1>8. Closes(d)
  BY <1>0, <1>3, <1>6, <1>7, MemoryOf
<1>9. calls[d].at \notin {"ensure", "unload"}
  BY <1>0, <1>5 DEF Inside
<1> QED
  BY <1>8, <1>9 DEF Closes

-----------------------------------------------------------------------------
(* Who takes the lock to close the model while a prompt is made *)

LEMMA LockedOnlyBy ==
    ASSUME IInv, Next, NEW c \in Call, cap = 1, calls[c].at \in Prompting, LockFree, ~LockFree',
           stop' # "closing"
    PROVE  \E d \in Call : Unloads(d) /\ calls'[d].locks
<1>0. /\ Kinds /\ Slots /\ Steps
      /\ Inside(c) /\ calls[c].at \notin {"ensure", "unload"}
  BY KindsOf, PlacesAre DEF IInv, Inside
<1>1. PICK d \in Call : calls'[d].locks /\ ~calls[d].locks
  BY DEF LockFree
<1>2. ~Stopping
  BY <1>1 DEF Stopping
<1>3. ~Dies
  BY <1>1 DEF Dies, NoCall
<1>4. PICK b \in Call : StepBy(b)
  BY <1>0, <1>2, <1>3, StepKinds DEF StepBy, SlotStays
<1>5. b = d
  BY <1>0, <1>1, <1>4, MemoryOf DEF StepOf, Others
<1>6. Stays(d)
  BY <1>1, <1>4, <1>5 DEF StepBy, SlotStays, Comes, Walks, Loads, Begins, Finishes, Cut, Answers,
     Enters, Leaves
<1>7. \/ calls[d].at \in {"ensure", "unload"} \/ At(d, "admin")
      \/ (At(d, "late") /\ calls[d].op = "batch")
  BY <1>1, <1>6 DEF Stays
<1>8. calls[d].at \notin {"ensure", "unload"}
  <2>1. calls[d].at \in {"ensure", "unload"} => Inside(d)
    BY DEF Inside
  <2> QED
    BY <1>0, <2>1, OneInside
<1> QED
  BY <1>1, <1>7, <1>8 DEF Unloads

(* Model.Close frees a model whoever is using it, resolveChatPrompt reads s.model
   without s.mu, and FormatChatPrompt takes the model's lock twice: with one slot,
   the model of a call that is served is freed under it, and closed while its
   prompt is made, by an Unload, by a batch that unloads after its slot, or by the
   end of the process, and by nothing else. *)
THEOREM ModelProtected == Spec => SlotProtectsModel
<1> DEFINE P == cap = 1 => \A c \in Call :
           /\ Using(c) /\ ~Freed(c) /\ Freed(c)' =>
                  \/ Orphan(c) \/ stop' # stop
                  \/ \E d \in Call : Unloads(d) /\ At(d, "done")'
           /\ calls[c].at \in Prompting /\ LockFree /\ ~LockFree' =>
                  \/ stop' = "closing"
                  \/ \E d \in Call : Unloads(d) /\ calls'[d].locks
<1>1. IInv /\ [Next]_vars => [P]_vars
  BY FreedOnlyBy, LockedOnlyBy DEF Named, Unloads
<1> HIDE DEF P
<1>2. []IInv /\ [][Next]_vars => [][P]_vars
  BY <1>1, PTL
<1>3. Spec => [][P]_vars
  BY <1>2, Inductive, PTL DEF Spec
<1> QED
  BY <1>3 DEF P, SlotProtectsModel
=============================================================================
