----------------------------- MODULE RunnerPool -----------------------------
(***************************************************************************)
(* The server's pool of LLM runners, internal/service/pool.go: one gRPC    *)
(* client and one counter of calls in flight per runner address, the calls *)
(* that use them, the administrator's calls that wait for a runner to be   *)
(* idle before they unload its model, and closeAddr, which forgets an      *)
(* address.  Three kinds of goroutine interleave here: chat calls (Req),   *)
(* administrator handlers (Admin) and requests that only inspect runners.   *)
(*                                                                         *)
(* A client and a counter are heap objects: a goroutine keeps the one it   *)
(* was given after the pool has dropped it from its map.  Objects are      *)
(* numbered per address by the times the map's entry was deleted before    *)
(* they were created, so object e of address a is still the pool's own iff *)
(* the entry is present and e is the address's current number.             *)
(*                                                                         *)
(* The probe cache of pickRunner is abstracted to its outcomes: an address *)
(* is skipped, answers or does not.                                        *)
(***************************************************************************)
EXTENDS Integers, FiniteSets

CONSTANTS
    Addr,        \* runner addresses, host:port
    Req,         \* goroutines that call SendMessage*, Embed or EmbedBatch
    Admin,       \* goroutines of RunnerHandler's administrative calls
    NoAddr,      \* the address of a goroutine that has none
    MaxCloses    \* bound: calls of closeAddr in a behaviour

ASSUME ReqAssumption == IsFiniteSet(Req)
ASSUME AddrAssumption == NoAddr \notin Addr
ASSUME ClosesAssumption == MaxCloses \in Nat

VARIABLES
    client,      \* Pool.clients has an entry for the address
    clientNo,    \* how many clients of the address have been closed
    counter,     \* Pool.inflight has an entry for the address
    counterNo,   \* how many counters of the address have been deleted
    load,        \* load[a][e]: the value of counter e of address a
    req,         \* the chat calls
    pick,        \* the pickRunner calls in progress
    adm,         \* the administrator's calls
    ahead,       \* history: calls in flight when an idle wait began
    closes       \* bound: closeAddr calls begun

poolVars == <<client, clientNo, counter, counterNo, load>>
vars == <<client, clientNo, counter, counterNo, load, req, pick, adm,
          ahead, closes>>

NoReq == [at |-> "idle", addr |-> NoAddr, cl |-> 0, ctr |-> 0]
NoPick == [round |-> 0, all |-> {}, todo |-> {}, asked |-> {}, found |-> {}]
NoAdm == [at |-> "idle", kind |-> "none", addr |-> NoAddr, ctr |-> 0,
          late |-> FALSE]

(* The states in which a call has added one to its counter and has not yet
   taken it back. *)
Counted == {"counted", "stream", "stuck"}

\* The calls that are counted by counter e of address a.
Holders(a, e) ==
    {r \in Req : req[r].at \in Counted /\ req[r].addr = a /\ req[r].ctr = e}

\* The calls that are in flight at address a, whichever counter counts them.
InFlight(a) == {r \in Req : req[r].at \in Counted /\ req[r].addr = a}

Init ==
    /\ client = [a \in Addr |-> FALSE]
    /\ clientNo = [a \in Addr |-> 0]
    /\ counter = [a \in Addr |-> FALSE]
    /\ counterNo = [a \in Addr |-> 0]
    /\ load = [a \in Addr |-> [e \in 0 .. 0 |-> 0]]
    /\ req = [r \in Req |-> NoReq]
    /\ pick = [r \in Req |-> NoPick]
    /\ adm = [u \in Admin |-> NoAdm]
    /\ ahead = [u \in Admin |-> {}]
    /\ closes = 0

-----------------------------------------------------------------------------
(* The two ways an entry comes into the pool's maps. *)

\* getOrCreateInflight: LoadOrStore, atomic by itself.
GetOrCreateInflight(a) == counter' = [counter EXCEPT ![a] = TRUE]

\* getClient: under Pool.mu; a new client also gets a counter if there is none.
GetClient(a) ==
    /\ client' = [client EXCEPT ![a] = TRUE]
    /\ counter' = [counter EXCEPT ![a] = @ \/ ~client[a]]

(* Everything else that only needs a client: ProbeLLMRunner, CheckConnection,
   GetModels, GetModelsOnRunner, WarmModelOnRunner.  None of them counts. *)
Inspect(a) ==
    /\ GetClient(a)
    /\ UNCHANGED <<clientNo, counterNo, load, req, pick, adm, ahead,
                   closes>>

-----------------------------------------------------------------------------
(* pickRunner *)

(* GetEnabledAddresses is read once: the rest works on this snapshot.  What
   the registry lists is the administrator's affair: to the pool, any set. *)
PickStart(r, listed) ==
    /\ req[r].at = "idle" /\ listed # {}
    /\ req' = [req EXCEPT ![r] = 
                    [at |-> "pick", addr |-> NoAddr, cl |-> 0, ctr |-> 0]]
    /\ pick' = [pick EXCEPT ![r] = 
                    [round |-> 1, all |-> listed, todo |-> listed,
                     asked |-> {}, found |-> {}]]
    /\ UNCHANGED <<poolVars, adm, ahead, closes>>

\* The probe cache rules the address out: backoff, or models without this one.
PickSkip(r, a) ==
    /\ req[r].at = "pick" /\ pick[r].round = 1 /\ a \in pick[r].todo
    /\ pick' = [pick EXCEPT ![r] = [@ EXCEPT !.todo = pick[r].todo \ {a}]]
    /\ UNCHANGED <<poolVars, req, adm, ahead, closes>>

\* getClient for a candidate, before it is scored or probed.
PickAsk(r, a) ==
    /\ req[r].at = "pick" /\ a \in pick[r].todo
    /\ GetClient(a)
    /\ pick' = [pick EXCEPT ![r] = [@ EXCEPT
                    !.todo = pick[r].todo \ {a},
                    !.asked = pick[r].asked \cup {<<a, clientNo[a]>>}]]
    /\ UNCHANGED <<clientNo, counterNo, load, req, adm, ahead, closes>>

\* The probe answers, or the cache does: the candidate's load is read.
PickAnswer(r, c) ==
    /\ req[r].at = "pick" /\ c \in pick[r].asked
    /\ GetOrCreateInflight(c[1])
    /\ pick' = [pick EXCEPT ![r] = [@ EXCEPT
                    !.asked = pick[r].asked \ {c},
                    !.found = pick[r].found \cup {c}]]
    /\ UNCHANGED <<client, clientNo, counterNo, load, req, adm, ahead,
                   closes>>

\* The probe fails, or the runner does not serve this model.
PickNoAnswer(r, c) ==
    /\ req[r].at = "pick" /\ c \in pick[r].asked
    /\ pick' = [pick EXCEPT ![r] = [@ EXCEPT !.asked = pick[r].asked \ {c}]]
    /\ UNCHANGED <<poolVars, req, adm, ahead, closes>>

PickRoundOver(r) ==
    req[r].at = "pick" /\ pick[r].todo = {} /\ pick[r].asked = {}

\* Nobody: the second round probes every address of the snapshot.
PickFallback(r) ==
    /\ PickRoundOver(r) /\ pick[r].found = {} /\ pick[r].round = 1
    /\ pick' = [pick EXCEPT ![r] = [@ EXCEPT !.round = 2, !.todo = pick[r].all]]
    /\ UNCHANGED <<poolVars, req, adm, ahead, closes>>

PickFails(r) ==
    /\ PickRoundOver(r) /\ pick[r].found = {} /\ pick[r].round = 2
    /\ req' = [req EXCEPT ![r] = NoReq]
    /\ pick' = [pick EXCEPT ![r] = NoPick]
    /\ UNCHANGED <<poolVars, adm, ahead, closes>>

\* The candidate of least score is returned with the client it was asked on.
PickChoose(r, c) ==
    /\ PickRoundOver(r) /\ c \in pick[r].found
    /\ req' = [req EXCEPT ![r] =
                  [at |-> "client", addr |-> c[1], cl |-> c[2], ctr |-> 0]]
    /\ pick' = [pick EXCEPT ![r] = NoPick]
    /\ UNCHANGED <<poolVars, adm, ahead, closes>>

-----------------------------------------------------------------------------
(* SendMessage, SendMessageOnRunner, their tool variants, Embed, EmbedBatch *)

\* The OnRunner variants name the address: no pick, whatever the registry says.
OnRunner(r, a) ==
    /\ req[r].at = "idle"
    /\ GetClient(a)
    /\ req' = [req EXCEPT ![r] =
                  [at |-> "client", addr |-> a, cl |-> clientNo[a], ctr |-> 0]]
    /\ UNCHANGED <<clientNo, counterNo, load, pick, adm, ahead, closes>>

FetchCounter(r) ==
    /\ req[r].at = "client"
    /\ GetOrCreateInflight(req[r].addr)
    /\ req' = [req EXCEPT ![r] = [@ EXCEPT
                    !.at = "fetched", !.ctr = counterNo[req[r].addr]]]
    /\ UNCHANGED <<client, clientNo, counterNo, load, pick, adm, ahead,
                   closes>>

\* ai.Add(1), on the counter fetched before.
Add(r) ==
    /\ req[r].at = "fetched"
    /\ load' = [load EXCEPT ![req[r].addr][req[r].ctr] = @ + 1]
    /\ req' = [req EXCEPT ![r] = [@ EXCEPT !.at = "counted"]]
    /\ UNCHANGED <<client, clientNo, counter, counterNo, pick, adm,
                   ahead, closes>>

(* Mutant: the forwarder counts the stream a second time. *)
OpenCountsAgain(r) ==
    /\ req[r].at = "counted" /\ req[r].cl = clientNo[req[r].addr]
    /\ load' = [load EXCEPT ![req[r].addr][req[r].ctr] = @ + 1]
    /\ req' = [req EXCEPT ![r] = [@ EXCEPT !.at = "stream"]]
    /\ UNCHANGED <<client, clientNo, counter, counterNo, pick, adm, ahead,
                   closes>>

\* The runner's first chunk arrives; forwardStream owns the counter from here.
Open(r) ==
    /\ req[r].at = "counted" /\ req[r].cl = clientNo[req[r].addr]
    /\ req' = [req EXCEPT ![r] = [@ EXCEPT !.at = "stream"]]
    /\ UNCHANGED <<poolVars, pick, adm, ahead, closes>>

(* Mutant: the counter is looked up again when the call ends. *)
ReleaseCurrent(r) ==
    LET a == req[r].addr
    IN  /\ req[r].at \in {"counted", "stream"}
        /\ GetOrCreateInflight(a)
        /\ load' = [load EXCEPT ![a][counterNo[a]] = @ - 1]
        /\ req' = [req EXCEPT ![r] = NoReq]
        /\ ahead' = [u \in Admin |-> ahead[u] \ {r}]
        /\ UNCHANGED <<client, clientNo, counterNo, pick, adm, closes>>

(* Mutant: the error path forgets ai.Add(-1). *)
ReleaseStreamOnly(r) ==
    /\ req[r].at = "stream"
    /\ load' = [load EXCEPT ![req[r].addr][req[r].ctr] = @ - 1]
    /\ req' = [req EXCEPT ![r] = NoReq]
    /\ ahead' = [u \in Admin |-> ahead[u] \ {r}]
    /\ UNCHANGED <<client, clientNo, counter, counterNo, pick, adm, closes>>

(* ai.Add(-1): the call failed, or was unary and returned, or the stream's
   last chunk has been forwarded. *)
Release(r) ==
    /\ req[r].at \in {"counted", "stream"}
    /\ load' = [load EXCEPT ![req[r].addr][req[r].ctr] = @ - 1]
    /\ req' = [req EXCEPT ![r] = NoReq]
    /\ ahead' = [u \in Admin |-> ahead[u] \ {r}]
    /\ UNCHANGED <<client, clientNo, counter, counterNo, pick, adm,
                   closes>>

(* The forwarder's send has no way out: with its buffer full and its reader
   gone it never returns (RunnerStream says when). *)
Stall(r) ==
    /\ req[r].at = "stream"
    /\ req' = [req EXCEPT ![r] = [@ EXCEPT !.at = "stuck"]]
    /\ UNCHANGED <<poolVars, pick, adm, ahead, closes>>

-----------------------------------------------------------------------------
(* UnloadModelOnRunner, ResetMemoryOnRunner, closeAddr *)

(* WaitRunnerIdle captures the counter once.  The bound on closeAddr is taken
   where a call that ends in one begins. *)
WaitStart(u, a, kind) ==
    /\ adm[u].at = "idle"
    /\ kind \in {"unload", "reset"}
    /\ kind = "reset" => closes < MaxCloses
    /\ GetOrCreateInflight(a)
    /\ adm' = [adm EXCEPT ![u] = [at |-> "wait", kind |-> kind, addr |-> a,
                                  ctr |-> counterNo[a], late |-> FALSE]]
    /\ ahead' = [ahead EXCEPT ![u] = InFlight(a)]
    /\ closes' = IF kind = "reset" THEN closes + 1 ELSE closes
    /\ UNCHANGED <<client, clientNo, counterNo, load, req, pick>>

(* Mutant: one call may be left. *)
WaitIdleButOne(u) ==
    /\ adm[u].at = "wait" /\ load[adm[u].addr][adm[u].ctr] <= 1
    /\ adm' = [adm EXCEPT ![u] = [@ EXCEPT !.at = "ready"]]
    /\ UNCHANGED <<poolVars, req, pick, ahead, closes>>

WaitIdle(u) ==
    /\ adm[u].at = "wait" /\ load[adm[u].addr][adm[u].ctr] = 0
    /\ adm' = [adm EXCEPT ![u] = [@ EXCEPT !.at = "ready"]]
    /\ UNCHANGED <<poolVars, req, pick, ahead, closes>>

\* Two minutes are over, or the caller left: the result is ignored.
WaitTimeout(u) ==
    /\ adm[u].at = "wait"
    /\ adm' = [adm EXCEPT ![u] = [@ EXCEPT !.at = "ready",
                                                !.late = TRUE]]
    /\ UNCHANGED <<poolVars, req, pick, ahead, closes>>

\* getClient, then the UnloadModel or ResetMemory call is on its way.
SendUnload(u) ==
    /\ adm[u].at = "ready"
    /\ GetClient(adm[u].addr)
    /\ adm' = [adm EXCEPT ![u] = [@ EXCEPT !.at = "rpc"]]
    /\ UNCHANGED <<clientNo, counterNo, load, req, pick, ahead, closes>>

\* RunnerResetMemory closes the address whatever the runner answered.
Return(u) ==
    /\ adm[u].at = "rpc"
    /\ adm' = [adm EXCEPT ![u] =
                  IF adm[u].kind = "reset" THEN [@ EXCEPT !.at = "close"] ELSE NoAdm]
    /\ ahead' = [ahead EXCEPT ![u] = {}]
    /\ UNCHANGED <<poolVars, req, pick, closes>>

\* UpdateRunner and DeleteRunner call CloseAddr without waiting for anything.
CloseStart(u, a) ==
    /\ adm[u].at = "idle" /\ closes < MaxCloses
    /\ adm' = [adm EXCEPT ![u] = 
                    [at |-> "close", kind |-> "close", addr |-> a, ctr |-> 0,
                     late |-> FALSE]]
    /\ closes' = closes + 1
    /\ UNCHANGED <<poolVars, req, pick, ahead>>

\* closeAddr, first critical section: under Pool.mu.
CloseClient(u) ==
    LET a == adm[u].addr
    IN  /\ adm[u].at = "close"
        /\ client' = [client EXCEPT ![a] = FALSE]
        /\ clientNo' = [clientNo EXCEPT ![a] = IF client[a] THEN @ + 1 ELSE @]
        /\ adm' = [adm EXCEPT ![u] = [@ EXCEPT !.at = "drop"]]
        /\ UNCHANGED <<counter, counterNo, load, req, pick, ahead,
                       closes>>

\* Second: inflight.Delete.  Calls that hold the counter keep it.
DropCounter(u) ==
    LET a == adm[u].addr
        next == counterNo[a] + 1
    IN  /\ adm[u].at = "drop"
        /\ counter' = [counter EXCEPT ![a] = FALSE]
        /\ IF counter[a]
           THEN /\ counterNo' = [counterNo EXCEPT ![a] = next]
                /\ load' = [load EXCEPT ![a] =
                      [e \in 0 .. next |-> IF e = next THEN 0 ELSE @[e]]]
           ELSE UNCHANGED <<counterNo, load>>
        /\ adm' = [adm EXCEPT ![u] = NoAdm]
        /\ UNCHANGED <<client, clientNo, req, pick, ahead, closes>>

-----------------------------------------------------------------------------
Pick(r) ==
    \/ \E listed \in SUBSET Addr : PickStart(r, listed)
    \/ \E a \in Addr : PickSkip(r, a) \/ PickAsk(r, a)
    \/ \E c \in pick[r].asked : PickAnswer(r, c) \/ PickNoAnswer(r, c)
    \/ PickFallback(r)
    \/ PickFails(r)
    \/ \E c \in pick[r].found : PickChoose(r, c)

Chat(r) ==
    \/ \E a \in Addr : OnRunner(r, a)
    \/ FetchCounter(r)
    \/ Add(r)
    \/ Open(r)
    \/ Release(r)
    \/ Stall(r)

Administer(u) ==
    \/ \E a \in Addr, kind \in {"unload", "reset"} : WaitStart(u, a, kind)
    \/ WaitIdle(u)
    \/ WaitTimeout(u)
    \/ SendUnload(u)
    \/ Return(u)
    \/ \E a \in Addr : CloseStart(u, a)
    \/ CloseClient(u)
    \/ DropCounter(u)

Next ==
    \/ \E a \in Addr : Inspect(a)
    \/ \E r \in Req : Pick(r) \/ Chat(r)
    \/ \E u \in Admin : Administer(u)

Spec == Init /\ [][Next]_vars

(* What the Go scheduler, the probe's three seconds, the runner and the wait's
   two minutes guarantee: a pick in progress goes on, a call that is counted
   ends or is stuck, a wait times out, and handlers run to their end. *)
Fairness ==
    /\ \A r \in Req :
          /\ WF_vars(Pick(r) /\ req[r].at = "pick")
          /\ WF_vars(FetchCounter(r))
          /\ WF_vars(Add(r))
          /\ WF_vars(Release(r))
    /\ \A u \in Admin :
          /\ WF_vars(WaitTimeout(u))
          /\ WF_vars(SendUnload(u) \/ Return(u))
          /\ WF_vars(CloseClient(u) \/ DropCounter(u))

FairSpec == Spec /\ Fairness

-----------------------------------------------------------------------------
(* Properties *)

ReqState ==
    [at : {"idle", "pick", "client", "fetched"} \cup Counted,
     addr : Addr \cup {NoAddr}, cl : Nat, ctr : Nat]

PickState ==
    [round : 0 .. 2, all : SUBSET Addr, todo : SUBSET Addr,
     asked : SUBSET (Addr \X Nat), found : SUBSET (Addr \X Nat)]

AdmState ==
    [at : {"idle", "wait", "ready", "rpc", "close", "drop"},
     kind : {"none", "unload", "reset", "close"},
     addr : Addr \cup {NoAddr}, ctr : Nat, late : BOOLEAN]

(* What a goroutine that works for an address may hold: that address, and a
   client and a counter the pool has made. *)
ReqHolds(v) ==
    /\ v.at \notin {"idle", "pick"} => v.addr \in Addr /\ v.cl <= clientNo[v.addr]
    /\ v.at \in {"fetched"} \cup Counted => v.ctr <= counterNo[v.addr]
PickHolds(v) ==
    \A c \in v.asked \cup v.found : c[2] <= clientNo[c[1]]
AdmHolds(v) ==
    v.at # "idle" => v.addr \in Addr /\ v.ctr <= counterNo[v.addr]

PoolOK ==
    /\ client \in [Addr -> BOOLEAN] /\ counter \in [Addr -> BOOLEAN]
    /\ clientNo \in [Addr -> Nat] /\ counterNo \in [Addr -> Nat]
    /\ DOMAIN load = Addr
    /\ \A a \in Addr : load[a] \in [0 .. counterNo[a] -> Int]
ReqOK == req \in [Req -> ReqState] /\ \A r \in Req : ReqHolds(req[r])
PickOK == pick \in [Req -> PickState] /\ \A r \in Req : PickHolds(pick[r])
AdmOK == adm \in [Admin -> AdmState] /\ \A u \in Admin : AdmHolds(adm[u])
BookOK == ahead \in [Admin -> SUBSET Req] /\ closes \in Nat

(* The state is what the code can hold; in particular a goroutine only ever
   holds clients and counters that the pool has made. *)
TypeOK == PoolOK /\ ReqOK /\ PickOK /\ AdmOK /\ BookOK

(* Every counter, also one the pool has forgotten, is the number of calls that
   added to it and have not taken it back: a call releases the counter it
   counted on, once, whatever closeAddr did in between. *)
LoadIsHolders ==
    \A a \in Addr : \A e \in 0 .. counterNo[a] :
        load[a][e] = Cardinality(Holders(a, e))

(* An unload or reset that did not time out was sent after every call that was
   in flight at that runner when the wait began, but for those that count on a
   counter which closeAddr had dropped before the wait captured its own. *)
UnloadWaited ==
    \A u \in Admin :
        adm[u].at \in {"ready", "rpc"} /\ ~adm[u].late =>
            \A r \in ahead[u] : req[r].ctr < adm[u].ctr

(* The calls a wait remembers are in flight at its address, counted no later
   than it.  With the three above, inductive. *)
AheadInFlight ==
    \A u \in Admin : \A r \in ahead[u] :
        /\ adm[u].at \in {"wait", "ready", "rpc"}
        /\ r \in InFlight(adm[u].addr)
        /\ req[r].ctr <= adm[u].ctr

(* A counter that closeAddr has dropped is never handed out again: once the
   calls that had fetched it have added to it, it only goes down. *)
ForgottenOnlyDrains ==
    [][\A a \in Addr : \A e \in 0 .. (counterNo[a] - 1) :
          (\A r \in Req : ~(/\ req[r].at = "fetched"
                            /\ req[r].addr = a /\ req[r].ctr = e))
             => load'[a][e] <= load[a][e]]_vars

(* A call that has fetched a counter gives back what it added, unless its
   forwarder is stuck on a reader that has left; and an administrator's call
   ends even then, while the counter it waits for never reaches zero. *)
EverybodyEnds ==
    /\ \A r \in Req : req[r].at \in {"fetched", "counted", "stream"} ~>
                      req[r].at \in {"idle", "stuck"}
    /\ \A u \in Admin : adm[u].at # "idle" ~> adm[u].at = "idle"
=============================================================================
