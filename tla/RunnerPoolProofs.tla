-------------------------- MODULE RunnerPoolProofs --------------------------
(***************************************************************************)
(* Proofs about the server's runners.  First RunnerPool, for any sets of   *)
(* addresses, calls and administrators and any number of closeAddr calls;  *)
(* then RunnerRegistry, for any sets of addresses, administrators' calls   *)
(* and requests and any bounds: its table for any number of server         *)
(* processes, the freshness of a registry for one.                         *)
(***************************************************************************)
EXTENDS RunnerPool, RunnerRegistry, FiniteSetTheorems, TLAPS

-----------------------------------------------------------------------------
(* Type correctness.  Numbers of objects only grow, so what a goroutine holds
   keeps existing; the first lemmas say so for each kind of goroutine. *)

NumbersGrow ==
    /\ clientNo' \in [Addr -> Nat] /\ counterNo' \in [Addr -> Nat]
    /\ \A a \in Addr :
          clientNo[a] <= clientNo'[a] /\ counterNo[a] <= counterNo'[a]

LEMMA ReqKept ==
    ASSUME PoolOK, ReqOK, NumbersGrow, req' = req
    PROVE  ReqOK'
BY DEF PoolOK, ReqOK, ReqHolds, NumbersGrow, ReqState, Counted

LEMMA ReqSet ==
    ASSUME PoolOK, ReqOK, NumbersGrow, NEW r \in Req, NEW v \in ReqState,
           req' = [req EXCEPT ![r] = v], ReqHolds(v)'
    PROVE  ReqOK'
<1>1. req' \in [Req -> ReqState]
  BY DEF ReqOK
<1>2. ASSUME NEW q \in Req PROVE ReqHolds(req[q])'
  <2>1. CASE q = r
    BY <2>1 DEF ReqOK
  <2>2. CASE q # r
    <3>1. req'[q] = req[q]
      BY <2>2 DEF ReqOK
    <3>2. req[q] \in ReqState /\ ReqHolds(req[q])
      BY DEF ReqOK
    <3> QED
      BY <3>1, <3>2 DEF PoolOK, ReqHolds, NumbersGrow, ReqState, Counted
  <2> QED
    BY <2>1, <2>2
<1> QED
  BY <1>1, <1>2 DEF ReqOK

LEMMA PickKept ==
    ASSUME PoolOK, PickOK, NumbersGrow, pick' = pick
    PROVE  PickOK'
<1>1. ASSUME NEW q \in Req, NEW c \in pick[q].asked \cup pick[q].found
      PROVE  c[2] <= clientNo'[c[1]]
  <2>1. c \in Addr \X Nat
    BY DEF PickOK, PickState
  <2>2. c[2] <= clientNo[c[1]] /\ c[1] \in Addr /\ c[2] \in Nat
    BY <2>1 DEF PickOK, PickHolds
  <2> QED
    BY <2>2 DEF PoolOK, NumbersGrow
<1> QED
  BY <1>1 DEF PickOK, PickHolds

LEMMA PickSet ==
    ASSUME PoolOK, PickOK, NumbersGrow, NEW r \in Req, NEW v \in PickState,
           pick' = [pick EXCEPT ![r] = v], PickHolds(v)'
    PROVE  PickOK'
<1>1. pick' \in [Req -> PickState]
  BY DEF PickOK
<1>2. ASSUME NEW q \in Req PROVE PickHolds(pick[q])'
  <2>1. CASE q = r
    BY <2>1 DEF PickOK
  <2>2. CASE q # r
    <3>1. pick'[q] = pick[q]
      BY <2>2 DEF PickOK
    <3>2. ASSUME NEW c \in pick[q].asked \cup pick[q].found
          PROVE  c[2] <= clientNo'[c[1]]
      <4>1. c \in Addr \X Nat
        BY DEF PickOK, PickState
      <4>2. c[2] <= clientNo[c[1]] /\ c[1] \in Addr /\ c[2] \in Nat
        BY <4>1 DEF PickOK, PickHolds
      <4> QED
        BY <4>2 DEF PoolOK, NumbersGrow
    <3> QED
      BY <3>1, <3>2 DEF PickHolds
  <2> QED
    BY <2>1, <2>2
<1> QED
  BY <1>1, <1>2 DEF PickOK

LEMMA AdmKept ==
    ASSUME PoolOK, AdmOK, NumbersGrow, adm' = adm
    PROVE  AdmOK'
BY DEF PoolOK, AdmOK, AdmHolds, NumbersGrow, AdmState

LEMMA AdmSet ==
    ASSUME PoolOK, AdmOK, NumbersGrow, NEW u \in Admin, NEW v \in AdmState,
           adm' = [adm EXCEPT ![u] = v], AdmHolds(v)'
    PROVE  AdmOK'
<1>1. adm' \in [Admin -> AdmState]
  BY DEF AdmOK
<1>2. ASSUME NEW q \in Admin PROVE AdmHolds(adm[q])'
  <2>1. CASE q = u
    BY <2>1 DEF AdmOK
  <2>2. CASE q # u
    <3>1. adm'[q] = adm[q]
      BY <2>2 DEF AdmOK
    <3>2. adm[q] \in AdmState /\ AdmHolds(adm[q])
      BY DEF AdmOK
    <3> QED
      BY <3>1, <3>2 DEF PoolOK, AdmHolds, NumbersGrow, AdmState
  <2> QED
    BY <2>1, <2>2
<1> QED
  BY <1>1, <1>2 DEF AdmOK

\* getClient and getOrCreateInflight leave the numbers of objects alone.
LEMMA EntriesOnly ==
    ASSUME PoolOK, client' \in [Addr -> BOOLEAN], counter' \in [Addr -> BOOLEAN],
           UNCHANGED <<clientNo, counterNo, load>>
    PROVE  PoolOK' /\ NumbersGrow
BY DEF PoolOK, NumbersGrow

LEMMA GetClientEntries ==
    ASSUME PoolOK, NEW a \in Addr, GetClient(a)
    PROVE  client' \in [Addr -> BOOLEAN] /\ counter' \in [Addr -> BOOLEAN]
BY DEF PoolOK, GetClient

LEMMA GetCounterEntries ==
    ASSUME PoolOK, NEW a \in Addr, GetOrCreateInflight(a), client' = client
    PROVE  client' \in [Addr -> BOOLEAN] /\ counter' \in [Addr -> BOOLEAN]
BY DEF PoolOK, GetOrCreateInflight

LEMMA TypeInit == Init => TypeOK
<1> SUFFICES ASSUME Init PROVE TypeOK
  OBVIOUS
<1> USE DEF Init
<1>1. PoolOK
  BY DEF PoolOK
<1>2. ReqOK
  BY DEF ReqOK, ReqState, ReqHolds, NoReq, Counted
<1>3. PickOK
  BY DEF PickOK, PickState, PickHolds, NoPick
<1>4. AdmOK
  BY DEF AdmOK, AdmState, AdmHolds, NoAdm
<1>5. BookOK
  BY DEF BookOK
<1> QED
  BY <1>1, <1>2, <1>3, <1>4, <1>5 DEF TypeOK

LEMMA PickTypeStep ==
    ASSUME TypeOK, NEW r \in Req, Pick(r)
    PROVE  TypeOK'
<1> USE DEF TypeOK
<1>0. UNCHANGED <<clientNo, counterNo, load, adm, ahead, closes>>
  BY DEF Pick, PickStart, PickSkip, PickAsk, PickAnswer, PickNoAnswer, PickFallback,
         PickFails, PickChoose, poolVars
<1>1. NumbersGrow /\ BookOK'
  BY <1>0 DEF PoolOK, BookOK, NumbersGrow
<1>2. AdmOK'
  BY <1>0, <1>1, AdmKept
<1>3. pick[r] \in PickState /\ PickHolds(pick[r]) /\ req[r] \in ReqState
  BY DEF PickOK, ReqOK
<1>4. ASSUME NEW listed \in SUBSET Addr, PickStart(r, listed) PROVE TypeOK'
  <2>1. PoolOK'
    BY <1>4 DEF PickStart, poolVars, PoolOK
  <2> DEFINE v == [round |-> 1, all |-> listed, todo |-> listed,
                   asked |-> {}, found |-> {}]
             w == [at |-> "pick", addr |-> NoAddr, cl |-> 0, ctr |-> 0]
  <2>2. pick' = [pick EXCEPT ![r] = v] /\ req' = [req EXCEPT ![r] = w]
    BY <1>4 DEF PickStart
  <2>3. v \in PickState /\ PickHolds(v)'
    BY DEF NoPick, PickState, PickHolds
  <2>4. w \in ReqState /\ ReqHolds(w)'
    BY DEF NoReq, ReqState, ReqHolds, Counted
  <2> HIDE DEF v, w
  <2> QED
    BY <1>1, <1>2, <2>1, <2>2, <2>3, <2>4, PickSet, ReqSet
<1>5. ASSUME NEW a \in Addr, PickSkip(r, a) PROVE TypeOK'
  <2>1. PoolOK' /\ ReqOK'
    BY <1>1, <1>5, ReqKept DEF PickSkip, poolVars, PoolOK
  <2>. PICK v : v = [pick[r] EXCEPT !.todo = pick[r].todo \ {a}]
    OBVIOUS
  <2>2. pick' = [pick EXCEPT ![r] = v]
    BY <1>5 DEF PickSkip, PickOK
  <2>3. v \in PickState /\ PickHolds(v)'
    BY <1>3, <1>5 DEF PickState, PickHolds, PickSkip, poolVars
  <2> QED
    BY <1>1, <1>2, <2>1, <2>2, <2>3, PickSet
<1>6. ASSUME NEW a \in Addr, PickAsk(r, a) PROVE TypeOK'
  <2>1. PoolOK'
    BY <1>6, GetClientEntries, EntriesOnly DEF PickAsk
  <2>2. ReqOK'
    BY <1>1, <1>6, ReqKept DEF PickAsk
  <2>. PICK v : v = [pick[r] EXCEPT !.todo = pick[r].todo \ {a},
                                  !.asked = pick[r].asked \cup {<<a, clientNo[a]>>}]
    OBVIOUS
  <2>3. pick' = [pick EXCEPT ![r] = v]
    BY <1>6 DEF PickAsk, PickOK
  <2>4. clientNo' = clientNo /\ clientNo[a] \in Nat
    BY <1>6 DEF PickAsk, PoolOK
  <2>5. v \in PickState
    <3>1. pick[r].asked \cup {<<a, clientNo[a]>>} \in SUBSET (Addr \X Nat)
      BY <1>3, <2>4 DEF PickState
    <3>2. pick[r].todo \ {a} \in SUBSET Addr
      BY <1>3 DEF PickState
    <3> QED
      BY <1>3, <3>1, <3>2 DEF PickState
  <2>6. v.asked = pick[r].asked \cup {<<a, clientNo[a]>>} /\ v.found = pick[r].found
    BY <1>3 DEF PickState
  <2>7. ASSUME NEW c \in v.asked \cup v.found PROVE c[2] <= clientNo'[c[1]]
    <3>1. CASE c = <<a, clientNo[a]>>
      BY <2>4, <3>1
    <3>2. CASE c \in pick[r].asked \cup pick[r].found
      BY <1>3, <2>4, <3>2 DEF PickHolds
    <3> QED
      BY <2>6, <2>7, <3>1, <3>2
  <2>8. PickHolds(v)'
    BY <2>7 DEF PickHolds
  <2> QED
    BY <1>1, <1>2, <2>1, <2>2, <2>3, <2>5, <2>8, PickSet
<1>7. ASSUME NEW c \in pick[r].asked, PickAnswer(r, c) PROVE TypeOK'
  <2>1. c[1] \in Addr
    BY <1>3 DEF PickState
  <2>2. PoolOK'
    BY <1>7, <2>1, GetCounterEntries, EntriesOnly DEF PickAnswer
  <2>3. ReqOK'
    BY <1>1, <1>7, ReqKept DEF PickAnswer
  <2>. PICK v : v = [pick[r] EXCEPT !.asked = pick[r].asked \ {c}, !.found = pick[r].found \cup {c}]
    OBVIOUS
  <2>4. pick' = [pick EXCEPT ![r] = v]
    BY <1>7 DEF PickAnswer, PickOK
  <2>5. v \in PickState
    BY <1>3 DEF PickState
  <2>6. PickHolds(v)'
    BY <1>3, <1>7 DEF PickState, PickHolds, PickAnswer
  <2> QED
    BY <1>1, <1>2, <2>2, <2>3, <2>4, <2>5, <2>6, PickSet
<1>8. ASSUME NEW c \in pick[r].asked, PickNoAnswer(r, c) PROVE TypeOK'
  <2>1. PoolOK' /\ ReqOK'
    BY <1>1, <1>8, ReqKept DEF PickNoAnswer, poolVars, PoolOK
  <2>. PICK v : v = [pick[r] EXCEPT !.asked = pick[r].asked \ {c}]
    OBVIOUS
  <2>2. pick' = [pick EXCEPT ![r] = v]
    BY <1>8 DEF PickNoAnswer, PickOK
  <2>3. v \in PickState /\ PickHolds(v)'
    BY <1>3, <1>8 DEF PickState, PickHolds, PickNoAnswer, poolVars
  <2> QED
    BY <1>1, <1>2, <2>1, <2>2, <2>3, PickSet
<1>9. ASSUME PickFallback(r) PROVE TypeOK'
  <2>1. PoolOK' /\ ReqOK'
    BY <1>1, <1>9, ReqKept DEF PickFallback, poolVars, PoolOK
  <2>. PICK v : v = [pick[r] EXCEPT !.round = 2, !.todo = pick[r].all]
    OBVIOUS
  <2>2. pick' = [pick EXCEPT ![r] = v]
    BY <1>9 DEF PickFallback, PickOK
  <2>3. v \in PickState /\ v.asked = pick[r].asked /\ v.found = pick[r].found
    <3>1. v = [round |-> 2, all |-> pick[r].all, todo |-> pick[r].all,
               asked |-> pick[r].asked, found |-> pick[r].found]
      BY <1>3 DEF PickState
    <3>2. /\ pick[r].all \in SUBSET Addr
          /\ pick[r].asked \in SUBSET (Addr \X Nat)
          /\ pick[r].found \in SUBSET (Addr \X Nat)
      BY <1>3 DEF PickState
    <3>3. v.asked = pick[r].asked /\ v.found = pick[r].found
      BY <3>1
    <3>4. v \in PickState
      <4>1. 2 \in 0 .. 2
        OBVIOUS
      <4> QED
        BY <3>1, <3>2, <4>1, Zenon DEF PickState
    <3> QED
      BY <3>3, <3>4
  <2>4. PickHolds(v)'
    <3>1. \A c \in pick[r].asked \cup pick[r].found : c[2] <= clientNo[c[1]]
      BY <1>3 DEF PickHolds
    <3>2. clientNo' = clientNo
      BY <1>0
    <3>3. \A c \in v.asked \cup v.found : c[2] <= clientNo'[c[1]]
      BY <2>3, <3>1, <3>2
    <3> QED
      BY <3>3 DEF PickHolds
  <2> QED
    BY <1>1, <1>2, <2>1, <2>2, <2>3, <2>4, PickSet
<1>10. ASSUME PickFails(r) PROVE TypeOK'
  <2>1. PoolOK' /\ clientNo' = clientNo
    BY <1>10 DEF PickFails, poolVars, PoolOK
  <2>2. pick' = [pick EXCEPT ![r] = NoPick] /\ req' = [req EXCEPT ![r] = NoReq]
    BY <1>10 DEF PickFails
  <2>3. NoPick \in PickState /\ PickHolds(NoPick)'
    BY DEF NoPick, PickState, PickHolds
  <2>4. NoReq \in ReqState /\ ReqHolds(NoReq)'
    BY DEF NoReq, ReqState, ReqHolds, Counted
  <2> QED
    BY <1>1, <1>2, <2>1, <2>2, <2>3, <2>4, PickSet, ReqSet
<1>11. ASSUME NEW c \in pick[r].found, PickChoose(r, c) PROVE TypeOK'
  <2>1. PoolOK' /\ clientNo' = clientNo
    BY <1>11 DEF PickChoose, poolVars, PoolOK
  <2>. PICK w : w = [at |-> "client", addr |-> c[1], cl |-> c[2], ctr |-> 0]
    OBVIOUS
  <2>2. pick' = [pick EXCEPT ![r] = NoPick] /\ req' = [req EXCEPT ![r] = w]
    BY <1>11 DEF PickChoose
  <2>3. NoPick \in PickState /\ PickHolds(NoPick)'
    BY DEF NoPick, PickState, PickHolds
  <2>4. c[1] \in Addr /\ c[2] \in Nat /\ c[2] <= clientNo[c[1]]
    BY <1>3 DEF PickState, PickHolds
  <2>5. w \in ReqState /\ ReqHolds(w)'
    BY <2>1, <2>4 DEF ReqState, ReqHolds, Counted
  <2> QED
    BY <1>1, <1>2, <2>1, <2>2, <2>3, <2>5, PickSet, ReqSet
<1> QED
  BY <1>4, <1>5, <1>6, <1>7, <1>8, <1>9, <1>10, <1>11 DEF Pick

LEMMA ChatTypeStep ==
    ASSUME TypeOK, NEW r \in Req, Chat(r)
    PROVE  TypeOK'
<1> USE DEF TypeOK
<1>1. UNCHANGED <<clientNo, counterNo, pick, adm, closes>>
  BY DEF Chat, OnRunner, FetchCounter, Add, Open, Release, Stall, poolVars
<1>2. NumbersGrow
  BY <1>1 DEF PoolOK, NumbersGrow
<1>3. PickOK' /\ AdmOK'
  BY <1>1, <1>2, PickKept, AdmKept
<1>4. req[r] \in ReqState /\ ReqHolds(req[r])
  BY DEF ReqOK
<1>5. ASSUME NEW a \in Addr, OnRunner(r, a) PROVE TypeOK'
  <2>1. PoolOK' /\ BookOK'
    BY <1>5, GetClientEntries, EntriesOnly DEF OnRunner, BookOK
  <2>. PICK v : v = [at |-> "client", addr |-> a, cl |-> clientNo[a], ctr |-> 0]
    OBVIOUS
  <2>2. req' = [req EXCEPT ![r] = v]
    BY <1>5 DEF OnRunner
  <2>3. clientNo[a] \in Nat
    BY DEF PoolOK
  <2>4. v \in ReqState /\ v.at = "client" /\ v.addr = a /\ v.cl = clientNo[a]
    BY <2>3 DEF ReqState
  <2>5. ReqHolds(v)'
    BY <1>1, <2>3, <2>4 DEF ReqHolds, Counted
  <2> QED
    BY <1>2, <1>3, <2>1, <2>2, <2>4, <2>5, ReqSet
<1>6. ASSUME FetchCounter(r) PROVE TypeOK'
  <2>1. req[r].addr \in Addr /\ req[r].cl <= clientNo[req[r].addr]
    BY <1>4, <1>6 DEF FetchCounter, ReqHolds
  <2>2. PoolOK' /\ BookOK'
    BY <1>6, <2>1, GetCounterEntries, EntriesOnly DEF FetchCounter, BookOK
  <2>. PICK v : v = [req[r] EXCEPT !.at = "fetched", !.ctr = counterNo[req[r].addr]]
    OBVIOUS
  <2>3. req' = [req EXCEPT ![r] = v]
    BY <1>6 DEF FetchCounter, ReqOK
  <2>4. counterNo[req[r].addr] \in Nat
    BY <2>1 DEF PoolOK
  <2>5. /\ v \in ReqState /\ v.addr = req[r].addr /\ v.cl = req[r].cl
        /\ v.ctr = counterNo[req[r].addr]
    BY <1>4, <2>4 DEF ReqState
  <2>6. ReqHolds(v)'
    BY <1>1, <2>1, <2>4, <2>5 DEF ReqHolds
  <2> QED
    BY <1>2, <1>3, <2>2, <2>3, <2>5, <2>6, ReqSet
<1>7. ASSUME Add(r) PROVE TypeOK'
  <2>1. /\ req[r].addr \in Addr /\ req[r].cl <= clientNo[req[r].addr]
        /\ req[r].ctr \in 0 .. counterNo[req[r].addr]
    BY <1>4, <1>7 DEF Add, ReqHolds, ReqState, PoolOK
  <2>2. PoolOK' /\ BookOK'
    BY <1>7, <2>1 DEF Add, BookOK, PoolOK
  <2>. PICK v : v = [req[r] EXCEPT !.at = "counted"]
    OBVIOUS
  <2>3. req' = [req EXCEPT ![r] = v]
    BY <1>7 DEF Add, ReqOK
  <2>4. v \in ReqState /\ v.addr = req[r].addr /\ v.cl = req[r].cl /\ v.ctr = req[r].ctr
    BY <1>4 DEF ReqState, Counted
  <2>5. ReqHolds(v)'
    BY <1>1, <2>1, <2>4 DEF ReqHolds
  <2> QED
    BY <1>2, <1>3, <2>2, <2>3, <2>4, <2>5, ReqSet
<1>8. ASSUME Open(r) \/ Stall(r) PROVE TypeOK'
  <2>1. /\ req[r].addr \in Addr /\ req[r].cl <= clientNo[req[r].addr]
        /\ req[r].ctr <= counterNo[req[r].addr]
    BY <1>4, <1>8 DEF Open, Stall, ReqHolds, Counted
  <2>2. PoolOK' /\ BookOK'
    BY <1>8 DEF Open, Stall, poolVars, BookOK, PoolOK
  <2>3. PICK v : /\ v \in {[req[r] EXCEPT !.at = "stream"], [req[r] EXCEPT !.at = "stuck"]}
                 /\ req' = [req EXCEPT ![r] = v]
    BY <1>8 DEF Open, Stall, ReqOK
  <2>4. v \in ReqState /\ v.addr = req[r].addr /\ v.cl = req[r].cl /\ v.ctr = req[r].ctr
    BY <1>4, <2>3 DEF ReqState, Counted
  <2>5. ReqHolds(v)'
    BY <1>1, <2>1, <2>4 DEF ReqHolds
  <2> QED
    BY <1>2, <1>3, <2>2, <2>3, <2>4, <2>5, ReqSet
<1>9. ASSUME Release(r) PROVE TypeOK'
  <2>1. req[r].addr \in Addr /\ req[r].ctr \in 0 .. counterNo[req[r].addr]
    BY <1>4, <1>9 DEF Release, ReqHolds, ReqState, Counted, PoolOK
  <2>2. PoolOK' /\ BookOK'
    BY <1>9, <2>1 DEF Release, BookOK, PoolOK
  <2>3. NoReq \in ReqState /\ ReqHolds(NoReq)'
    BY DEF NoReq, ReqState, ReqHolds, Counted
  <2>4. req' = [req EXCEPT ![r] = NoReq]
    BY <1>9 DEF Release
  <2> QED
    BY <1>2, <1>3, <2>2, <2>3, <2>4, ReqSet
<1> QED
  BY <1>5, <1>6, <1>7, <1>8, <1>9 DEF Chat

LEMMA AdminTypeStep ==
    ASSUME TypeOK, NEW u \in Admin, Administer(u)
    PROVE  TypeOK'
<1> USE DEF TypeOK
<1>1. adm[u] \in AdmState /\ AdmHolds(adm[u])
  BY DEF AdmOK
<1>2. UNCHANGED <<req, pick>> /\ BookOK'
  BY DEF Administer, WaitStart, WaitIdle, WaitTimeout, SendUnload, Return, CloseStart,
         CloseClient, DropCounter, poolVars, BookOK, InFlight
<1>3. ASSUME PoolOK', NumbersGrow, NEW v \in AdmState, adm' = [adm EXCEPT ![u] = v],
             AdmHolds(v)'
      PROVE  TypeOK'
  BY <1>2, <1>3, ReqKept, PickKept, AdmSet
<1>4. ASSUME NEW a \in Addr, NEW kind \in {"unload", "reset"}, WaitStart(u, a, kind)
      PROVE  TypeOK'
  <2>1. PoolOK' /\ NumbersGrow /\ counterNo' = counterNo /\ counterNo[a] \in Nat
    BY <1>4, GetCounterEntries, EntriesOnly DEF WaitStart, PoolOK
  <2>. PICK v : v = [at |-> "wait", kind |-> kind, addr |-> a,
                     ctr |-> counterNo[a], late |-> FALSE]
    OBVIOUS
  <2>2. adm' = [adm EXCEPT ![u] = v]
    BY <1>4 DEF WaitStart
  <2>3. v \in AdmState /\ v.addr = a /\ v.ctr = counterNo[a]
    BY <2>1 DEF AdmState
  <2>4. AdmHolds(v)'
    BY <2>1, <2>3 DEF AdmHolds
  <2> QED
    BY <1>3, <2>1, <2>2, <2>3, <2>4
<1>5. ASSUME WaitIdle(u) \/ WaitTimeout(u) PROVE TypeOK'
  <2>1. PoolOK' /\ NumbersGrow /\ counterNo' = counterNo
    BY <1>5 DEF WaitIdle, WaitTimeout, poolVars, PoolOK, NumbersGrow
  <2>2. PICK v : /\ v \in {[adm[u] EXCEPT !.at = "ready"],
                           [adm[u] EXCEPT !.at = "ready", !.late = TRUE]}
                 /\ adm' = [adm EXCEPT ![u] = v]
    BY <1>5 DEF WaitIdle, WaitTimeout, AdmOK
  <2>3. v \in AdmState /\ v.addr = adm[u].addr /\ v.ctr = adm[u].ctr
    BY <1>1, <2>2 DEF AdmState
  <2>4. AdmHolds(v)'
    BY <1>1, <1>5, <2>1, <2>3 DEF AdmHolds, WaitIdle, WaitTimeout
  <2> QED
    BY <1>3, <2>1, <2>2, <2>3, <2>4
<1>6. ASSUME SendUnload(u) PROVE TypeOK'
  <2>1. adm[u].addr \in Addr /\ adm[u].ctr <= counterNo[adm[u].addr]
    BY <1>1, <1>6 DEF SendUnload, AdmHolds
  <2>2. PoolOK' /\ NumbersGrow /\ counterNo' = counterNo
    BY <1>6, <2>1, GetClientEntries, EntriesOnly DEF SendUnload
  <2>. PICK v : v = [adm[u] EXCEPT !.at = "rpc"]
    OBVIOUS
  <2>3. adm' = [adm EXCEPT ![u] = v]
    BY <1>6 DEF SendUnload, AdmOK
  <2>4. v \in AdmState /\ v.addr = adm[u].addr /\ v.ctr = adm[u].ctr
    BY <1>1 DEF AdmState
  <2>5. AdmHolds(v)'
    BY <2>1, <2>2, <2>4 DEF AdmHolds
  <2> QED
    BY <1>3, <2>2, <2>3, <2>4, <2>5
<1>7. NoAdm \in AdmState /\ AdmHolds(NoAdm)'
  BY DEF NoAdm, AdmState, AdmHolds
<1>8. ASSUME Return(u) PROVE TypeOK'
  <2>1. PoolOK' /\ NumbersGrow /\ counterNo' = counterNo
    BY <1>8 DEF Return, poolVars, PoolOK, NumbersGrow
  <2>2. adm[u].addr \in Addr /\ adm[u].ctr <= counterNo[adm[u].addr]
    BY <1>1, <1>8 DEF Return, AdmHolds
  <2>. PICK v : v = [adm[u] EXCEPT !.at = "close"]
    OBVIOUS
  <2>3. v \in AdmState /\ v.addr = adm[u].addr /\ v.ctr = adm[u].ctr
    BY <1>1 DEF AdmState
  <2>4. AdmHolds(v)'
    BY <2>1, <2>2, <2>3 DEF AdmHolds
  <2>5. adm' = [adm EXCEPT ![u] = v] \/ adm' = [adm EXCEPT ![u] = NoAdm]
    BY <1>8 DEF Return, AdmOK
  <2> QED
    BY <1>3, <1>7, <2>1, <2>3, <2>4, <2>5
<1>9. ASSUME NEW a \in Addr, CloseStart(u, a) PROVE TypeOK'
  <2>1. PoolOK' /\ NumbersGrow /\ counterNo' = counterNo /\ counterNo[a] \in Nat
    BY <1>9 DEF CloseStart, poolVars, PoolOK, NumbersGrow
  <2>. PICK v : v = [at |-> "close", kind |-> "close", addr |-> a, ctr |-> 0,
                     late |-> FALSE]
    OBVIOUS
  <2>2. adm' = [adm EXCEPT ![u] = v]
    BY <1>9 DEF CloseStart
  <2>3. v \in AdmState /\ v.addr = a /\ v.ctr = 0
    BY DEF AdmState
  <2>4. AdmHolds(v)'
    BY <2>1, <2>3 DEF AdmHolds
  <2> QED
    BY <1>3, <2>1, <2>2, <2>3, <2>4
<1>10. ASSUME CloseClient(u) PROVE TypeOK'
  <2>1. adm[u].addr \in Addr /\ adm[u].ctr <= counterNo[adm[u].addr]
    BY <1>1, <1>10 DEF CloseClient, AdmHolds
  <2>2. PoolOK' /\ NumbersGrow /\ counterNo' = counterNo
    BY <1>10, <2>1 DEF CloseClient, PoolOK, NumbersGrow
  <2>. PICK v : v = [adm[u] EXCEPT !.at = "drop"]
    OBVIOUS
  <2>3. adm' = [adm EXCEPT ![u] = v]
    BY <1>10 DEF CloseClient, AdmOK
  <2>4. v \in AdmState /\ v.addr = adm[u].addr /\ v.ctr = adm[u].ctr
    BY <1>1 DEF AdmState
  <2>5. AdmHolds(v)'
    BY <2>1, <2>2, <2>4 DEF AdmHolds
  <2> QED
    BY <1>3, <2>2, <2>3, <2>4, <2>5
<1>11. ASSUME DropCounter(u) PROVE TypeOK'
  <2>1. adm[u].addr \in Addr
    BY <1>1, <1>11 DEF DropCounter, AdmHolds
  <2>2. PoolOK' /\ NumbersGrow
    <3> DEFINE a == adm[u].addr
               next == counterNo[a] + 1
    <3>1. CASE ~counter[a]
      BY <1>11, <2>1, <3>1 DEF DropCounter, PoolOK, NumbersGrow
    <3>2. CASE counter[a]
      <4>1. /\ counter' \in [Addr -> BOOLEAN] /\ UNCHANGED <<client, clientNo>>
            /\ counterNo' = [counterNo EXCEPT ![a] = next]
            /\ load' = [load EXCEPT ![a] =
                          [e \in 0 .. next |-> IF e = next THEN 0 ELSE load[a][e]]]
        BY <1>11, <3>2 DEF DropCounter, PoolOK
      <4>2. counterNo[a] \in Nat /\ next \in Nat /\ load[a] \in [0 .. counterNo[a] -> Int]
        BY <2>1 DEF PoolOK
      <4>3. NumbersGrow
        BY <2>1, <4>1, <4>2 DEF PoolOK, NumbersGrow
      <4>4. ASSUME NEW b \in Addr PROVE load'[b] \in [0 .. counterNo'[b] -> Int]
        <5>1. CASE b = a
          BY <4>1, <4>2, <5>1 DEF PoolOK
        <5>2. CASE b # a
          BY <4>1, <5>2 DEF PoolOK
        <5> QED
          BY <5>1, <5>2
      <4> QED
        BY <4>1, <4>3, <4>4 DEF PoolOK, NumbersGrow
    <3> QED
      BY <3>1, <3>2
  <2>3. adm' = [adm EXCEPT ![u] = NoAdm]
    BY <1>11 DEF DropCounter
  <2> QED
    BY <1>3, <1>7, <2>2, <2>3
<1> QED
  BY <1>4, <1>5, <1>6, <1>8, <1>9, <1>10, <1>11 DEF Administer

LEMMA TypeStep == TypeOK /\ [Next]_vars => TypeOK'
<1> SUFFICES ASSUME TypeOK, [Next]_vars
             PROVE  TypeOK'
  OBVIOUS
<1>1. ASSUME NEW a \in Addr, Inspect(a) PROVE TypeOK'
  <2>1. PoolOK' /\ NumbersGrow
    BY <1>1, GetClientEntries, EntriesOnly DEF Inspect, TypeOK
  <2> QED
    BY <1>1, <2>1, ReqKept, PickKept, AdmKept DEF Inspect, TypeOK, BookOK
<1>2. CASE UNCHANGED vars
  <2>1. PoolOK' /\ NumbersGrow /\ BookOK'
    BY <1>2 DEF vars, TypeOK, PoolOK, NumbersGrow, BookOK
  <2> QED
    BY <1>2, <2>1, ReqKept, PickKept, AdmKept DEF vars, TypeOK
<1> QED
  BY <1>1, <1>2, PickTypeStep, ChatTypeStep, AdminTypeStep DEF Next

(* In every behaviour, for any number of closeAddr calls, a goroutine holds
   only clients and counters that the pool has made. *)
THEOREM TypeCorrect == Spec => []TypeOK
  BY TypeInit, TypeStep, PTL DEF Spec

-----------------------------------------------------------------------------
(* The counters.  Only Add and Release change who holds a counter, and they
   change its value with it; the other actions leave both alone. *)

LEMMA HoldersFinite ==
    ASSUME NEW a, NEW e
    PROVE  IsFiniteSet(Holders(a, e))
BY ReqAssumption, FS_Subset DEF Holders

\* A call that is counted neither before nor after a step is nobody's holder.
LEMMA NotCounted ==
    ASSUME ReqOK, NEW r \in Req, req[r].at \notin Counted, req'[r].at \notin Counted,
           \A q \in Req \ {r} : req'[q] = req[q],
           NEW a, NEW e
    PROVE  Holders(a, e)' = Holders(a, e)
BY DEF Holders

\* A call that stays counted keeps its counter.
LEMMA StaysCounted ==
    ASSUME ReqOK, NEW r \in Req, req[r].at \in Counted, req'[r].at \in Counted,
           req'[r].addr = req[r].addr, req'[r].ctr = req[r].ctr,
           \A q \in Req \ {r} : req'[q] = req[q],
           NEW a, NEW e
    PROVE  Holders(a, e)' = Holders(a, e)
BY DEF Holders

LEMMA SameLoad ==
    ASSUME LoadIsHolders, UNCHANGED <<load, counterNo>>,
           \A a \in Addr : \A e \in 0 .. counterNo[a] : Holders(a, e)' = Holders(a, e)
    PROVE  LoadIsHolders'
BY DEF LoadIsHolders

LEMMA PickOutcome ==
    ASSUME TypeOK, NEW r \in Req, Pick(r)
    PROVE  /\ req[r].at \notin Counted /\ req'[r].at \notin Counted
           /\ \A q \in Req \ {r} : req'[q] = req[q]
           /\ UNCHANGED <<load, counterNo, adm, ahead>>
<1>1. req \in [Req -> ReqState]
  BY DEF TypeOK, ReqOK
<1>2. UNCHANGED <<load, counterNo, adm, ahead>>
  BY DEF Pick, PickStart, PickSkip, PickAsk, PickAnswer, PickNoAnswer, PickFallback,
         PickFails, PickChoose, poolVars
<1>3. req[r].at \in {"idle", "pick"}
  BY DEF Pick, PickStart, PickSkip, PickAsk, PickAnswer, PickNoAnswer, PickFallback,
         PickFails, PickChoose, PickRoundOver
<1>4. \/ req' = req
      \/ \E v \in {[at |-> "pick", addr |-> NoAddr, cl |-> 0, ctr |-> 0], NoReq} :
            req' = [req EXCEPT ![r] = v]
      \/ \E c \in pick[r].found :
            req' = [req EXCEPT ![r] =
                       [at |-> "client", addr |-> c[1], cl |-> c[2], ctr |-> 0]]
  BY DEF Pick, PickStart, PickSkip, PickAsk, PickAnswer, PickNoAnswer, PickFallback,
         PickFails, PickChoose, poolVars
<1> QED
  BY <1>1, <1>2, <1>3, <1>4 DEF Counted, NoReq

LEMMA LoadInit == Init => LoadIsHolders
<1> SUFFICES ASSUME Init, NEW a \in Addr, NEW e \in 0 .. counterNo[a]
             PROVE  load[a][e] = Cardinality(Holders(a, e))
  BY DEF LoadIsHolders
<1>1. load[a][e] = 0
  BY DEF Init
<1>2. Holders(a, e) = {}
  BY DEF Init, Holders, NoReq, Counted
<1> QED
  BY <1>1, <1>2, FS_EmptySet

LEMMA AddLoad ==
    ASSUME TypeOK, LoadIsHolders, NEW r \in Req, Add(r)
    PROVE  LoadIsHolders'
<1> DEFINE b == req[r].addr
           f == req[r].ctr
<1>0. /\ req \in [Req -> ReqState] /\ req[r] \in ReqState /\ ReqHolds(req[r])
      /\ PoolOK
  BY DEF TypeOK, ReqOK
<1>1. /\ req \in [Req -> ReqState] /\ b \in Addr /\ f \in 0 .. counterNo[b]
      /\ counterNo \in [Addr -> Nat] /\ DOMAIN load = Addr
      /\ \A a \in Addr : load[a] \in [0 .. counterNo[a] -> Int]
  BY <1>0 DEF Add, ReqHolds, ReqState, PoolOK, Counted
<1>2. /\ req'[r].at = "counted" /\ req'[r].addr = b /\ req'[r].ctr = f
      /\ \A q \in Req \ {r} : req'[q] = req[q]
      /\ counterNo' = counterNo
      /\ load' = [load EXCEPT ![b][f] = @ + 1]
  BY <1>1 DEF Add, ReqState
<1> SUFFICES ASSUME NEW a \in Addr, NEW e \in 0 .. counterNo[a]
             PROVE  load'[a][e] = Cardinality(Holders(a, e)')
  BY <1>2 DEF LoadIsHolders
<1>3. load[a][e] = Cardinality(Holders(a, e))
  BY DEF LoadIsHolders
<1>4. CASE a = b /\ e = f
  <2>1. Holders(a, e)' = Holders(a, e) \cup {r} /\ r \notin Holders(a, e)
    BY <1>2, <1>4 DEF Holders, Add, Counted
  <2>2. Cardinality(Holders(a, e)') = Cardinality(Holders(a, e)) + 1
    BY <2>1, HoldersFinite, FS_AddElement
  <2>3. load'[a][e] = load[a][e] + 1
    BY <1>1, <1>2, <1>4
  <2> QED
    BY <1>3, <2>2, <2>3
<1>5. CASE ~(a = b /\ e = f)
  <2>1. Holders(a, e)' = Holders(a, e)
    BY <1>2, <1>5 DEF Holders, Add, Counted
  <2>2. load'[a][e] = load[a][e]
    BY <1>1, <1>2, <1>5
  <2> QED
    BY <1>3, <2>1, <2>2
<1> QED
  BY <1>4, <1>5

LEMMA ReleaseLoad ==
    ASSUME TypeOK, LoadIsHolders, NEW r \in Req, Release(r)
    PROVE  LoadIsHolders'
<1> DEFINE b == req[r].addr
           f == req[r].ctr
<1>0. /\ req \in [Req -> ReqState] /\ req[r] \in ReqState /\ ReqHolds(req[r])
      /\ PoolOK
  BY DEF TypeOK, ReqOK
<1>1. /\ req \in [Req -> ReqState] /\ b \in Addr /\ f \in 0 .. counterNo[b]
      /\ counterNo \in [Addr -> Nat] /\ DOMAIN load = Addr
      /\ \A a \in Addr : load[a] \in [0 .. counterNo[a] -> Int]
  BY <1>0 DEF Release, ReqHolds, ReqState, PoolOK, Counted
<1>2. /\ req'[r].at = "idle"
      /\ \A q \in Req \ {r} : req'[q] = req[q]
      /\ counterNo' = counterNo
      /\ load' = [load EXCEPT ![b][f] = @ - 1]
  BY <1>1 DEF Release, NoReq
<1> SUFFICES ASSUME NEW a \in Addr, NEW e \in 0 .. counterNo[a]
             PROVE  load'[a][e] = Cardinality(Holders(a, e)')
  BY <1>2 DEF LoadIsHolders
<1>3. load[a][e] = Cardinality(Holders(a, e)) /\ Cardinality(Holders(a, e)) \in Nat
  BY HoldersFinite, FS_CardinalityType DEF LoadIsHolders
<1>4. CASE a = b /\ e = f
  <2>1. Holders(a, e)' = Holders(a, e) \ {r} /\ r \in Holders(a, e)
    BY <1>2, <1>4 DEF Holders, Release, Counted
  <2>2. Cardinality(Holders(a, e)') = Cardinality(Holders(a, e)) - 1
    BY <2>1, HoldersFinite, FS_RemoveElement
  <2>3. load'[a][e] = load[a][e] - 1
    BY <1>1, <1>2, <1>4
  <2> QED
    BY <1>3, <2>2, <2>3
<1>5. CASE ~(a = b /\ e = f)
  <2>1. Holders(a, e)' = Holders(a, e)
    BY <1>2, <1>5 DEF Holders, Release, Counted
  <2>2. load'[a][e] = load[a][e]
    BY <1>1, <1>2, <1>5
  <2> QED
    BY <1>3, <2>1, <2>2
<1> QED
  BY <1>4, <1>5

\* The counter that comes after a dropped one starts at zero with no holder.
LEMMA DropLoad ==
    ASSUME TypeOK, LoadIsHolders, NEW u \in Admin, DropCounter(u)
    PROVE  LoadIsHolders'
<1> DEFINE b == adm[u].addr
           next == counterNo[b] + 1
<1>1. \A a \in Addr, e \in Nat : Holders(a, e)' = Holders(a, e)
  BY DEF DropCounter, Holders
<1>2. b \in Addr /\ counterNo \in [Addr -> Nat] /\ DOMAIN load = Addr
  BY DEF DropCounter, TypeOK, AdmOK, AdmHolds, PoolOK
<1>3. CASE ~counter[b]
  BY <1>1, <1>2, <1>3 DEF DropCounter, LoadIsHolders
<1>4. CASE counter[b]
  <2>1. /\ counterNo' = [counterNo EXCEPT ![b] = next]
        /\ load' = [load EXCEPT ![b] =
                      [e \in 0 .. next |-> IF e = next THEN 0 ELSE load[b][e]]]
    BY <1>2, <1>4 DEF DropCounter
  <2> SUFFICES ASSUME NEW a \in Addr, NEW e \in 0 .. counterNo'[a]
               PROVE  load'[a][e] = Cardinality(Holders(a, e)')
    BY DEF LoadIsHolders
  <2>2. CASE a = b /\ e = next
    <3>1. load'[a][e] = 0
      BY <1>2, <2>1, <2>2
    <3>2. Holders(a, e) = {}
      BY <1>2, <2>2 DEF Holders, TypeOK, ReqOK, ReqHolds, ReqState, Counted
    <3>3. e \in Nat
      BY <1>2, <2>2
    <3> QED
      BY <1>1, <3>1, <3>2, <3>3, FS_EmptySet
  <2>3. CASE ~(a = b /\ e = next)
    <3>1. e \in 0 .. counterNo[a] /\ e \in Nat
      BY <1>2, <2>1, <2>3
    <3>2. load'[a][e] = load[a][e]
      BY <1>2, <2>1, <2>3, <3>1
    <3> QED
      BY <1>1, <3>1, <3>2 DEF LoadIsHolders
  <2> QED
    BY <2>2, <2>3
<1> QED
  BY <1>3, <1>4

LEMMA LoadStep == TypeOK /\ LoadIsHolders /\ [Next]_vars => LoadIsHolders'
<1> SUFFICES ASSUME TypeOK, LoadIsHolders, [Next]_vars
             PROVE  LoadIsHolders'
  OBVIOUS
<1>0. ReqOK /\ req \in [Req -> ReqState]
  BY DEF TypeOK, ReqOK
<1>1. ASSUME NEW r \in Req, Pick(r) PROVE LoadIsHolders'
  BY <1>0, <1>1, PickOutcome, NotCounted, SameLoad
<1>2. ASSUME NEW r \in Req, Chat(r) PROVE LoadIsHolders'
  <2>1. ASSUME (\E a \in Addr : OnRunner(r, a)) \/ FetchCounter(r) PROVE LoadIsHolders'
    <3>1. /\ req[r].at \notin Counted /\ req'[r].at \notin Counted
          /\ \A q \in Req \ {r} : req'[q] = req[q]
          /\ UNCHANGED <<load, counterNo>>
      <4>1. ASSUME NEW a \in Addr, OnRunner(r, a) PROVE <3>1!:
        BY <1>0, <4>1 DEF OnRunner, Counted
      <4>2. ASSUME FetchCounter(r) PROVE <3>1!:
        BY <1>0, <4>2 DEF FetchCounter, Counted, ReqState
      <4> QED
        BY <2>1, <4>1, <4>2
    <3> QED
      BY <1>0, <3>1, NotCounted, SameLoad
  <2>2. ASSUME Open(r) \/ Stall(r) PROVE LoadIsHolders'
    <3>1. /\ req[r].at \in Counted /\ req'[r].at \in Counted
          /\ req'[r].addr = req[r].addr /\ req'[r].ctr = req[r].ctr
          /\ \A q \in Req \ {r} : req'[q] = req[q]
          /\ UNCHANGED <<load, counterNo>>
      BY <1>0, <2>2 DEF Open, Stall, Counted, ReqState, poolVars
    <3> QED
      BY <1>0, <3>1, StaysCounted, SameLoad
  <2> QED
    BY <1>2, <2>1, <2>2, AddLoad, ReleaseLoad DEF Chat
<1>3. ASSUME UNCHANGED <<req, load, counterNo>> PROVE LoadIsHolders'
  <2>1. \A a \in Addr : \A e \in 0 .. counterNo[a] : Holders(a, e)' = Holders(a, e)
    BY <1>3 DEF Holders
  <2> QED
    BY <1>3, <2>1, SameLoad
<1>4. ASSUME NEW u \in Admin, Administer(u) PROVE LoadIsHolders'
  <2>1. DropCounter(u) \/ UNCHANGED <<req, load, counterNo>>
    BY <1>4 DEF Administer, WaitStart, WaitIdle, WaitTimeout, SendUnload, Return, CloseStart,
                CloseClient, poolVars
  <2> QED
    BY <1>3, <2>1, DropLoad
<1>5. ASSUME NEW a \in Addr, Inspect(a) PROVE LoadIsHolders'
  BY <1>3, <1>5 DEF Inspect
<1>6. CASE UNCHANGED vars
  BY <1>3, <1>6 DEF vars
<1> QED
  BY <1>1, <1>2, <1>4, <1>5, <1>6 DEF Next

(* Every counter is the number of calls that hold it, in every reachable state
   and for any interleaving of calls, picks and closeAddr. *)
THEOREM CountersExact == Spec => []LoadIsHolders
<1>1. Init => TypeOK /\ LoadIsHolders
  BY TypeInit, LoadInit
<1>2. TypeOK /\ LoadIsHolders /\ [Next]_vars => (TypeOK /\ LoadIsHolders)'
  BY TypeStep, LoadStep
<1> QED
  BY <1>1, <1>2, PTL DEF Spec

-----------------------------------------------------------------------------
(* The idle wait.  UnloadWaited needs to know what a wait remembers: calls that
   are still in flight and that no later counter counts. *)

WaitInv == TypeOK /\ LoadIsHolders /\ AheadInFlight /\ UnloadWaited

\* What WaitInv says about one administrator.
WaitOK(u) ==
    /\ \A r \in ahead[u] :
          /\ adm[u].at \in {"wait", "ready", "rpc"}
          /\ r \in InFlight(adm[u].addr)
          /\ req[r].ctr <= adm[u].ctr
    /\ adm[u].at \in {"ready", "rpc"} /\ ~adm[u].late =>
          \A r \in ahead[u] : req[r].ctr < adm[u].ctr

LEMMA WaitOKs == AheadInFlight /\ UnloadWaited <=> \A u \in Admin : WaitOK(u)
BY DEF AheadInFlight, UnloadWaited, WaitOK

\* A call that is not in flight before a step is in no wait's memory.
LEMMA WaitKept ==
    ASSUME TypeOK, NEW u \in Admin, WaitOK(u), adm'[u] = adm[u],
           ahead'[u] \subseteq ahead[u],
           \A r \in ahead'[u] :
              /\ req'[r].at \in Counted
              /\ req'[r].addr = req[r].addr /\ req'[r].ctr = req[r].ctr
    PROVE  WaitOK(u)'
<1>1. ahead'[u] \subseteq Req
  BY DEF TypeOK, BookOK
<1>2. ASSUME NEW r \in ahead'[u]
      PROVE  /\ adm'[u].at \in {"wait", "ready", "rpc"}
             /\ r \in InFlight(adm[u].addr)'
             /\ req'[r].ctr <= adm'[u].ctr
  BY <1>1, <1>2 DEF WaitOK, InFlight
<1>3. ASSUME adm'[u].at \in {"ready", "rpc"}, ~adm'[u].late, NEW r \in ahead'[u]
      PROVE  req'[r].ctr < adm'[u].ctr
  BY <1>3 DEF WaitOK
<1> QED
  BY <1>2, <1>3 DEF WaitOK, InFlight

LEMMA AheadCounted ==
    ASSUME NEW u \in Admin, WaitOK(u), NEW r \in ahead[u]
    PROVE  r \in Req /\ req[r].at \in Counted
BY DEF WaitOK, InFlight

LEMMA ReqWaitStep ==
    ASSUME WaitInv, NEW r \in Req, Pick(r) \/ Chat(r), NEW u \in Admin
    PROVE  WaitOK(u)'
<1>0. TypeOK /\ WaitOK(u) /\ req \in [Req -> ReqState]
  BY WaitOKs DEF WaitInv, TypeOK, ReqOK
<1>1. CASE Pick(r)
  <2>1. /\ req[r].at \notin Counted /\ adm' = adm /\ ahead' = ahead
        /\ \A q \in Req \ {r} : req'[q] = req[q]
    BY <1>0, <1>1, PickOutcome
  <2> QED
    BY <1>0, <2>1, AheadCounted, WaitKept
<1>2. CASE (\E a \in Addr : OnRunner(r, a)) \/ FetchCounter(r) \/ Add(r)
  <2>1. /\ req[r].at \notin Counted /\ adm' = adm /\ ahead' = ahead
        /\ \A q \in Req \ {r} : req'[q] = req[q]
    <3>1. ASSUME NEW a \in Addr, OnRunner(r, a) PROVE <2>1!:
      BY <1>0, <3>1 DEF OnRunner, Counted
    <3>2. ASSUME FetchCounter(r) PROVE <2>1!:
      BY <1>0, <3>2 DEF FetchCounter, Counted
    <3>3. ASSUME Add(r) PROVE <2>1!:
      BY <1>0, <3>3 DEF Add, Counted
    <3> QED
      BY <1>2, <3>1, <3>2, <3>3
  <2> QED
    BY <1>0, <2>1, AheadCounted, WaitKept
<1>3. CASE Open(r) \/ Stall(r)
  <2>1. /\ adm' = adm /\ ahead' = ahead
        /\ req'[r].at \in Counted
        /\ req'[r].addr = req[r].addr /\ req'[r].ctr = req[r].ctr
        /\ \A q \in Req \ {r} : req'[q] = req[q]
    BY <1>0, <1>3 DEF Open, Stall, Counted, ReqState
  <2> QED
    BY <1>0, <2>1, AheadCounted, WaitKept
<1>4. CASE Release(r)
  <2>1. /\ adm' = adm /\ ahead'[u] = ahead[u] \ {r}
        /\ \A q \in Req \ {r} : req'[q] = req[q]
    BY <1>0, <1>4 DEF Release
  <2> QED
    BY <1>0, <2>1, AheadCounted, WaitKept
<1> QED
  BY <1>1, <1>2, <1>3, <1>4 DEF Chat

\* The counter a wait found at zero has no holder.
LEMMA ZeroIsNobody ==
    ASSUME TypeOK, LoadIsHolders, NEW a \in Addr, NEW e \in 0 .. counterNo[a],
           load[a][e] = 0
    PROVE  Holders(a, e) = {}
<1>1. Cardinality(Holders(a, e)) = 0
  BY DEF LoadIsHolders
<1> QED
  BY <1>1, HoldersFinite, FS_EmptySet

LEMMA AdminWaitStep ==
    ASSUME WaitInv, NEW v \in Admin, Administer(v), NEW u \in Admin
    PROVE  WaitOK(u)'
<1>0. /\ TypeOK /\ WaitOK(u) /\ WaitOK(v)
      /\ req \in [Req -> ReqState] /\ adm \in [Admin -> AdmState]
      /\ ahead \in [Admin -> SUBSET Req]
      /\ ReqOK /\ AdmOK /\ PoolOK
  BY WaitOKs DEF WaitInv, TypeOK, ReqOK, AdmOK, BookOK
<1>1. req' = req
  BY DEF Administer, WaitStart, WaitIdle, WaitTimeout, SendUnload, Return, CloseStart,
         CloseClient, DropCounter
<1>2. CASE u # v
  <2>1. adm'[u] = adm[u] /\ ahead'[u] = ahead[u]
    BY <1>0, <1>2 DEF Administer, WaitStart, WaitIdle, WaitTimeout, SendUnload, Return,
         CloseStart, CloseClient, DropCounter
  <2> QED
    BY <1>0, <1>1, <2>1, AheadCounted, WaitKept
<1>3. ASSUME NEW a \in Addr, NEW kind \in {"unload", "reset"}, WaitStart(u, a, kind)
      PROVE  WaitOK(u)'
  <2>1. ahead'[u] = InFlight(a)
    BY <1>0, <1>3 DEF WaitStart
  <2>2. adm'[u].at = "wait" /\ adm'[u].addr = a /\ adm'[u].ctr = counterNo[a]
    BY <1>0, <1>3 DEF WaitStart
  <2>3. \A r \in InFlight(a) : req[r].ctr <= counterNo[a]
    BY <1>0 DEF InFlight, ReqOK, ReqHolds
  <2> QED
    BY <1>1, <2>1, <2>2, <2>3 DEF WaitOK, InFlight
<1>4. CASE WaitIdle(u)
  <2>1. /\ adm'[u].at = "ready" /\ adm'[u].addr = adm[u].addr
        /\ adm'[u].ctr = adm[u].ctr /\ ahead' = ahead
    BY <1>0, <1>4 DEF WaitIdle, AdmState
  <2>2. adm[u].addr \in Addr /\ adm[u].ctr \in 0 .. counterNo[adm[u].addr]
    <3>1. adm[u].at = "wait" /\ adm[u] \in AdmState /\ AdmHolds(adm[u])
      BY <1>0, <1>4 DEF WaitIdle, AdmOK
    <3>2. adm[u].addr \in Addr /\ adm[u].ctr <= counterNo[adm[u].addr]
      BY <3>1 DEF AdmHolds
    <3>3. adm[u].ctr \in Nat /\ counterNo[adm[u].addr] \in Nat
      BY <1>0, <3>1, <3>2 DEF AdmState, PoolOK
    <3> QED
      BY <3>2, <3>3
  <2>3. Holders(adm[u].addr, adm[u].ctr) = {}
    BY <1>4, <2>2, ZeroIsNobody DEF WaitIdle, WaitInv
  <2>4. ASSUME NEW r \in ahead[u] PROVE req[r].ctr < adm[u].ctr
    <3>1. /\ r \in Req /\ req[r].at \in Counted /\ req[r].addr = adm[u].addr
          /\ req[r].ctr <= adm[u].ctr
      BY <1>0 DEF WaitOK, InFlight
    <3>2. req[r].ctr # adm[u].ctr
      BY <2>3, <3>1 DEF Holders
    <3>3. req[r].ctr \in Nat /\ adm[u].ctr \in Nat
      BY <1>0, <3>1 DEF ReqState, AdmState
    <3> QED
      BY <3>1, <3>2, <3>3
  <2> QED
    BY <1>0, <1>1, <2>1, <2>4 DEF WaitOK, InFlight
<1>5. CASE WaitTimeout(u)
  <2>1. /\ adm'[u].at = "ready" /\ adm'[u].addr = adm[u].addr
        /\ adm'[u].ctr = adm[u].ctr /\ adm'[u].late = TRUE /\ ahead' = ahead
    BY <1>0, <1>5 DEF WaitTimeout, AdmState
  <2> QED
    BY <1>0, <1>1, <2>1 DEF WaitOK, InFlight
<1>6. CASE SendUnload(u)
  <2>1. /\ adm'[u].at = "rpc" /\ adm'[u].addr = adm[u].addr /\ adm[u].at = "ready"
        /\ adm'[u].ctr = adm[u].ctr /\ adm'[u].late = adm[u].late /\ ahead' = ahead
    BY <1>0, <1>6 DEF SendUnload, AdmState
  <2> QED
    BY <1>0, <1>1, <2>1 DEF WaitOK, InFlight
<1>7. CASE Return(u)
  <2>1. ahead'[u] = {}
    BY <1>0, <1>7 DEF Return
  <2> QED
    BY <2>1 DEF WaitOK
<1>8. CASE (\E a \in Addr : CloseStart(u, a)) \/ CloseClient(u) \/ DropCounter(u)
  <2>1. ahead[u] = {} /\ ahead' = ahead
    BY <1>0, <1>8 DEF WaitOK, CloseStart, CloseClient, DropCounter
  <2> QED
    BY <2>1 DEF WaitOK
<1> QED
  BY <1>2, <1>3, <1>4, <1>5, <1>6, <1>7, <1>8 DEF Administer

LEMMA WaitStep == WaitInv /\ [Next]_vars => WaitInv'
<1> SUFFICES ASSUME WaitInv, [Next]_vars
             PROVE  WaitInv'
  OBVIOUS
<1>0. TypeOK /\ \A u \in Admin : WaitOK(u)
  BY WaitOKs DEF WaitInv
<1>1. TypeOK' /\ LoadIsHolders'
  BY TypeStep, LoadStep DEF WaitInv
<1>2. ASSUME NEW u \in Admin PROVE WaitOK(u)'
  <2>1. ASSUME UNCHANGED <<req, adm, ahead>> PROVE WaitOK(u)'
    BY <1>0, <2>1, AheadCounted, WaitKept
  <2>2. ASSUME NEW a \in Addr, Inspect(a) PROVE WaitOK(u)'
    BY <2>1, <2>2 DEF Inspect
  <2>3. CASE UNCHANGED vars
    BY <2>1, <2>3 DEF vars
  <2> QED
    BY <2>2, <2>3, ReqWaitStep, AdminWaitStep DEF Next
<1>3. AheadInFlight' /\ UnloadWaited'
  BY <1>2 DEF WaitOK, AheadInFlight, UnloadWaited
<1> QED
  BY <1>1, <1>3 DEF WaitInv

(* An unload or reset whose wait did not time out comes after every call that
   was in flight when the wait began, but for the calls that count on a counter
   closeAddr had dropped before: in every reachable state. *)
THEOREM UnloadAfterCalls == Spec => []UnloadWaited
<1>1. Init => WaitInv
  <2> SUFFICES ASSUME Init PROVE AheadInFlight /\ UnloadWaited
    BY TypeInit, LoadInit DEF WaitInv
  <2> QED
    BY DEF Init, AheadInFlight, UnloadWaited
<1>2. WaitInv => UnloadWaited
  BY DEF WaitInv
<1> QED
  BY <1>1, <1>2, WaitStep, PTL DEF Spec

-----------------------------------------------------------------------------
(* A counter that closeAddr has dropped only goes down. *)

LEMMA DrainStep ==
    ASSUME TypeOK, Next,
           NEW a \in Addr, NEW e \in 0 .. (counterNo[a] - 1),
           \A r \in Req : ~(req[r].at = "fetched" /\ req[r].addr = a /\ req[r].ctr = e)
    PROVE  load'[a][e] <= load[a][e]
<1>0. /\ PoolOK /\ counterNo[a] \in Nat /\ load[a] \in [0 .. counterNo[a] -> Int]
      /\ DOMAIN load = Addr /\ load[a][e] \in Int /\ e \in Int
  BY DEF TypeOK, PoolOK
<1>1. CASE load' = load
  BY <1>0, <1>1
<1>2. ASSUME NEW r \in Req, Add(r) PROVE load'[a][e] <= load[a][e]
  <2>1. ~(req[r].addr = a /\ req[r].ctr = e)
    BY <1>2 DEF Add
  <2>2. load'[a][e] = load[a][e]
    BY <1>0, <1>2, <2>1 DEF Add
  <2> QED
    BY <1>0, <2>2
<1>3. ASSUME NEW r \in Req, Release(r) PROVE load'[a][e] <= load[a][e]
  <2>1. load'[a][e] \in {load[a][e], load[a][e] - 1}
    BY <1>0, <1>3 DEF Release
  <2> QED
    BY <1>0, <2>1
<1>4. ASSUME NEW u \in Admin, DropCounter(u) PROVE load'[a][e] <= load[a][e]
  <2>1. CASE adm[u].addr = a /\ counter[a]
    <3>1. load'[a][e] = load[a][e]
      BY <1>0, <1>4, <2>1 DEF DropCounter
    <3> QED
      BY <1>0, <3>1
  <2>2. CASE ~(adm[u].addr = a /\ counter[a])
    <3>1. load'[a] = load[a]
      BY <1>0, <1>4, <2>2 DEF DropCounter
    <3> QED
      BY <1>0, <3>1
  <2> QED
    BY <2>1, <2>2
<1>5. ASSUME NEW r \in Req, Pick(r) PROVE load' = load
  BY <1>5, PickOutcome
<1>6. ASSUME NEW r \in Req, Chat(r) PROVE load' = load \/ Add(r) \/ Release(r)
  BY <1>6 DEF Chat, OnRunner, FetchCounter, Open, Stall, poolVars
<1>7. ASSUME NEW u \in Admin, Administer(u) PROVE load' = load \/ DropCounter(u)
  BY <1>7 DEF Administer, WaitStart, WaitIdle, WaitTimeout, SendUnload, Return, CloseStart,
              CloseClient, poolVars
<1>8. ASSUME NEW b \in Addr, Inspect(b) PROVE load' = load
  BY <1>8 DEF Inspect
<1> QED
  BY <1>1, <1>2, <1>3, <1>4, <1>5, <1>6, <1>7, <1>8 DEF Next

(* In every behaviour a dropped counter is never handed out again: apart from
   calls that had fetched it and not yet added, nothing makes it grow. *)
THEOREM DroppedNeverGrows == Spec => ForgottenOnlyDrains
<1>1. TypeOK /\ [Next]_vars =>
        [\A a \in Addr : \A e \in 0 .. (counterNo[a] - 1) :
            (\A r \in Req : ~(/\ req[r].at = "fetched"
                              /\ req[r].addr = a /\ req[r].ctr = e))
               => load'[a][e] <= load[a][e]]_vars
  BY DrainStep
<1> QED
  BY <1>1, TypeInit, TypeStep, PTL DEF Spec, ForgottenOnlyDrains

-----------------------------------------------------------------------------
(* The registry of runners, for any number of administrators' calls, requests
   and addresses.  What a call holds depends on the handler it is in. *)

UpdateRec == [at : {"find", "save", "close", "list"}, server : Server, alone : BOOLEAN,
              id : Ids, old : Row, new : Row, found : Nat]
DeleteRec == [at : {"drop", "delete", "list"}, server : Server, alone : BOOLEAN,
              id : Ids, old : Row]
CreateRec == [at : {"list"}, server : Server, alone : BOOLEAN]
ReplaceRec == [at : {"replace"}, server : Server, alone : BOOLEAN, list : Tables]
Busy == UpdateRec \cup DeleteRec \cup CreateRec \cup ReplaceRec
UseRec == [at : {"use"}, server : Server, addr : HostPort]

Typed ==
    /\ table \in Tables /\ nextId \in 1 .. (MaxIds + 1)
    /\ registry \in [Server -> Tables] /\ clients \in [Server -> SUBSET HostPort]
    /\ call \in [AdminCall -> {Idle} \cup Busy]
    /\ caller \in [Caller -> {Idle} \cup UseRec]
    /\ ver \in Nat /\ deletedAt \in [Ids -> Nat]
    /\ excused \in BOOLEAN /\ crowded \in BOOLEAN

\* Addresses are unique and ids are given out once.
TableOK ==
    /\ \A i, j \in DOMAIN table : table[i].addr = table[j].addr => i = j
    /\ \A i \in DOMAIN table : i < nextId
    /\ \A i \in Ids : deletedAt[i] <= ver /\ (deletedAt[i] > 0 => i < nextId)

\* What an update has found of a row is older than the deletion, if it is gone.
KnowsRow(r) ==
    /\ r.at \in {"find", "save", "drop", "delete"} => r.id < nextId
    /\ r.at \in {"find", "save", "close"} => r.found <= ver
    /\ r.at = "save" => r.id \in DOMAIN table \/ r.found < deletedAt[r.id]

Known == \A u \in AdminCall : KnowsRow(call[u])

Rows == Typed /\ TableOK /\ Known

-----------------------------------------------------------------------------
(* Tables with a row written or taken out. *)

LEMMA InTables ==
    ASSUME NEW t
    PROVE  t \in Tables <=> DOMAIN t \subseteq Ids /\ t \in [DOMAIN t -> Row]
BY DEF Tables

LEMMA PutTable ==
    ASSUME NEW t \in Tables, NEW id \in Ids, NEW row \in Row
    PROVE  /\ Put(t, id, row) \in Tables
           /\ DOMAIN Put(t, id, row) = DOMAIN t \cup {id}
           /\ Put(t, id, row)[id] = row
           /\ \A i \in DOMAIN t \ {id} : Put(t, id, row)[i] = t[i]
<1>1. DOMAIN t \subseteq Ids /\ t \in [DOMAIN t -> Row]
  BY InTables
<1>2. Put(t, id, row) \in [DOMAIN t \cup {id} -> Row]
  BY <1>1 DEF Put
<1> QED
  BY <1>1, <1>2, InTables DEF Put

LEMMA WithoutTable ==
    ASSUME NEW t \in Tables, NEW id
    PROVE  /\ Without(t, id) \in Tables
           /\ DOMAIN Without(t, id) = DOMAIN t \ {id}
           /\ \A i \in DOMAIN t \ {id} : Without(t, id)[i] = t[i]
<1>1. DOMAIN t \subseteq Ids /\ t \in [DOMAIN t -> Row]
  BY InTables
<1>2. Without(t, id) \in [DOMAIN t \ {id} -> Row]
  BY <1>1 DEF Without
<1> QED
  BY <1>1, <1>2, InTables DEF Without

LEMMA EmptyTable == Empty \in Tables /\ DOMAIN Empty = {}
BY DEF Empty, Tables

-----------------------------------------------------------------------------
(* What is known of a call from where it stands, and what a step leaves of it. *)

LEMMA WhereIs ==
    ASSUME NEW r \in {Idle} \cup Busy
    PROVE  /\ r.at \in {"idle", "find", "save", "close", "drop", "delete", "list", "replace"}
           /\ r.at = "idle" <=> r = Idle
           /\ r.at \in {"find", "save", "close"} => r \in UpdateRec
           /\ r.at \in {"drop", "delete"} => r \in DeleteRec
           /\ r.at = "replace" => r \in ReplaceRec
           /\ r.at # "idle" => r.server \in Server /\ r.alone \in BOOLEAN
<1>1. CASE r = Idle
  BY <1>1 DEF Idle
<1>2. CASE r \in UpdateRec
  BY <1>2 DEF Idle, UpdateRec
<1>3. CASE r \in DeleteRec
  BY <1>3 DEF Idle, DeleteRec
<1>4. CASE r \in CreateRec
  BY <1>4 DEF Idle, CreateRec
<1>5. CASE r \in ReplaceRec
  BY <1>5 DEF Idle, ReplaceRec
<1> QED
  BY <1>1, <1>2, <1>3, <1>4, <1>5 DEF Busy

\* Only u's call changes.
Alters(u, v) ==
    /\ call'[u] = v
    /\ \A w \in AdminCall \ {u} : call'[w] = call[w]

LEMMA CallSet ==
    ASSUME Typed, NEW u \in AdminCall, NEW v \in {Idle} \cup Busy,
           call' = [call EXCEPT ![u] = v]
    PROVE  call' \in [AdminCall -> {Idle} \cup Busy] /\ Alters(u, v)
BY DEF Typed, Alters

\* v is r at another place.
Moved(r, at, v) ==
    /\ v \in Busy /\ v.at = at
    /\ v.server = r.server /\ v.alone = r.alone
    /\ (r \in UpdateRec \/ r \in DeleteRec) => v.id = r.id /\ v.old = r.old
    /\ r \in UpdateRec => v.new = r.new /\ v.found = r.found

LEMMA GoUpdate ==
    ASSUME Typed, NEW u \in AdminCall, NEW at \in {"save", "close", "list"}, call[u] \in UpdateRec,
           Go(u, at)
    PROVE  /\ call' \in [AdminCall -> {Idle} \cup Busy]
           /\ \E v : Alters(u, v) /\ Moved(call[u], at, v)
<1> DEFINE v == [call[u] EXCEPT !.at = at]
<1>1. v \in UpdateRec /\ v.at = at /\ v.server = call[u].server /\ v.alone = call[u].alone
      /\ v.id = call[u].id /\ v.old = call[u].old /\ v.new = call[u].new
      /\ v.found = call[u].found
  BY DEF UpdateRec
<1>2. call' = [call EXCEPT ![u] = v]
  BY DEF Go
<1>3. v \in Busy
  BY <1>1 DEF Busy
<1> HIDE DEF v
<1>4. Moved(call[u], at, v)
  BY <1>1, <1>3 DEF Moved
<1> QED
  BY <1>2, <1>3, <1>4, CallSet

LEMMA GoDelete ==
    ASSUME Typed, NEW u \in AdminCall, NEW at \in {"delete", "list"}, call[u] \in DeleteRec,
           Go(u, at)
    PROVE  /\ call' \in [AdminCall -> {Idle} \cup Busy]
           /\ \E v : Alters(u, v) /\ Moved(call[u], at, v)
<1> DEFINE v == [call[u] EXCEPT !.at = at]
<1>1. v \in DeleteRec /\ v.at = at /\ v.server = call[u].server /\ v.alone = call[u].alone
      /\ v.id = call[u].id /\ v.old = call[u].old
  BY DEF DeleteRec
<1>2. call' = [call EXCEPT ![u] = v]
  BY DEF Go
<1>3. v \in Busy
  BY <1>1 DEF Busy
<1>5. call[u] \notin UpdateRec
  BY DEF UpdateRec, DeleteRec
<1> HIDE DEF v
<1>4. Moved(call[u], at, v)
  BY <1>1, <1>3, <1>5 DEF Moved
<1> QED
  BY <1>2, <1>3, <1>4, CallSet

LEMMA FailIdle ==
    ASSUME Typed, NEW u \in AdminCall, Fail(u)
    PROVE  call' \in [AdminCall -> {Idle} \cup Busy] /\ Alters(u, Idle)
BY CallSet DEF Fail

\* Another call begins: v is r, no longer alone.
Same(r, v) ==
    /\ v \in Busy /\ v.at = r.at /\ v.server = r.server
    /\ (r \in UpdateRec \/ r \in DeleteRec) => v.id = r.id /\ v.old = r.old
    /\ r \in UpdateRec => v.new = r.new /\ v.found = r.found
    /\ r \in ReplaceRec => v.list = r.list

LEMMA Interrupted ==
    ASSUME NEW r \in Busy
    PROVE  Same(r, [r EXCEPT !.alone = FALSE]) /\ [r EXCEPT !.alone = FALSE].alone = FALSE
<1>1. CASE r \in UpdateRec
  <2>1. r \notin DeleteRec /\ r \notin ReplaceRec
    BY <1>1 DEF UpdateRec, DeleteRec, ReplaceRec
  <2>2. [r EXCEPT !.alone = FALSE] \in UpdateRec
    BY <1>1 DEF UpdateRec
  <2> QED
    BY <1>1, <2>1, <2>2 DEF Same, Busy, UpdateRec
<1>2. CASE r \in DeleteRec
  <2>1. r \notin UpdateRec /\ r \notin ReplaceRec
    BY <1>2 DEF UpdateRec, DeleteRec, ReplaceRec
  <2>2. [r EXCEPT !.alone = FALSE] \in DeleteRec
    BY <1>2 DEF DeleteRec
  <2> QED
    BY <1>2, <2>1, <2>2 DEF Same, Busy, DeleteRec
<1>3. CASE r \in CreateRec
  <2>1. r \notin UpdateRec /\ r \notin ReplaceRec /\ r \notin DeleteRec
    BY <1>3 DEF UpdateRec, DeleteRec, ReplaceRec, CreateRec
  <2>2. [r EXCEPT !.alone = FALSE] \in CreateRec
    BY <1>3 DEF CreateRec
  <2> QED
    BY <1>3, <2>1, <2>2 DEF Same, Busy, CreateRec
<1>4. CASE r \in ReplaceRec
  <2>1. r \notin UpdateRec /\ r \notin DeleteRec
    BY <1>4 DEF UpdateRec, DeleteRec, ReplaceRec
  <2>2. [r EXCEPT !.alone = FALSE] \in ReplaceRec
    BY <1>4 DEF ReplaceRec
  <2> QED
    BY <1>4, <2>1, <2>2 DEF Same, Busy, ReplaceRec
<1> QED
  BY <1>1, <1>2, <1>3, <1>4 DEF Busy

LEMMA SameSelf ==
    ASSUME NEW r \in Busy
    PROVE  Same(r, r)
BY DEF Same

LEMMA Begins ==
    ASSUME Typed, NEW u \in AdminCall, NEW v \in Busy, Begin(u, v)
    PROVE  /\ call' \in [AdminCall -> {Idle} \cup Busy]
           /\ call'[u] = v
           /\ \A w \in AdminCall \ {u} :
                 \/ call[w].at = "idle" /\ call'[w] = Idle
                 \/ call[w].at # "idle" /\ Same(call[w], call'[w]) /\ call'[w].alone = FALSE
<1>1. call' = [w \in AdminCall |->
                 IF w = u THEN v
                 ELSE IF call[w].at = "idle" THEN Idle
                 ELSE [call[w] EXCEPT !.alone = FALSE]]
  BY DEF Begin
<1>2. \A w \in AdminCall : call[w] \in {Idle} \cup Busy
  BY DEF Typed
<1>3. \A w \in AdminCall \ {u} :
         \/ call[w].at = "idle" /\ call'[w] = Idle
         \/ call[w].at # "idle" /\ Same(call[w], call'[w]) /\ call'[w].alone = FALSE
  <2> SUFFICES ASSUME NEW w \in AdminCall \ {u}
               PROVE  \/ call[w].at = "idle" /\ call'[w] = Idle
                      \/ /\ call[w].at # "idle" /\ Same(call[w], call'[w])
                         /\ call'[w].alone = FALSE
    OBVIOUS
  <2>1. CASE call[w].at = "idle"
    BY <1>1, <2>1
  <2>2. CASE call[w].at # "idle"
    <3>1. call'[w] = [call[w] EXCEPT !.alone = FALSE]
      BY <1>1, <2>2
    <3>2. call[w] \in Busy
      BY <1>2, <2>2 DEF Idle
    <3> QED
      BY <2>2, <3>1, <3>2, Interrupted
  <2> QED
    BY <2>1, <2>2
<1>4. \A w \in AdminCall : call'[w] \in {Idle} \cup Busy
  <2> TAKE w \in AdminCall
  <2>1. CASE w = u
    BY <1>1, <2>1
  <2>2. CASE w # u
    BY <1>3, <2>2 DEF Same
  <2> QED
    BY <2>1, <2>2
<1>5. call' \in [AdminCall -> {Idle} \cup Busy]
  <2>1. call' = [w \in AdminCall |-> call'[w]]
    BY <1>1
  <2> QED
    BY <1>4, <2>1
<1>6. call'[u] = v
  BY <1>1
<1> QED
  BY <1>3, <1>5, <1>6

LEMMA CreateBusy ==
    ASSUME NEW s \in Server, NEW b \in BOOLEAN
    PROVE  [at |-> "list", server |-> s, alone |-> b] \in Busy
BY DEF CreateRec, Busy

LEMMA UpdateBusy ==
    ASSUME NEW s \in Server, NEW b \in BOOLEAN, NEW id \in Ids, NEW old \in Row, NEW new \in Row
    PROVE  [at |-> "find", server |-> s, alone |-> b, id |-> id, old |-> old, new |-> new,
            found |-> 0] \in Busy
BY DEF UpdateRec, Busy

LEMMA DeleteBusy ==
    ASSUME NEW s \in Server, NEW b \in BOOLEAN, NEW id \in Ids, NEW old \in Row
    PROVE  [at |-> "drop", server |-> s, alone |-> b, id |-> id, old |-> old] \in Busy
BY DEF DeleteRec, Busy

LEMMA Found ==
    ASSUME Typed, NEW u \in AdminCall, call[u] \in UpdateRec,
           call' = [call EXCEPT ![u].at = "save", ![u].found = ver]
    PROVE  /\ call' \in [AdminCall -> {Idle} \cup Busy]
           /\ \E v : /\ Alters(u, v) /\ v \in UpdateRec /\ v.at = "save" /\ v.found = ver
                     /\ v.server = call[u].server /\ v.alone = call[u].alone
                     /\ v.id = call[u].id /\ v.old = call[u].old /\ v.new = call[u].new
<1> DEFINE v == [call[u] EXCEPT !.at = "save", !.found = ver]
<1>1. /\ v \in UpdateRec /\ v.at = "save" /\ v.found = ver
      /\ v.server = call[u].server /\ v.alone = call[u].alone
      /\ v.id = call[u].id /\ v.old = call[u].old /\ v.new = call[u].new
  BY DEF UpdateRec, Typed
<1>2. call' = [call EXCEPT ![u] = v]
  OBVIOUS
<1>3. v \in Busy
  BY <1>1 DEF Busy
<1> HIDE DEF v
<1> QED
  BY <1>1, <1>2, <1>3, CallSet

LEMMA ListOutcome ==
    ASSUME Typed, NEW u \in AdminCall, ListRows(u)
    PROVE  /\ call' \in [AdminCall -> {Idle} \cup Busy]
           /\ \E v : /\ Alters(u, v) /\ v \in ReplaceRec /\ v.at = "replace"
                     /\ v.server = call[u].server /\ v.alone = call[u].alone
                     /\ v.list = table
<1> DEFINE v == [at |-> "replace", server |-> call[u].server, alone |-> call[u].alone,
                 list |-> table]
<1>1. call[u].server \in Server /\ call[u].alone \in BOOLEAN
  BY WhereIs DEF ListRows, Typed
<1>2. /\ v \in ReplaceRec /\ v.at = "replace"
      /\ v.server = call[u].server /\ v.alone = call[u].alone /\ v.list = table
  BY <1>1 DEF ReplaceRec, Typed
<1>3. call' = [call EXCEPT ![u] = v]
  BY DEF ListRows
<1>4. v \in Busy
  BY <1>2 DEF Busy
<1> HIDE DEF v
<1> QED
  BY <1>2, <1>3, <1>4, CallSet

-----------------------------------------------------------------------------
(* Type correctness and the history of the table. *)

\* A step forgets nothing a call may have found.
Forward ==
    /\ nextId' \in Nat /\ nextId <= nextId' /\ ver' \in Nat /\ ver <= ver'
    /\ deletedAt' \in [Ids -> Nat]
    /\ \A i \in Ids : deletedAt[i] <= deletedAt'[i]
    /\ \A i \in DOMAIN table \ DOMAIN table' : deletedAt'[i] > ver

LEMMA KnownSame ==
    ASSUME Typed, Forward, NEW w \in AdminCall, call[w] \in Busy, KnowsRow(call[w]),
           Same(call[w], call'[w])
    PROVE  KnowsRow(call[w])'
<1>0. nextId \in Nat /\ ver \in Nat /\ deletedAt \in [Ids -> Nat]
  BY BoundsAssumption DEF Typed
<1>1. PICK r : r = call[w]
  OBVIOUS
<1>2. PICK v : v = call'[w]
  OBVIOUS
<1>3. r \in Busy /\ Same(r, v) /\ KnowsRow(r)
  BY <1>1, <1>2
<1>4. CASE r.at \in {"find", "save", "close"}
  <2>1. r \in UpdateRec
    BY <1>3, <1>4, WhereIs
  <2>2. v.at = r.at /\ v.id = r.id /\ v.found = r.found /\ r.id \in Ids /\ r.found \in Nat
    BY <1>3, <2>1 DEF Same, UpdateRec
  <2>3. v.at \in {"find", "save", "drop", "delete"} => v.id < nextId'
    BY <2>2, <1>0, <1>3 DEF KnowsRow, Forward, Ids
  <2>4. v.found <= ver' /\ v.found <= ver
    BY <2>2, <1>0, <1>3, <1>4 DEF KnowsRow, Forward
  <2>5. v.at = "save" => v.id \in DOMAIN table' \/ v.found < deletedAt'[v.id]
    <3>1. CASE v.id \in DOMAIN table
      BY <3>1, <2>2, <2>4, <1>0 DEF Forward
    <3>2. CASE v.id \notin DOMAIN table /\ v.at = "save"
      <4>1. v.found < deletedAt[v.id]
        BY <3>2, <2>2, <1>3 DEF KnowsRow
      <4>2. deletedAt[v.id] <= deletedAt'[v.id] /\ deletedAt[v.id] \in Nat /\ deletedAt'[v.id] \in Nat
        BY <2>2, <1>0 DEF Forward
      <4> QED
        BY <4>1, <4>2, <2>2
    <3> QED
      BY <3>1, <3>2
  <2> QED
    BY <1>2, <2>3, <2>4, <2>5 DEF KnowsRow
<1>5. CASE r.at \in {"drop", "delete"}
  <2>1. r \in DeleteRec
    BY <1>3, <1>5, WhereIs
  <2>2. v.at = r.at /\ v.id = r.id /\ r.id \in Ids
    BY <1>3, <2>1 DEF Same, DeleteRec
  <2>3. v.id < nextId'
    BY <2>2, <1>0, <1>3, <1>5 DEF KnowsRow, Forward, Ids
  <2> QED
    BY <1>2, <1>5, <2>2, <2>3 DEF KnowsRow
<1>6. CASE r.at \notin {"find", "save", "close", "drop", "delete"}
  BY <1>2, <1>3, <1>6 DEF Same, KnowsRow
<1> QED
  BY <1>4, <1>5, <1>6

LEMMA KnownStill ==
    ASSUME Rows, Forward, NEW w \in AdminCall, call'[w] = call[w]
    PROVE  KnowsRow(call[w])'
<1>1. CASE call[w] \in Busy
  BY <1>1, SameSelf, KnownSame DEF Rows, Known
<1>2. CASE call[w] = Idle
  BY <1>2 DEF KnowsRow, Idle
<1> QED
  BY <1>1, <1>2 DEF Rows, Typed

LEMMA KnownSet ==
    ASSUME Rows, Forward, NEW u \in AdminCall, NEW v, Alters(u, v), KnowsRow(v)'
    PROVE  Known'
BY KnownStill DEF Known, Alters

LEMMA KnownBegins ==
    ASSUME Rows, Forward, NEW u \in AdminCall, NEW v \in Busy, Begin(u, v), KnowsRow(v)'
    PROVE  Known'
<1> SUFFICES ASSUME NEW w \in AdminCall
             PROVE  KnowsRow(call[w])'
  BY DEF Known
<1>1. CASE w = u
  BY <1>1, Begins DEF Rows
<1>2. CASE w # u /\ call[w].at = "idle"
  <2>1. call'[w] = Idle
    BY <1>2, Begins DEF Rows
  <2> QED
    BY <2>1 DEF KnowsRow, Idle
<1>3. CASE w # u /\ call[w].at # "idle"
  <2>1. call[w] \in Busy
    BY <1>3 DEF Rows, Typed, Idle
  <2> QED
    BY <1>3, <2>1, Begins, KnownSame DEF Rows, Known
<1> QED
  BY <1>1, <1>2, <1>3

LEMMA Stays ==
    ASSUME Rows, UNCHANGED <<table, nextId, ver, deletedAt>>
    PROVE  Forward /\ TableOK'
BY BoundsAssumption DEF Rows, Typed, TableOK, Forward

LEMMA Rowless ==
    ASSUME NEW v \in Busy, v.at \in {"list", "replace"}
    PROVE  KnowsRow(v)'
BY DEF KnowsRow

LEMMA RowsInit == ASSUME RegistryInit PROVE Rows
<1>1. Typed
  <2>1. table \in Tables /\ registry \in [Server -> Tables]
    BY EmptyTable DEF RegistryInit
  <2>2. /\ call \in [AdminCall -> {Idle} \cup Busy]
        /\ caller \in [Caller -> {Idle} \cup UseRec]
    BY DEF RegistryInit
  <2>3. nextId \in 1 .. (MaxIds + 1) /\ clients \in [Server -> SUBSET HostPort]
    BY BoundsAssumption DEF RegistryInit
  <2>4. ver \in Nat /\ deletedAt \in [Ids -> Nat] /\ excused \in BOOLEAN /\ crowded \in BOOLEAN
    BY DEF RegistryInit
  <2> QED
    BY <2>1, <2>2, <2>3, <2>4 DEF Typed
<1>2. TableOK /\ Known
  BY EmptyTable DEF RegistryInit, TableOK, Known, KnowsRow, Idle
<1> QED
  BY <1>1, <1>2 DEF Rows

LEMMA CreateRows ==
    ASSUME Rows, NEW u \in AdminCall, NEW s \in Server, NEW a \in HostPort, NEW on \in BOOLEAN,
           CreateRow(u, s, a, on)
    PROVE  Rows'
<1> USE DEF Rows
<1> DEFINE row == [addr |-> a, on |-> on]
           rec == [at |-> "list", server |-> s, alone |-> AllIdle]
<1>0. row \in Row /\ nextId \in Ids /\ nextId \in Nat
  BY BoundsAssumption DEF Row, Ids, Typed, CreateRow
<1>1. /\ table' \in Tables /\ DOMAIN table' = DOMAIN table \cup {nextId}
      /\ table'[nextId] = row /\ \A i \in DOMAIN table \ {nextId} : table'[i] = table[i]
  <2>1. table' = Put(table, nextId, row)
    BY DEF CreateRow, Write
  <2>2. table \in Tables
    BY DEF Typed
  <2> HIDE DEF row
  <2> QED
    BY <1>0, <2>1, <2>2, PutTable
<1>2. PICK b \in BOOLEAN : b = AllIdle
  BY DEF AllIdle
<1>3. rec \in Busy /\ rec.at = "list"
  BY <1>2, CreateBusy
<1>4. Begin(u, rec)
  BY DEF CreateRow
<1>5. Forward
  BY <1>0, <1>1 DEF Forward, CreateRow, Write, Typed
<1>6. Typed'
  <2>1. call' \in [AdminCall -> {Idle} \cup Busy]
    BY <1>3, <1>4, Begins
  <2>2. excused' \in BOOLEAN /\ crowded' \in BOOLEAN
    BY <1>4 DEF Begin, Typed, AllIdle
  <2>3. nextId' \in 1 .. (MaxIds + 1) /\ ver' \in Nat
    BY <1>0, BoundsAssumption DEF CreateRow, Write, Typed
  <2> QED
    BY <1>1, <2>1, <2>2, <2>3 DEF Typed, CreateRow
<1>7. TableOK'
  <2>1. nextId \notin DOMAIN table /\ \A i \in DOMAIN table : table[i].addr # a /\ i \in Nat
    <3>1. \A i \in DOMAIN table : i # 0 /\ i \in Nat
      BY InTables DEF Typed, Ids
    <3> QED
      BY <1>0, <3>1 DEF TableOK, CreateRow, Free
  <2>2. table'[nextId].addr = a
    BY <1>1
  <2>3. \A i, j \in DOMAIN table' : table'[i].addr = table'[j].addr => i = j
    BY <1>1, <2>1, <2>2 DEF TableOK
  <2>4. \A i \in DOMAIN table' : i < nextId'
    BY <1>0, <1>1, <2>1 DEF TableOK, CreateRow
  <2>5. \A i \in Ids : deletedAt'[i] <= ver' /\ (deletedAt'[i] > 0 => i < nextId')
    <3> TAKE i \in Ids
    <3>1. deletedAt[i] \in Nat /\ i \in Nat
      BY DEF Typed, Ids
    <3> QED
      BY <1>0, <3>1 DEF TableOK, CreateRow, Write, Typed
  <2> QED
    BY <2>3, <2>4, <2>5 DEF TableOK
<1> HIDE DEF rec
<1>8. Known'
  <2>1. PICK v : v = rec
    OBVIOUS
  <2> QED
    BY <1>3, <1>4, <1>5, <2>1, Rowless, KnownBegins
<1> QED
  BY <1>6, <1>7, <1>8

LEMMA UpdateReadRows ==
    ASSUME Rows, NEW u \in AdminCall, NEW s \in Server, NEW id \in Ids, NEW row \in Row,
           UpdateRead(u, s, id, row)
    PROVE  Rows'
<1>1. PICK b \in BOOLEAN : b = AllIdle
  BY DEF AllIdle
<1>2. PICK old : old = table[id]
  OBVIOUS
<1>3. old \in Row
  BY <1>2, InTables DEF Rows, Typed, UpdateRead
<1>4. PICK v : v = [at |-> "find", server |-> s, alone |-> b, id |-> id, old |-> old,
                    new |-> row, found |-> 0]
  OBVIOUS
<1>5. v \in Busy /\ v.at = "find" /\ v.id = id /\ v.found = 0
  BY <1>3, <1>4, UpdateBusy
<1>6. Begin(u, v)
  BY <1>1, <1>2, <1>4 DEF UpdateRead
<1>7. Forward /\ TableOK'
  BY Stays DEF UpdateRead
<1>8. KnowsRow(v)'
  BY <1>5 DEF KnowsRow, UpdateRead, Rows, TableOK, Typed
<1>9. Known'
  BY <1>5, <1>6, <1>7, <1>8, KnownBegins
<1>10. call' \in [AdminCall -> {Idle} \cup Busy]
  BY <1>5, <1>6, Begins DEF Rows
<1>11. excused' \in BOOLEAN /\ crowded' \in BOOLEAN
  BY <1>6 DEF Begin, Rows, Typed, AllIdle
<1> QED
  BY <1>7, <1>9, <1>10, <1>11 DEF Rows, Typed, UpdateRead

LEMMA DeleteReadRows ==
    ASSUME Rows, NEW u \in AdminCall, NEW s \in Server, NEW id \in Ids, DeleteRead(u, s, id)
    PROVE  Rows'
<1>1. PICK b \in BOOLEAN : b = AllIdle
  BY DEF AllIdle
<1>2. PICK old : old = table[id]
  OBVIOUS
<1>3. old \in Row
  BY <1>2, InTables DEF Rows, Typed, DeleteRead
<1>4. PICK v : v = [at |-> "drop", server |-> s, alone |-> b, id |-> id, old |-> old]
  OBVIOUS
<1>5. v \in Busy /\ v.at = "drop" /\ v.id = id
  BY <1>3, <1>4, DeleteBusy
<1>6. Begin(u, v)
  BY <1>1, <1>2, <1>4 DEF DeleteRead
<1>7. Forward /\ TableOK'
  BY Stays DEF DeleteRead
<1>8. KnowsRow(v)'
  BY <1>5 DEF KnowsRow, DeleteRead, Rows, TableOK, Typed
<1>9. Known'
  BY <1>5, <1>6, <1>7, <1>8, KnownBegins
<1>10. call' \in [AdminCall -> {Idle} \cup Busy]
  BY <1>5, <1>6, Begins DEF Rows
<1>11. excused' \in BOOLEAN /\ crowded' \in BOOLEAN
  BY <1>6 DEF Begin, Rows, Typed, AllIdle
<1> QED
  BY <1>7, <1>9, <1>10, <1>11 DEF Rows, Typed, DeleteRead

\* A call fails: what remains is what the others hold.
LEMMA FailRows ==
    ASSUME Rows, NEW u \in AdminCall, Fail(u), Forward
    PROVE  call' \in [AdminCall -> {Idle} \cup Busy] /\ Known'
<1>1. call' \in [AdminCall -> {Idle} \cup Busy] /\ Alters(u, Idle)
  BY FailIdle DEF Rows
<1>2. KnowsRow(Idle)'
  BY DEF KnowsRow, Idle
<1> QED
  BY <1>1, <1>2, KnownSet

LEMMA FindRows ==
    ASSUME Rows, NEW u \in AdminCall, FindRow(u)
    PROVE  Rows'
<1>1. Forward /\ TableOK'
  BY Stays DEF FindRow
<1>2. call' \in [AdminCall -> {Idle} \cup Busy] /\ Known'
  <2>1. CASE call[u].id \in DOMAIN table
    <3>1. call[u] \in UpdateRec
      BY WhereIs DEF FindRow, Rows, Typed
    <3>2. call' = [call EXCEPT ![u].at = "save", ![u].found = ver]
      BY <2>1 DEF FindRow
    <3>3. PICK v : /\ Alters(u, v) /\ v \in UpdateRec /\ v.at = "save" /\ v.found = ver
                   /\ v.id = call[u].id
      BY <3>1, <3>2, Found DEF Rows
    <3>4. call[u].id < nextId
      BY DEF FindRow, Rows, Known, KnowsRow
    <3>5. ver \in Nat /\ ver' = ver /\ nextId' = nextId /\ table' = table
      BY DEF FindRow, Rows, Typed
    <3>6. v.id < nextId /\ v.found <= ver /\ v.id \in DOMAIN table
      BY <2>1, <3>3, <3>4, <3>5
    <3>7. KnowsRow(v)'
      BY <3>3, <3>5, <3>6 DEF KnowsRow
    <3> QED
      BY <1>1, <3>1, <3>2, <3>3, <3>7, KnownSet, Found DEF Rows
  <2>2. CASE call[u].id \notin DOMAIN table
    BY <2>2, <1>1, FailRows DEF FindRow
  <2> QED
    BY <2>1, <2>2
<1> QED
  BY <1>1, <1>2 DEF Rows, Typed, FindRow

LEMMA SaveRows ==
    ASSUME Rows, NEW u \in AdminCall, SaveRow(u)
    PROVE  Rows'
<1>0. call[u] \in UpdateRec /\ call[u].id < nextId
  BY WhereIs DEF SaveRow, Rows, Typed, Known, KnowsRow
<1>1. CASE Free(call[u].id, call[u].new.addr)
  <2>1. PICK id, row : id = call[u].id /\ row = call[u].new
    OBVIOUS
  <2>2. id \in Ids /\ row \in Row /\ id < nextId /\ Free(id, row.addr)
    BY <1>0, <1>1, <2>1 DEF UpdateRec
  <2>3. table' = Put(table, id, row) /\ ver' = ver + 1 /\ Go(u, "close")
    BY <1>1, <2>1 DEF SaveRow, Write
  <2>4. table \in Tables /\ ver \in Nat /\ nextId \in Nat /\ deletedAt \in [Ids -> Nat]
    BY BoundsAssumption DEF Rows, Typed
  <2>5. /\ table' \in Tables /\ DOMAIN table' = DOMAIN table \cup {id}
        /\ table'[id] = row /\ \A i \in DOMAIN table \ {id} : table'[i] = table[i]
    <3>1. table' = Put(table, id, row)
      BY <2>3
    <3>2. id \in Ids /\ row \in Row /\ table \in Tables
      BY <2>2, <2>4
    <3>3. PICK t \in Tables : t = table
      BY <3>2
    <3>4. /\ Put(t, id, row) \in Tables /\ DOMAIN Put(t, id, row) = DOMAIN t \cup {id}
          /\ Put(t, id, row)[id] = row
          /\ \A i \in DOMAIN t \ {id} : Put(t, id, row)[i] = t[i]
      BY <3>2, PutTable
    <3> QED
      BY <3>1, <3>3, <3>4
  <2>6. nextId' = nextId /\ deletedAt' = deletedAt
    BY DEF SaveRow
  <2>7. Forward
    BY <2>3, <2>4, <2>5, <2>6 DEF Forward
  <2>8. TableOK'
    <3>1. \A i, j \in DOMAIN table' : table'[i].addr = table'[j].addr => i = j
      BY <2>2, <2>5 DEF Free, Rows, TableOK
    <3>2. \A i \in DOMAIN table' : i < nextId'
      BY <2>2, <2>5, <2>6 DEF Rows, TableOK
    <3>3. \A i \in Ids : deletedAt'[i] <= ver' /\ (deletedAt'[i] > 0 => i < nextId')
      BY <2>3, <2>4, <2>6 DEF Rows, TableOK
    <3> QED
      BY <3>1, <3>2, <3>3 DEF TableOK
  <2>9. call' \in [AdminCall -> {Idle} \cup Busy]
        /\ \E v : Alters(u, v) /\ Moved(call[u], "close", v)
    BY <1>0, <2>3, GoUpdate DEF Rows
  <2>10. PICK v : Alters(u, v) /\ Moved(call[u], "close", v)
    BY <2>9
  <2>11. KnowsRow(v)'
    <3>1. v.at = "close" /\ v.found = call[u].found
      BY <1>0, <2>10 DEF Moved
    <3>2. v.found <= ver /\ v.found \in Nat
      BY <1>0, <3>1 DEF SaveRow, Rows, Known, KnowsRow, UpdateRec
    <3> QED
      BY <2>3, <2>4, <3>1, <3>2 DEF KnowsRow
  <2>12. Known'
    BY <2>7, <2>10, <2>11, KnownSet
  <2> QED
    BY <2>3, <2>4, <2>5, <2>8, <2>9, <2>12 DEF Rows, Typed, SaveRow
<1>2. CASE ~Free(call[u].id, call[u].new.addr)
  <2>1. Forward /\ TableOK'
    BY <1>2, Stays DEF SaveRow
  <2>2. call' \in [AdminCall -> {Idle} \cup Busy] /\ Known'
    BY <1>2, <2>1, FailRows DEF SaveRow
  <2> QED
    BY <1>2, <2>1, <2>2 DEF Rows, Typed, SaveRow
<1> QED
  BY <1>1, <1>2

LEMMA CloseOldRows ==
    ASSUME Rows, NEW u \in AdminCall, CloseOld(u)
    PROVE  Rows'
<1>0. call[u] \in UpdateRec /\ call[u].server \in Server
  BY WhereIs DEF CloseOld, Rows, Typed
<1>1. Forward /\ TableOK'
  BY Stays DEF CloseOld
<1>2. clients' \in [Server -> SUBSET HostPort]
  BY DEF CloseOld, Rows, Typed
<1>3. PICK v : Alters(u, v) /\ Moved(call[u], "list", v)
  BY <1>0, GoUpdate DEF CloseOld, Rows
<1>4. KnowsRow(v)'
  BY <1>3, Rowless DEF Moved
<1>5. Known'
  BY <1>1, <1>3, <1>4, KnownSet
<1>6. call' \in [AdminCall -> {Idle} \cup Busy]
  BY <1>0, GoUpdate DEF CloseOld, Rows
<1> QED
  BY <1>1, <1>2, <1>5, <1>6 DEF Rows, Typed, CloseOld

LEMMA CloseDeletedRows ==
    ASSUME Rows, NEW u \in AdminCall, CloseDeleted(u)
    PROVE  Rows'
<1>0. call[u] \in DeleteRec /\ call[u].id < nextId /\ call[u] \notin UpdateRec
  BY WhereIs DEF CloseDeleted, Rows, Typed, Known, KnowsRow, DeleteRec, UpdateRec
<1>1. Forward /\ TableOK'
  BY Stays DEF CloseDeleted
<1>2. clients' \in [Server -> SUBSET HostPort]
  BY DEF CloseDeleted, Rows, Typed
<1>3. PICK v : Alters(u, v) /\ Moved(call[u], "delete", v)
  BY <1>0, GoDelete DEF CloseDeleted, Rows
<1>4. KnowsRow(v)'
  BY <1>0, <1>3 DEF Moved, KnowsRow, CloseDeleted
<1>5. Known'
  BY <1>1, <1>3, <1>4, KnownSet
<1>6. call' \in [AdminCall -> {Idle} \cup Busy]
  BY <1>0, GoDelete DEF CloseDeleted, Rows
<1> QED
  BY <1>1, <1>2, <1>5, <1>6 DEF Rows, Typed, CloseDeleted

LEMMA DeleteRows ==
    ASSUME Rows, NEW u \in AdminCall, DeleteRow(u)
    PROVE  Rows'
<1>0. call[u] \in DeleteRec /\ call[u].id < nextId
  BY WhereIs DEF DeleteRow, Rows, Typed, Known, KnowsRow
<1>1. CASE call[u].id \in DOMAIN table
  <2>1. PICK id : id = call[u].id
    OBVIOUS
  <2>2. id \in Ids /\ id < nextId /\ id \in DOMAIN table
    BY <1>0, <1>1, <2>1 DEF DeleteRec
  <2>3. /\ table' = Without(table, id) /\ ver' = ver + 1 /\ Go(u, "list")
        /\ deletedAt' = [deletedAt EXCEPT ![id] = ver + 1]
    BY <1>1, <2>1 DEF DeleteRow, Write
  <2>4. table \in Tables /\ ver \in Nat /\ nextId \in Nat /\ deletedAt \in [Ids -> Nat]
    BY BoundsAssumption DEF Rows, Typed
  <2>5. /\ table' \in Tables /\ DOMAIN table' = DOMAIN table \ {id}
        /\ \A i \in DOMAIN table \ {id} : table'[i] = table[i]
    BY <2>3, <2>4, WithoutTable
  <2>6. nextId' = nextId
    BY DEF DeleteRow
  <2>7. /\ deletedAt' \in [Ids -> Nat] /\ deletedAt'[id] = ver + 1
        /\ \A i \in Ids \ {id} : deletedAt'[i] = deletedAt[i]
    BY <2>2, <2>3, <2>4
  <2>8. Forward
    BY <2>2, <2>3, <2>4, <2>5, <2>6, <2>7 DEF Forward, Rows, TableOK
  <2>9. TableOK'
    <3>1. \A i, j \in DOMAIN table' : table'[i].addr = table'[j].addr => i = j
      BY <2>5 DEF Rows, TableOK
    <3>2. \A i \in DOMAIN table' : i < nextId'
      BY <2>5, <2>6 DEF Rows, TableOK
    <3>3. \A i \in Ids : deletedAt'[i] <= ver' /\ (deletedAt'[i] > 0 => i < nextId')
      BY <2>2, <2>3, <2>4, <2>6, <2>7 DEF Rows, TableOK
    <3> QED
      BY <3>1, <3>2, <3>3 DEF TableOK
  <2>10. PICK v : Alters(u, v) /\ Moved(call[u], "list", v)
    BY <1>0, <2>3, GoDelete DEF Rows
  <2>11. KnowsRow(v)'
    BY <2>10, Rowless DEF Moved
  <2>12. Known'
    BY <2>8, <2>10, <2>11, KnownSet
  <2>13. call' \in [AdminCall -> {Idle} \cup Busy]
    BY <1>0, <2>3, GoDelete DEF Rows
  <2> QED
    BY <2>3, <2>4, <2>5, <2>7, <2>9, <2>12, <2>13 DEF Rows, Typed, DeleteRow
<1>2. CASE call[u].id \notin DOMAIN table
  <2>1. Forward /\ TableOK'
    BY <1>2, Stays DEF DeleteRow
  <2>2. call' \in [AdminCall -> {Idle} \cup Busy] /\ Known'
    BY <1>2, <2>1, FailRows DEF DeleteRow
  <2> QED
    BY <1>2, <2>1, <2>2 DEF Rows, Typed, DeleteRow
<1> QED
  BY <1>1, <1>2

LEMMA ListedRows ==
    ASSUME Rows, NEW u \in AdminCall, ListRows(u)
    PROVE  Rows'
<1>1. Forward /\ TableOK'
  BY Stays DEF ListRows
<1>2. PICK v : Alters(u, v) /\ v \in ReplaceRec /\ v.at = "replace"
  BY ListOutcome DEF Rows
<1>3. KnowsRow(v)'
  BY <1>2, Rowless DEF Busy
<1>4. Known'
  BY <1>1, <1>2, <1>3, KnownSet
<1>5. call' \in [AdminCall -> {Idle} \cup Busy]
  BY ListOutcome DEF Rows
<1> QED
  BY <1>1, <1>4, <1>5 DEF Rows, Typed, ListRows

LEMMA ListFailsRows ==
    ASSUME Rows, NEW u \in AdminCall, ListFails(u)
    PROVE  Rows'
<1>1. Forward /\ TableOK'
  BY Stays DEF ListFails
<1>2. call' \in [AdminCall -> {Idle} \cup Busy] /\ Known'
  BY <1>1, FailRows DEF ListFails
<1> QED
  BY <1>1, <1>2 DEF Rows, Typed, ListFails

LEMMA ReplaceRows ==
    ASSUME Rows, NEW u \in AdminCall, Replace(u)
    PROVE  Rows'
<1>1. Forward /\ TableOK'
  BY Stays DEF Replace
<1>2. call' \in [AdminCall -> {Idle} \cup Busy] /\ Known'
  BY <1>1, FailRows DEF Replace
<1>3. call[u] \in ReplaceRec
  BY WhereIs DEF Replace, Rows, Typed
<1>4. call[u].list \in Tables /\ call[u].alone \in BOOLEAN
  BY <1>3 DEF ReplaceRec
<1>5. registry' \in [Server -> Tables]
  BY <1>4 DEF Replace, Rows, Typed
<1> QED
  BY <1>1, <1>2, <1>4, <1>5 DEF Rows, Typed, Replace

LEMMA CallerRows ==
    ASSUME Rows, NEW c \in Caller, Call(c)
    PROVE  Rows'
<1>1. UNCHANGED <<table, nextId, registry, call, ver, deletedAt, excused>>
  BY DEF Call, CallerRead, CallerUse
<1>2. /\ caller' \in [Caller -> {Idle} \cup UseRec]
      /\ clients' \in [Server -> SUBSET HostPort]
      /\ crowded' \in BOOLEAN
  <2>1. ASSUME NEW s \in Server, NEW a \in HostPort, CallerRead(c, s, a)
        PROVE  /\ caller' \in [Caller -> {Idle} \cup UseRec]
               /\ clients' \in [Server -> SUBSET HostPort]
               /\ crowded' \in BOOLEAN
    <3>1. [at |-> "use", server |-> s, addr |-> a] \in UseRec
      BY DEF UseRec
    <3> QED
      BY <2>1, <3>1 DEF CallerRead, Rows, Typed, AllIdle
  <2>2. CASE CallerUse(c)
    <3>1. caller[c] \in UseRec
      BY <2>2 DEF CallerUse, Rows, Typed, Idle
    <3>2. caller[c].addr \in HostPort
      BY <3>1 DEF UseRec
    <3> QED
      BY <2>2, <3>2 DEF CallerUse, Rows, Typed
  <2> QED
    BY <2>1, <2>2 DEF Call
<1>3. Forward /\ TableOK'
  BY <1>1, Stays
<1>4. Known'
  BY <1>1, <1>3, KnownStill DEF Known
<1> QED
  BY <1>1, <1>2, <1>3, <1>4 DEF Rows, Typed

LEMMA RestartRows ==
    ASSUME Rows, NEW s \in Server, Restart(s)
    PROVE  Rows'
<1>1. Forward /\ TableOK'
  BY Stays DEF Restart
<1>2. \A u \in AdminCall : call'[u] \in {Idle, call[u]}
  BY DEF Restart
<1>3. call' \in [AdminCall -> {Idle} \cup Busy]
  <2>1. call' = [u \in AdminCall |-> call'[u]]
    BY DEF Restart
  <2>2. \A u \in AdminCall : call'[u] \in {Idle} \cup Busy
    BY <1>2 DEF Rows, Typed
  <2> QED
    BY <2>1, <2>2
<1>4. Known'
  <2> SUFFICES ASSUME NEW w \in AdminCall
               PROVE  KnowsRow(call[w])'
    BY DEF Known
  <2>1. CASE call'[w] = Idle
    BY <2>1 DEF KnowsRow, Idle
  <2>2. CASE call'[w] = call[w]
    BY <1>1, <2>2, KnownStill
  <2> QED
    BY <1>2, <2>1, <2>2
<1>5. caller' \in [Caller -> {Idle} \cup UseRec]
  BY DEF Restart, Rows, Typed
<1>6. /\ registry' \in [Server -> Tables] /\ clients' \in [Server -> SUBSET HostPort]
      /\ excused' \in BOOLEAN /\ crowded' \in BOOLEAN
  BY DEF Restart, Rows, Typed
<1> QED
  BY <1>1, <1>3, <1>4, <1>5, <1>6 DEF Rows, Typed, Restart

LEMMA RowsStep ==
    ASSUME Rows, [RegistryNext]_registryVars
    PROVE  Rows'
<1>1. CASE UNCHANGED registryVars
  <2>1. Forward /\ TableOK'
    BY <1>1, Stays DEF registryVars
  <2>2. Known'
    BY <1>1, <2>1, KnownStill DEF registryVars, Known
  <2> QED
    BY <1>1, <2>1, <2>2 DEF registryVars, Rows, Typed
<1>2. ASSUME NEW u \in AdminCall, Configure(u) PROVE Rows'
  BY <1>2, CreateRows, UpdateReadRows, DeleteReadRows, FindRows, SaveRows, CloseOldRows,
     CloseDeletedRows, DeleteRows, ListedRows, ListFailsRows, ReplaceRows
     DEF Configure
<1>3. ASSUME NEW c \in Caller, Call(c) PROVE Rows'
  BY <1>3, CallerRows
<1>4. ASSUME NEW s \in Server, Restart(s) PROVE Rows'
  BY <1>4, RestartRows
<1> QED
  BY <1>1, <1>2, <1>3, <1>4 DEF RegistryNext

LEMMA RowsAlways == RegistrySpec => []Rows
BY RowsInit, RowsStep, PTL DEF RegistrySpec

(* What the table, the registries, the clients and the calls can hold, with
   the table's addresses unique whatever overlaps. *)
THEOREM RegistryTypeCorrect == RegistrySpec => []RegistryTypeOK
<1>1. ASSUME Rows PROVE RegistryTypeOK
  <2> SUFFICES ASSUME NEW u \in AdminCall
               PROVE
          /\ call[u].at \in {"idle", "find", "save", "close", "drop", "delete", "list",
                            "replace"}
          /\ call[u].at # "idle" => call[u].server \in Server /\ call[u].alone \in BOOLEAN
          /\ call[u].at \in {"find", "save", "close", "drop", "delete"} =>
                call[u].id \in Ids /\ call[u].old \in Row
          /\ call[u].at \in {"find", "save", "close"} =>
                call[u].new \in Row /\ call[u].found \in 0 .. ver
          /\ call[u].at = "replace" => call[u].list \in Tables
    BY <1>1 DEF RegistryTypeOK, Rows, Typed, TableOK, UseRec
  <2>1. call[u] \in {Idle} \cup Busy /\ KnowsRow(call[u]) /\ ver \in Nat
    BY <1>1 DEF Rows, Typed, Known
  <2>2. PICK r : r = call[u]
    OBVIOUS
  <2>3. r.at \in {"find", "save", "close"} =>
           r.id \in Ids /\ r.old \in Row /\ r.new \in Row /\ r.found \in 0 .. ver
    BY <2>1, <2>2, WhereIs DEF UpdateRec, KnowsRow
  <2>4. r.at \in {"drop", "delete"} => r.id \in Ids /\ r.old \in Row
    BY <2>1, <2>2, WhereIs DEF DeleteRec
  <2>5. r.at = "replace" => r.list \in Tables
    BY <2>1, <2>2, WhereIs DEF ReplaceRec
  <2> QED
    BY <2>1, <2>2, <2>3, <2>4, <2>5, WhereIs
<1> QED
  BY <1>1, RowsAlways, PTL

\* One step of the property below.
ComesBack ==
    \A i \in DOMAIN table' \ DOMAIN table :
       deletedAt[i] > 0 =>
          \E u \in AdminCall : /\ call[u].at = "save" /\ call[u].id = i
                               /\ call[u].found < deletedAt[i]

LEMMA NoNewRow ==
    ASSUME DOMAIN table' \subseteq DOMAIN table
    PROVE  ComesBack
BY DEF ComesBack

LEMMA ComesBackStep ==
    ASSUME Rows, RegistryNext
    PROVE  ComesBack
<1>1. ASSUME NEW u \in AdminCall, NEW s \in Server, NEW a \in HostPort, NEW on \in BOOLEAN,
             CreateRow(u, s, a, on)
      PROVE  ComesBack
  <2>1. DOMAIN table' = DOMAIN table \cup {nextId}
    BY <1>1 DEF CreateRow, Write, Put
  <2>2. nextId \in Ids
    BY <1>1, BoundsAssumption DEF CreateRow, Rows, Typed, Ids
  <2>3. ~(deletedAt[nextId] > 0)
    BY <2>2, BoundsAssumption DEF Rows, Typed, TableOK
  <2> QED
    BY <2>1, <2>3 DEF ComesBack
<1>2. ASSUME NEW u \in AdminCall, SaveRow(u) PROVE ComesBack
  <2>1. DOMAIN table' \subseteq DOMAIN table \cup {call[u].id}
    BY <1>2 DEF SaveRow, Write, Put
  <2>2. call[u].id \in DOMAIN table \/ call[u].found < deletedAt[call[u].id]
    BY <1>2 DEF SaveRow, Rows, Known, KnowsRow
  <2> QED
    BY <1>2, <2>1, <2>2 DEF ComesBack, SaveRow
<1>3. ASSUME NEW u \in AdminCall, DeleteRow(u) PROVE ComesBack
  BY <1>3, NoNewRow DEF DeleteRow, Write, Without
<1>4. ASSUME table' = table PROVE ComesBack
  BY <1>4, NoNewRow
<1>5. ASSUME NEW u \in AdminCall, Configure(u) PROVE ComesBack
  BY <1>1, <1>2, <1>3, <1>4, <1>5
     DEF Configure, UpdateRead, DeleteRead, FindRow, CloseOld, CloseDeleted, ListRows,
         ListFails, Replace
<1>6. ASSUME NEW c \in Caller, Call(c) PROVE ComesBack
  BY <1>4, <1>6 DEF Call, CallerRead, CallerUse
<1>7. ASSUME NEW s \in Server, Restart(s) PROVE ComesBack
  BY <1>4, <1>7 DEF Restart
<1> QED
  BY <1>5, <1>6, <1>7 DEF RegistryNext

(* A deleted runner comes back only through an update that had found its row
   before the deletion, whatever number of servers, calls and restarts. *)
THEOREM OlderUpdateOnly == RegistrySpec => BackOnlyByOlderUpdate
<1>1. Rows /\ [RegistryNext]_registryVars => [ComesBack]_registryVars
  BY ComesBackStep
<1>2. Rows /\ [RegistryNext]_registryVars =>
        [\A i \in DOMAIN table' \ DOMAIN table :
          deletedAt[i] > 0 =>
             \E u \in AdminCall : /\ call[u].at = "save" /\ call[u].id = i
                              /\ call[u].found < deletedAt[i]]_registryVars
  BY <1>1 DEF ComesBack
<1> QED
  BY <1>2, RowsAlways, PTL DEF RegistrySpec, BackOnlyByOlderUpdate

-----------------------------------------------------------------------------
(* One server process.  While calls do not overlap, the one in progress has
   the table to itself: what it read is so still.  An overlap excuses the
   registry until a call has run alone; so the invariant says of a call that
   is still alone that it is the only one, and has read the table as it is. *)

Sole(u) == \A w \in AdminCall \ {u} : call[w].at = "idle"

Single ==
    \A u \in AdminCall :
       call[u].at # "idle" /\ call[u].alone =>
          Sole(u) /\ (call[u].at = "replace" => call[u].list = table)

\* As long as nothing excuses it, the registry is the table until a call writes.
Unwritten == {"idle", "find", "save", "drop", "delete"}
Fresh ==
    ~excused =>
        /\ \A u \in AdminCall : call[u].at # "idle" => call[u].alone
        /\ (\A u \in AdminCall : call[u].at \in Unwritten) =>
              \A s \in Server : registry[s] = table

\* The clients are of rows that are there, but for the one about to be closed.
Uses(r, s) ==
    /\ r.at \in {"find", "save", "drop", "delete"} =>
          r.id \in DOMAIN table /\ table[r.id] = r.old
    /\ r.at = "close" => /\ r.id \in DOMAIN table /\ table[r.id] = r.new
                         /\ clients[s] \subseteq Addrs(table) \cup {r.old.addr}
    /\ r.at = "delete" => clients[s] \subseteq Addrs(table) \ {r.old.addr}
    /\ r.at \in {"find", "save", "drop", "list", "replace"} => clients[s] \subseteq Addrs(table)

Listed ==
    ~crowded =>
        /\ ~excused
        /\ AllIdle => \A s \in Server : clients[s] \subseteq Addrs(table)
        /\ \A c \in Caller : caller[c].at = "use" => AllIdle /\ caller[c].addr \in Addrs(table)
        /\ \A u \in AdminCall, s \in Server : call[u].at # "idle" => Uses(call[u], s)

Tidy == Rows /\ Single /\ Fresh /\ Listed

LEMMA Alone ==
    ASSUME Single, Fresh, ~excused, NEW u \in AdminCall, call[u].at # "idle"
    PROVE  call[u].alone /\ Sole(u)
BY DEF Single, Fresh

LEMMA AddrsOf ==
    ASSUME NEW t \in Tables
    PROVE  /\ \A i \in DOMAIN t : t[i].addr \in Addrs(t)
           /\ \A a \in Addrs(t) : \E i \in DOMAIN t : t[i].addr = a
BY DEF Addrs

-----------------------------------------------------------------------------
(* A call begins. *)

LEMMA SingleBegins ==
    ASSUME Rows, NEW u \in AdminCall, NEW v \in Busy, Begin(u, v), v.alone <=> AllIdle,
           v.at # "replace"
    PROVE  Single'
<1>1. /\ call'[u] = v
      /\ \A w \in AdminCall \ {u} :
            \/ call[w].at = "idle" /\ call'[w] = Idle
            \/ call[w].at # "idle" /\ call'[w].alone = FALSE
  BY Begins DEF Rows
<1> SUFFICES ASSUME NEW x \in AdminCall, call'[x].at # "idle", call'[x].alone
             PROVE  Sole(x)' /\ call'[x].at # "replace"
  BY DEF Single
<1>2. x = u
  BY <1>1 DEF Idle
<1>3. AllIdle
  BY <1>1, <1>2
<1>4. Sole(u)'
  BY <1>1, <1>3 DEF AllIdle, Sole, Idle
<1> QED
  BY <1>1, <1>2, <1>4

LEMMA FreshBegins ==
    ASSUME Rows, Fresh, NEW u \in AdminCall, NEW v \in Busy, Begin(u, v), v.alone <=> AllIdle,
           v.at # "idle", registry' = registry,
           v.at \in Unwritten => table' = table
    PROVE  Fresh'
<1>1. /\ call'[u] = v
      /\ \A w \in AdminCall \ {u} :
            \/ call[w].at = "idle" /\ call'[w] = Idle
            \/ call[w].at # "idle" /\ call'[w].alone = FALSE
  BY Begins DEF Rows
<1> SUFFICES ASSUME ~excused'
             PROVE  /\ \A x \in AdminCall : call'[x].at # "idle" => call'[x].alone
                    /\ (\A x \in AdminCall : call'[x].at \in Unwritten) =>
                          \A s \in Server : registry'[s] = table'
  BY DEF Fresh
<1>2. ~excused /\ AllIdle
  BY DEF Begin
<1>3. ASSUME NEW x \in AdminCall, call'[x].at # "idle"
      PROVE  call'[x].alone
  <2>1. x = u
    BY <1>1, <1>2, <1>3 DEF AllIdle, Idle
  <2> QED
    BY <1>1, <1>2, <2>1
<1>4. ASSUME v.at \in Unwritten, NEW s \in Server PROVE registry'[s] = table'
  BY <1>2, <1>4 DEF Fresh, AllIdle, Unwritten
<1> QED
  BY <1>1, <1>3, <1>4

LEMMA ListedBegins ==
    ASSUME Rows, Listed, NEW u \in AdminCall, NEW v \in Busy, Begin(u, v),
           v.at # "idle", caller' = caller,
           \A s \in Server : AllIdle /\ clients[s] \subseteq Addrs(table) => Uses(v, s)'
    PROVE  Listed'
<1>1. /\ call'[u] = v
      /\ \A w \in AdminCall \ {u} :
            \/ call[w].at = "idle" /\ call'[w] = Idle
            \/ call[w].at # "idle" /\ call'[w].alone = FALSE
  BY Begins DEF Rows
<1>2. ASSUME ~crowded'
      PROVE  /\ AllIdle /\ ~excused' /\ ~crowded
             /\ \A c \in Caller : caller'[c].at = "idle"
  BY <1>2 DEF Begin, Listed
<1>3. ~AllIdle'
  BY <1>1 DEF AllIdle
<1>4. ASSUME ~crowded', NEW x \in AdminCall, NEW s \in Server, call'[x].at # "idle"
      PROVE  Uses(call[x], s)'
  <2>1. x = u
    BY <1>1, <1>2, <1>4 DEF AllIdle, Idle
  <2>2. Uses(v, s)'
    BY <1>2, <1>4 DEF Listed
  <2> QED
    BY <1>1, <2>1, <2>2
<1> QED
  BY <1>2, <1>3, <1>4 DEF Listed

-----------------------------------------------------------------------------
(* A call goes on. *)

LEMMA SingleOwn ==
    ASSUME Single, NEW u \in AdminCall, call[u].at # "idle", NEW v, Alters(u, v),
           v.at # "idle" => v.alone = call[u].alone,
           v.at = "replace" => v.list = table'
    PROVE  Single'
<1> SUFFICES ASSUME NEW x \in AdminCall, call'[x].at # "idle", call'[x].alone
             PROVE  Sole(x)' /\ (call'[x].at = "replace" => call'[x].list = table')
  BY DEF Single
<1>1. x = u
  BY DEF Single, Sole, Alters
<1>2. call'[u] = v /\ Sole(u)
  BY <1>1 DEF Alters, Single
<1>3. Sole(u)'
  BY <1>2 DEF Sole, Alters
<1> QED
  BY <1>1, <1>2, <1>3

LEMMA FreshOwn ==
    ASSUME Single, Fresh, NEW u \in AdminCall, call[u].at # "idle", NEW v, Alters(u, v),
           v.at # "idle" => v.alone = call[u].alone,
           excused' = excused,
           v.at \in Unwritten => call[u].at \in Unwritten /\ UNCHANGED <<table, registry>>
    PROVE  Fresh'
<1> SUFFICES ASSUME ~excused'
             PROVE  /\ \A x \in AdminCall : call'[x].at # "idle" => call'[x].alone
                    /\ (\A x \in AdminCall : call'[x].at \in Unwritten) =>
                          \A s \in Server : registry'[s] = table'
  BY DEF Fresh
<1>1. call[u].alone /\ Sole(u)
  BY Alone
<1>2. \A x \in AdminCall : call'[x].at # "idle" => call'[x].alone
  BY <1>1 DEF Sole, Alters
<1>3. ASSUME v.at \in Unwritten, NEW s \in Server PROVE registry'[s] = table'
  <2>1. \A x \in AdminCall : call[x].at \in Unwritten
    BY <1>1, <1>3 DEF Sole, Unwritten
  <2> QED
    BY <1>3, <2>1 DEF Fresh
<1> QED
  BY <1>2, <1>3 DEF Alters

LEMMA ListedOwn ==
    ASSUME Single, Fresh, Listed, NEW u \in AdminCall, call[u].at # "idle", NEW v, Alters(u, v),
           caller' = caller, ~crowded' => ~crowded, ~crowded' => ~excused',
           \A s \in Server : ~crowded /\ Uses(call[u], s) =>
              IF v.at = "idle" THEN clients'[s] \subseteq Addrs(table') ELSE Uses(v, s)'
    PROVE  Listed'
<1>1. ASSUME ~crowded'
      PROVE  /\ ~crowded /\ ~excused /\ ~excused'
             /\ Sole(u) /\ ~AllIdle
             /\ \A c \in Caller : caller'[c].at # "use"
             /\ \A s \in Server : Uses(call[u], s)
  BY <1>1, Alone DEF Listed, AllIdle
<1>2. ASSUME ~crowded', AllIdle', NEW s \in Server
      PROVE  clients'[s] \subseteq Addrs(table')
  <2>1. v.at = "idle"
    BY <1>2 DEF AllIdle, Alters
  <2> QED
    BY <1>1, <1>2, <2>1
<1>3. ASSUME ~crowded', NEW x \in AdminCall, NEW s \in Server, call'[x].at # "idle"
      PROVE  Uses(call[x], s)'
  <2>1. x = u
    BY <1>1, <1>3 DEF Sole, Alters
  <2>2. Uses(v, s)'
    BY <1>1, <1>3, <2>1 DEF Alters
  <2> QED
    BY <2>1, <2>2 DEF Alters
<1>4. ASSUME ~crowded', NEW s \in Server, AllIdle' PROVE clients[s]' \subseteq Addrs(table)'
  BY <1>2, <1>4 DEF Addrs
<1> QED
  BY <1>1, <1>3, <1>4 DEF Listed

-----------------------------------------------------------------------------
(* The invariant and each step. *)

LEMMA TidyInit == ASSUME RegistryInit PROVE Tidy
<1>1. \A u \in AdminCall : call[u].at = "idle"
  BY DEF RegistryInit, Idle
<1>2. Single /\ Fresh
  BY <1>1 DEF RegistryInit, Single, Fresh
<1>3. Listed
  BY <1>1 DEF RegistryInit, Listed, Idle
<1> QED
  BY <1>2, <1>3, RowsInit DEF Tidy

LEMMA CreateTidy ==
    ASSUME Tidy, NEW u \in AdminCall, NEW s \in Server, NEW a \in HostPort, NEW on \in BOOLEAN,
           CreateRow(u, s, a, on)
    PROVE  Single' /\ Fresh' /\ Listed'
<1>1. PICK b \in BOOLEAN : b = AllIdle
  BY DEF AllIdle
<1>2. PICK v : v = [at |-> "list", server |-> s, alone |-> b]
  OBVIOUS
<1>3. v \in Busy /\ v.at = "list" /\ (v.alone <=> AllIdle)
  BY <1>1, <1>2, CreateBusy
<1>4. Begin(u, v) /\ registry' = registry /\ caller' = caller /\ clients' = clients
  BY <1>1, <1>2 DEF CreateRow
<1>5. Single' /\ Fresh'
  BY <1>3, <1>4, SingleBegins, FreshBegins DEF Tidy, Unwritten
<1>6. Addrs(table) \subseteq Addrs(table')
  <2>1. PICK id, row : id = nextId /\ row = [addr |-> a, on |-> on]
    OBVIOUS
  <2>2. table' = Put(table, id, row)
    BY <2>1 DEF CreateRow, Write
  <2>3. id \notin DOMAIN table
    BY <2>1, BoundsAssumption DEF Tidy, Rows, Typed, TableOK
  <2> QED
    BY <2>2, <2>3 DEF Addrs, Put
<1>7. \A t \in Server : AllIdle /\ clients[t] \subseteq Addrs(table) => Uses(v, t)'
  BY <1>3, <1>4, <1>6 DEF Uses, Addrs
<1> QED
  BY <1>3, <1>4, <1>5, <1>7, ListedBegins DEF Tidy

LEMMA UpdateReadTidy ==
    ASSUME Tidy, NEW u \in AdminCall, NEW s \in Server, NEW id \in Ids, NEW row \in Row,
           UpdateRead(u, s, id, row)
    PROVE  Single' /\ Fresh' /\ Listed'
<1>1. PICK b \in BOOLEAN : b = AllIdle
  BY DEF AllIdle
<1>2. PICK old : old = table[id]
  OBVIOUS
<1>3. old \in Row /\ id \in DOMAIN table
  BY <1>2, InTables DEF Tidy, Rows, Typed, UpdateRead
<1>4. PICK v : v = [at |-> "find", server |-> s, alone |-> b, id |-> id, old |-> old,
                    new |-> row, found |-> 0]
  OBVIOUS
<1>5. v \in Busy /\ v.at = "find" /\ v.id = id /\ v.old = old /\ (v.alone <=> AllIdle)
  BY <1>1, <1>3, <1>4, UpdateBusy
<1>6. Begin(u, v) /\ UNCHANGED <<registry, caller, clients, table>>
  BY <1>1, <1>2, <1>4 DEF UpdateRead
<1>7. Single' /\ Fresh'
  BY <1>5, <1>6, SingleBegins, FreshBegins DEF Tidy
<1>8. \A t \in Server : AllIdle /\ clients[t] \subseteq Addrs(table) => Uses(v, t)'
  BY <1>2, <1>3, <1>5, <1>6 DEF Uses, Addrs
<1> QED
  BY <1>5, <1>6, <1>7, <1>8, ListedBegins DEF Tidy

LEMMA DeleteReadTidy ==
    ASSUME Tidy, NEW u \in AdminCall, NEW s \in Server, NEW id \in Ids, DeleteRead(u, s, id)
    PROVE  Single' /\ Fresh' /\ Listed'
<1>1. PICK b \in BOOLEAN : b = AllIdle
  BY DEF AllIdle
<1>2. PICK old : old = table[id]
  OBVIOUS
<1>3. old \in Row /\ id \in DOMAIN table
  BY <1>2, InTables DEF Tidy, Rows, Typed, DeleteRead
<1>4. PICK v : v = [at |-> "drop", server |-> s, alone |-> b, id |-> id, old |-> old]
  OBVIOUS
<1>5. v \in Busy /\ v.at = "drop" /\ v.id = id /\ v.old = old /\ (v.alone <=> AllIdle)
  BY <1>1, <1>3, <1>4, DeleteBusy
<1>6. Begin(u, v) /\ UNCHANGED <<registry, caller, clients, table>>
  BY <1>1, <1>2, <1>4 DEF DeleteRead
<1>7. Single' /\ Fresh'
  BY <1>5, <1>6, SingleBegins, FreshBegins DEF Tidy
<1>8. \A t \in Server : AllIdle /\ clients[t] \subseteq Addrs(table) => Uses(v, t)'
  BY <1>2, <1>3, <1>5, <1>6 DEF Uses, Addrs
<1> QED
  BY <1>5, <1>6, <1>7, <1>8, ListedBegins DEF Tidy

\* A call that fails with nothing done.
LEMMA FailTidy ==
    ASSUME Tidy, NEW u \in AdminCall, Fail(u), call[u].at \in {"find", "save", "delete"},
           UNCHANGED <<table, registry, clients, caller, excused, crowded>>
    PROVE  Single' /\ Fresh' /\ Listed'
<1>1. Alters(u, Idle) /\ Idle.at = "idle"
  BY FailIdle DEF Tidy, Rows, Idle
<1>2. Single' /\ Fresh'
  BY <1>1, SingleOwn, FreshOwn DEF Tidy, Unwritten
<1>3. \A s \in Server : Uses(call[u], s) => clients'[s] \subseteq Addrs(table')
  BY DEF Uses
<1>4. ~crowded' => ~excused'
  BY DEF Tidy, Listed
<1> QED
  BY <1>1, <1>2, <1>3, <1>4, ListedOwn DEF Tidy

LEMMA FindTidy ==
    ASSUME Tidy, NEW u \in AdminCall, FindRow(u)
    PROVE  Single' /\ Fresh' /\ Listed'
<1>0. /\ call[u].at = "find" /\ UNCHANGED <<table, registry, clients, caller, excused, crowded>>
      /\ ~crowded' => ~excused'
  BY DEF FindRow, Tidy, Listed
<1>1. CASE call[u].id \in DOMAIN table
  <2>1. call[u] \in UpdateRec
    BY <1>0, WhereIs DEF Tidy, Rows, Typed
  <2>2. call' = [call EXCEPT ![u].at = "save", ![u].found = ver]
    BY <1>1 DEF FindRow
  <2>3. PICK v : /\ Alters(u, v) /\ v.at = "save" /\ v.alone = call[u].alone
                 /\ v.id = call[u].id /\ v.old = call[u].old
    BY <2>1, <2>2, Found DEF Tidy, Rows
  <2>4. Single' /\ Fresh'
    BY <1>0, <2>3, SingleOwn, FreshOwn DEF Tidy, Unwritten
  <2>5. \A s \in Server : Uses(call[u], s) => Uses(v, s)'
    BY <1>0, <2>3 DEF Uses, Addrs
  <2> QED
    BY <1>0, <2>3, <2>4, <2>5, ListedOwn DEF Tidy
<1>2. CASE call[u].id \notin DOMAIN table
  BY <1>0, <1>2, FailTidy DEF FindRow
<1> QED
  BY <1>1, <1>2

LEMMA SaveTidy ==
    ASSUME Tidy, NEW u \in AdminCall, SaveRow(u)
    PROVE  Single' /\ Fresh' /\ Listed'
<1>0. /\ call[u].at = "save" /\ UNCHANGED <<registry, clients, caller, excused, crowded>>
      /\ ~crowded' => ~excused'
  BY DEF SaveRow, Tidy, Listed
<1>1. CASE Free(call[u].id, call[u].new.addr)
  <2>1. call[u] \in UpdateRec
    BY <1>0, WhereIs DEF Tidy, Rows, Typed
  <2>2. Go(u, "close") /\ table' = Put(table, call[u].id, call[u].new)
    BY <1>1 DEF SaveRow, Write
  <2>3. PICK v : Alters(u, v) /\ Moved(call[u], "close", v)
    BY <2>1, <2>2, GoUpdate DEF Tidy, Rows
  <2>4. /\ v.at = "close" /\ v.alone = call[u].alone /\ v.id = call[u].id
        /\ v.old = call[u].old /\ v.new = call[u].new
    BY <2>1, <2>3 DEF Moved
  <2>5. Single' /\ Fresh'
    BY <1>0, <2>3, <2>4, SingleOwn, FreshOwn DEF Tidy, Unwritten
  <2>6. ASSUME NEW s \in Server, Uses(call[u], s) PROVE Uses(v, s)'
    <3>1. PICK id, row, old : id = call[u].id /\ row = call[u].new /\ old = call[u].old
      OBVIOUS
    <3>2. id \in DOMAIN table /\ table[id] = old /\ clients[s] \subseteq Addrs(table)
      BY <1>0, <2>6, <3>1 DEF Uses
    <3>3. table' = Put(table, id, row)
      BY <2>2, <3>1
    <3>4. id \in DOMAIN table' /\ table'[id] = row
      BY <3>3 DEF Put
    <3>5. \A i \in DOMAIN table \ {id} : i \in DOMAIN table' /\ table'[i] = table[i]
      BY <3>3 DEF Put
    <3>6. Addrs(table) \subseteq Addrs(table') \cup {old.addr}
      BY <3>2, <3>5 DEF Addrs
    <3>7. clients'[s] \subseteq Addrs(table') \cup {old.addr}
      BY <1>0, <3>2, <3>6
    <3> QED
      BY <2>4, <3>1, <3>4, <3>7 DEF Uses, Addrs
  <2> QED
    BY <1>0, <2>3, <2>4, <2>5, <2>6, ListedOwn DEF Tidy
<1>2. CASE ~Free(call[u].id, call[u].new.addr)
  BY <1>0, <1>2, FailTidy DEF SaveRow
<1> QED
  BY <1>1, <1>2

LEMMA CloseOldTidy ==
    ASSUME Tidy, NEW one, Server = {one}, NEW u \in AdminCall, CloseOld(u)
    PROVE  Single' /\ Fresh' /\ Listed'
<1>0. /\ call[u].at = "close" /\ UNCHANGED <<table, registry, caller, excused, crowded>>
      /\ ~crowded' => ~excused'
  BY DEF CloseOld, Tidy, Listed
<1>1. call[u] \in UpdateRec
  BY <1>0, WhereIs DEF Tidy, Rows, Typed
<1>2. PICK v : Alters(u, v) /\ Moved(call[u], "list", v)
  BY <1>1, GoUpdate DEF CloseOld, Tidy, Rows
<1>3. v.at = "list" /\ v.alone = call[u].alone
  BY <1>2 DEF Moved
<1>4. Single' /\ Fresh'
  BY <1>0, <1>2, <1>3, SingleOwn, FreshOwn DEF Tidy, Unwritten
<1>5. PICK old, new : old = call[u].old /\ new = call[u].new
  OBVIOUS
<1>6. ASSUME NEW s \in Server, Uses(call[u], s) PROVE Uses(v, s)'
  <2>1. call[u].server = s
    BY <1>1, <1>6 DEF UpdateRec
  <2>2. clients[s] \subseteq Addrs(table) \cup {old.addr} /\ new.addr \in Addrs(table)
    BY <1>0, <1>5, <1>6 DEF Uses, Addrs
  <2>3. clients'[s] \subseteq Addrs(table)
    <3>1. CASE old.addr # new.addr \/ (old.on /\ ~new.on)
      BY <1>5, <2>1, <2>2, <3>1 DEF CloseOld, Tidy, Rows, Typed
    <3>2. CASE ~(old.addr # new.addr \/ (old.on /\ ~new.on))
      BY <1>5, <2>2, <3>2 DEF CloseOld
    <3> QED
      BY <3>1, <3>2
  <2> QED
    BY <1>0, <1>3, <2>3 DEF Uses, Addrs
<1>7. Listed'
  BY <1>0, <1>2, <1>3, <1>6, ListedOwn DEF Tidy
<1> QED
  BY <1>4, <1>7

LEMMA CloseDeletedTidy ==
    ASSUME Tidy, NEW one, Server = {one}, NEW u \in AdminCall, CloseDeleted(u)
    PROVE  Single' /\ Fresh' /\ Listed'
<1>0. /\ call[u].at = "drop" /\ UNCHANGED <<table, registry, caller, excused, crowded>>
      /\ ~crowded' => ~excused'
  BY DEF CloseDeleted, Tidy, Listed
<1>1. call[u] \in DeleteRec
  BY <1>0, WhereIs DEF Tidy, Rows, Typed
<1>2. PICK v : Alters(u, v) /\ Moved(call[u], "delete", v)
  BY <1>1, GoDelete DEF CloseDeleted, Tidy, Rows
<1>3. v.at = "delete" /\ v.alone = call[u].alone /\ v.id = call[u].id /\ v.old = call[u].old
  BY <1>1, <1>2 DEF Moved
<1>4. Single' /\ Fresh'
  BY <1>0, <1>2, <1>3, SingleOwn, FreshOwn DEF Tidy, Unwritten
<1>5. PICK old : old = call[u].old
  OBVIOUS
<1>6. ASSUME NEW s \in Server, Uses(call[u], s) PROVE Uses(v, s)'
  <2>1. call[u].server = s
    BY <1>1 DEF DeleteRec
  <2>2. clients[s] \subseteq Addrs(table)
    BY <1>0, <1>6 DEF Uses
  <2>3. clients'[s] \subseteq Addrs(table) \ {old.addr}
    BY <1>5, <2>1, <2>2 DEF CloseDeleted, Tidy, Rows, Typed
  <2>4. v.id \in DOMAIN table /\ table[v.id] = v.old
    BY <1>0, <1>3, <1>6 DEF Uses
  <2> QED
    BY <1>0, <1>3, <1>5, <2>3, <2>4 DEF Uses, Addrs
<1> QED
  BY <1>0, <1>2, <1>3, <1>4, <1>6, ListedOwn DEF Tidy

LEMMA DeleteTidy ==
    ASSUME Tidy, NEW u \in AdminCall, DeleteRow(u)
    PROVE  Single' /\ Fresh' /\ Listed'
<1>0. /\ call[u].at = "delete" /\ UNCHANGED <<registry, clients, caller, excused, crowded>>
      /\ ~crowded' => ~excused'
  BY DEF DeleteRow, Tidy, Listed
<1>1. CASE call[u].id \in DOMAIN table
  <2>1. call[u] \in DeleteRec
    BY <1>0, WhereIs DEF Tidy, Rows, Typed
  <2>2. Go(u, "list") /\ table' = Without(table, call[u].id)
    BY <1>1 DEF DeleteRow, Write
  <2>3. PICK v : Alters(u, v) /\ Moved(call[u], "list", v)
    BY <2>1, <2>2, GoDelete DEF Tidy, Rows
  <2>4. v.at = "list" /\ v.alone = call[u].alone
    BY <2>3 DEF Moved
  <2>5. Single' /\ Fresh'
    BY <1>0, <2>3, <2>4, SingleOwn, FreshOwn DEF Tidy, Unwritten
  <2>6. ASSUME NEW s \in Server, Uses(call[u], s) PROVE Uses(v, s)'
    <3>1. PICK id, old : id = call[u].id /\ old = call[u].old
      OBVIOUS
    <3>2. table[id] = old /\ clients[s] \subseteq Addrs(table) \ {old.addr}
      BY <1>0, <2>6, <3>1 DEF Uses
    <3>3. \A i \in DOMAIN table \ {id} : i \in DOMAIN table' /\ table'[i] = table[i]
      BY <2>2, <3>1 DEF Without
    <3>4. Addrs(table) \ {old.addr} \subseteq Addrs(table')
      BY <3>2, <3>3 DEF Addrs
    <3>5. clients'[s] \subseteq Addrs(table')
      BY <1>0, <3>2, <3>4
    <3> QED
      BY <2>4, <3>5 DEF Uses, Addrs
  <2> QED
    BY <1>0, <2>3, <2>4, <2>5, <2>6, ListedOwn DEF Tidy
<1>2. CASE call[u].id \notin DOMAIN table
  BY <1>0, <1>2, FailTidy DEF DeleteRow
<1> QED
  BY <1>1, <1>2

LEMMA ListTidy ==
    ASSUME Tidy, NEW u \in AdminCall, ListRows(u)
    PROVE  Single' /\ Fresh' /\ Listed'
<1>0. /\ call[u].at = "list" /\ UNCHANGED <<table, registry, clients, caller, excused, crowded>>
      /\ ~crowded' => ~excused'
  BY DEF ListRows, Tidy, Listed
<1>1. PICK v : Alters(u, v) /\ v.at = "replace" /\ v.alone = call[u].alone /\ v.list = table
  BY ListOutcome DEF Tidy, Rows
<1>2. Single' /\ Fresh'
  BY <1>0, <1>1, SingleOwn, FreshOwn DEF Tidy, Unwritten
<1>3. \A s \in Server : Uses(call[u], s) => Uses(v, s)'
  BY <1>0, <1>1 DEF Uses, Addrs
<1> QED
  BY <1>0, <1>1, <1>2, <1>3, ListedOwn DEF Tidy

LEMMA ListFailsTidy ==
    ASSUME Tidy, NEW u \in AdminCall, ListFails(u)
    PROVE  Single' /\ Fresh' /\ Listed'
<1>1. Alters(u, Idle) /\ Idle.at = "idle" /\ call[u].at = "list" /\ table' = table
  BY FailIdle DEF Tidy, Rows, Idle, ListFails
<1>2. Single'
  BY <1>1, SingleOwn DEF Tidy
<1>3. excused' = TRUE /\ crowded' = TRUE
  BY DEF ListFails
<1>4. Fresh' /\ Listed'
  BY <1>3 DEF Fresh, Listed
<1> QED
  BY <1>2, <1>4

LEMMA ReplaceTidy ==
    ASSUME Tidy, NEW one, Server = {one}, NEW u \in AdminCall, Replace(u)
    PROVE  Single' /\ Fresh' /\ Listed'
<1>0. /\ call[u].at = "replace" /\ UNCHANGED <<table, clients, caller, crowded>>
      /\ excused' = (excused /\ ~call[u].alone)
  BY DEF Replace
<1>1. Alters(u, Idle) /\ Idle.at = "idle"
  BY FailIdle DEF Tidy, Rows, Idle, Replace
<1>2. Single'
  BY <1>0, <1>1, SingleOwn DEF Tidy
<1>3. call[u].server = one
  BY <1>0, WhereIs DEF Tidy, Rows, Typed
<1>4. Fresh'
  <2> SUFFICES ASSUME ~excused'
               PROVE  /\ \A x \in AdminCall : call'[x].at # "idle" => call'[x].alone
                      /\ \A s \in Server : registry'[s] = table'
    BY DEF Fresh
  <2>1. call[u].alone
    BY <1>0, Alone DEF Tidy
  <2>2. Sole(u) /\ call[u].list = table
    BY <1>0, <2>1 DEF Tidy, Single
  <2>3. registry'[one] = table
    BY <1>3, <2>2 DEF Replace, Tidy, Rows, Typed
  <2> QED
    BY <1>0, <1>1, <2>2, <2>3 DEF Sole, Alters
<1>5. \A s \in Server : Uses(call[u], s) => clients'[s] \subseteq Addrs(table')
  BY <1>0 DEF Uses
<1>6. ~crowded' => ~excused'
  BY <1>0 DEF Tidy, Listed
<1>7. Listed'
  BY <1>0, <1>1, <1>5, <1>6, ListedOwn DEF Tidy
<1> QED
  BY <1>2, <1>4, <1>7

LEMMA CallerTidy ==
    ASSUME Tidy, NEW c \in Caller, Call(c)
    PROVE  Single' /\ Fresh' /\ Listed'
<1>1. UNCHANGED <<table, registry, call, excused>>
  BY DEF Call, CallerRead, CallerUse
<1>2. Single' /\ Fresh'
  BY <1>1 DEF Tidy, Single, Fresh, Sole
<1>3. ASSUME NEW s \in Server, NEW a \in HostPort, CallerRead(c, s, a) PROVE Listed'
  <2> SUFFICES ASSUME ~crowded' PROVE Listed'
    BY DEF Listed
  <2>1. ~crowded /\ ~excused /\ AllIdle
    BY <1>3 DEF CallerRead, Tidy, Listed
  <2>2. registry[s] = table
    BY <2>1 DEF Tidy, Fresh, AllIdle, Unwritten
  <2>3. a \in Addrs(table)
    BY <1>3, <2>2 DEF CallerRead, Addrs, EnabledAddrs
  <2>4. \A d \in Caller : caller'[d].at = "use" => caller'[d].addr \in Addrs(table)
    BY <1>3, <2>1, <2>3 DEF CallerRead, Tidy, Listed, Rows, Typed
  <2>5. clients' = clients
    BY <1>3 DEF CallerRead
  <2> QED
    BY <1>1, <2>1, <2>4, <2>5 DEF Tidy, Listed, AllIdle, Addrs
<1>4. ASSUME CallerUse(c) PROVE Listed'
  <2> SUFFICES ASSUME ~crowded' PROVE Listed'
    BY DEF Listed
  <2>1. ~crowded /\ caller[c].at = "use"
    BY <1>4 DEF CallerUse
  <2>2. ~excused /\ AllIdle /\ caller[c].addr \in Addrs(table)
    BY <2>1 DEF Tidy, Listed
  <2>3. \A s \in Server : clients'[s] \subseteq Addrs(table)
    BY <1>4, <2>1, <2>2 DEF CallerUse, Tidy, Listed, Rows, Typed
  <2>4. \A d \in Caller : caller'[d].at = "use" => caller'[d].addr \in Addrs(table)
    BY <1>4, <2>1, <2>2 DEF CallerUse, Tidy, Listed, Rows, Typed, Idle
  <2> QED
    BY <1>1, <2>2, <2>3, <2>4 DEF Listed, AllIdle, Addrs
<1> QED
  BY <1>2, <1>3, <1>4 DEF Call

LEMMA RestartTidy ==
    ASSUME Tidy, NEW one, Server = {one}, Restart(one)
    PROVE  Single' /\ Fresh' /\ Listed'
<1>1. /\ table' = table /\ excused' = FALSE /\ crowded' = FALSE
      /\ registry'[one] = table /\ clients'[one] = {}
  BY DEF Restart, Tidy, Rows, Typed
<1>2. \A u \in AdminCall : call'[u].at = "idle"
  <2> TAKE u \in AdminCall
  <2>1. call[u].at # "idle" => call[u].server = one
    BY WhereIs DEF Tidy, Rows, Typed
  <2> QED
    BY <2>1 DEF Restart, Idle
<1>3. \A c \in Caller : caller'[c].at = "idle"
  <2> TAKE c \in Caller
  <2>1. caller[c].at # "idle" => caller[c].server = one
    BY DEF Tidy, Rows, Typed, UseRec, Idle
  <2> QED
    BY <2>1 DEF Restart, Idle
<1>4. Single' /\ Fresh'
  BY <1>1, <1>2 DEF Single, Fresh
<1>5. Listed'
  BY <1>1, <1>2, <1>3 DEF Listed
<1> QED
  BY <1>4, <1>5

LEMMA TidyStep ==
    ASSUME Tidy, NEW one, Server = {one}, [RegistryNext]_registryVars
    PROVE  Tidy'
<1>1. CASE UNCHANGED registryVars
  <2>1. UNCHANGED <<table, registry, clients, call, caller, excused, crowded>>
    BY <1>1 DEF registryVars
  <2>2. Single' /\ Fresh'
    BY <2>1 DEF Tidy, Single, Fresh, Sole
  <2>3. \A u \in AdminCall, s \in Server : Uses(call[u], s) => Uses(call[u], s)'
    BY <2>1 DEF Uses, Addrs
  <2>4. Listed'
    BY <2>1, <2>3 DEF Tidy, Listed, AllIdle, Addrs
  <2> QED
    BY <2>2, <2>4, RowsStep DEF Tidy
<1>2. ASSUME NEW u \in AdminCall, Configure(u) PROVE Single' /\ Fresh' /\ Listed'
  BY <1>2, CreateTidy, UpdateReadTidy, DeleteReadTidy, FindTidy, SaveTidy, CloseOldTidy,
     CloseDeletedTidy, DeleteTidy, ListTidy, ListFailsTidy, ReplaceTidy
     DEF Configure
<1>3. ASSUME NEW c \in Caller, Call(c) PROVE Single' /\ Fresh' /\ Listed'
  BY <1>3, CallerTidy
<1>4. ASSUME NEW s \in Server, Restart(s) PROVE Single' /\ Fresh' /\ Listed'
  BY <1>4, RestartTidy
<1> QED
  BY <1>1, <1>2, <1>3, <1>4, RowsStep DEF RegistryNext, Tidy

(* One server process, whatever administrators and requests do: when no call
   is in progress and nothing has excused it since a call last ran alone, its
   registry is the table. *)
THEOREM OneServerFresh ==
    ASSUME NEW one, Server = {one}
    PROVE  RegistrySpec => []EveryServerFresh
<1>1. Tidy => EveryServerFresh
  BY DEF Tidy, Fresh, EveryServerFresh, AllIdle, Unwritten
<1>2. Tidy /\ [RegistryNext]_registryVars => Tidy'
  BY TidyStep
<1> QED
  BY <1>1, <1>2, TidyInit, PTL DEF RegistrySpec

(* One server process: as long as administrators' calls overlap nothing and
   their List succeeds, no client outlives its runner. *)
THEOREM OneServerNoClientLeft ==
    ASSUME NEW one, Server = {one}
    PROVE  RegistrySpec => []NoClientLeft
<1>1. Tidy => NoClientLeft
  BY DEF Tidy, Fresh, Listed, NoClientLeft, AllIdle, Unwritten
<1>2. Tidy /\ [RegistryNext]_registryVars => Tidy'
  BY TidyStep
<1> QED
  BY <1>1, <1>2, TidyInit, PTL DEF RegistrySpec
=============================================================================
