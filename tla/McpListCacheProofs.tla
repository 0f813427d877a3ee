------------------------- MODULE McpListCacheProofs -------------------------
(***************************************************************************)
(* Proofs about McpListCache, for any callers, fingerprints, lifetime and  *)
(* duration of calls, with and without joined fetches.                     *)
(***************************************************************************)
EXTENDS McpListCache, FiniteSetTheorems, TLAPS

Versions(f) == 1 .. Current(f)

Typed ==
    /\ calls \in [Call -> CallRec] /\ now \in 0 .. MaxTime
    /\ ended \in [Fp -> Seq(Nat)] /\ settled \in [Fp -> Nat]
    /\ DOMAIN entries \subseteq Fp
    /\ \A f \in DOMAIN entries : entries[f] \in Entry

\* Calls under way have a fingerprint and have lasted MaxCall at most; only
\* where fetches are joined does a call wait.
Underway ==
    \A c \in Call : calls[c].at # "idle" =>
        /\ calls[c].fp \in Fp /\ calls[c].start <= now /\ now <= calls[c].start + MaxCall
        /\ calls[c].at = "wait" => Coalesce

\* Lists that callers and the cache have are versions of the server's list.
Known ==
    /\ \A c \in Call : calls[c].at \in {"got", "store"} => calls[c].val \in Versions(calls[c].fp)
    /\ \A f \in DOMAIN entries : entries[f].val \in Versions(f)
    /\ \A f \in Fp : settled[f] \in Versions(f)

Base == Typed /\ Underway /\ Known

\* The fetch's own caller started before its list ceased to be current, whoever
\* joined it within MaxCall after that.
Ages ==
    /\ \A f \in Fp : \A v \in DOMAIN ended[f] : ended[f][v] <= now
    /\ \A c \in Call : calls[c].at \in {"got", "store"} =>
          \A v \in DOMAIN ended[calls[c].fp] : v = calls[c].val =>
              calls[c].start <= ended[calls[c].fp][v]
                                + (IF calls[c].at = "got" THEN 0 ELSE Slack)
    /\ \A f \in DOMAIN entries :
          /\ entries[f].until <= now + TTL
          /\ \A v \in DOMAIN ended[f] : v = entries[f].val =>
                 entries[f].until <= ended[f][v] + TTL + Slack

\* Whoever has a list has one no older than the last invalidation that found
\* nobody holding one.
Settled ==
    /\ \A c \in Call : calls[c].at \in {"got", "store"} => calls[c].val >= settled[calls[c].fp]
    /\ InvalidationLasts

-----------------------------------------------------------------------------
LEMMA SlackNat == Slack \in Nat /\ (Coalesce => Slack = MaxCall)
BY TimeAssumption, CoalesceAssumption DEF Slack

LEMMA CurrentNat ==
    ASSUME Typed, NEW f \in Fp
    PROVE  /\ Current(f) \in Nat \ {0} /\ Len(ended[f]) \in Nat
           /\ DOMAIN ended[f] = 1 .. Len(ended[f]) /\ ended[f] \in Seq(Nat)
BY DEF Typed, Current

(* What the steps do to the calls. *)
Moved(c, at, val) ==
    /\ calls' \in [Call -> CallRec]
    /\ \A d \in Call \ {c} : calls'[d] = calls[d]
    /\ calls'[c].at = at /\ calls'[c].val = val
    /\ calls'[c].fp = calls[c].fp /\ calls'[c].start = calls[c].start

LEMMA JoinEffect ==
    ASSUME Typed, NEW c \in Call, NEW at \in {"join", "wait", "fetch"}, At(c, at)
    PROVE  Moved(c, at, calls[c].val)
<1> DEFINE w == [at |-> at, fp |-> calls[c].fp, start |-> calls[c].start,
                 val |-> calls[c].val]
<1>1. calls[c] \in CallRec /\ calls \in [Call -> CallRec]
  BY DEF Typed
<1>2. w \in CallRec /\ w = [calls[c] EXCEPT !.at = at]
  BY <1>1 DEF CallRec
<1>3. calls' = [calls EXCEPT ![c] = w]
  BY <1>2 DEF At
<1> QED
  BY <1>1, <1>2, <1>3 DEF Moved

LEMMA FetchEffect ==
    ASSUME Typed, NEW c \in Call, Fetch(c), calls[c].fp \in Fp
    PROVE  Moved(c, "got", Current(calls[c].fp))
<1> PICK v \in Nat : v = Current(calls[c].fp)
  BY CurrentNat
<1> DEFINE w == [calls[c] EXCEPT !.at = "got", !.val = v]
<1>1. calls[c] \in CallRec /\ calls \in [Call -> CallRec]
  BY DEF Typed
<1>2. calls' = [calls EXCEPT ![c] = w]
  BY DEF Fetch
<1>3. /\ w \in CallRec /\ w.at = "got" /\ w.val = v
      /\ w.fp = calls[c].fp /\ w.start = calls[c].start
  BY <1>1 DEF CallRec
<1> HIDE DEF w
<1> QED
  BY <1>1, <1>2, <1>3 DEF Moved

\* A flight's end gives the caller's list to those that wait.
Joined(c, d) ==
    /\ d = c \/ calls[d].at = "wait"
    /\ calls[c].at = "got" /\ calls[d].fp = calls[c].fp
    /\ calls'[d].at = "store" /\ calls'[d].fp = calls[c].fp
    /\ calls'[d].start = calls[d].start /\ calls'[d].val = calls[c].val

LEMMA FinishEffect ==
    ASSUME Typed, NEW c \in Call, Finish(c)
    PROVE  /\ calls' \in [Call -> CallRec]
           /\ \A d \in Call : calls'[d] = calls[d] \/ Joined(c, d)
<1>1. \A d \in Call : calls[d] \in CallRec
  BY DEF Typed
<1> PICK v \in Nat : v = calls[c].val
  BY <1>1 DEF CallRec
<1> DEFINE w(d) == [calls[d] EXCEPT !.at = "store", !.val = v]
<1>2. calls' = [d \in Call |-> IF d \in Flight(c) THEN w(d) ELSE calls[d]]
  BY DEF Finish
<1>3. \A d \in Call : /\ w(d) \in CallRec /\ w(d).at = "store" /\ w(d).val = v
                     /\ w(d).fp = calls[d].fp /\ w(d).start = calls[d].start
  BY <1>1 DEF CallRec
<1> HIDE DEF w
<1>4. calls' \in [Call -> CallRec]
  BY <1>1, <1>2, <1>3
<1>5. ASSUME NEW d \in Call, calls'[d] # calls[d] PROVE Joined(c, d)
  <2>1. d \in Flight(c) /\ calls'[d] = w(d)
    BY <1>2, <1>5
  <2> QED
    BY <1>3, <2>1 DEF Finish, Flight, Joined
<1> QED
  BY <1>4, <1>5

LEMMA BaseInit == Init => Base
<1> SUFFICES ASSUME Init PROVE Base
  OBVIOUS
<1>1. Typed
  BY FpAssumption, BoundAssumption DEF Init, Typed, CallRec, Idle
<1>2. Underway /\ Known
  BY DEF Init, Underway, Known, Idle, Versions, Current
<1> QED
  BY <1>1, <1>2 DEF Base

LEMMA BaseStep == Base /\ [Next]_vars => Base'
<1> SUFFICES ASSUME Base, [Next]_vars PROVE Base'
  OBVIOUS
<1> USE TimeAssumption, BoundAssumption DEF Base
<1>1. ASSUME NEW c \in Call, NEW f \in Fp, Begin(c, f) PROVE Base'
  BY <1>1 DEF Begin, Typed, Underway, Known, CallRec, Versions, Current
<1>2. ASSUME NEW c \in Call, Look(c) PROVE Base'
  <2>1. CASE Return(c)
    BY <1>2, <2>1, FpAssumption DEF Look, Return, Idle, Typed, Underway, Known, CallRec, Versions, Current
  <2>2. CASE At(c, "join")
    BY <1>2, <2>2, JoinEffect DEF Look, Moved, Typed, Underway, Known, Versions, Current
  <2> QED
    BY <1>2, <2>1, <2>2 DEF Look
<1>3. ASSUME NEW c \in Call, Join(c) PROVE Base'
  <2>1. \E at \in {"wait", "fetch"} : At(c, at) /\ (at = "wait" => Coalesce)
    BY <1>3 DEF Join
  <2> QED
    BY <1>3, <2>1, JoinEffect DEF Join, Moved, Typed, Underway, Known, Versions, Current
<1>4. ASSUME NEW c \in Call, Fetch(c) PROVE Base'
  <2>1. calls[c].fp \in Fp
    BY <1>4 DEF Fetch, Underway
  <2>2. Moved(c, "got", Current(calls[c].fp))
    BY <1>4, <2>1, FetchEffect
  <2> QED
    <3>1. UNCHANGED <<entries, now, ended, settled>> /\ calls[c].at = "fetch"
      BY <1>4 DEF Fetch
    <3>2. Typed' /\ Underway'
      BY <2>1, <2>2, <3>1 DEF Moved, Typed, Underway
    <3>3. \A f : Versions(f)' = Versions(f)
      BY <3>1 DEF Versions, Current
    <3>4. Current(calls[c].fp) \in Versions(calls[c].fp)
      BY <2>1, CurrentNat DEF Versions
    <3>5. Known'
      BY <2>1, <2>2, <3>1, <3>3, <3>4 DEF Moved, Known
    <3> QED
      BY <3>2, <3>5
<1>5. ASSUME NEW c \in Call, FetchFails(c) PROVE Base'
  BY <1>5 DEF FetchFails, Flight, Idle, Typed, Underway, Known, CallRec, Versions, Current
<1>6. ASSUME NEW c \in Call, Finish(c) PROVE Base'
  <2>1. UNCHANGED <<entries, now, ended, settled>>
    BY <1>6 DEF Finish
  <2>2. \A f : Versions(f)' = Versions(f)
    BY <2>1 DEF Versions, Current
  <2>3. Typed' /\ Underway'
    BY <1>6, <2>1, FinishEffect DEF Joined, Typed, Underway
  <2>4. Known'
    BY <1>6, <2>1, <2>2, FinishEffect DEF Joined, Known
  <2> QED
    BY <2>3, <2>4
<1>7. ASSUME NEW c \in Call, Store(c) PROVE Base'
  <2>1. calls[c].fp \in Fp /\ calls[c] \in CallRec /\ calls[c].val \in Versions(calls[c].fp)
    BY <1>7 DEF Store, Underway, Typed, Known
  <2>2. Typed'
    BY <1>7, <2>1, CurrentNat DEF Store, Return, Idle, Typed, Entry, CallRec, Versions
  <2> QED
    BY <1>7, <2>1, <2>2 DEF Store, Return, Idle, Underway, Known, Versions, Current, Typed
<1>8. CASE InvalidateServerTools
  BY <1>8, CurrentNat DEF InvalidateServerTools, Settle, Typed, Underway, Known, Versions, Current
<1>9. ASSUME NEW f \in Fp, Change(f) PROVE Base'
  <2>1. /\ ended' \in [Fp -> Seq(Nat)]
        /\ \A g \in Fp : Len(ended'[g]) \in Nat /\ Len(ended[g]) \in Nat
                         /\ Len(ended[g]) <= Len(ended'[g])
    BY <1>9 DEF Change, Typed
  <2> QED
    BY <1>9, <2>1 DEF Change, Typed, Underway, Known, Versions, Current
<1>10. CASE Tick
  BY <1>10 DEF Tick, Typed, Underway, Known, CallRec, Versions, Current
<1>11. CASE UNCHANGED vars
  BY <1>11 DEF vars, Typed, Underway, Known, Versions, Current
<1> QED
  BY <1>1, <1>2, <1>3, <1>4, <1>5, <1>6, <1>7, <1>8, <1>9, <1>10, <1>11 DEF Next, Step

LEMMA BaseHolds == Spec => []Base
BY BaseInit, BaseStep, PTL DEF Spec

-----------------------------------------------------------------------------
LEMMA AgesStep == Base /\ Base' /\ Ages /\ [Next]_vars => Ages'
<1> SUFFICES ASSUME Base, Base', Ages, [Next]_vars PROVE Ages'
  OBVIOUS
<1> USE TimeAssumption, BoundAssumption, SlackNat DEF Base
<1>1. ASSUME NEW c \in Call, \/ \E f \in Fp : Begin(c, f)
                             \/ Look(c) \/ Join(c) \/ FetchFails(c)
      PROVE  /\ UNCHANGED <<entries, now, ended>>
             /\ \A d \in Call : calls'[d].at \in {"got", "store"} => calls'[d] = calls[d]
  BY <1>1 DEF Begin, Look, Join, FetchFails, Flight, At, Return, Idle, Typed, CallRec
<1>2. ASSUME UNCHANGED <<entries, now, ended>>,
             \A d \in Call : calls'[d].at \in {"got", "store"} => calls'[d] = calls[d]
      PROVE  Ages'
  BY <1>2 DEF Ages
<1>3. ASSUME NEW c \in Call, Fetch(c) PROVE Ages'
  <2>1. calls[c].fp \in Fp
    BY <1>3 DEF Fetch, Underway
  <2>2. Moved(c, "got", Current(calls[c].fp)) /\ UNCHANGED <<entries, now, ended>>
    BY <1>3, <2>1, FetchEffect DEF Fetch
  <2>3. Current(calls[c].fp) \notin DOMAIN ended[calls[c].fp]
    BY <2>1, CurrentNat DEF Current
  <2> QED
    BY <2>1, <2>2, <2>3 DEF Moved, Ages
<1>4. ASSUME NEW c \in Call, Finish(c) PROVE Ages'
  <2>1. /\ calls[c].at = "got" /\ calls[c].fp \in Fp /\ calls[c].start \in Nat
        /\ UNCHANGED <<entries, now, ended>>
    BY <1>4 DEF Finish, Underway, Typed, CallRec
  <2>2. ASSUME NEW d \in Call, calls'[d].at \in {"got", "store"},
               NEW v \in DOMAIN ended[calls'[d].fp], v = calls'[d].val
        PROVE  calls'[d].start <= ended[calls'[d].fp][v]
                                  + (IF calls'[d].at = "got" THEN 0 ELSE Slack)
    <3>1. CASE calls'[d] = calls[d]
      BY <2>2, <3>1 DEF Ages
    <3>2. CASE calls'[d] # calls[d]
      <4>1. /\ Joined(c, d) /\ v \in DOMAIN ended[calls[c].fp] /\ v = calls[c].val
        BY <1>4, <2>2, <3>2, FinishEffect DEF Joined
      <4>2. /\ ended[calls[c].fp][v] \in Nat
            /\ calls[c].start <= ended[calls[c].fp][v]
        BY <2>1, <4>1, CurrentNat DEF Ages
      <4>3. /\ calls[d].start \in Nat /\ now \in Nat /\ calls[d].start <= now
            /\ now <= calls[c].start + MaxCall /\ (d # c => Coalesce)
        BY <2>1, <4>1 DEF Joined, Typed, CallRec, Underway
      <4> QED
        BY <2>1, <4>1, <4>2, <4>3 DEF Joined
    <3> QED
      BY <3>1, <3>2
  <2> QED
    BY <2>1, <2>2 DEF Ages
<1>5. ASSUME NEW c \in Call, Store(c) PROVE Ages'
  <2>1. /\ calls[c].fp \in Fp /\ calls[c] \in CallRec /\ calls[c].start <= now
        /\ now \in Nat /\ UNCHANGED <<now, ended>>
    BY <1>5 DEF Store, Underway, Typed
  <2>2. \A d \in Call : calls'[d].at \in {"got", "store"} => calls'[d] = calls[d]
    BY <1>5 DEF Store, Return, Idle, Typed
  <2>3. /\ DOMAIN entries' = {calls[c].fp}
        /\ entries'[calls[c].fp].val = calls[c].val
        /\ entries'[calls[c].fp].until = calls[c].start + TTL
    BY <1>5 DEF Store
  <2>4. \A v \in DOMAIN ended[calls[c].fp] : v = calls[c].val =>
            /\ ended[calls[c].fp][v] \in Nat
            /\ calls[c].start <= ended[calls[c].fp][v] + Slack
    BY <1>5, <2>1, CurrentNat DEF Store, Ages
  <2>5. calls[c].start \in Nat
    BY <2>1 DEF CallRec
  <2> QED
    BY <2>1, <2>2, <2>3, <2>4, <2>5 DEF Ages
<1>6. CASE InvalidateServerTools
  BY <1>6 DEF InvalidateServerTools, Ages
<1>7. ASSUME NEW f \in Fp, Change(f) PROVE Ages'
  <2>1. /\ UNCHANGED <<entries, calls, now>> /\ now \in Nat
        /\ \A g \in Fp : \A v \in DOMAIN ended'[g] :
              \/ v \in DOMAIN ended[g] /\ ended'[g][v] = ended[g][v]
              \/ ended'[g][v] = now
    BY <1>7 DEF Change, Typed
  <2>2. \A d \in Call : calls[d].at \in {"got", "store"} =>
                           /\ calls[d].fp \in Fp /\ calls[d].start <= now
                           /\ calls[d].start \in Nat
    BY DEF Underway, Typed, CallRec
  <2>3. \A g \in DOMAIN entries : g \in Fp /\ entries[g].until \in Nat
    BY DEF Typed, Entry
  <2> QED
    BY <2>1, <2>2, <2>3 DEF Ages
<1>8. CASE Tick
  <2>1. now' = now + 1 /\ now \in Nat /\ UNCHANGED <<entries, calls, ended>>
    BY <1>8 DEF Tick, Typed
  <2>2. \A g \in DOMAIN entries : g \in Fp /\ entries[g].until \in Nat
    BY DEF Typed, Entry
  <2>3. \A g \in Fp : \A v \in DOMAIN ended[g] : ended[g][v] \in Nat
    BY DEF Typed
  <2> QED
    BY <2>1, <2>2, <2>3 DEF Ages
<1>9. CASE UNCHANGED vars
  BY <1>9 DEF vars, Ages
<1> QED
  BY <1>1, <1>2, <1>3, <1>4, <1>5, <1>6, <1>7, <1>8, <1>9 DEF Next, Step

(* AgeBounded: however callers, fetches and invalidations overlap, the cache
   serves a list no later than its lifetime, and for joined fetches the duration
   of a call, after the server changed it. *)
THEOREM ListsAgeOut == Spec => []AgeBounded
<1>1. Init => Ages
  BY DEF Init, Ages, Idle
<1>2. Base /\ Base' /\ Ages /\ [Next]_vars => Ages'
  BY AgesStep
<1>3. Base /\ Ages => AgeBounded
  BY CurrentNat DEF Base, Ages, AgeBounded, Known, Versions, Current, Typed
<1> QED
  BY <1>1, <1>2, <1>3, BaseHolds, PTL DEF Spec

-----------------------------------------------------------------------------
LEMMA SettledStep == Base /\ Base' /\ Settled /\ [Next]_vars => Settled'
<1> SUFFICES ASSUME Base, Base', Settled, [Next]_vars PROVE Settled'
  OBVIOUS
<1> USE DEF Base
<1>1. ASSUME NEW c \in Call, \/ \E f \in Fp : Begin(c, f)
                             \/ Look(c) \/ Join(c) \/ FetchFails(c)
      PROVE  /\ UNCHANGED <<entries, settled>>
             /\ \A d \in Call : calls'[d].at \in {"got", "store"} => calls'[d] = calls[d]
  BY <1>1 DEF Begin, Look, Join, FetchFails, Flight, At, Return, Idle, Typed, CallRec
<1>2. ASSUME UNCHANGED <<entries, settled>>,
             \A d \in Call : calls'[d].at \in {"got", "store"} => calls'[d] = calls[d]
      PROVE  Settled'
  BY <1>2 DEF Settled, InvalidationLasts
<1>3. ASSUME NEW c \in Call, Fetch(c) PROVE Settled'
  <2>1. calls[c].fp \in Fp
    BY <1>3 DEF Fetch, Underway
  <2>2. Moved(c, "got", Current(calls[c].fp)) /\ UNCHANGED <<entries, settled>>
    BY <1>3, <2>1, FetchEffect DEF Fetch
  <2>3. Current(calls[c].fp) >= settled[calls[c].fp]
    BY <2>1, CurrentNat DEF Known, Versions
  <2> QED
    BY <2>1, <2>2, <2>3 DEF Moved, Settled, InvalidationLasts
<1>4. ASSUME NEW c \in Call, Finish(c) PROVE Settled'
  <2>1. UNCHANGED <<entries, settled>>
    BY <1>4 DEF Finish
  <2> QED
    BY <1>4, <2>1, FinishEffect DEF Joined, Settled, InvalidationLasts
<1>5. ASSUME NEW c \in Call, Store(c) PROVE Settled'
  <2>1. \A d \in Call : calls'[d].at \in {"got", "store"} => calls'[d] = calls[d]
    BY <1>5 DEF Store, Return, Idle, Typed
  <2>2. /\ DOMAIN entries' = {calls[c].fp}
        /\ entries'[calls[c].fp].val = calls[c].val /\ UNCHANGED settled
        /\ calls[c].at = "store"
    BY <1>5 DEF Store
  <2> QED
    BY <2>1, <2>2 DEF Settled, InvalidationLasts
<1>6. CASE InvalidateServerTools
  <2>1. /\ DOMAIN entries' = {} /\ UNCHANGED <<calls, ended>>
        /\ \A f \in Fp : settled'[f] = settled[f]
                         \/ ~\E c \in Call : Holds(c, f)
    BY <1>6 DEF InvalidateServerTools, Settle
  <2>2. \A c \in Call : calls[c].at \in {"got", "store"} =>
                           calls[c].fp \in Fp /\ Holds(c, calls[c].fp)
    BY DEF Underway, Holds
  <2> QED
    BY <2>1, <2>2 DEF Settled, InvalidationLasts
<1>7. ASSUME NEW f \in Fp, Change(f) PROVE Settled'
  BY <1>7, <1>2 DEF Change
<1>8. CASE Tick
  BY <1>8, <1>2 DEF Tick
<1>9. CASE UNCHANGED vars
  BY <1>9, <1>2 DEF vars
<1> QED
  BY <1>1, <1>2, <1>3, <1>4, <1>5, <1>6, <1>7, <1>8, <1>9 DEF Next, Step

(* InvalidationLasts: after an invalidation that met no caller on its way with a
   list, no older list is in the cache. *)
THEOREM InvalidationsLast == Spec => []InvalidationLasts
<1>1. Init => Settled
  BY DEF Init, Settled, InvalidationLasts, Idle
<1>2. Base /\ Base' /\ Settled /\ [Next]_vars => Settled'
  BY SettledStep
<1> QED
  BY <1>1, <1>2, BaseHolds, PTL DEF Spec, Settled
-----------------------------------------------------------------------------
Single ==
    /\ DOMAIN entries = {} \/ \E f \in Fp : DOMAIN entries = {f}
    /\ \A c \in Call : calls[c].start <= now

LEMMA SingleStep == Base /\ Base' /\ Single /\ [Next]_vars => Single'
<1> SUFFICES ASSUME Base, Base', Single, [Next]_vars PROVE Single'
  OBVIOUS
<1>1. DOMAIN entries' = {} \/ \E f \in Fp : DOMAIN entries' = {f}
  <2>1. ASSUME NEW c \in Call, Store(c) PROVE calls[c].fp \in Fp /\ DOMAIN entries' = {calls[c].fp}
    BY <2>1 DEF Store, Base, Underway
  <2>2. \/ UNCHANGED entries \/ DOMAIN entries' = {} \/ \E c \in Call : Store(c)
    <3>1. ASSUME InvalidateServerTools PROVE DOMAIN entries' = {}
      BY <3>1 DEF InvalidateServerTools
    <3>2. ASSUME NEW c \in Call, Step(c) PROVE UNCHANGED entries \/ Store(c)
      BY <3>2 DEF Step, Begin, Look, Join, Fetch, FetchFails, Finish
    <3>3. ASSUME UNCHANGED vars \/ Tick \/ \E f \in Fp : Change(f) PROVE UNCHANGED entries
      BY <3>3 DEF Change, Tick, vars
    <3> QED
      BY <3>1, <3>2, <3>3 DEF Next
  <2> QED
    BY <2>1, <2>2 DEF Single
<1>2. ASSUME NEW c \in Call PROVE calls'[c].start <= now'
  <2>1. now \in Nat /\ (calls'[c].at # "idle" => calls'[c].start <= now')
    BY DEF Base, Typed, Underway
  <2>2. CASE calls'[c].at = "idle"
    <3>1. ASSUME calls'[c] = calls[c] PROVE calls'[c].start <= now'
      <4>1. now' = now \/ now' = now + 1
        BY DEF Next, Step, Begin, Look, Join, Fetch, FetchFails, Finish, Store,
               InvalidateServerTools, Change, Tick, vars
      <4> QED
        BY <2>1, <3>1, <4>1 DEF Single, Base, Typed, CallRec
    <3>2. calls'[c] = calls[c] \/ calls'[c] = Idle
      <4>1. ASSUME NEW d \in Call, Step(d) PROVE calls'[c] = calls[c] \/ calls'[c] = Idle
        <5>1. CASE \E f \in Fp : Begin(d, f)
          BY <2>2, <5>1 DEF Begin, Base, Typed
        <5>2. CASE Look(d)
          <6>1. CASE At(d, "join")
            BY <2>2, <6>1, JoinEffect DEF Moved, Base
          <6> QED
            BY <5>2, <6>1 DEF Look, Return, Base, Typed
        <5>3. CASE Join(d)
          <6>1. PICK at \in {"wait", "fetch"} : At(d, at)
            BY <5>3 DEF Join
          <6> QED
            BY <2>2, <6>1, JoinEffect DEF Moved, Base
        <5>4. CASE Fetch(d)
          BY <2>2, <5>4, FetchEffect DEF Moved, Base, Underway, Fetch
        <5>5. CASE FetchFails(d)
          BY <5>5 DEF FetchFails
        <5>6. CASE Finish(d)
          BY <2>2, <5>6, FinishEffect DEF Joined, Base
        <5>7. CASE Store(d)
          BY <5>7 DEF Store, Return, Base, Typed
        <5> QED
          BY <4>1, <5>1, <5>2, <5>3, <5>4, <5>5, <5>6, <5>7 DEF Step
      <4> QED
        BY <4>1 DEF Next, InvalidateServerTools, Change, Tick, vars
    <3>3. 0 <= now'
      BY DEF Base, Typed
    <3> QED
      BY <3>1, <3>2, <3>3 DEF Idle
  <2> QED
    BY <2>1, <2>2
<1> QED
  BY <1>1, <1>2 DEF Single

(* TypeOK: the cache holds one list of the server at most, whatever the
   fingerprints of its callers, and a version the server has had. *)
THEOREM TypeCorrect == Spec => []TypeOK
<1>1. Init => Single
  BY DEF Init, Single, Idle
<1>2. Base /\ Base' /\ Single /\ [Next]_vars => Single'
  BY SingleStep
<1>3. Base /\ Single => TypeOK
  <2> SUFFICES ASSUME Base, Single PROVE TypeOK
    OBVIOUS
  <2>1. Cardinality(DOMAIN entries) <= 1
    <3>1. CASE DOMAIN entries = {}
      <4>1. Cardinality(DOMAIN entries) = 0
        BY <3>1, FS_EmptySet, Zenon
      <4> QED
        BY <4>1
    <3>2. ASSUME NEW f \in Fp, DOMAIN entries = {f} PROVE Cardinality(DOMAIN entries) <= 1
      <4>1. Cardinality(DOMAIN entries) = 1
        BY <3>2, FS_Singleton
      <4> QED
        BY <4>1
    <3> QED
      BY <3>1, <3>2 DEF Single
  <2>2. \A f \in DOMAIN entries : f \in Fp /\ entries[f] \in Entry /\ entries[f].val \in Versions(f)
    BY DEF Base, Typed, Known
  <2> QED
    BY <2>1, <2>2, CurrentNat DEF TypeOK, Base, Typed, Known, Versions, Single
<1> QED
  BY <1>1, <1>2, <1>3, BaseHolds, PTL DEF Spec
=============================================================================
