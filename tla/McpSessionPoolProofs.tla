----------------------- MODULE McpSessionPoolProofs -----------------------
(***************************************************************************)
(* Proofs about McpSessionPool, for any calls, administrators and          *)
(* fingerprints, any number of pages and any bounds.                       *)
(***************************************************************************)
EXTENDS McpSessionPool, SequenceTheorems, TLAPS

-----------------------------------------------------------------------------
(* The inductive invariant *)

\* An entry of the pool, and a call.
ConnRec == [owner : Call \cup {Nobody}, session : Nat, fp : Fp \cup {NoFp}]

Places == {"idle", "enter", "lock", "check", "connect", "fn"}

StateRec == [at : Places, entry : Nat, fp : Fp \cup {NoFp}, pages : {1, Pages},
             tries : 0 .. Attempts, attempt : {0, 1}, reused : BOOLEAN,
             page : 0 .. (Pages - 1), got : Seq(1 .. Pages)]

\* TypeOK, with the bounds that grow apart from the types.
Kinds ==
    /\ conns \in Seq(ConnRec) /\ byID \in 0 .. Len(conns)
    /\ opened \in Nat /\ open \subseteq 1 .. opened
    /\ calls \in [Call -> StateRec]
    /\ \A c \in Call : calls[c].entry <= Len(conns)
    /\ closers \in [Closer -> Nat]
    /\ \A a \in Closer : closers[a] <= Len(conns)

\* Who has an entry, and who has its mutex too.
Worker == {"lock", "check", "connect", "fn"}
Holder == {"check", "connect", "fn"}

\* Who has an entry's mutex is a call at work on it, and the other way round.
Mutexes ==
    /\ \A e \in DOMAIN conns : conns[e].owner # Nobody =>
          calls[conns[e].owner].at \in Holder /\ calls[conns[e].owner].entry = e
    /\ \A c \in Call :
          /\ calls[c].at \in Worker => calls[c].entry \in DOMAIN conns
          /\ calls[c].at \in Holder => Mine(c).owner = c

\* A session is open and in one entry only.
Sessions ==
    \A e \in DOMAIN conns : conns[e].session # 0 =>
        /\ conns[e].session \in open
        /\ \A f \in DOMAIN conns \ {e} : conns[f].session # conns[e].session

\* What a call that holds an entry knows of its session.
SessionOf(c) ==
    /\ calls[c].at = "lock" => calls[c].attempt = 0
    /\ calls[c].at = "check" /\ calls[c].attempt = 1 => Mine(c).session = 0
    /\ calls[c].at = "connect" => Mine(c).session = 0 /\ ~calls[c].reused
    /\ calls[c].at = "fn" => Mine(c).session # 0 /\ Mine(c).fp = calls[c].fp
    /\ calls[c].at = "fn" /\ calls[c].attempt = 1 => ~calls[c].reused

\* The entry of a call is the pool's, or was taken out while it was in use.
Found == \A c \in Call : calls[c].at \in Worker => calls[c].entry = byID \/ calls[c].entry \in late

\* The pages of a call, wherever it is.
PagesOf(c) ==
    LET n == Len(calls[c].got) - calls[c].page
    IN  /\ n >= 0 /\ (calls[c].attempt = 0 => n = 0)
        /\ \A i \in 1 .. calls[c].page : calls[c].got[n + i] = i
        /\ \A i \in 1 .. n : calls[c].got[i] = i
        /\ calls[c].page < calls[c].pages
        /\ calls[c].at \in {"idle", "enter", "lock"} => calls[c].page = 0 /\ calls[c].got = <<>>
        /\ calls[c].at = "enter" => calls[c].tries > 0

Known == \A c \in Call : SessionOf(c)
Paged == \A c \in Call : PagesOf(c)

IInv == Kinds /\ Mutexes /\ Sessions /\ Known /\ Found /\ NoSessionLeft /\ Paged

-----------------------------------------------------------------------------
(* What a step does to the record of its call, and to the entry it works on *)

Others(c) == \A d \in Call \ {c} : calls'[d] = calls[d]
OtherConns(e) == \A f \in DOMAIN conns \ {e} : conns'[f] = conns[f]

LEMMA ConnsAre ==
    ASSUME Kinds
    PROVE  /\ Len(conns) \in Nat /\ DOMAIN conns = 1 .. Len(conns)
           /\ \A e \in DOMAIN conns : conns[e] \in ConnRec
BY LenProperties, ElementOfSeq DEF Kinds

LEMMA ConnSet ==
    ASSUME Kinds, NEW e \in DOMAIN conns, NEW r \in ConnRec, conns' = [conns EXCEPT ![e] = r]
    PROVE  /\ conns' \in Seq(ConnRec) /\ Len(conns') = Len(conns)
           /\ DOMAIN conns' = DOMAIN conns /\ conns'[e] = r /\ OtherConns(e)
<1>1. e \in 1 .. Len(conns) /\ conns \in Seq(ConnRec)
  BY ConnsAre DEF Kinds
<1>2. /\ conns' \in Seq(ConnRec) /\ Len(conns') = Len(conns)
      /\ \A f \in 1 .. Len(conns) : conns'[f] = IF f = e THEN r ELSE conns[f]
  BY <1>1, ExceptSeq
<1> QED
  BY <1>1, <1>2, ConnsAre DEF OtherConns

LEMMA CallSet ==
    ASSUME Kinds, NEW c \in Call, NEW r \in StateRec, calls' = [calls EXCEPT ![c] = r]
    PROVE  calls' \in [Call -> StateRec] /\ calls'[c] = r /\ Others(c)
BY DEF Kinds, Others

LEMMA IdleIs == Idle \in StateRec
<1>1. <<>> \in Seq(1 .. Pages) /\ 0 \in 0 .. (Pages - 1) /\ 0 \in 0 .. Attempts
  BY PagesAssumption, EmptySeq
<1> QED
  BY <1>1 DEF Idle, StateRec, Places

LEMMA BeginMoves ==
    ASSUME Kinds, NEW c \in Call, NEW fp \in Fp, NEW pages \in {1, Pages}, NEW tries \in 1 .. Attempts,
           Begin(c, fp, pages, tries)
    PROVE  /\ calls' \in [Call -> StateRec] /\ Others(c)
           /\ UNCHANGED <<byID, conns, open, opened, closers, late>>
           /\ calls'[c].at = "enter" /\ calls'[c].entry = 0 /\ calls'[c].pages = pages
           /\ calls'[c].tries = tries /\ calls'[c].attempt = 0 /\ calls'[c].page = 0
           /\ calls'[c].got = <<>>
<1> DEFINE r == [Idle EXCEPT !.at = "enter", !.fp = fp, !.pages = pages, !.tries = tries]
<1>1. tries \in 0 .. Attempts
  BY PagesAssumption
<1>2. r \in StateRec
  BY <1>1, IdleIs DEF StateRec, Places
<1>3. calls' = [calls EXCEPT ![c] = r]
  BY DEF Begin
<1>4. /\ r.at = "enter" /\ r.entry = 0 /\ r.pages = pages /\ r.tries = tries /\ r.attempt = 0
      /\ r.page = 0 /\ r.got = <<>>
  BY DEF Idle
<1> HIDE DEF r
<1> QED
  BY <1>2, <1>3, <1>4, CallSet DEF Begin

LEMMA EnterMoves ==
    ASSUME Kinds, Paged, NEW c \in Call, Enter(c)
    PROVE  /\ calls[c].at = "enter" /\ UNCHANGED <<open, opened, closers, late>>
           /\ conns' \in Seq(ConnRec) /\ byID' \in 1 .. Len(conns')
           /\ \/ byID # 0 /\ conns' = conns /\ byID' = byID
              \/ /\ byID = 0 /\ Len(conns') = Len(conns) + 1 /\ byID' = Len(conns')
                 /\ \A e \in DOMAIN conns : conns'[e] = conns[e]
                 /\ conns'[byID'].owner = Nobody /\ conns'[byID'].session = 0
           /\ calls' \in [Call -> StateRec] /\ Others(c)
           /\ calls'[c].at = "lock" /\ calls'[c].entry = byID' /\ calls'[c].attempt = 0
           /\ calls'[c].pages = calls[c].pages /\ calls'[c].page = calls[c].page
           /\ calls'[c].got = calls[c].got
<1> DEFINE r == [calls[c] EXCEPT !.at = "lock", !.entry = byID', !.attempt = 0,
                                 !.tries = calls[c].tries - 1]
<1> DEFINE new == [owner |-> Nobody, session |-> 0, fp |-> NoFp]
<1>1. calls[c] \in StateRec /\ calls[c].at = "enter" /\ calls[c].tries > 0 /\ Len(conns) \in Nat
  BY ConnsAre DEF Kinds, Paged, PagesOf, Enter
<1>2. new \in ConnRec
  BY DEF ConnRec
<1>3. /\ conns' \in Seq(ConnRec) /\ byID' \in 1 .. Len(conns')
      /\ \/ byID # 0 /\ conns' = conns /\ byID' = byID
         \/ /\ byID = 0 /\ Len(conns') = Len(conns) + 1 /\ byID' = Len(conns')
            /\ \A e \in DOMAIN conns : conns'[e] = conns[e]
            /\ conns'[byID'] = new
  <2>1. CASE byID = 0
    <3>1. conns' = Append(conns, new) /\ byID' = Len(conns) + 1
      BY <2>1 DEF Enter
    <3> HIDE DEF new
    <3>2. /\ conns' \in Seq(ConnRec) /\ Len(conns') = Len(conns) + 1
          /\ \A e \in 1 .. Len(conns) : conns'[e] = conns[e]
          /\ conns'[Len(conns) + 1] = new
      BY <1>2, <3>1, AppendProperties DEF Kinds
    <3> QED
      BY <1>1, <2>1, <3>1, <3>2, ConnsAre
  <2>2. CASE byID # 0
    BY <2>2 DEF Enter, Kinds
  <2> QED
    BY <2>1, <2>2
<1>4. byID' \in Nat /\ calls[c].tries - 1 \in 0 .. Attempts
  <2>1. Len(conns') \in Nat
    BY <1>3, LenProperties
  <2> QED
    BY <1>1, <1>3, <2>1, PagesAssumption DEF StateRec
<1>5. r \in StateRec
  BY <1>1, <1>4 DEF StateRec, Places
<1>6. calls' = [calls EXCEPT ![c] = r]
  BY DEF Enter, Kinds
<1>7. /\ r.at = "lock" /\ r.entry = byID' /\ r.attempt = 0 /\ r.pages = calls[c].pages
      /\ r.page = calls[c].page /\ r.got = calls[c].got
  BY <1>1 DEF StateRec
<1> HIDE DEF r
<1>8. calls' \in [Call -> StateRec] /\ calls'[c] = r /\ Others(c)
  BY <1>5, <1>6, CallSet
<1> QED
  BY <1>1, <1>3, <1>7, <1>8 DEF Enter

LEMMA EnterEntries ==
    ASSUME Kinds, Paged, NEW c \in Call, Enter(c)
    PROVE  /\ DOMAIN conns \subseteq DOMAIN conns' /\ byID' \in DOMAIN conns'
           /\ \A e \in DOMAIN conns : conns'[e] = conns[e]
           /\ \A e \in DOMAIN conns' \ DOMAIN conns :
                 conns'[e].owner = Nobody /\ conns'[e].session = 0
           /\ byID # 0 => byID' = byID
<1>1. /\ conns' \in Seq(ConnRec) /\ byID' \in 1 .. Len(conns')
      /\ \/ byID # 0 /\ conns' = conns /\ byID' = byID
         \/ /\ byID = 0 /\ Len(conns') = Len(conns) + 1 /\ byID' = Len(conns')
            /\ \A e \in DOMAIN conns : conns'[e] = conns[e]
            /\ conns'[byID'].owner = Nobody /\ conns'[byID'].session = 0
  BY EnterMoves
<1>2. DOMAIN conns = 1 .. Len(conns) /\ Len(conns) \in Nat
  BY ConnsAre
<1>3. DOMAIN conns' = 1 .. Len(conns')
  BY <1>1, LenProperties
<1>4. CASE conns' = conns /\ byID' = byID
  BY <1>1, <1>3, <1>4
<1>5. CASE /\ byID = 0 /\ Len(conns') = Len(conns) + 1 /\ byID' = Len(conns')
           /\ \A e \in DOMAIN conns : conns'[e] = conns[e]
           /\ conns'[byID'].owner = Nobody /\ conns'[byID'].session = 0
  <2>1. 1 .. Len(conns) \subseteq 1 .. Len(conns')
        /\ \A e \in (1 .. Len(conns')) \ (1 .. Len(conns)) : e = byID'
    BY <1>2, <1>5
  <2> QED
    BY <1>1, <1>2, <1>3, <1>5, <2>1
<1> QED
  BY <1>1, <1>4, <1>5

\* The step of a call that works on its entry: it gets the mutex, keeps it or
\* lets it go, and the session stays as it is or is dropped and closed.
Turn(c) ==
    LET e == calls[c].entry
    IN  /\ UNCHANGED <<byID, closers, late>>
        /\ calls[c].at \in Worker /\ e \in DOMAIN conns /\ conns[e].owner \in {c, Nobody}
        /\ conns' \in Seq(ConnRec) /\ Len(conns') = Len(conns) /\ DOMAIN conns' = DOMAIN conns
        /\ OtherConns(e) /\ calls' \in [Call -> StateRec] /\ Others(c)
        /\ \/ calls'[c].at \in Holder /\ calls'[c].entry = e /\ conns'[e].owner = c
           \/ calls'[c].at \in {"idle", "enter"} /\ calls'[c].entry = 0 /\ conns'[e].owner = Nobody

Drops(c) ==
    LET e == calls[c].entry
    IN  /\ opened' = opened
        /\ conns'[e].session \in {0, conns[e].session}
        /\ open' = open \ ({conns[e].session} \ {conns'[e].session})

KeepsPages(c) ==
    /\ calls'[c].page = calls[c].page /\ calls'[c].got = calls[c].got
    /\ calls'[c].pages = calls[c].pages /\ calls'[c].attempt = calls[c].attempt

LEMMA Turns ==
    ASSUME Kinds, NEW c \in Call, NEW r \in StateRec, NEW q \in ConnRec,
           calls[c].at \in Worker, calls[c].entry \in DOMAIN conns,
           conns[calls[c].entry].owner \in {c, Nobody},
           calls' = [calls EXCEPT ![c] = r], conns' = [conns EXCEPT ![calls[c].entry] = q],
           \/ r.at \in Holder /\ r.entry = calls[c].entry /\ q.owner = c
           \/ r.at \in {"idle", "enter"} /\ r.entry = 0 /\ q.owner = Nobody,
           UNCHANGED <<byID, closers, late>>
    PROVE  Turn(c) /\ calls'[c] = r /\ conns'[calls[c].entry] = q
<1>1. calls' \in [Call -> StateRec] /\ calls'[c] = r /\ Others(c)
  BY CallSet
<1>2. /\ conns' \in Seq(ConnRec) /\ Len(conns') = Len(conns) /\ DOMAIN conns' = DOMAIN conns
      /\ conns'[calls[c].entry] = q /\ OtherConns(calls[c].entry)
  BY ConnSet
<1> QED
  BY <1>1, <1>2 DEF Turn

\* Who is past "lock" has an entry and its mutex.
LEMMA AtWork ==
    ASSUME Kinds, Mutexes, NEW c \in Call, calls[c].at \in Worker
    PROVE  /\ calls[c] \in StateRec /\ calls[c].entry \in DOMAIN conns /\ Mine(c) \in ConnRec
           /\ calls[c].at \in Holder => Mine(c).owner = c
BY ConnsAre DEF Kinds, Mutexes, Mine

LEMMA LockMoves ==
    ASSUME Kinds, Mutexes, Known, NEW c \in Call, Lock(c)
    PROVE  Turn(c) /\ Drops(c) /\ SessionOf(c)' /\ KeepsPages(c) /\ calls'[c].at = "check"
<1> DEFINE e == calls[c].entry
<1> DEFINE r == [calls[c] EXCEPT !.at = "check"]
<1> DEFINE q == [conns[e] EXCEPT !.owner = c]
<1>1. calls[c] \in StateRec /\ e \in DOMAIN conns /\ conns[e] \in ConnRec /\ calls[c].at = "lock"
  BY AtWork DEF Worker, Lock, Mine
<1>2. r \in StateRec /\ q \in ConnRec
  BY <1>1 DEF StateRec, Places, ConnRec
<1>3. calls' = [calls EXCEPT ![c] = r] /\ conns' = [conns EXCEPT ![e] = q]
  BY <1>1 DEF Lock, Kinds
<1>4. r.at = "check" /\ r.entry = e /\ r.pages = calls[c].pages
      /\ r.attempt = calls[c].attempt /\ r.page = calls[c].page /\ r.got = calls[c].got
  BY <1>1 DEF StateRec
<1>5. q.owner = c /\ q.session = conns[e].session
  BY <1>1 DEF ConnRec
<1> HIDE DEF r, q
<1>6. Turn(c) /\ calls'[c] = r /\ conns'[e] = q
  <2>1. calls[c].at \in Worker /\ conns[e].owner \in {c, Nobody} /\ r.at \in Holder
    BY <1>1, <1>4 DEF Worker, Holder, Lock, Mine
  <2>2. UNCHANGED <<byID, closers, late>>
    BY DEF Lock
  <2> QED
    BY <1>1, <1>2, <1>3, <1>4, <1>5, <2>1, <2>2, Turns
<1>7. Drops(c)
  BY <1>5, <1>6 DEF Lock, Drops
<1>8. calls[c].attempt = 0
  BY <1>1 DEF Known, SessionOf
<1> QED
  BY <1>4, <1>6, <1>7, <1>8 DEF KeepsPages, SessionOf

LEMMA CheckMoves ==
    ASSUME Kinds, Mutexes, Known, NEW c \in Call, NEW expired \in BOOLEAN, Check(c, expired)
    PROVE  Turn(c) /\ Drops(c) /\ SessionOf(c)' /\ KeepsPages(c) /\ calls'[c].at \in {"connect", "fn"}
<1> DEFINE e == calls[c].entry
<1> DEFINE session == IF expired \/ Mine(c).fp # calls[c].fp THEN 0 ELSE Mine(c).session
<1> DEFINE at == IF session = 0 THEN "connect" ELSE "fn"
<1> DEFINE r == [calls[c] EXCEPT !.at = at, !.reused = (session # 0)]
<1> DEFINE q == [conns[e] EXCEPT !.session = session]
<1>1. /\ calls[c] \in StateRec /\ e \in DOMAIN conns /\ conns[e] \in ConnRec
      /\ calls[c].at = "check" /\ conns[e].owner = c
  BY AtWork DEF Worker, Holder, Check, Mine
<1>2. session \in Nat /\ session \in {0, conns[e].session}
      /\ (session # 0 => session = conns[e].session /\ conns[e].fp = calls[c].fp)
  BY <1>1 DEF ConnRec, Mine
<1>3. calls' = [calls EXCEPT ![c] = r] /\ conns' = [conns EXCEPT ![e] = q]
      /\ open' = open \ ({conns[e].session} \ {session})
  BY <1>1 DEF Check, Kinds, Mine
<1> HIDE DEF session
<1>4. at \in {"connect", "fn"} /\ (at = "connect" <=> session = 0)
  OBVIOUS
<1> HIDE DEF at
<1>5. r \in StateRec /\ q \in ConnRec
  BY <1>1, <1>2, <1>4 DEF StateRec, Places, ConnRec
<1>6. r.at = at /\ r.entry = e /\ r.pages = calls[c].pages /\ r.fp = calls[c].fp
      /\ r.attempt = calls[c].attempt /\ r.page = calls[c].page /\ r.got = calls[c].got
      /\ r.reused = (session # 0)
  BY <1>1 DEF StateRec
<1>7. q.owner = c /\ q.session = session /\ q.fp = conns[e].fp
  BY <1>1 DEF ConnRec
<1> HIDE DEF r, q
<1>8. Turn(c) /\ calls'[c] = r /\ conns'[e] = q
  <2>1. calls[c].at \in Worker /\ conns[e].owner \in {c, Nobody} /\ r.at \in Holder
    BY <1>1, <1>4, <1>6 DEF Worker, Holder
  <2>2. UNCHANGED <<byID, closers, late>>
    BY DEF Check
  <2> QED
    BY <1>1, <1>3, <1>5, <1>6, <1>7, <2>1, <2>2, Turns
<1>9. Drops(c)
  BY <1>2, <1>3, <1>7, <1>8 DEF Check, Drops
<1>10. calls[c].attempt = 1 => session = 0
  BY <1>1, <1>2 DEF Known, SessionOf, Mine
<1>11. SessionOf(c)'
  BY <1>2, <1>4, <1>6, <1>7, <1>8, <1>10 DEF SessionOf, Mine
<1> QED
  BY <1>4, <1>6, <1>8, <1>9, <1>11 DEF KeepsPages

LEMMA ConnectMoves ==
    ASSUME Kinds, Mutexes, Known, NEW c \in Call, Connect(c)
    PROVE  /\ Turn(c) /\ SessionOf(c)' /\ KeepsPages(c) /\ calls'[c].at = "fn"
           /\ conns'[calls[c].entry].session = opened + 1 /\ Mine(c).session = 0
<1> DEFINE e == calls[c].entry
<1> DEFINE r == [calls[c] EXCEPT !.at = "fn"]
<1> DEFINE q == [conns[e] EXCEPT !.session = opened + 1, !.fp = calls[c].fp]
<1>1. /\ calls[c] \in StateRec /\ e \in DOMAIN conns /\ conns[e] \in ConnRec
      /\ calls[c].at = "connect" /\ conns[e].owner = c /\ opened \in Nat
  BY AtWork DEF Worker, Holder, Connect, Mine, Kinds
<1>2. r \in StateRec /\ q \in ConnRec
  <2>1. opened + 1 \in Nat /\ calls[c].fp \in Fp \cup {NoFp} /\ r \in StateRec
    BY <1>1 DEF StateRec, Places
  <2> QED
    BY <1>1, <2>1 DEF ConnRec
<1>3. calls' = [calls EXCEPT ![c] = r] /\ conns' = [conns EXCEPT ![e] = q]
  BY <1>1 DEF Connect, Kinds
<1>4. r.at = "fn" /\ r.entry = e /\ r.pages = calls[c].pages /\ r.fp = calls[c].fp
      /\ r.attempt = calls[c].attempt /\ r.page = calls[c].page /\ r.got = calls[c].got
      /\ r.reused = calls[c].reused
  BY <1>1 DEF StateRec
<1>5. q.owner = c /\ q.session = opened + 1 /\ q.fp = calls[c].fp
  BY <1>1 DEF ConnRec
<1> HIDE DEF r, q
<1>6. Turn(c) /\ calls'[c] = r /\ conns'[e] = q
  <2>1. calls[c].at \in Worker /\ conns[e].owner \in {c, Nobody} /\ r.at \in Holder
    BY <1>1, <1>4 DEF Worker, Holder
  <2>2. UNCHANGED <<byID, closers, late>>
    BY DEF Connect
  <2> QED
    BY <1>1, <1>2, <1>3, <1>4, <1>5, <2>1, <2>2, Turns
<1>7. Mine(c).session = 0 /\ ~calls[c].reused
  BY <1>1 DEF Known, SessionOf
<1>8. SessionOf(c)'
  BY <1>1, <1>4, <1>5, <1>6, <1>7 DEF SessionOf, Mine
<1> QED
  BY <1>4, <1>5, <1>6, <1>7, <1>8 DEF KeepsPages

LEMMA ReplyMoves ==
    ASSUME Kinds, Mutexes, Known, Paged, NEW c \in Call, Reply(c)
    PROVE  /\ Turn(c) /\ Drops(c) /\ SessionOf(c)' /\ calls'[c].at = "fn"
           /\ calls[c] \in StateRec /\ calls[c].page + 1 < calls[c].pages
           /\ calls'[c].pages = calls[c].pages /\ calls'[c].attempt = calls[c].attempt
           /\ calls'[c].page = calls[c].page + 1
           /\ calls'[c].got = Append(calls[c].got, calls[c].page + 1)
<1> DEFINE e == calls[c].entry
<1> DEFINE next == calls[c].page + 1
<1> DEFINE r == [calls[c] EXCEPT !.page = next, !.got = Append(calls[c].got, next)]
<1>1. /\ calls[c] \in StateRec /\ e \in DOMAIN conns /\ conns[e] \in ConnRec
      /\ calls[c].at = "fn" /\ conns[e].owner = c
  BY AtWork DEF Worker, Holder, Reply, Mine
<1>2. calls[c].page \in 0 .. (Pages - 1) /\ calls[c].pages \in {1, Pages} /\ calls[c].got \in Seq(1 .. Pages)
  BY <1>1 DEF StateRec
<1>3. calls[c].page < calls[c].pages /\ calls[c].page # calls[c].pages - 1
  BY DEF Paged, PagesOf, Reply, Last
<1>4. next < calls[c].pages /\ next \in 0 .. (Pages - 1) /\ next \in 1 .. Pages
  BY <1>2, <1>3, PagesAssumption
<1>5. Append(calls[c].got, next) \in Seq(1 .. Pages)
  BY <1>2, <1>4, AppendProperties
<1>6. calls' = [calls EXCEPT ![c] = r] /\ UNCHANGED <<byID, conns, open, opened, closers, late>>
  BY <1>1 DEF Reply, Kinds
<1> HIDE DEF next
<1>7. r \in StateRec
  BY <1>1, <1>4, <1>5 DEF StateRec
<1>8. /\ r.at = "fn" /\ r.entry = e /\ r.pages = calls[c].pages /\ r.fp = calls[c].fp
      /\ r.attempt = calls[c].attempt /\ r.reused = calls[c].reused /\ r.page = next
      /\ r.got = Append(calls[c].got, next)
  BY <1>1 DEF StateRec
<1> HIDE DEF r
<1>9. calls' \in [Call -> StateRec] /\ calls'[c] = r /\ Others(c)
  BY <1>6, <1>7, CallSet
<1>10. Turn(c)
  BY <1>1, <1>6, <1>8, <1>9 DEF Turn, OtherConns, Worker, Holder, Kinds
<1>11. Drops(c)
  BY <1>6 DEF Drops
<1>12. SessionOf(c)'
  BY <1>1, <1>6, <1>8, <1>9 DEF Known, SessionOf, Mine
<1> QED
  BY <1>1, <1>4, <1>8, <1>9, <1>10, <1>11, <1>12 DEF next

\* A call that lets its entry go starts from nothing.
Clears(c) ==
    /\ calls'[c].at \in {"idle", "enter"} /\ calls'[c].attempt = 0
    /\ calls'[c].page = 0 /\ calls'[c].got = <<>>
    /\ calls'[c].at = "enter" => calls'[c].tries > 0

LEMMA AgainIs ==
    ASSUME Kinds, NEW c \in Call, calls[c].tries > 0
    PROVE  LET r == [Idle EXCEPT !.at = "enter", !.fp = calls[c].fp,
                                 !.pages = calls[c].pages, !.tries = calls[c].tries]
           IN  /\ r \in StateRec /\ r.at = "enter" /\ r.entry = 0 /\ r.attempt = 0
               /\ r.page = 0 /\ r.got = <<>> /\ r.tries > 0
<1> DEFINE r == [Idle EXCEPT !.at = "enter", !.fp = calls[c].fp,
                             !.pages = calls[c].pages, !.tries = calls[c].tries]
<1>1. calls[c] \in StateRec
  BY DEF Kinds
<1>2. r \in StateRec
  BY <1>1, IdleIs DEF StateRec, Places
<1>3. r.at = "enter" /\ r.entry = 0 /\ r.attempt = 0 /\ r.page = 0 /\ r.got = <<>>
      /\ r.tries = calls[c].tries
  BY DEF Idle
<1> QED
  BY <1>2, <1>3

\* What Succeed, ConnectFails and the last Fail have in common.
LEMMA LetsGo ==
    ASSUME Kinds, Mutexes, NEW c \in Call, calls[c].at \in Holder, NEW session \in Nat,
           Unlock(c, session), RunFailed(c) \/ calls' = [calls EXCEPT ![c] = Idle],
           UNCHANGED <<byID, closers, late>>
    PROVE  /\ Turn(c) /\ SessionOf(c)' /\ Clears(c)
           /\ calls[c].entry \in DOMAIN conns /\ conns'[calls[c].entry].session = session
<1> DEFINE e == calls[c].entry
<1> DEFINE q == [conns[e] EXCEPT !.owner = Nobody, !.session = session]
<1>1. calls[c] \in StateRec /\ e \in DOMAIN conns /\ conns[e] \in ConnRec /\ conns[e].owner = c
  BY AtWork DEF Worker, Holder, Mine
<1>2. q \in ConnRec
  BY <1>1 DEF ConnRec
<1>3. conns' = [conns EXCEPT ![e] = q]
  BY <1>1 DEF Unlock, Kinds
<1>4. PICK r \in StateRec :
         /\ calls' = [calls EXCEPT ![c] = r] /\ r.at \in {"idle", "enter"} /\ r.entry = 0
         /\ r.attempt = 0 /\ r.page = 0 /\ r.got = <<>> /\ (r.at = "enter" => r.tries > 0)
  <2>1. CASE calls' = [calls EXCEPT ![c] = Idle]
    BY <2>1, IdleIs DEF Idle
  <2>2. CASE RunFailed(c) /\ calls[c].tries > 0
    BY <2>2, AgainIs DEF RunFailed
  <2>3. CASE RunFailed(c) /\ ~(calls[c].tries > 0)
    BY <2>3, IdleIs DEF RunFailed, Idle
  <2> QED
    BY <2>1, <2>2, <2>3
<1>5. q.owner = Nobody /\ q.session = session
  BY <1>1 DEF ConnRec
<1> HIDE DEF q
<1>6. calls[c].at \in Worker /\ conns[e].owner \in {c, Nobody}
  BY <1>1 DEF Worker, Holder
<1>7. Turn(c) /\ calls'[c] = r /\ conns'[e] = q
  BY <1>1, <1>2, <1>3, <1>4, <1>5, <1>6, Turns
<1>8. SessionOf(c)'
  BY <1>4, <1>7 DEF SessionOf
<1> QED
  BY <1>1, <1>4, <1>5, <1>7, <1>8 DEF Clears

LEMMA SucceedMoves ==
    ASSUME Kinds, Mutexes, NEW c \in Call, Succeed(c)
    PROVE  Turn(c) /\ Drops(c) /\ SessionOf(c)' /\ Clears(c)
<1>1. calls[c].at \in Holder /\ Mine(c).session \in Nat
  BY AtWork DEF Succeed, Worker, Holder, ConnRec
<1>2. Turn(c) /\ SessionOf(c)' /\ Clears(c) /\ conns'[calls[c].entry].session = Mine(c).session
  BY <1>1, LetsGo DEF Succeed
<1> QED
  BY <1>2 DEF Succeed, Drops, Mine

LEMMA ConnectFailsMoves ==
    ASSUME Kinds, Mutexes, Known, NEW c \in Call, ConnectFails(c)
    PROVE  Turn(c) /\ Drops(c) /\ SessionOf(c)' /\ Clears(c)
<1>1. calls[c].at \in Holder /\ 0 \in Nat
  BY DEF ConnectFails, Holder
<1>2. Turn(c) /\ SessionOf(c)' /\ Clears(c) /\ conns'[calls[c].entry].session = 0
  BY <1>1, LetsGo DEF ConnectFails
<1>3. Mine(c).session = 0
  BY DEF ConnectFails, Known, SessionOf
<1> QED
  BY <1>2, <1>3 DEF ConnectFails, Drops, Mine

\* The second attempt has the pages of the first before its own.
Repeats(c) ==
    /\ calls[c].at = "fn" /\ calls[c].attempt = 0 /\ calls[c] \in StateRec
    /\ calls'[c].at = "check" /\ calls'[c].attempt = 1 /\ calls'[c].page = 0
    /\ calls'[c].pages = calls[c].pages /\ calls'[c].got = calls[c].got

LEMMA FailMoves ==
    ASSUME Kinds, Mutexes, Known, NEW c \in Call, NEW error \in Error, Fail(c, error)
    PROVE  Turn(c) /\ Drops(c) /\ SessionOf(c)' /\ (Clears(c) \/ Repeats(c))
<1> DEFINE e == calls[c].entry
<1> DEFINE again == calls[c].attempt = 0 /\ calls[c].reused /\ error = "transport"
<1>1. /\ calls[c] \in StateRec /\ e \in DOMAIN conns /\ conns[e] \in ConnRec
      /\ calls[c].at = "fn" /\ conns[e].owner = c
  BY AtWork DEF Worker, Holder, Fail, Mine
<1>2. conns[e].session # 0 /\ open' = open \ {conns[e].session}
      /\ UNCHANGED <<byID, opened, closers, late>>
  BY <1>1 DEF Known, SessionOf, Mine, Fail
<1>3. CASE again
  <2> DEFINE r == [calls[c] EXCEPT !.at = "check", !.attempt = 1, !.page = 0]
  <2> DEFINE q == [conns[e] EXCEPT !.session = 0]
  <2>1. calls' = [calls EXCEPT ![c] = r] /\ conns' = [conns EXCEPT ![e] = q]
    BY <1>1, <1>3 DEF Fail, Kinds
  <2>2. r \in StateRec /\ q \in ConnRec
    <3>1. 0 \in 0 .. (Pages - 1)
      BY PagesAssumption
    <3> QED
      BY <1>1, <3>1 DEF StateRec, Places, ConnRec
  <2>3. /\ r.at = "check" /\ r.entry = e /\ r.pages = calls[c].pages
        /\ r.attempt = 1 /\ r.page = 0 /\ r.got = calls[c].got
    BY <1>1 DEF StateRec
  <2>4. q.owner = c /\ q.session = 0
    BY <1>1 DEF ConnRec
  <2> HIDE DEF r, q
  <2>5. calls[c].at \in Worker /\ conns[e].owner \in {c, Nobody} /\ r.at \in Holder
    BY <1>1, <2>3 DEF Worker, Holder
  <2>6. Turn(c) /\ calls'[c] = r /\ conns'[e] = q
    BY <1>1, <1>2, <2>1, <2>2, <2>3, <2>4, <2>5, Turns
  <2>7. Drops(c)
    BY <1>2, <2>4, <2>6 DEF Drops
  <2>8. SessionOf(c)'
    BY <2>3, <2>4, <2>6 DEF SessionOf, Mine
  <2>9. Repeats(c)
    BY <1>1, <1>3, <2>3, <2>6 DEF Repeats
  <2> QED
    BY <2>6, <2>7, <2>8, <2>9
<1>4. CASE ~again
  <2>1. Unlock(c, 0) /\ RunFailed(c) /\ calls[c].at \in Holder /\ 0 \in Nat
    BY <1>1, <1>4 DEF Fail, Holder
  <2>2. Turn(c) /\ SessionOf(c)' /\ Clears(c) /\ conns'[calls[c].entry].session = 0
    BY <1>2, <2>1, LetsGo
  <2>3. Drops(c)
    BY <1>2, <2>2 DEF Drops
  <2> QED
    BY <2>2, <2>3
<1> QED
  BY <1>3, <1>4

-----------------------------------------------------------------------------
(* The pages of the call that moves *)

LEMMA PagesKept ==
    ASSUME NEW c \in Call, PagesOf(c), KeepsPages(c), calls[c].at # "enter", calls'[c].at \in Holder
    PROVE  PagesOf(c)'
<1>1. calls'[c].at \notin {"idle", "enter", "lock"}
  BY DEF Holder
<1> QED
  BY <1>1 DEF PagesOf, KeepsPages

LEMMA PagesReplied ==
    ASSUME Kinds, Mutexes, Known, Paged, NEW c \in Call, Reply(c)
    PROVE  PagesOf(c)'
<1> DEFINE got == calls[c].got
<1> DEFINE page == calls[c].page
<1> DEFINE n == Len(got) - page
<1>1. /\ got \in Seq(1 .. Pages) /\ page \in Nat /\ calls'[c].page = page + 1
      /\ calls'[c].got = Append(got, page + 1) /\ calls'[c].at = "fn"
      /\ page + 1 < calls[c].pages /\ calls'[c].pages = calls[c].pages
      /\ calls'[c].attempt = calls[c].attempt
  BY ReplyMoves DEF StateRec
<1>2. /\ n >= 0 /\ (calls[c].attempt = 0 => n = 0)
      /\ \A i \in 1 .. page : got[n + i] = i
      /\ \A i \in 1 .. n : got[i] = i
  BY DEF Paged, PagesOf
<1>3. Len(got) \in Nat
  BY <1>1, LenProperties
<1> DEFINE more == Append(got, page + 1)
<1>4. /\ Len(more) = Len(got) + 1 /\ more[Len(got) + 1] = page + 1
      /\ \A i \in 1 .. Len(got) : more[i] = got[i]
  BY <1>1 DEF more
<1> HIDE DEF got, page, more
<1>5. Len(more) - (page + 1) = n
  BY <1>1, <1>3, <1>4
<1>6. \A i \in 1 .. n : more[i] = i
  <2>1. \A i \in 1 .. n : i \in 1 .. Len(got)
    BY <1>1, <1>3
  <2> QED
    BY <1>2, <1>4, <2>1
<1>7. ASSUME NEW i \in 1 .. (page + 1)
      PROVE  more[n + i] = i
  <2>1. CASE i = page + 1
    <3>1. n + i = Len(got) + 1
      BY <1>1, <1>3, <2>1
    <3> QED
      BY <1>4, <2>1, <3>1
  <2>2. CASE i # page + 1
    <3>1. i \in 1 .. page /\ n + i \in 1 .. Len(got)
      BY <1>1, <1>2, <1>3, <2>2
    <3> QED
      BY <1>2, <1>4, <3>1
  <2> QED
    BY <2>1, <2>2
<1> HIDE DEF n
<1>8. /\ calls'[c].got = more /\ calls'[c].page = page + 1 /\ calls'[c].at = "fn"
      /\ page + 1 < calls'[c].pages /\ (calls'[c].attempt = 0 => n = 0)
  BY <1>1, <1>2 DEF got, page, more
<1> QED
  BY <1>2, <1>5, <1>6, <1>7, <1>8 DEF PagesOf

LEMMA PagesCleared ==
    ASSUME NEW c \in Call, Turn(c), Clears(c)
    PROVE  PagesOf(c)'
<1>1. calls'[c].pages >= 1
  <2>1. calls'[c] \in StateRec
    BY DEF Turn
  <2>2. calls'[c].pages \in {1, Pages}
    BY <2>1 DEF StateRec
  <2> QED
    BY <2>2, PagesAssumption
<1>2. Len(calls'[c].got) = 0
  BY EmptySeq DEF Clears
<1>3. calls'[c].page < calls'[c].pages
  BY <1>1, PagesAssumption DEF Clears, Turn, StateRec
<1> QED
  BY <1>2, <1>3 DEF PagesOf, Clears

LEMMA PagesRepeated ==
    ASSUME Paged, NEW c \in Call, Repeats(c)
    PROVE  PagesOf(c)'
<1> DEFINE got == calls[c].got
<1> DEFINE page == calls[c].page
<1>1. got \in Seq(1 .. Pages) /\ page \in Nat /\ calls[c].pages \in Nat
  BY PagesAssumption DEF Repeats, StateRec
<1>2. Len(got) - page = 0 /\ \A i \in 1 .. page : got[(Len(got) - page) + i] = i
  BY DEF Paged, PagesOf, Repeats
<1>3. Len(got) \in Nat
  BY <1>1, LenProperties
<1>4. page < calls[c].pages
  BY DEF Paged, PagesOf
<1> HIDE DEF got, page
<1>5. Len(got) = page /\ 0 < calls[c].pages
  BY <1>1, <1>2, <1>3, <1>4
<1>6. \A i \in 1 .. Len(got) : got[i] = i
  BY <1>1, <1>2, <1>5
<1>7. /\ calls'[c].got = got /\ calls'[c].page = 0 /\ calls'[c].at = "check"
      /\ calls'[c].attempt = 1 /\ calls'[c].pages = calls[c].pages
  BY DEF got, Repeats
<1> QED
  BY <1>3, <1>5, <1>6, <1>7 DEF PagesOf

\* A call's steps once it has an entry.
Work(c) == Lock(c) \/ Checks(c) \/ Dials(c) \/ Ends(c)

LEMMA WorkMoves ==
    ASSUME Kinds, Mutexes, Known, Paged, NEW c \in Call, Work(c)
    PROVE  /\ Turn(c) /\ SessionOf(c)' /\ PagesOf(c)'
           /\ Drops(c) \/ Connect(c)
<1>0. PagesOf(c)
  BY DEF Paged
<1>1. CASE Lock(c)
  <2>1. Turn(c) /\ Drops(c) /\ SessionOf(c)' /\ KeepsPages(c) /\ calls'[c].at = "check"
    BY <1>1, LockMoves
  <2>2. calls'[c].at \in Holder /\ calls[c].at # "enter"
    BY <1>1, <2>1 DEF Holder, Lock
  <2> QED
    BY <1>0, <2>1, <2>2, PagesKept
<1>2. CASE Checks(c)
  <2>1. PICK expired \in BOOLEAN : Check(c, expired)
    BY <1>2 DEF Checks
  <2>2. Turn(c) /\ Drops(c) /\ SessionOf(c)' /\ KeepsPages(c) /\ calls'[c].at \in {"connect", "fn"}
    BY <2>1, CheckMoves
  <2>3. calls'[c].at \in Holder /\ calls[c].at # "enter"
    BY <2>1, <2>2 DEF Holder, Check
  <2> QED
    BY <1>0, <2>2, <2>3, PagesKept
<1>3. CASE Connect(c)
  <2>1. Turn(c) /\ SessionOf(c)' /\ KeepsPages(c) /\ calls'[c].at = "fn"
    BY <1>3, ConnectMoves
  <2>2. calls'[c].at \in Holder /\ calls[c].at # "enter"
    BY <1>3, <2>1 DEF Holder, Connect
  <2> QED
    BY <1>0, <1>3, <2>1, <2>2, PagesKept
<1>4. CASE ConnectFails(c)
  BY <1>4, ConnectFailsMoves, PagesCleared
<1>5. CASE Reply(c)
  BY <1>5, ReplyMoves, PagesReplied
<1>6. CASE Succeed(c)
  BY <1>6, SucceedMoves, PagesCleared
<1>7. ASSUME NEW error \in Error, Fail(c, error)
      PROVE  Turn(c) /\ Drops(c) /\ SessionOf(c)' /\ PagesOf(c)'
  BY <1>7, FailMoves, PagesCleared, PagesRepeated
<1> QED
  BY <1>1, <1>2, <1>3, <1>4, <1>5, <1>6, <1>7 DEF Work, Dials, Ends

LEMMA ClosesTaken ==
    ASSUME Kinds, NEW a \in Closer, CloseTaken(a)
    PROVE  /\ closers[a] \in DOMAIN conns /\ conns[closers[a]].owner = Nobody
           /\ conns' \in Seq(ConnRec) /\ Len(conns') = Len(conns) /\ DOMAIN conns' = DOMAIN conns
           /\ OtherConns(closers[a]) /\ conns'[closers[a]].session = 0
           /\ \A e \in DOMAIN conns : conns'[e].owner = conns[e].owner
           /\ open' = open \ {conns[closers[a]].session} /\ calls' = calls
<1> DEFINE e == closers[a]
<1> DEFINE q == [conns[e] EXCEPT !.session = 0]
<1>1. e \in DOMAIN conns /\ conns[e] \in ConnRec
  BY ConnsAre DEF CloseTaken, Kinds
<1>2. q \in ConnRec /\ q.session = 0 /\ q.owner = conns[e].owner
  BY <1>1 DEF ConnRec
<1>3. conns' = [conns EXCEPT ![e] = q]
  BY <1>1 DEF CloseTaken, Kinds
<1> HIDE DEF q
<1>4. /\ conns' \in Seq(ConnRec) /\ Len(conns') = Len(conns)
      /\ DOMAIN conns' = DOMAIN conns /\ conns'[e] = q /\ OtherConns(e)
  BY <1>1, <1>2, <1>3, ConnSet
<1>5. \A f \in DOMAIN conns : conns'[f].owner = conns[f].owner
  BY <1>2, <1>4 DEF OtherConns
<1> QED
  BY <1>1, <1>2, <1>4, <1>5 DEF CloseTaken

\* Next, by what its steps have in common.
LEMMA NextCases ==
    ASSUME Next
    PROVE  \/ \E c \in Call : Enter(c) \/ Work(c)
           \/ \E c \in Call : \E fp \in Fp : \E pages \in {1, Pages} : \E tries \in 1 .. Attempts :
                Begin(c, fp, pages, tries)
           \/ \E a \in Closer : TakeOut(a) \/ CloseTaken(a)
<1>1. 1 \in 1 .. Attempts /\ Attempts \in 1 .. Attempts
  BY PagesAssumption
<1> QED
  BY <1>1 DEF Next, Work

-----------------------------------------------------------------------------
(* The parts of the invariant, one step for each kind of action *)

\* The mutex of a call at work is its own, so that another holder's entry is
\* another one.
LEMMA OthersEntries ==
    ASSUME Mutexes, NEW c \in Call, Turn(c), NEW d \in Call \ {c}, calls[d].at \in Holder
    PROVE  /\ calls[d].entry \in DOMAIN conns /\ calls[d].entry # calls[c].entry
           /\ Mine(d).owner = d /\ Mine(d)' = Mine(d) /\ calls'[d] = calls[d]
<1>1. calls[d].at \in Worker /\ d # Nobody
  BY ActorAssumption DEF Worker, Holder
<1>2. calls[d].entry \in DOMAIN conns /\ Mine(d).owner = d
  BY <1>1 DEF Mutexes
<1>3. calls[d].entry # calls[c].entry
  BY <1>1, <1>2 DEF Turn, Mine
<1>4. calls'[d] = calls[d]
  BY DEF Turn, Others
<1> QED
  BY <1>2, <1>3, <1>4 DEF Turn, OtherConns, Mine

LEMMA KindsStep ==
    ASSUME IInv, Next
    PROVE  Kinds'
<1> USE DEF IInv
<1>0. Len(conns) \in Nat /\ \A d \in Call : calls[d].entry \in 0 .. Len(conns)
  <2>1. \A d \in Call : calls[d] \in StateRec /\ calls[d].entry <= Len(conns)
    BY DEF Kinds
  <2> QED
    BY <2>1, ConnsAre DEF StateRec
<1>1. ASSUME NEW c \in Call, NEW fp \in Fp, NEW pages \in {1, Pages}, NEW tries \in 1 .. Attempts,
             Begin(c, fp, pages, tries)
      PROVE  Kinds'
  <2>1. /\ calls' \in [Call -> StateRec] /\ Others(c) /\ calls'[c].entry = 0
        /\ UNCHANGED <<byID, conns, open, opened, closers>>
    BY <1>1, BeginMoves
  <2>2. \A d \in Call : calls'[d].entry <= Len(conns)
    BY <1>0, <2>1 DEF Others
  <2> QED
    BY <2>1, <2>2 DEF Kinds
<1>2. ASSUME NEW c \in Call, Enter(c)
      PROVE  Kinds'
  <2>1. /\ UNCHANGED <<open, opened, closers>> /\ conns' \in Seq(ConnRec) /\ byID' \in 1 .. Len(conns')
        /\ conns' = conns \/ Len(conns') = Len(conns) + 1
        /\ calls' \in [Call -> StateRec] /\ Others(c) /\ calls'[c].entry = byID'
    BY <1>2, EnterMoves
  <2>2. Len(conns') >= Len(conns) /\ Len(conns') \in Nat
    BY <1>0, <2>1
  <2>3. \A d \in Call : calls'[d].entry <= Len(conns')
    <3>1. calls'[c].entry <= Len(conns')
      BY <2>1, <2>2
    <3>2. ASSUME NEW d \in Call \ {c}
          PROVE  calls'[d].entry <= Len(conns')
      BY <1>0, <2>1, <2>2 DEF Others
    <3> QED
      BY <3>1, <3>2
  <2>4. \A a \in Closer : closers'[a] <= Len(conns')
    BY <1>0, <2>1, <2>2 DEF Kinds
  <2>5. byID' \in 0 .. Len(conns')
    BY <2>1, <2>2
  <2> QED
    BY <2>1, <2>3, <2>4, <2>5 DEF Kinds
<1>3. ASSUME NEW c \in Call, Work(c)
      PROVE  Kinds'
  <2>1. Turn(c) /\ (Drops(c) \/ Connect(c))
    BY <1>3, WorkMoves
  <2>2. opened' \in Nat /\ open' \subseteq 1 .. opened'
    <3>1. CASE Drops(c)
      BY <3>1 DEF Drops, Kinds
    <3>2. CASE Connect(c)
      BY <3>2 DEF Connect, Kinds
    <3> QED
      BY <2>1, <3>1, <3>2
  <2>3. \A d \in Call : calls'[d].entry <= Len(conns)
    <3>1. calls'[c].entry \in {0, calls[c].entry}
      BY <2>1 DEF Turn
    <3>2. calls'[c].entry <= Len(conns)
      BY <1>0, <3>1 DEF Kinds
    <3> QED
      BY <2>1, <3>2 DEF Kinds, Turn, Others
  <2> QED
    BY <2>1, <2>2, <2>3 DEF Kinds, Turn
<1>4. ASSUME NEW a \in Closer, TakeOut(a)
      PROVE  Kinds'
  <2>1. /\ closers' = [closers EXCEPT ![a] = byID] /\ byID \in 0 .. Len(conns) /\ byID' = 0
        /\ UNCHANGED <<conns, open, opened, calls>>
    BY <1>4 DEF TakeOut, Kinds
  <2> QED
    BY <1>0, <2>1 DEF Kinds
<1>5. ASSUME NEW a \in Closer, CloseTaken(a)
      PROVE  Kinds'
  <2>1. conns' \in Seq(ConnRec) /\ Len(conns') = Len(conns)
    BY <1>5, ClosesTaken
  <2> QED
    BY <1>0, <1>5, <2>1 DEF CloseTaken, Kinds
<1> QED
  BY <1>1, <1>2, <1>3, <1>4, <1>5, NextCases

LEMMA MutexesStep ==
    ASSUME IInv, Next
    PROVE  Mutexes'
<1> USE DEF IInv
<1>0. /\ DOMAIN conns = 1 .. Len(conns) /\ Len(conns) \in Nat
      /\ \A e \in DOMAIN conns : conns[e].owner \in Call \cup {Nobody}
  BY ConnsAre DEF ConnRec
<1>1. ASSUME NEW c \in Call, NEW fp \in Fp, NEW pages \in {1, Pages}, NEW tries \in 1 .. Attempts,
             Begin(c, fp, pages, tries)
      PROVE  Mutexes'
  <2>1. Others(c) /\ conns' = conns /\ calls'[c].at = "enter" /\ calls[c].at = "idle"
    BY <1>1, BeginMoves DEF Begin
  <2> QED
    BY <1>0, <2>1 DEF Mutexes, Mine, Others, Worker, Holder
<1>2. ASSUME NEW c \in Call, Enter(c)
      PROVE  Mutexes'
  <2>1. /\ calls[c].at = "enter" /\ Others(c) /\ calls'[c].at = "lock" /\ calls'[c].entry = byID'
    BY <1>2, EnterMoves
  <2>2. /\ DOMAIN conns \subseteq DOMAIN conns' /\ byID' \in DOMAIN conns'
        /\ \A e \in DOMAIN conns : conns'[e] = conns[e]
        /\ \A e \in DOMAIN conns' \ DOMAIN conns : conns'[e].owner = Nobody
    BY <1>2, EnterEntries
  <2>3. ASSUME NEW e \in DOMAIN conns', conns'[e].owner # Nobody
        PROVE  calls'[conns'[e].owner].at \in Holder /\ calls'[conns'[e].owner].entry = e
    <3>1. e \in DOMAIN conns /\ conns'[e] = conns[e] /\ conns[e].owner \in Call
      BY <1>0, <2>2, <2>3
    <3>2. conns[e].owner # c
      BY <2>1, <2>3, <3>1 DEF Mutexes, Holder
    <3> QED
      BY <2>1, <2>3, <3>1, <3>2 DEF Mutexes, Others
  <2>4. ASSUME NEW d \in Call
        PROVE  /\ calls'[d].at \in Worker => calls'[d].entry \in DOMAIN conns'
               /\ calls'[d].at \in Holder => conns'[calls'[d].entry].owner = d
    <3>1. CASE d = c
      BY <2>1, <2>2, <3>1 DEF Holder
    <3>2. CASE d # c
      BY <2>1, <2>2, <3>2 DEF Mutexes, Mine, Others, Worker, Holder
    <3> QED
      BY <3>1, <3>2
  <2> QED
    BY <2>3, <2>4 DEF Mutexes, Mine
<1>3. ASSUME NEW c \in Call, Work(c)
      PROVE  Mutexes'
  <2> DEFINE e == calls[c].entry
  <2>1. Turn(c)
    BY <1>3, WorkMoves
  <2>2. ASSUME NEW f \in DOMAIN conns', conns'[f].owner # Nobody
        PROVE  calls'[conns'[f].owner].at \in Holder /\ calls'[conns'[f].owner].entry = f
    <3>1. CASE f = e
      BY <2>1, <2>2, <3>1 DEF Turn
    <3>2. CASE f # e
      <4>1. f \in DOMAIN conns /\ conns'[f] = conns[f] /\ conns[f].owner \in Call
        BY <1>0, <2>1, <2>2, <3>2 DEF Turn, OtherConns
      <4>2. conns[f].owner # c
        BY <2>2, <3>2, <4>1 DEF Mutexes
      <4> QED
        BY <2>1, <2>2, <4>1, <4>2 DEF Mutexes, Turn, Others
    <3> QED
      BY <3>1, <3>2
  <2>3. ASSUME NEW d \in Call
        PROVE  /\ calls'[d].at \in Worker => calls'[d].entry \in DOMAIN conns'
               /\ calls'[d].at \in Holder => conns'[calls'[d].entry].owner = d
    <3>1. CASE d = c
      BY <2>1, <3>1 DEF Turn, Worker, Holder
    <3>2. CASE d # c
      <4>1. calls'[d] = calls[d] /\ DOMAIN conns' = DOMAIN conns
        BY <2>1, <3>2 DEF Turn, Others
      <4>2. calls[d].at \in Worker => calls[d].entry \in DOMAIN conns
        BY DEF Mutexes
      <4>3. calls[d].at \in Holder => Mine(d)' = Mine(d) /\ Mine(d).owner = d
        BY <2>1, <3>2, OthersEntries
      <4> QED
        BY <4>1, <4>2, <4>3 DEF Mine
    <3> QED
      BY <3>1, <3>2
  <2> QED
    BY <2>2, <2>3 DEF Mutexes, Mine
<1>4. ASSUME NEW a \in Closer, TakeOut(a)
      PROVE  Mutexes'
  BY <1>4 DEF TakeOut, Mutexes, Mine
<1>5. ASSUME NEW a \in Closer, CloseTaken(a)
      PROVE  Mutexes'
  <2>1. /\ DOMAIN conns' = DOMAIN conns /\ calls' = calls
        /\ \A e \in DOMAIN conns : conns'[e].owner = conns[e].owner
    BY <1>5, ClosesTaken
  <2> QED
    BY <2>1 DEF Mutexes, Mine, Worker, Holder
<1> QED
  BY <1>1, <1>2, <1>3, <1>4, <1>5, NextCases

LEMMA SessionsStep ==
    ASSUME IInv, Next
    PROVE  Sessions'
<1> USE DEF IInv
<1>1. ASSUME NEW c \in Call, NEW fp \in Fp, NEW pages \in {1, Pages}, NEW tries \in 1 .. Attempts,
             Begin(c, fp, pages, tries)
      PROVE  Sessions'
  BY <1>1 DEF Begin, Sessions
<1>2. ASSUME NEW c \in Call, Enter(c)
      PROVE  Sessions'
  <2>1. open' = open
    BY <1>2, EnterMoves
  <2>2. /\ \A e \in DOMAIN conns : conns'[e] = conns[e]
        /\ \A e \in DOMAIN conns' \ DOMAIN conns : conns'[e].session = 0
    BY <1>2, EnterEntries
  <2>3. ASSUME NEW e \in DOMAIN conns', conns'[e].session # 0
        PROVE  /\ conns'[e].session \in open'
               /\ \A f \in DOMAIN conns' \ {e} : conns'[f].session # conns'[e].session
    BY <2>1, <2>2, <2>3 DEF Sessions
  <2> QED
    BY <2>3 DEF Sessions
<1>3. ASSUME NEW c \in Call, Work(c)
      PROVE  Sessions'
  <2> DEFINE e == calls[c].entry
  <2>1. Turn(c) /\ (Drops(c) \/ Connect(c))
    BY <1>3, WorkMoves
  <2>2. /\ e \in DOMAIN conns /\ DOMAIN conns' = DOMAIN conns
        /\ \A f \in DOMAIN conns \ {e} : conns'[f] = conns[f]
    BY <2>1 DEF Turn, OtherConns
  <2>3. CASE Drops(c)
    BY <2>2, <2>3 DEF Sessions, Drops
  <2>4. CASE Connect(c)
    <3>1. conns'[e].session = opened + 1 /\ open' = open \cup {opened + 1} /\ opened \in Nat
      BY <2>4, ConnectMoves DEF Connect, Kinds
    <3>2. \A f \in DOMAIN conns : conns[f].session # opened + 1
      <4>1. opened + 1 \notin open /\ opened + 1 # 0
        BY <3>1 DEF Kinds
      <4> QED
        BY <4>1 DEF Sessions
    <3> QED
      BY <2>2, <3>1, <3>2 DEF Sessions
  <2> QED
    BY <2>1, <2>3, <2>4
<1>4. ASSUME NEW a \in Closer, TakeOut(a)
      PROVE  Sessions'
  BY <1>4 DEF TakeOut, Sessions
<1>5. ASSUME NEW a \in Closer, CloseTaken(a)
      PROVE  Sessions'
  <2>1. /\ DOMAIN conns' = DOMAIN conns /\ closers[a] \in DOMAIN conns
        /\ conns'[closers[a]].session = 0 /\ open' = open \ {conns[closers[a]].session}
        /\ OtherConns(closers[a])
    BY <1>5, ClosesTaken
  <2> QED
    BY <2>1 DEF Sessions, OtherConns
<1> QED
  BY <1>1, <1>2, <1>3, <1>4, <1>5, NextCases

LEMMA KnownStep ==
    ASSUME IInv, Next
    PROVE  Known'
<1> USE DEF IInv
<1>1. ASSUME NEW c \in Call, NEW fp \in Fp, NEW pages \in {1, Pages}, NEW tries \in 1 .. Attempts,
             Begin(c, fp, pages, tries)
      PROVE  Known'
  <2>1. Others(c) /\ conns' = conns /\ calls'[c].at = "enter"
    BY <1>1, BeginMoves
  <2> QED
    BY <2>1 DEF Known, SessionOf, Mine, Others
<1>2. ASSUME NEW c \in Call, Enter(c)
      PROVE  Known'
  <2>1. Others(c) /\ calls'[c].at = "lock" /\ calls'[c].attempt = 0
    BY <1>2, EnterMoves
  <2>2. \A e \in DOMAIN conns : conns'[e] = conns[e]
    BY <1>2, EnterEntries
  <2>3. SessionOf(c)'
    BY <2>1 DEF SessionOf
  <2>4. ASSUME NEW d \in Call \ {c}
        PROVE  SessionOf(d)'
    <3>1. calls'[d] = calls[d] /\ SessionOf(d)
      BY <2>1 DEF Others, Known
    <3>2. calls[d].at \in Worker => Mine(d)' = Mine(d)
      BY <2>2, <3>1 DEF Mutexes, Mine
    <3> QED
      BY <3>1, <3>2 DEF SessionOf, Worker
  <2> QED
    BY <2>3, <2>4 DEF Known
<1>3. ASSUME NEW c \in Call, Work(c)
      PROVE  Known'
  <2>1. Turn(c) /\ SessionOf(c)'
    BY <1>3, WorkMoves
  <2>2. ASSUME NEW d \in Call \ {c}
        PROVE  SessionOf(d)'
    <3>1. calls'[d] = calls[d] /\ SessionOf(d)
      BY <2>1 DEF Turn, Others, Known
    <3>2. calls[d].at \in Holder => Mine(d)' = Mine(d)
      BY <2>1, OthersEntries
    <3> QED
      BY <3>1, <3>2 DEF SessionOf, Holder
  <2> QED
    BY <2>1, <2>2 DEF Known
<1>4. ASSUME NEW a \in Closer, TakeOut(a)
      PROVE  Known'
  BY <1>4 DEF TakeOut, Known, SessionOf, Mine
<1>5. ASSUME NEW a \in Closer, CloseTaken(a)
      PROVE  Known'
  <2>1. /\ conns[closers[a]].owner = Nobody /\ OtherConns(closers[a]) /\ calls' = calls
    BY <1>5, ClosesTaken
  <2>2. ASSUME NEW d \in Call
        PROVE  SessionOf(d)'
    <3>1. calls[d].at \in Holder => Mine(d)' = Mine(d)
      <4>1. calls[d].at \in Holder =>
                calls[d].entry \in DOMAIN conns /\ Mine(d).owner = d /\ d # Nobody
        BY ActorAssumption DEF Mutexes, Worker, Holder
      <4> QED
        BY <2>1, <4>1 DEF OtherConns, Mine
    <3> QED
      BY <2>1, <3>1 DEF Known, SessionOf, Holder
  <2> QED
    BY <2>2 DEF Known
<1> QED
  BY <1>1, <1>2, <1>3, <1>4, <1>5, NextCases

LEMMA FoundStep ==
    ASSUME IInv, Next
    PROVE  Found'
<1> USE DEF IInv
<1>0. DOMAIN conns = 1 .. Len(conns) /\ 0 \notin DOMAIN conns
  BY ConnsAre
<1>1. ASSUME NEW c \in Call, NEW fp \in Fp, NEW pages \in {1, Pages}, NEW tries \in 1 .. Attempts,
             Begin(c, fp, pages, tries)
      PROVE  Found'
  <2>1. Others(c) /\ calls'[c].at = "enter" /\ UNCHANGED <<byID, late>>
    BY <1>1, BeginMoves
  <2> QED
    BY <2>1 DEF Found, Others, Worker
<1>2. ASSUME NEW c \in Call, Enter(c)
      PROVE  Found'
  <2>1. Others(c) /\ calls'[c].entry = byID' /\ late' = late
    BY <1>2, EnterMoves
  <2>2. byID # 0 => byID' = byID
    BY <1>2, EnterEntries
  <2>3. \A d \in Call : calls[d].at \in Worker => calls[d].entry # 0
    BY <1>0 DEF Mutexes
  <2> QED
    BY <2>1, <2>2, <2>3 DEF Found, Others
<1>3. ASSUME NEW c \in Call, Work(c)
      PROVE  Found'
  <2>1. Turn(c)
    BY <1>3, WorkMoves
  <2>2. calls'[c].at \in Worker => calls'[c].entry = calls[c].entry
    BY <2>1 DEF Turn, Worker
  <2> QED
    BY <2>1, <2>2 DEF Found, Turn, Others
<1>4. ASSUME NEW a \in Closer, TakeOut(a)
      PROVE  Found'
  BY <1>4 DEF TakeOut, Found, Works, Worker
<1>5. ASSUME NEW a \in Closer, CloseTaken(a)
      PROVE  Found'
  BY <1>5 DEF CloseTaken, Found
<1> QED
  BY <1>1, <1>2, <1>3, <1>4, <1>5, NextCases

LEMMA NoSessionLeftStep ==
    ASSUME IInv, Next
    PROVE  NoSessionLeft'
<1> USE DEF IInv
<1>0. DOMAIN conns = 1 .. Len(conns) /\ 0 \notin DOMAIN conns
  BY ConnsAre
<1>1. ASSUME NEW c \in Call, NEW fp \in Fp, NEW pages \in {1, Pages}, NEW tries \in 1 .. Attempts,
             Begin(c, fp, pages, tries)
      PROVE  NoSessionLeft'
  BY <1>1 DEF Begin, NoSessionLeft
<1>2. ASSUME NEW c \in Call, Enter(c)
      PROVE  NoSessionLeft'
  <2>1. UNCHANGED <<open, closers, late>>
    BY <1>2, EnterMoves
  <2>2. /\ DOMAIN conns \subseteq DOMAIN conns' /\ \A e \in DOMAIN conns : conns'[e] = conns[e]
        /\ byID # 0 => byID' = byID
    BY <1>2, EnterEntries
  <2>3. ASSUME NEW s \in open
        PROVE  \E e \in DOMAIN conns' :
                  /\ conns'[e].session = s
                  /\ e = byID' \/ e \in late' \/ \E a \in Closer : closers'[a] = e
    <3>1. PICK e \in DOMAIN conns :
             /\ conns[e].session = s
             /\ e = byID \/ e \in late \/ \E a \in Closer : closers[a] = e
      BY DEF NoSessionLeft
    <3>2. e # 0
      BY <1>0
    <3> QED
      BY <2>1, <2>2, <3>1, <3>2
  <2> QED
    BY <2>1, <2>3 DEF NoSessionLeft
<1>3. ASSUME NEW c \in Call, Work(c)
      PROVE  NoSessionLeft'
  <2> DEFINE e == calls[c].entry
  <2>1. Turn(c) /\ (Drops(c) \/ Connect(c))
    BY <1>3, WorkMoves
  <2>2. /\ e \in DOMAIN conns /\ DOMAIN conns' = DOMAIN conns /\ UNCHANGED <<byID, closers, late>>
        /\ \A f \in DOMAIN conns \ {e} : conns'[f] = conns[f]
    BY <2>1 DEF Turn, OtherConns
  <2>3. CASE Drops(c)
    <3>1. /\ conns'[e].session \in {0, conns[e].session}
          /\ open' = open \ ({conns[e].session} \ {conns'[e].session})
      BY <2>3 DEF Drops
    <3>2. ASSUME NEW s \in open'
          PROVE  \E f \in DOMAIN conns' :
                    /\ conns'[f].session = s
                    /\ f = byID' \/ f \in late' \/ \E a \in Closer : closers'[a] = f
      <4>1. PICK f \in DOMAIN conns :
               /\ conns[f].session = s
               /\ f = byID \/ f \in late \/ \E a \in Closer : closers[a] = f
        BY <3>1 DEF NoSessionLeft
      <4>2. conns'[f].session = s
        BY <2>2, <3>1, <4>1
      <4> QED
        BY <2>2, <4>1, <4>2
    <3> QED
      BY <3>2 DEF NoSessionLeft
  <2>4. CASE Connect(c)
    <3>1. /\ conns'[e].session = opened + 1 /\ conns[e].session = 0
          /\ open' = open \cup {opened + 1}
      BY <2>4, ConnectMoves DEF Connect, Mine
    <3>2. 0 \notin open
      <4>1. opened \in Nat /\ open \subseteq 1 .. opened
        BY DEF Kinds
      <4> QED
        BY <4>1
    <3>3. e = byID \/ e \in late
      BY <2>1 DEF Found, Turn
    <3>4. ASSUME NEW s \in open
          PROVE  \E f \in DOMAIN conns' :
                    /\ conns'[f].session = s
                    /\ f = byID' \/ f \in late' \/ \E a \in Closer : closers'[a] = f
      <4>1. PICK f \in DOMAIN conns :
               /\ conns[f].session = s
               /\ f = byID \/ f \in late \/ \E a \in Closer : closers[a] = f
        BY DEF NoSessionLeft
      <4>2. conns'[f].session = s
        BY <2>2, <3>1, <3>2, <4>1
      <4> QED
        BY <2>2, <4>1, <4>2
    <3> QED
      BY <2>2, <3>1, <3>3, <3>4 DEF NoSessionLeft
  <2> QED
    BY <2>1, <2>3, <2>4
<1>4. ASSUME NEW a \in Closer, TakeOut(a)
      PROVE  NoSessionLeft'
  <2>1. /\ closers[a] = 0 /\ closers' = [closers EXCEPT ![a] = byID] /\ closers \in [Closer -> Nat]
        /\ late \subseteq late' /\ UNCHANGED <<conns, open>>
    BY <1>4 DEF TakeOut, Kinds
  <2>2. ASSUME NEW s \in open
        PROVE  \E f \in DOMAIN conns :
                  /\ conns[f].session = s
                  /\ f \in late' \/ \E b \in Closer : closers'[b] = f
    <3>1. PICK f \in DOMAIN conns :
             /\ conns[f].session = s
             /\ f = byID \/ f \in late \/ \E b \in Closer : closers[b] = f
      BY DEF NoSessionLeft
    <3>2. f # 0 /\ closers'[a] = byID /\ \A b \in Closer \ {a} : closers'[b] = closers[b]
      BY <1>0, <2>1
    <3> QED
      BY <2>1, <3>1, <3>2
  <2> QED
    BY <2>1, <2>2 DEF NoSessionLeft
<1>5. ASSUME NEW a \in Closer, CloseTaken(a)
      PROVE  NoSessionLeft'
  <2>1. /\ DOMAIN conns' = DOMAIN conns /\ OtherConns(closers[a])
        /\ open' = open \ {conns[closers[a]].session}
    BY <1>5, ClosesTaken
  <2>2. /\ closers' = [closers EXCEPT ![a] = 0] /\ closers \in [Closer -> Nat]
        /\ UNCHANGED <<byID, late>>
    BY <1>5 DEF CloseTaken, Kinds
  <2>3. ASSUME NEW s \in open'
        PROVE  \E f \in DOMAIN conns' :
                  /\ conns'[f].session = s
                  /\ f = byID' \/ f \in late' \/ \E b \in Closer : closers'[b] = f
    <3>1. PICK f \in DOMAIN conns :
             /\ conns[f].session = s
             /\ f = byID \/ f \in late \/ \E b \in Closer : closers[b] = f
      BY <2>1 DEF NoSessionLeft
    <3>2. f # closers[a] /\ conns'[f] = conns[f]
      BY <2>1, <3>1 DEF OtherConns
    <3> QED
      BY <2>1, <2>2, <3>1, <3>2
  <2> QED
    BY <2>3 DEF NoSessionLeft
<1> QED
  BY <1>1, <1>2, <1>3, <1>4, <1>5, NextCases

LEMMA PagedStep ==
    ASSUME IInv, Next
    PROVE  Paged'
<1> USE DEF IInv
<1>1. ASSUME NEW c \in Call, NEW fp \in Fp, NEW pages \in {1, Pages}, NEW tries \in 1 .. Attempts,
             Begin(c, fp, pages, tries)
      PROVE  Paged'
  <2>1. /\ Others(c) /\ calls'[c].at = "enter" /\ calls'[c].pages = pages /\ calls'[c].tries = tries
        /\ calls'[c].attempt = 0 /\ calls'[c].page = 0 /\ calls'[c].got = <<>>
    BY <1>1, BeginMoves
  <2>2. PagesOf(c)'
    <3>1. Len(<<>>) = 0 /\ 0 < pages /\ tries > 0
      BY PagesAssumption, EmptySeq
    <3> QED
      BY <2>1, <3>1 DEF PagesOf
  <2>3. ASSUME NEW d \in Call \ {c}
        PROVE  PagesOf(d)'
    BY <2>1 DEF Others, Paged, PagesOf
  <2> QED
    BY <2>2, <2>3 DEF Paged
<1>2. ASSUME NEW c \in Call, Enter(c)
      PROVE  Paged'
  <2>1. /\ Others(c) /\ calls[c].at = "enter" /\ calls'[c].at = "lock" /\ calls'[c].attempt = 0
        /\ calls'[c].pages = calls[c].pages /\ calls'[c].page = calls[c].page
        /\ calls'[c].got = calls[c].got
    BY <1>2, EnterMoves
  <2>2. PagesOf(c)'
    <3>1. Len(<<>>) = 0
      BY EmptySeq
    <3>2. calls[c].page = 0 /\ calls[c].got = <<>> /\ calls[c].page < calls[c].pages
      BY <2>1 DEF Paged, PagesOf
    <3> QED
      BY <2>1, <3>1, <3>2 DEF PagesOf
  <2>3. ASSUME NEW d \in Call \ {c}
        PROVE  PagesOf(d)'
    BY <2>1 DEF Others, Paged, PagesOf
  <2> QED
    BY <2>2, <2>3 DEF Paged
<1>3. ASSUME NEW c \in Call, Work(c)
      PROVE  Paged'
  <2>1. Turn(c) /\ PagesOf(c)'
    BY <1>3, WorkMoves
  <2>2. ASSUME NEW d \in Call \ {c}
        PROVE  PagesOf(d)'
    BY <2>1 DEF Turn, Others, Paged, PagesOf
  <2> QED
    BY <2>1, <2>2 DEF Paged
<1>4. ASSUME NEW a \in Closer, TakeOut(a) \/ CloseTaken(a)
      PROVE  Paged'
  <2>1. calls' = calls
    BY <1>4 DEF TakeOut, CloseTaken
  <2> QED
    BY <2>1 DEF Paged, PagesOf
<1> QED
  BY <1>1, <1>2, <1>3, <1>4, NextCases

-----------------------------------------------------------------------------
(* The invariant, and what follows from it *)

LEMMA InvInit == Init => IInv
<1> SUFFICES ASSUME Init
             PROVE  IInv
  OBVIOUS
<1>1. conns \in Seq(ConnRec) /\ Len(conns) = 0 /\ DOMAIN conns = {}
  BY EmptySeq DEF Init
<1>2. \A c \in Call : calls[c] = Idle
  BY DEF Init
<1>3. /\ Idle.at = "idle" /\ Idle.entry = 0 /\ Idle.pages = 1 /\ Idle.attempt = 0
      /\ Idle.page = 0 /\ Idle.got = <<>>
  BY DEF Idle
<1>4. Kinds
  BY <1>1, <1>2, <1>3, IdleIs DEF Init, Kinds
<1>5. Mutexes /\ Sessions
  BY <1>1, <1>2, <1>3 DEF Mutexes, Sessions, Worker, Holder
<1>6. Known /\ Found /\ NoSessionLeft
  BY <1>2, <1>3 DEF Init, Known, SessionOf, Found, NoSessionLeft, Worker
<1>7. Paged
  <2>1. Len(<<>>) = 0
    BY EmptySeq
  <2> QED
    BY <1>2, <1>3, <2>1 DEF Paged, PagesOf
<1> QED
  BY <1>4, <1>5, <1>6, <1>7 DEF IInv

LEMMA InvStep == IInv /\ [Next]_vars => IInv'
<1>1. ASSUME IInv, Next
      PROVE  IInv'
  BY <1>1, KindsStep, MutexesStep, SessionsStep, KnownStep, FoundStep, NoSessionLeftStep, PagedStep
     DEF IInv
<1>2. ASSUME IInv, UNCHANGED vars
      PROVE  IInv'
  BY <1>2 DEF vars, IInv, Kinds, Mutexes, Sessions, Known, SessionOf, Found, NoSessionLeft, Paged,
              PagesOf, Mine
<1> QED
  BY <1>1, <1>2

(* The invariant of the pool: each mutex is held by who works on its entry, a
   session is in one entry, and a call's entry is the pool's or known to have
   been taken out. *)
THEOREM Inductive == Spec => []IInv
<1> QED
  BY InvInit, InvStep, PTL DEF Spec

LEMMA InvTyped == IInv => TypeOK
<1> SUFFICES ASSUME IInv
             PROVE  TypeOK
  OBVIOUS
<1> USE DEF IInv
<1>1. \A e \in DOMAIN conns : conns[e] \in ConnRec
  BY ConnsAre
<1>2. opened \in Nat /\ open \subseteq 1 .. opened /\ Len(conns) \in Nat
  BY ConnsAre DEF Kinds
<1>3. ASSUME NEW e \in DOMAIN conns
      PROVE  conns[e] \in Conn
  <2>1. conns[e].session \in 0 .. opened
    BY <1>1, <1>2 DEF Sessions, ConnRec
  <2> QED
    BY <1>1, <2>1 DEF Conn, ConnRec
<1>4. ASSUME NEW e \in DOMAIN conns, conns[e].owner # Nobody
      PROVE  calls[conns[e].owner].at \in {"check", "connect", "fn"} /\ Works(conns[e].owner, e)
  BY <1>4 DEF Mutexes, Works, Holder
<1>5. ASSUME NEW c \in Call
      PROVE  calls[c] \in CallRec
  <2>1. calls[c] \in StateRec /\ calls[c].entry \in 0 .. Len(conns)
    BY <1>2 DEF Kinds, StateRec
  <2> QED
    BY <2>1 DEF CallRec, StateRec, Places
<1>6. calls \in [Call -> CallRec] /\ closers \in [Closer -> 0 .. Len(conns)]
  BY <1>2, <1>5 DEF Kinds
<1> QED
  BY <1>2, <1>3, <1>4, <1>6 DEF TypeOK, Kinds

(* Entries, sessions and calls are always what session_pool.go can hold, and an
   entry's mutex is held by a call that works on it. *)
THEOREM Typing == Spec => []TypeOK
<1> QED
  BY Inductive, InvTyped, PTL

LEMMA InvServes == IInv => SessionServes
<1> SUFFICES ASSUME IInv, NEW c \in Call, calls[c].at = "fn"
             PROVE  /\ Mine(c).owner = c /\ Mine(c).session \in open /\ Mine(c).fp = calls[c].fp
                    /\ \A d \in Call \ {c} : calls[d].at = "fn" => Mine(d).session # Mine(c).session
                    /\ calls[c].attempt = 1 => ~calls[c].reused
  BY DEF SessionServes
<1>1. ASSUME NEW d \in Call, calls[d].at = "fn"
      PROVE  /\ calls[d].entry \in DOMAIN conns /\ Mine(d).owner = d
             /\ Mine(d).session # 0 /\ Mine(d).session \in open
  BY <1>1 DEF IInv, Mutexes, Known, SessionOf, Sessions, Mine, Worker, Holder
<1>2. ASSUME NEW d \in Call \ {c}, calls[d].at = "fn"
      PROVE  Mine(d).session # Mine(c).session
  <2>1. calls[d].entry # calls[c].entry
    BY <1>1, <1>2 DEF Mine
  <2> QED
    BY <1>1, <1>2, <2>1 DEF IInv, Sessions, Mine
<1> QED
  BY <1>1, <1>2 DEF IInv, Known, SessionOf

(* However calls, failures and closings interleave, a call talks to the server
   through an open session of its own fingerprint that no other call uses, and
   a second attempt never through one that was found there. *)
THEOREM SessionsServe == Spec => []SessionServes
<1> QED
  BY Inductive, InvServes, PTL

(* A session that is open is in the pool, or about to be closed, or in an entry
   that an administrator took out while calls held or awaited it. *)
THEOREM NoneLeft == Spec => []NoSessionLeft
<1>1. IInv => NoSessionLeft
  BY DEF IInv
<1> QED
  BY Inductive, <1>1, PTL

(* The pages of a list are collected in order and without gaps, whatever number
   of pages the server has and whenever its sessions fail. *)
THEOREM PagesCollected == Spec => []PagesInOrder
<1>1. IInv => PagesInOrder
  BY DEF IInv, Paged, PagesOf, PagesInOrder
<1> QED
  BY Inductive, <1>1, PTL
=============================================================================
