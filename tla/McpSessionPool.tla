--------------------------- MODULE McpSessionPool ---------------------------
(***************************************************************************)
(* httpSessionPool (internal/mcpclient/session_pool.go), one MCP server:   *)
(* calls share the server's session one after the other, a call that fails *)
(* on a session it found there is made once more on a new one, and         *)
(* administrators close the server.                                        *)
(*                                                                         *)
(* An entry (pooledServerConn) is a number, made in the order of the pool; *)
(* a call or an administrator that has taken one keeps it.  A session is   *)
(* a number too.  A call is of a tool, which is one reply of the MCP       *)
(* server, or of a list, which is Pages replies in a row.                  *)
(***************************************************************************)
EXTENDS Integers, Sequences, FiniteSets

CONSTANTS
    Call,       \* concurrent calls
    Closer,     \* administrators
    Fp,         \* fingerprints of configuration and sampling context
    NoFp,       \* what is no fingerprint
    Nobody,     \* who holds a mutex that is free
    Pages,      \* pages of a list
    Attempts,   \* runs of a tool that CallTool makes at most
    MaxCalls,   \* bound on the calls made
    MaxCloses   \* bound on the closings

ASSUME ActorAssumption == Nobody \notin Call
ASSUME FpAssumption == NoFp \notin Fp
ASSUME PagesAssumption == Pages \in Nat \ {0} /\ Attempts \in {1, 2}
ASSUME BoundAssumption == MaxCalls \in Nat /\ MaxCloses \in Nat

VARIABLES
    byID,       \* the server's entry in the pool's map, 0 if there is none
    conns,      \* the entries made: mutex, session (0 is nil), fingerprint
    open,       \* the sessions that are open
    opened,     \* the number of sessions made
    calls,      \* where each call is and what it holds
    closers,    \* the entry each administrator has taken out, 0 if none
    late,       \* entries taken out while calls held or awaited them
    made, closes \* calls and closings so far

vars == <<byID, conns, open, opened, calls, closers, late, made, closes>>
counts == <<made, closes>>

Conn == [owner : Call \cup {Nobody}, session : 0 .. opened, fp : Fp \cup {NoFp}]

(* tries: the runs CallTool has left; attempt: the pool's own. *)
CallRec == [at : {"idle", "enter", "lock", "check", "connect", "fn"}, entry : 0 .. Len(conns),
            fp : Fp \cup {NoFp}, pages : {1, Pages}, tries : 0 .. Attempts, attempt : {0, 1}, reused : BOOLEAN,
            page : 0 .. (Pages - 1), got : Seq(1 .. Pages)]

Idle == [at |-> "idle", entry |-> 0, fp |-> NoFp, pages |-> 1, tries |-> 0, attempt |-> 0,
         reused |-> FALSE, page |-> 0, got |-> <<>>]

Init ==
    /\ byID = 0 /\ conns = <<>>
    /\ open = {} /\ opened = 0
    /\ calls = [c \in Call |-> Idle]
    /\ closers = [a \in Closer |-> 0]
    /\ late = {} /\ made = 0 /\ closes = 0

-----------------------------------------------------------------------------
(* run *)

Begin(c, fp, pages, tries) ==
    /\ calls[c].at = "idle" /\ made < MaxCalls
    /\ calls' = [calls EXCEPT ![c] = [Idle EXCEPT !.at = "enter", !.fp = fp,
                                                  !.pages = pages, !.tries = tries]]
    /\ made' = made + 1
    /\ UNCHANGED <<byID, conns, open, opened, closers, late, closes>>

\* The pool's mutex covers the look-up and the making of an entry.
Enter(c) ==
    /\ calls[c].at = "enter"
    /\ IF byID = 0
       THEN /\ conns' = Append(conns, [owner |-> Nobody, session |-> 0, fp |-> NoFp])
            /\ byID' = Len(conns) + 1
       ELSE UNCHANGED <<conns, byID>>
    /\ calls' = [calls EXCEPT ![c].at = "lock", ![c].entry = byID', ![c].attempt = 0,
                              ![c].tries = calls[c].tries - 1]
    /\ UNCHANGED <<open, opened, closers, late, counts>>

Mine(c) == conns[calls[c].entry]

Lock(c) ==
    /\ calls[c].at = "lock" /\ Mine(c).owner = Nobody
    /\ conns' = [conns EXCEPT ![calls[c].entry].owner = c]
    /\ calls' = [calls EXCEPT ![c].at = "check"]
    /\ UNCHANGED <<byID, open, opened, closers, late, counts>>

\* A session of another fingerprint, or one not used for too long, is closed.
Check(c, expired) ==
    LET session == IF expired \/ Mine(c).fp # calls[c].fp THEN 0 ELSE Mine(c).session
    IN  /\ calls[c].at = "check"
        /\ open' = open \ ({Mine(c).session} \ {session})
        /\ conns' = [conns EXCEPT ![calls[c].entry].session = session]
        /\ calls' = [calls EXCEPT ![c].at = IF session = 0 THEN "connect" ELSE "fn",
                                  ![c].reused = session # 0]
        /\ UNCHANGED <<byID, opened, closers, late, counts>>

Connect(c) ==
    /\ calls[c].at = "connect"
    /\ opened' = opened + 1 /\ open' = open \cup {opened + 1}
    /\ conns' = [conns EXCEPT ![calls[c].entry].session = opened + 1,
                              ![calls[c].entry].fp = calls[c].fp]
    /\ calls' = [calls EXCEPT ![c].at = "fn"]
    /\ UNCHANGED <<byID, closers, late, counts>>

-----------------------------------------------------------------------------
(* What run is called for, and how it returns *)

Last(c) == calls[c].page = calls[c].pages - 1

(* Mutant: the next page's cursor is not passed on. *)
ReplyAgain(c) ==
    /\ calls[c].at = "fn" /\ ~Last(c)
    /\ calls' = [calls EXCEPT ![c].got = Append(calls[c].got, calls[c].page + 1)]
    /\ UNCHANGED <<byID, conns, open, opened, closers, late, counts>>

\* listTools: a page that is not the last one.  The pages are collected outside
\* of what the pool calls, so that they stay when it is called again.
Reply(c) ==
    /\ calls[c].at = "fn" /\ ~Last(c)
    /\ calls' = [calls EXCEPT ![c].page = calls[c].page + 1,
                              ![c].got = Append(calls[c].got, calls[c].page + 1)]
    /\ UNCHANGED <<byID, conns, open, opened, closers, late, counts>>

Unlock(c, session) ==
    conns' = [conns EXCEPT ![calls[c].entry].owner = Nobody,
                           ![calls[c].entry].session = session]

\* The last reply: the session stays for the next call.
Succeed(c) ==
    /\ calls[c].at = "fn" /\ Last(c)
    /\ Unlock(c, Mine(c).session)
    /\ calls' = [calls EXCEPT ![c] = Idle]
    /\ UNCHANGED <<byID, open, opened, closers, late, counts>>

\* CallTool's loop: a run that failed, whatever with, is followed by the next
\* one, if there is one left.
RunFailed(c) ==
    calls' = [calls EXCEPT ![c] =
                IF calls[c].tries > 0
                THEN [Idle EXCEPT !.at = "enter", !.fp = calls[c].fp,
                                  !.pages = calls[c].pages, !.tries = calls[c].tries]
                ELSE Idle]

(* Mutant: the mutex stays locked on an early return. *)
ConnectFailsLocked(c) ==
    /\ calls[c].at = "connect"
    /\ RunFailed(c)
    /\ UNCHANGED <<byID, conns, open, opened, closers, late, counts>>

ConnectFails(c) ==
    /\ calls[c].at = "connect"
    /\ Unlock(c, 0)
    /\ RunFailed(c)
    /\ UNCHANGED <<byID, open, opened, closers, late, counts>>

(* Mutant: a failed session is forgotten without being closed. *)
FailForgets(c, error) ==
    /\ calls[c].at = "fn"
    /\ Unlock(c, 0)
    /\ RunFailed(c)
    /\ UNCHANGED <<byID, open, opened, closers, late, counts>>

\* The session is closed; a transport's error on a session that was found there
\* is followed by the second attempt, with the mutex still held.
Fail(c, error) ==
    /\ calls[c].at = "fn"
    /\ open' = open \ {Mine(c).session}
    /\ IF calls[c].attempt = 0 /\ calls[c].reused /\ error = "transport"
       THEN /\ conns' = [conns EXCEPT ![calls[c].entry].session = 0]
            /\ calls' = [calls EXCEPT ![c].at = "check", ![c].attempt = 1, ![c].page = 0]
       ELSE Unlock(c, 0) /\ RunFailed(c)
    /\ UNCHANGED <<byID, opened, closers, late, counts>>

-----------------------------------------------------------------------------
(* closeServer *)

Works(c, e) == calls[c].at \in {"lock", "check", "connect", "fn"} /\ calls[c].entry = e

TakeOut(a) ==
    /\ closers[a] = 0 /\ byID # 0 /\ closes < MaxCloses
    /\ closers' = [closers EXCEPT ![a] = byID] /\ byID' = 0
    /\ late' = IF \E c \in Call : Works(c, byID) THEN late \cup {byID} ELSE late
    /\ closes' = closes + 1
    /\ UNCHANGED <<conns, open, opened, calls, made>>

(* Mutant: the session is closed without waiting for the entry's mutex. *)
CloseTakenAtOnce(a) ==
    /\ closers[a] # 0
    /\ open' = open \ {conns[closers[a]].session}
    /\ conns' = [conns EXCEPT ![closers[a]].session = 0]
    /\ closers' = [closers EXCEPT ![a] = 0]
    /\ UNCHANGED <<byID, opened, calls, late, counts>>

CloseTaken(a) ==
    /\ closers[a] # 0 /\ conns[closers[a]].owner = Nobody
    /\ open' = open \ {conns[closers[a]].session}
    /\ conns' = [conns EXCEPT ![closers[a]].session = 0]
    /\ closers' = [closers EXCEPT ![a] = 0]
    /\ UNCHANGED <<byID, opened, calls, late, counts>>

Error == {"transport", "other"}

Checks(c) == \E expired \in BOOLEAN : Check(c, expired)
Ends(c) == Reply(c) \/ Succeed(c) \/ \E error \in Error : Fail(c, error)
Dials(c) == Connect(c) \/ ConnectFails(c)

Next ==
    \/ \E c \in Call : \/ \E fp \in Fp : Begin(c, fp, Pages, 1) \/ Begin(c, fp, 1, Attempts)
                       \/ Enter(c) \/ Lock(c)
                       \/ Checks(c) \/ Dials(c) \/ Ends(c)
    \/ \E a \in Closer : TakeOut(a) \/ CloseTaken(a)

Spec == Init /\ [][Next]_vars

(* What a call does ends: every operation has a timeout.  Go's mutex does not
   starve those that wait for it: it is handed on in their order when one has
   waited for long. *)
Fairness ==
    /\ \A c \in Call : /\ WF_vars(Enter(c) \/ Checks(c) \/ Dials(c) \/ Ends(c))
                       /\ SF_vars(Lock(c))
    /\ \A a \in Closer : SF_vars(CloseTaken(a))

LiveSpec == Spec /\ Fairness

-----------------------------------------------------------------------------
(* Properties *)

(* Entries, sessions and calls are what the code can hold, and an entry's mutex
   is held by a call that works on it. *)
TypeOK ==
    /\ byID \in 0 .. Len(conns) /\ open \subseteq 1 .. opened
    /\ \A e \in DOMAIN conns :
          /\ conns[e] \in Conn
          /\ conns[e].owner # Nobody =>
                 calls[conns[e].owner].at \in {"check", "connect", "fn"} /\ Works(conns[e].owner, e)
    /\ calls \in [Call -> CallRec]
    /\ closers \in [Closer -> 0 .. Len(conns)]

(* While a call talks to the MCP server, its session stays open, was opened for
   its own fingerprint and is nobody else's; a second attempt has a session
   of its own. *)
SessionServes ==
    \A c \in Call : calls[c].at = "fn" =>
        /\ Mine(c).owner = c /\ Mine(c).session \in open /\ Mine(c).fp = calls[c].fp
        /\ \A d \in Call \ {c} : calls[d].at = "fn" => Mine(d).session # Mine(c).session
        /\ calls[c].attempt = 1 => ~calls[c].reused

(* No session stays open that nobody will use or close: it is in the pool, or
   an administrator is about to close it.  The exception are entries that were taken
   out while calls held or awaited them: such a call opens a session where none
   is looked for any more. *)
NoSessionLeft ==
    \A s \in open : \E e \in DOMAIN conns :
        /\ conns[e].session = s
        /\ e = byID \/ e \in late \/ \E a \in Closer : closers[a] = e

(* However sessions fail and calls take turns, the pages of a list are
   collected in order and without gaps; only a second attempt has the pages of
   the first before its own. *)
PagesInOrder ==
    \A c \in Call : calls[c].at = "fn" =>
        LET n == Len(calls[c].got) - calls[c].page
        IN  /\ n >= 0 /\ (calls[c].attempt = 0 => n = 0)
            /\ \A i \in 1 .. calls[c].page : calls[c].got[n + i] = i
            /\ \A i \in 1 .. n : calls[c].got[i] = i

(* Every call ends, whatever fails, and whoever has the entry's mutex before. *)
CallsEnd == \A c \in Call : calls[c].at = "enter" ~> calls[c].at = "idle"
=============================================================================
