---------------------------- MODULE McpListCache ----------------------------
(***************************************************************************)
(* ToolsListCache (internal/mcpclient/tools_list_cache.go), one of its     *)
(* three equal caches and one MCP server: callers read the cached list or  *)
(* fetch it, those with the same fingerprint together (singleflight), and  *)
(* store what they got; administrators and the server's notifications      *)
(* invalidate.                                                             *)
(*                                                                         *)
(* A list is the number of the server's version of it.  A fingerprint is   *)
(* a configuration a caller has read; each leads to a list of its own.     *)
(* A fetch of several pages counts as read at its first page.              *)
(***************************************************************************)
EXTENDS Integers, Sequences, FiniteSets

CONSTANTS
    Call,       \* concurrent callers
    Fp,         \* fingerprints of the server's configurations
    NoFp,       \* what is no fingerprint
    Coalesce,   \* listRequestCoalescingEnabled
    TTL,        \* lifetime of an entry
    MaxCall,    \* longest a call takes: the timeouts of its operations
    MaxTime,    \* bound on the clock
    MaxChanges  \* bound on the changes of a list

ASSUME CallAssumption == IsFiniteSet(Call)
ASSUME FpAssumption == NoFp \notin Fp
ASSUME CoalesceAssumption == Coalesce \in BOOLEAN
ASSUME TimeAssumption == TTL \in Nat /\ MaxCall \in Nat
ASSUME BoundAssumption == MaxTime \in Nat /\ MaxChanges \in Nat

VARIABLES
    entries,    \* toolEntries of this server: fingerprint -> list and expiry
    calls,      \* where each caller is, its fingerprint, start and list
    now,        \* the clock
    ended,      \* ended[f][v]: when version v of f's list stopped being current
    settled     \* settled[f]: the version at the last invalidation of f during
                \* which no caller held a list it had not stored yet

vars == <<entries, calls, now, ended, settled>>

Entry == [val : Nat \ {0}, until : Nat]
CallRec == [at : {"idle", "look", "join", "fetch", "got", "wait", "store"},
            fp : Fp \cup {NoFp}, start : Nat, val : Nat]
Idle == [at |-> "idle", fp |-> NoFp, start |-> 0, val |-> 0]

Current(f) == Len(ended[f]) + 1

Init ==
    /\ entries = <<>>
    /\ calls = [c \in Call |-> Idle]
    /\ now = 0
    /\ ended = [f \in Fp |-> <<>>]
    /\ settled = [f \in Fp |-> 1]

-----------------------------------------------------------------------------
(* ListToolsCached *)

At(c, at) == calls' = [calls EXCEPT ![c].at = at]
Return(c) == calls' = [calls EXCEPT ![c] = Idle]

\* The clock is read before the cache.
Begin(c, f) ==
    /\ calls[c].at = "idle"
    /\ calls' = [calls EXCEPT ![c] = [at |-> "look", fp |-> f, start |-> now, val |-> 0]]
    /\ UNCHANGED <<entries, now, ended, settled>>

Hit(c) == /\ calls[c].fp \in DOMAIN entries
          /\ calls[c].start < entries[calls[c].fp].until

Look(c) ==
    /\ calls[c].at = "look"
    /\ IF Hit(c) THEN Return(c) ELSE At(c, "join")
    /\ UNCHANGED <<entries, now, ended, settled>>

Leads(c) == calls[c].at \in {"fetch", "got"}

\* singleflight's Do: the first one fetches, the others wait for it.
Join(c) ==
    /\ calls[c].at = "join"
    /\ At(c, IF Coalesce /\ \E d \in Call : Leads(d) /\ calls[d].fp = calls[c].fp
             THEN "wait" ELSE "fetch")
    /\ UNCHANGED <<entries, now, ended, settled>>

\* The server answers; the answer is on its way.
Fetch(c) ==
    /\ calls[c].at = "fetch"
    /\ calls' = [calls EXCEPT ![c].at = "got", ![c].val = Current(calls[c].fp)]
    /\ UNCHANGED <<entries, now, ended, settled>>

\* A fetch's result goes to the caller that made it and to those that wait.
Flight(c) == {c} \cup {d \in Call : calls[d].at = "wait" /\ calls[d].fp = calls[c].fp}

FetchFails(c) ==
    /\ Leads(c)
    /\ calls' = [d \in Call |-> IF d \in Flight(c) THEN Idle ELSE calls[d]]
    /\ UNCHANGED <<entries, now, ended, settled>>

Finish(c) ==
    /\ calls[c].at = "got"
    /\ calls' = [d \in Call |->
                   IF d \in Flight(c)
                   THEN [calls[d] EXCEPT !.at = "store", !.val = calls[c].val]
                   ELSE calls[d]]
    /\ UNCHANGED <<entries, now, ended, settled>>

(* Mutant: the lifetime counts from the end of the call. *)
StoreLate(c) ==
    /\ calls[c].at = "store"
    /\ entries' = [f \in {calls[c].fp} |-> [val |-> calls[c].val, until |-> now + TTL]]
    /\ Return(c)
    /\ UNCHANGED <<now, ended, settled>>

\* Of this server only the entry that is stored remains.  Every member of a
\* flight stores, with the clock of its own start.
Store(c) ==
    /\ calls[c].at = "store"
    /\ entries' = [f \in {calls[c].fp} |->
                     [val |-> calls[c].val, until |-> calls[c].start + TTL]]
    /\ Return(c)
    /\ UNCHANGED <<now, ended, settled>>

-----------------------------------------------------------------------------
\* Callers that hold a list they have not stored.
Holds(c, f) == calls[c].at \in {"got", "store"} /\ calls[c].fp = f

Settle == settled' = [f \in Fp |-> IF \E c \in Call : Holds(c, f) THEN settled[f]
                                   ELSE Current(f)]

(* Mutant: only what has expired goes. *)
InvalidateExpired ==
    /\ entries' = [f \in {g \in DOMAIN entries : now < entries[g].until} |-> entries[f]]
    /\ Settle
    /\ UNCHANGED <<calls, now, ended>>

\* InvalidateServerTools, by an administrator or by the server's notification:
\* the entries of every fingerprint of the server.
InvalidateServerTools ==
    /\ entries' = <<>>
    /\ Settle
    /\ UNCHANGED <<calls, now, ended>>

\* The MCP server's list changes.
Change(f) ==
    /\ Len(ended[f]) < MaxChanges
    /\ ended' = [ended EXCEPT ![f] = Append(ended[f], now)]
    /\ UNCHANGED <<entries, calls, now, settled>>

Tick ==
    /\ now < MaxTime
    /\ \A c \in Call : calls[c].at # "idle" => now < calls[c].start + MaxCall
    /\ now' = now + 1
    /\ UNCHANGED <<entries, calls, ended, settled>>

Step(c) ==
    \/ \E f \in Fp : Begin(c, f)
    \/ Look(c) \/ Join(c) \/ Fetch(c) \/ FetchFails(c) \/ Finish(c) \/ Store(c)

Next ==
    \/ \E c \in Call : Step(c)
    \/ InvalidateServerTools \/ \E f \in Fp : Change(f)
    \/ Tick

Spec == Init /\ [][Next]_vars

-----------------------------------------------------------------------------
(* Properties *)

(* The cache holds one list of the server at most, and lists that exist. *)
TypeOK ==
    /\ \A f \in DOMAIN entries : entries[f] \in Entry /\ entries[f].val <= Current(f)
    /\ DOMAIN entries \subseteq Fp /\ Cardinality(DOMAIN entries) <= 1
    /\ calls \in [Call -> CallRec]
    /\ \A c \in Call : /\ calls[c].start <= now
                       /\ calls[c].at \in {"got", "store"} =>
                             calls[c].val \in 1 .. Current(calls[c].fp)
    /\ now \in 0 .. MaxTime
    /\ \A f \in Fp : settled[f] \in 1 .. Current(f)

(* A caller that joins a fetch may start after the list was read, but not
   later than the fetch lasts. *)
Slack == IF Coalesce THEN MaxCall ELSE 0

(* However callers, fetches and invalidations overlap, and if no notification
   ever comes: a list is not served from the cache later than its lifetime
   after the server changed it, or, for callers that join a fetch under way,
   that and the duration of one call. *)
AgeBounded ==
    \A f \in DOMAIN entries :
        entries[f].val < Current(f) =>
            entries[f].until <= ended[f][entries[f].val] + TTL + Slack

(* An invalidation while no caller is on its way with a list lasts: nothing
   older comes back to the cache. *)
InvalidationLasts == \A f \in DOMAIN entries : entries[f].val >= settled[f]
=============================================================================
