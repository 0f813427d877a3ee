--------------------------- MODULE RunnerRegistry ---------------------------
(***************************************************************************)
(* The runners an administrator configures: the table "runners", the       *)
(* registry each server process keeps of it (internal/service/registry.go) *)
(* and the open clients of its pool, under concurrent calls of             *)
(* CreateRunner, UpdateRunner and DeleteRunner                             *)
(* (internal/delivery/handler/runner_handler.go), step by step, and of     *)
(* requests that take an address and then open a client for it.            *)
(*                                                                         *)
(* A call writes the table, closes the clients it makes obsolete, reads    *)
(* the table again and replaces the registry of its own server.            *)
(***************************************************************************)
EXTENDS Naturals, FiniteSets

CONSTANTS
    Server,      \* server processes on one database
    AdminCall,       \* administrator calls at a time
    Caller,      \* requests that use a runner
    HostPort,        \* host:port
    MaxIds,      \* bound: rows ever inserted
    MaxOps       \* bound: administrator calls and restarts

ASSUME BoundsAssumption == MaxIds \in Nat /\ MaxOps \in Nat

VARIABLES
    table,       \* the rows: a function from some ids to rows
    nextId,      \* the table's SERIAL
    registry,    \* registry[s]: the rows server s works with
    clients,     \* clients[s]: addresses its pool has a client for
    call,         \* the administrator calls
    caller,      \* the requests
    ops,         \* bound: administrator calls and restarts begun
    ver,         \* history: number of writes to the table
    deletedAt,   \* history: ver when an id was last deleted, 0 if never
    excused,     \* history: calls overlapped, or a List failed, since the last
                 \* call that ran alone and succeeded
    crowded      \* history: an administrator call overlapped something, or
                 \* its List failed

registryVars == <<table, nextId, registry, clients, call, caller, ops, ver, deletedAt,
          excused, crowded>>

Row == [addr : HostPort, on : BOOLEAN]
Ids == 1 .. MaxIds
Tables == UNION {[S -> Row] : S \in SUBSET Ids}

Empty == [i \in {} |-> 0]
Addrs(t) == {t[i].addr : i \in DOMAIN t}
EnabledAddrs(t) == {t[i].addr : i \in {j \in DOMAIN t : t[j].on}}

\* The rows with one written, or without one.
Put(t, id, row) == [i \in DOMAIN t \cup {id} |-> IF i = id THEN row ELSE t[i]]
Without(t, id) == [i \in DOMAIN t \ {id} |-> t[i]]

Idle == [at |-> "idle"]
AllIdle == \A u \in AdminCall : call[u].at = "idle"

\* UNIQUE (host, port): the address is free for this id.
Free(id, a) == \A i \in DOMAIN table \ {id} : table[i].addr # a

(* NewRegistry reads the table when a server starts. *)
RegistryInit ==
    /\ table = Empty /\ nextId = 1
    /\ registry = [s \in Server |-> Empty]
    /\ clients = [s \in Server |-> {}]
    /\ call = [u \in AdminCall |-> Idle]
    /\ caller = [c \in Caller |-> Idle]
    /\ ops = 0 /\ ver = 0 /\ deletedAt = [i \in Ids |-> 0]
    /\ excused = FALSE /\ crowded = FALSE

-----------------------------------------------------------------------------
(* What every call does when it begins: history only. *)
Begin(u, state) ==
    /\ call[u].at = "idle" /\ ops < MaxOps
    /\ ops' = ops + 1
    /\ excused' = (excused \/ ~AllIdle)
    /\ crowded' = (crowded \/ ~AllIdle \/ \E c \in Caller : caller[c].at # "idle")
    /\ call' = [w \in AdminCall |->
                 IF w = u THEN state
                 ELSE IF call[w].at = "idle" THEN Idle
                 ELSE [call[w] EXCEPT !.alone = FALSE]]

Fail(u) == call' = [call EXCEPT ![u] = Idle]
Go(u, at) == call' = [call EXCEPT ![u].at = at]

Write(t) == table' = t /\ ver' = ver + 1

-----------------------------------------------------------------------------
(* CreateRunner *)

CreateRow(u, s, a, on) ==
    /\ nextId <= MaxIds /\ Free(0, a)
    /\ Write(Put(table, nextId, [addr |-> a, on |-> on]))
    /\ nextId' = nextId + 1
    /\ Begin(u, [at |-> "list", server |-> s, alone |-> AllIdle])
    /\ UNCHANGED <<registry, clients, caller, deletedAt>>

-----------------------------------------------------------------------------
(* UpdateRunner *)

\* runnerRepo.GetByID: what the call knows of the row as it was.
UpdateRead(u, s, id, row) ==
    /\ id \in DOMAIN table
    /\ Begin(u, [at |-> "find", server |-> s, alone |-> AllIdle, id |-> id,
                 old |-> table[id], new |-> row, found |-> 0])
    /\ UNCHANGED <<table, nextId, registry, clients, caller, ver, deletedAt>>

(* Mutant: the row is updated without looking whether it is there. *)
FindRowUnchecked(u) ==
    /\ call[u].at = "find"
    /\ call' = [call EXCEPT ![u].at = "save", ![u].found = ver]
    /\ UNCHANGED <<table, nextId, registry, clients, caller, ops, ver, deletedAt,
                   excused, crowded>>

\* runnerRepo.Update: First, or ErrNotFound.
FindRow(u) ==
    /\ call[u].at = "find"
    /\ IF call[u].id \in DOMAIN table
       THEN call' = [call EXCEPT ![u].at = "save", ![u].found = ver]
       ELSE Fail(u)
    /\ UNCHANGED <<table, nextId, registry, clients, caller, ops, ver, deletedAt,
                   excused, crowded>>

(* runnerRepo.Update: Save.  The ORM inserts the row again when the update
   matches none; a conflict of addresses is an error. *)
SaveRow(u) ==
    /\ call[u].at = "save"
    /\ IF Free(call[u].id, call[u].new.addr)
       THEN Write(Put(table, call[u].id, call[u].new)) /\ Go(u, "close")
       ELSE Fail(u) /\ UNCHANGED <<table, ver>>
    /\ UNCHANGED <<nextId, registry, clients, caller, ops, deletedAt, excused, crowded>>

(* Mutant: only a runner that is disabled is forgotten. *)
CloseOldIfDisabled(u) ==
    LET old == call[u].old
        new == call[u].new
    IN  /\ call[u].at = "close"
        /\ clients' = IF old.on /\ ~new.on
                      THEN [clients EXCEPT ![call[u].server] = @ \ {old.addr}]
                      ELSE clients
        /\ Go(u, "list")
        /\ UNCHANGED <<table, nextId, registry, caller, ops, ver, deletedAt, excused,
                       crowded>>

\* The client of an address that was given up, or whose runner was disabled.
CloseOld(u) ==
    LET old == call[u].old
        new == call[u].new
    IN  /\ call[u].at = "close"
        /\ clients' = IF old.addr # new.addr \/ (old.on /\ ~new.on)
                      THEN [clients EXCEPT ![call[u].server] = @ \ {old.addr}]
                      ELSE clients
        /\ Go(u, "list")
        /\ UNCHANGED <<table, nextId, registry, caller, ops, ver, deletedAt, excused,
                       crowded>>

-----------------------------------------------------------------------------
(* DeleteRunner: the client first, then the row *)

DeleteRead(u, s, id) ==
    /\ id \in DOMAIN table
    /\ Begin(u, [at |-> "drop", server |-> s, alone |-> AllIdle, id |-> id,
                 old |-> table[id]])
    /\ UNCHANGED <<table, nextId, registry, clients, caller, ver, deletedAt>>

CloseDeleted(u) ==
    /\ call[u].at = "drop"
    /\ clients' = [clients EXCEPT ![call[u].server] = @ \ {call[u].old.addr}]
    /\ Go(u, "delete")
    /\ UNCHANGED <<table, nextId, registry, caller, ops, ver, deletedAt, excused, crowded>>

\* Nothing deleted is an error, and the registry is left as it is.
DeleteRow(u) ==
    LET id == call[u].id
    IN  /\ call[u].at = "delete"
        /\ IF id \in DOMAIN table
           THEN /\ Write(Without(table, id))
                /\ deletedAt' = [deletedAt EXCEPT ![id] = ver + 1]
                /\ Go(u, "list")
           ELSE Fail(u) /\ UNCHANGED <<table, ver, deletedAt>>
        /\ UNCHANGED <<nextId, registry, clients, caller, ops, excused, crowded>>

-----------------------------------------------------------------------------
(* syncRegistry *)

ListRows(u) ==
    /\ call[u].at = "list"
    /\ call' = [call EXCEPT ![u] = [at |-> "replace", server |-> @.server,
                                  alone |-> @.alone, list |-> table]]
    /\ UNCHANGED <<table, nextId, registry, clients, caller, ops, ver, deletedAt,
                   excused, crowded>>

\* The write is not undone.
ListFails(u) ==
    /\ call[u].at = "list"
    /\ Fail(u)
    /\ excused' = TRUE /\ crowded' = TRUE
    /\ UNCHANGED <<table, nextId, registry, clients, caller, ops, ver, deletedAt>>

(* Mutant: rows are registered one by one, and none is taken out. *)
ReplaceMerges(u) ==
    /\ call[u].at = "replace"
    /\ registry' = [registry EXCEPT ![call[u].server] =
                       [i \in DOMAIN call[u].list \cup DOMAIN @ |->
                          IF i \in DOMAIN call[u].list THEN call[u].list[i] ELSE @[i]]]
    /\ excused' = (excused /\ ~call[u].alone)
    /\ Fail(u)
    /\ UNCHANGED <<table, nextId, clients, caller, ops, ver, deletedAt, crowded>>

Replace(u) ==
    /\ call[u].at = "replace"
    /\ registry' = [registry EXCEPT ![call[u].server] = call[u].list]
    /\ excused' = (excused /\ ~call[u].alone)
    /\ Fail(u)
    /\ UNCHANGED <<table, nextId, clients, caller, ops, ver, deletedAt, crowded>>

-----------------------------------------------------------------------------
(* A request takes an address: pickRunner from GetEnabledAddresses, an
   administrator's call from the registry's GetByID, a chat turn from the
   table, where its runner must be enabled. *)
CallerRead(c, s, a) ==
    /\ caller[c].at = "idle"
    /\ a \in Addrs(registry[s]) \cup EnabledAddrs(table)
    /\ caller' = [caller EXCEPT ![c] = [at |-> "use", server |-> s, addr |-> a]]
    /\ crowded' = (crowded \/ ~AllIdle)
    /\ UNCHANGED <<table, nextId, registry, clients, call, ops, ver, deletedAt, excused>>

\* Pool.getClient
CallerUse(c) ==
    /\ caller[c].at = "use"
    /\ clients' = [clients EXCEPT ![caller[c].server] = @ \cup {caller[c].addr}]
    /\ caller' = [caller EXCEPT ![c] = Idle]
    /\ UNCHANGED <<table, nextId, registry, call, ops, ver, deletedAt, excused, crowded>>

-----------------------------------------------------------------------------
(* The server stops, or is killed, and starts again: its calls and clients are
   gone, and NewRegistry reads the table. *)
Restart(s) ==
    /\ ops < MaxOps /\ ops' = ops + 1
    /\ registry' = [registry EXCEPT ![s] = table]
    /\ clients' = [clients EXCEPT ![s] = {}]
    /\ call' = [u \in AdminCall |-> IF call[u].at # "idle" /\ call[u].server = s
                               THEN Idle ELSE call[u]]
    /\ caller' = [c \in Caller |-> IF caller[c].at # "idle" /\ caller[c].server = s
                                   THEN Idle ELSE caller[c]]
    /\ excused' = (Server # {s} /\ (excused \/ call' # call))
    /\ crowded' = (Server # {s} /\ (crowded \/ call' # call))
    /\ UNCHANGED <<table, nextId, ver, deletedAt>>

Configure(u) ==
    \/ \E s \in Server, a \in HostPort, on \in BOOLEAN : CreateRow(u, s, a, on)
    \/ \E s \in Server, id \in Ids, row \in Row : UpdateRead(u, s, id, row)
    \/ \E s \in Server, id \in Ids : DeleteRead(u, s, id)
    \/ FindRow(u) \/ SaveRow(u) \/ CloseOld(u)
    \/ CloseDeleted(u) \/ DeleteRow(u)
    \/ ListRows(u) \/ ListFails(u) \/ Replace(u)

Call(c) ==
    \/ \E s \in Server, a \in HostPort : CallerRead(c, s, a)
    \/ CallerUse(c)

RegistryNext ==
    \/ \E u \in AdminCall : Configure(u)
    \/ \E c \in Caller : Call(c)
    \/ \E s \in Server : Restart(s)

RegistrySpec == RegistryInit /\ [][RegistryNext]_registryVars

-----------------------------------------------------------------------------
(* Properties *)

(* The state is what the code and the table can hold; the table keeps its
   addresses unique, also when an update comes back for a deleted row. *)
RegistryTypeOK ==
    /\ table \in Tables /\ nextId \in 1 .. (MaxIds + 1)
    /\ \A i, j \in DOMAIN table : table[i].addr = table[j].addr => i = j
    /\ registry \in [Server -> Tables] /\ clients \in [Server -> SUBSET HostPort]
    /\ \A u \in AdminCall :
          /\ call[u].at \in {"idle", "find", "save", "close", "drop", "delete", "list",
                           "replace"}
          /\ call[u].at # "idle" => call[u].server \in Server /\ call[u].alone \in BOOLEAN
          /\ call[u].at \in {"find", "save", "close", "drop", "delete"} =>
                call[u].id \in Ids /\ call[u].old \in Row
          /\ call[u].at \in {"find", "save", "close"} =>
                call[u].new \in Row /\ call[u].found \in 0 .. ver
          /\ call[u].at = "replace" => call[u].list \in Tables
    /\ \A c \in Caller :
          caller[c] \in {Idle} \cup [at : {"use"}, server : Server, addr : HostPort]
    /\ ver \in Nat /\ deletedAt \in [Ids -> Nat]

(* When no call is in progress, and calls have not overlapped and no List has
   failed since a call last ran alone, every server's registry is the table:
   true of one server process, not of two. *)
EveryServerFresh ==
    AllIdle /\ ~excused => \A s \in Server : registry[s] = table

(* As long as administrator calls overlap nothing and their List succeeds, the
   pool has clients only for addresses the registry lists. *)
NoClientLeft ==
    AllIdle /\ ~crowded => \A s \in Server : clients[s] \subseteq Addrs(registry[s])

(* A deleted runner comes back only through an update that had found its row
   before the deletion. *)
BackOnlyByOlderUpdate ==
    [][\A i \in DOMAIN table' \ DOMAIN table :
          deletedAt[i] > 0 =>
             \E u \in AdminCall : /\ call[u].at = "save" /\ call[u].id = i
                              /\ call[u].found < deletedAt[i]]_registryVars
=============================================================================
