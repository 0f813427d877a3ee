----------------------------- MODULE ChatTurns -----------------------------
(***************************************************************************)
(* The rows of one chat session under concurrent calls of SendMessage,     *)
(* RegenerateAssistantResponse, ContinueAssistantResponse and              *)
(* EditUserMessageAndContinue (internal/usecase/chat_usecase_send_message  *)
(* .go, chat_usecase_assistant_ops.go), one action per statement of the    *)
(* database, for sessions without tools.                                   *)
(*                                                                         *)
(* No lock holds a session: a call reads rows, decides, and writes later.  *)
(* The client is told that an answer is over before the answer's row is    *)
(* written, so that even one client that waits for each answer makes calls *)
(* that overlap.  A runner may refuse, the client may leave, any statement *)
(* may fail, and the server may be killed between any two of them.         *)
(***************************************************************************)
EXTENDS Naturals, Sequences, FiniteSets

CONSTANTS
    Call,        \* calls on the session at a time
    MaxOps       \* bound: calls ever made

ASSUME MaxOpsAssumption == MaxOps \in Nat

VARIABLES
    rows,        \* messages: the session's rows; an id is a position
    edits,       \* message_edits: edits of user rows, answers regenerated
    calls,       \* the calls in progress
    clock,       \* what time.Now() is next
    ops,         \* calls made; the number of a call is also the text it brings
    past,        \* history: past[i], every text that row i has held
    tails,       \* history: tails[k], the rows after its message that were
                 \* there before the edit edits[k]
    shared,      \* history: answers that two calls held at a time
    spoilt       \* history: answers reset by a Regenerate that recorded nothing

vars == <<rows, edits, calls, clock, ops, past, tails, shared, spoilt>>
history == <<past, tails, shared, spoilt>>

Idle == [op |-> "none", at |-> "idle", n |-> 0, row |-> 0, old |-> <<>>,
         max |-> 0, stamp |-> 0, prompt |-> {}]

Texts(content) == {content[k] : k \in DOMAIN content}

\* Rows that are not deleted, and of these all but empty drafts of answers.
Visible == {i \in DOMAIN rows : ~rows[i].gone}
Spoken == {i \in Visible : rows[i].role = "user" \/ rows[i].content # <<>>}

\* MaxMessageIDInSession gives i.
IsMaxMessageID(i) ==
    \/ i \in Visible /\ \A j \in Visible : j <= i
    \/ Visible = {} /\ i = 0

Init ==
    /\ rows = <<>> /\ edits = <<>> /\ calls = [c \in Call |-> Idle]
    /\ clock = 1 /\ ops = 0
    /\ past = <<>> /\ tails = <<>> /\ shared = {} /\ spoilt = {}

Begin(c, state) ==
    /\ calls[c] = Idle /\ ops < MaxOps
    /\ ops' = ops + 1
    /\ calls' = [calls EXCEPT ![c] = [state EXCEPT !.n = ops + 1]]

Go(c, at) == calls' = [calls EXCEPT ![c].at = at]
Done(c) == calls' = [calls EXCEPT ![c] = Idle]

-----------------------------------------------------------------------------
(* messageRepository *)

Create(role, content) ==
    /\ rows' = Append(rows, [role |-> role, content |-> content, gone |-> FALSE,
                             at |-> clock])
    /\ past' = Append(past, Texts(content))
    /\ clock' = clock + 1

(* Mutant: the update is not scoped to rows that are not deleted. *)
UpdateContentUnscoped(i, content) ==
    /\ rows' = [rows EXCEPT ![i].content = content]
    /\ past' = [past EXCEPT ![i] = past[i] \cup Texts(content)]

\* A deleted row is not matched, and that is no error.
UpdateContent(i, content) ==
    IF rows[i].gone
    THEN UNCHANGED <<rows, past>>
    ELSE /\ rows' = [rows EXCEPT ![i].content = content]
         /\ past' = [past EXCEPT ![i] = past[i] \cup Texts(content)]

-----------------------------------------------------------------------------
(* SendMessage *)

SendRead(c) ==
    /\ Begin(c, [Idle EXCEPT !.op = "send", !.at = "user", !.prompt = Spoken])
    /\ UNCHANGED <<rows, edits, clock, past, tails, shared, spoilt>>

SendUser(c) ==
    /\ calls[c].at = "user"
    /\ Create("user", <<calls[c].n>>)
    /\ calls' = [calls EXCEPT ![c].at = "draft",
                              ![c].prompt = calls[c].prompt \cup {Len(rows) + 1}]
    /\ UNCHANGED <<edits, ops, tails, shared, spoilt>>

\* The draft of the answer, of SendMessage and of EditUserMessageAndContinue.
Draft(c) ==
    /\ calls[c].at = "draft"
    /\ Create("assistant", <<>>)
    /\ calls' = [calls EXCEPT ![c].at = "stream", ![c].row = Len(rows) + 1]
    /\ UNCHANGED <<edits, ops, tails, shared, spoilt>>

-----------------------------------------------------------------------------
(* RegenerateAssistantResponse and ContinueAssistantResponse *)

AnswerRead(c, op, i) ==
    /\ i \in Visible /\ rows[i].role = "assistant"
    /\ op = "continue" => rows[i].content # <<>>
    /\ Begin(c, [Idle EXCEPT !.op = op, !.at = "last", !.row = i,
                             !.old = rows[i].content])
    /\ shared' = IF \E d \in Call : calls[d].row = i THEN shared \cup {i} ELSE shared
    /\ UNCHANGED <<rows, edits, clock, past, tails, spoilt>>

CheckLast(c) ==
    /\ calls[c].at = "last"
    /\ IF IsMaxMessageID(calls[c].row) THEN Go(c, "before") ELSE Done(c)
    /\ UNCHANGED <<rows, edits, clock, ops, history>>

(* Mutant: the answer is among the rows before it. *)
ListBeforeAndTarget(c) ==
    /\ calls[c].at = "before"
    /\ calls' = [calls EXCEPT ![c].prompt = {i \in Spoken : i <= calls[c].row},
                              ![c].at = IF calls[c].op = "continue" THEN "stream"
                                        ELSE "reset"]
    /\ UNCHANGED <<rows, edits, clock, ops, history>>

\* To continue, the runner is also given the answer as it was read.
ListBefore(c) ==
    LET prefix == {i \in Spoken : i < calls[c].row}
    IN  /\ calls[c].at = "before"
        /\ calls' = IF calls[c].op = "continue"
                    THEN [calls EXCEPT ![c].at = "stream",
                                       ![c].prompt = prefix \cup {calls[c].row}]
                    ELSE [calls EXCEPT ![c].at = "reset", ![c].prompt = prefix]
        /\ UNCHANGED <<rows, edits, clock, ops, history>>

ResetAssistantForRegenerate(c) ==
    /\ calls[c].at = "reset"
    /\ IF rows[calls[c].row].gone
       THEN Done(c) /\ UNCHANGED rows
       ELSE Go(c, "stream") /\ rows' = [rows EXCEPT ![calls[c].row].content = <<>>]
    /\ UNCHANGED <<edits, clock, ops, history>>

-----------------------------------------------------------------------------
(* EditUserMessageAndContinue *)

EditRead(c, i) ==
    /\ i \in Visible /\ rows[i].role = "user"
    /\ Begin(c, [Idle EXCEPT !.op = "edit", !.at = "max", !.row = i,
                             !.old = rows[i].content])
    /\ UNCHANGED <<rows, edits, clock, past, tails, shared, spoilt>>

\* The edit's CreatedAt is taken here.
EditMax(c, i) ==
    /\ calls[c].at = "max" /\ IsMaxMessageID(i)
    /\ calls' = [calls EXCEPT ![c].at = "tx", ![c].max = i, ![c].stamp = clock]
    /\ clock' = clock + 1
    /\ UNCHANGED <<rows, edits, ops, history>>

(* Mutants: all rows after the message, or none. *)
CutAllAfter(from, to) == {i \in Visible : i > from}
CutToItself(from, to) == {i \in Visible : i > from /\ i <= from}

\* SoftDeleteRangeAfterID
Cut(from, to) == {i \in Visible : i > from /\ i <= to}

\* One transaction: the text, the record, and the rows that are cut.
EditTx(c) ==
    LET call == calls[c]
        cut == Cut(call.row, call.max)
        text == <<call.n>>
    IN  /\ call.at = "tx"
        /\ rows' = [i \in DOMAIN rows |->
                      [rows[i] EXCEPT !.content = IF i = call.row /\ ~rows[i].gone
                                                  THEN text ELSE rows[i].content,
                                      !.gone = rows[i].gone \/ i \in cut]]
        /\ past' = IF rows[call.row].gone THEN past
                   ELSE [past EXCEPT ![call.row] = past[call.row] \cup {call.n}]
        /\ edits' = Append(edits, [kind |-> "user_edit", msg |-> call.row,
                                   old |-> call.old, new |-> text, from |-> call.row,
                                   to |-> call.max, at |-> call.stamp])
        /\ tails' = Append(tails, {i \in Visible : i > call.row})
        /\ Go(c, "upto")
        /\ UNCHANGED <<clock, ops, shared, spoilt>>

\* ListMessagesUpToID
EditList(c) ==
    /\ calls[c].at = "upto"
    /\ calls' = [calls EXCEPT ![c].at = "draft",
                              ![c].prompt = {i \in Spoken : i <= calls[c].row}]
    /\ UNCHANGED <<rows, edits, clock, ops, history>>

-----------------------------------------------------------------------------
(* The deferred calls when the runner's answer has ended, the client has left
   or the stream has broken: text is what had come, and may be empty. *)

Spoil(set) == spoilt' = spoilt \cup {calls[d].row : d \in set}
Regenerates(c) == calls[c].op = "regenerate" /\ calls[c].at \in {"stream", "record"}

Ended(c, text) ==
    /\ IF calls[c].op = "regenerate" /\ calls[c].old # <<>> /\ text # <<>>
       THEN Go(c, "record") /\ UNCHANGED spoilt
       ELSE Done(c) /\ Spoil({d \in {c} : Regenerates(d)})
    /\ UNCHANGED <<edits, clock, ops, tails, shared>>

(* Mutant: the part that was there is not written back. *)
FinishNewPart(c, text) ==
    /\ calls[c].at = "stream"
    /\ UpdateContent(calls[c].row, text)
    /\ Ended(c, text)

Finish(c, text) ==
    /\ calls[c].at = "stream"
    /\ UpdateContent(calls[c].row,
                     IF calls[c].op = "continue" THEN calls[c].old \o text ELSE text)
    /\ Ended(c, text)

\* The error of UpdateContent is dropped.
FinishUnsaved(c, text) ==
    /\ calls[c].at = "stream"
    /\ Ended(c, text)
    /\ UNCHANGED <<rows, past>>

\* assistantRegenRepo.Create
Record(c) ==
    /\ calls[c].at = "record"
    /\ edits' = Append(edits, [kind |-> "assistant_regen", msg |-> calls[c].row,
                               old |-> calls[c].old, new |-> <<calls[c].n>>,
                               from |-> 0, to |-> 0, at |-> clock])
    /\ tails' = Append(tails, {})
    /\ clock' = clock + 1
    /\ Done(c)
    /\ UNCHANGED <<rows, ops, past, shared, spoilt>>

-----------------------------------------------------------------------------
\* A statement fails, or the runner gives no stream: the call returns, and what
\* it has written stays.
Fail(c) ==
    /\ calls[c].at # "idle"
    /\ Done(c)
    /\ Spoil({d \in {c} : Regenerates(d)})
    /\ UNCHANGED <<rows, edits, clock, ops, past, tails, shared>>

\* The server is killed.
Crash ==
    /\ \E c \in Call : calls[c] # Idle
    /\ calls' = [c \in Call |-> Idle]
    /\ Spoil({c \in Call : Regenerates(c)})
    /\ UNCHANGED <<rows, edits, clock, ops, past, tails, shared>>

Answers(c) ==
    \/ \E text \in {<<>>, <<calls[c].n>>} : Finish(c, text) \/ FinishUnsaved(c, text)
    \/ Record(c)

Step(c) ==
    \/ SendRead(c) \/ SendUser(c) \/ Draft(c)
    \/ \E op \in {"regenerate", "continue"}, i \in DOMAIN rows : AnswerRead(c, op, i)
    \/ CheckLast(c) \/ ListBefore(c) \/ ResetAssistantForRegenerate(c)
    \/ \E i \in DOMAIN rows : EditRead(c, i)
    \/ \E i \in 0 .. Len(rows) : EditMax(c, i)
    \/ EditTx(c) \/ EditList(c)
    \/ Answers(c) \/ Fail(c)

Next == Crash \/ \E c \in Call : Step(c)

Spec == Init /\ [][Next]_vars

-----------------------------------------------------------------------------
(* GetSessionMessagesForUserMessageVersion: what version k of user row m shows
   after it, by the times of creation, deleted rows included. *)

EditsOf(m) == {k \in DOMAIN edits : edits[k].kind = "user_edit" /\ edits[k].msg = m}

\* ORDER BY created_at, id; k-th of them, from 1.
Nth(m, k) == CHOOSE e \in EditsOf(m) :
                Cardinality({d \in EditsOf(m) : edits[d].at <= edits[e].at}) = k

(* Mutant: the window of a version begins where it should end. *)
VersionTailNext(m, k) ==
    {i \in DOMAIN rows :
        /\ i > m
        /\ k < Cardinality(EditsOf(m)) => edits[Nth(m, k + 1)].at <= rows[i].at}

VersionTail(m, k) ==
    {i \in DOMAIN rows :
        /\ i > m
        /\ IF k = 0 THEN rows[m].at <= rows[i].at ELSE edits[Nth(m, k)].at <= rows[i].at
        /\ k < Cardinality(EditsOf(m)) => rows[i].at < edits[Nth(m, k + 1)].at}

-----------------------------------------------------------------------------
(* Properties *)

Content(s) == DOMAIN s \subseteq 1 .. MaxOps /\ Texts(s) \subseteq 1 .. MaxOps

(* The state is what the code and the tables can hold: a call that streams has
   a row of its answer, and asked about rows that exist. *)
TypeOK ==
    /\ \A i \in DOMAIN rows :
          /\ rows[i].role \in {"user", "assistant"} /\ rows[i].gone \in BOOLEAN
          /\ Content(rows[i].content) /\ rows[i].at \in 1 .. (clock - 1)
    /\ Len(past) = Len(rows) /\ Len(tails) = Len(edits)
    /\ \A k \in DOMAIN edits :
          /\ edits[k].msg \in DOMAIN rows /\ edits[k].at \in 1 .. (clock - 1)
          /\ Content(edits[k].old) /\ Content(edits[k].new) /\ edits[k].to <= Len(rows)
    /\ \A c \in Call :
          /\ calls[c].at \in {"idle", "user", "draft", "last", "before", "reset", "max",
                             "tx", "upto", "stream", "record"}
          /\ calls[c].n \in 0 .. ops /\ Content(calls[c].old)
          /\ calls[c].row \in DOMAIN rows \/ calls[c].at \in {"idle", "user", "draft"}
          /\ calls[c].prompt \subseteq DOMAIN rows /\ calls[c].max <= Len(rows)
    /\ ops \in 0 .. MaxOps /\ shared \cup spoilt \subseteq DOMAIN rows

(* However calls overlap and wherever they are cut off, a text that a row has
   held is still there, or in a record of the row's edits.  It is lost in two
   cases only, and only from an answer: two calls held the answer at a time, or
   a Regenerate reset it and then ended without a record. *)
NothingLost ==
    \A i \in DOMAIN rows : \A t \in past[i] :
        \/ t \in Texts(rows[i].content)
        \/ \E k \in DOMAIN edits : /\ edits[k].msg = i
                                   /\ t \in Texts(edits[k].old) \cup Texts(edits[k].new)
        \/ rows[i].role = "assistant" /\ i \in shared \cup spoilt
        \/ \E c \in Call : /\ Regenerates(c) /\ calls[c].row = i
                           /\ t \in Texts(calls[c].old)

(* Rows are deleted by edits only, and the records of the edits say which. *)
DeletedIsRecorded ==
    \A i \in DOMAIN rows :
        rows[i].gone <=> \E k \in DOMAIN edits : edits[k].from < i /\ i <= edits[k].to

(* One call at a time: an answer comes right after a user's message, whatever
   fails and whenever the server is killed. *)
Alternates ==
    \A i \in Visible :
        rows[i].role = "assistant" =>
            \E j \in Visible : /\ j < i /\ rows[j].role = "user"
                               /\ \A k \in Visible : k < i => k <= j

(* One call at a time: the runner is asked about the chat as it is shown, all
   visible rows, without drafts and without the answer to replace. *)
PromptIsChat ==
    \A c \in Call : calls[c].at = "stream" => calls[c].prompt = Spoken

(* One call at a time: a version of a user's message shows all the rows that
   followed it at that time; what it shows beyond these was cut by edits of
   later messages. *)
VersionsShowBranches ==
    \A m \in Visible : EditsOf(m) # {} =>
        \A k \in 0 .. Cardinality(EditsOf(m)) :
            LET tail == IF k = Cardinality(EditsOf(m)) THEN {i \in Visible : i > m}
                        ELSE tails[Nth(m, k + 1)]
            IN  /\ tail \subseteq VersionTail(m, k)
                /\ \A i \in VersionTail(m, k) \ tail : \E e \in DOMAIN edits :
                      edits[e].msg > m /\ edits[e].from < i /\ i <= edits[e].to

(* A deleted row never changes again: a turn whose draft was cut while it
   streamed saves nothing. *)
DeletedFrozen == [][\A i \in DOMAIN rows : rows[i].gone => rows'[i] = rows[i]]_vars
=============================================================================
