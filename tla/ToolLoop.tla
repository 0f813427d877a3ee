------------------------------ MODULE ToolLoop ------------------------------
(***************************************************************************)
(* One turn of a session with tools: runChatToolLoop                       *)
(* (internal/usecase/chat_tool_loop.go).  The prompt is cut to the         *)
(* context, the runner answers or asks for tools, the tools of a round run *)
(* in parallel, the round's messages are stored in one transaction, and    *)
(* the prompt with these messages is cut again for the next round.         *)
(*                                                                         *)
(* The client may leave and the server may be killed at any moment.  A     *)
(* tool that is not waited for any longer goes on in its own goroutine     *)
(* (runFnWithContext) and may still do what it was asked to.               *)
(*                                                                         *)
(* A send to the client's channel succeeds while the turn's context is     *)
(* live; once it is done, select may take either branch.                   *)
(***************************************************************************)
EXTENDS HistoryCap

CONSTANTS
    MaxRounds,   \* maxToolInvocationRounds
    MaxCalls,    \* bound: tools in one round
    ResultRunes  \* lengths of the results of a round's tools

\* A round's messages are numbered from 100 times its number.
ASSUME RoundsAssumption ==
    /\ MaxRounds \in Nat \ {0} /\ MaxCalls \in 1 .. 99
    /\ SummaryRunes \subseteq Nat /\ ResultRunes \subseteq Nat

Msg == [id : Nat, role : {"system", "user", "assistant", "tool"}, runes : Nat, more : Nat,
        vision : BOOLEAN, calls : Nat]

(* What a session brings: the system message and the end of the conversation,
   where a tool's result comes after another or after the message that asks for
   it, unless that is where the conversation is cut. *)
ASSUME PromptsAssumption ==
    \A s \in Prompts :
       /\ s \in Seq(Msg) /\ Len(s) >= 2 /\ s[1].role = "system"
       /\ \A p \in DOMAIN s : s[p].id < 100
       /\ \A p \in 3 .. Len(s) : s[p].role = "tool" => s[p].id = s[p - 1].id + 1

VARIABLES
    at,          \* where the loop is
    round,       \* rounds that are over
    turnCtx,         \* the turn's context: "live" or "done"
    calls,       \* the goroutines of the round's tools
    stop,        \* abortTools was called
    working,     \* tools <<round, index>> at work, awaited or not
    effects,     \* history: tools that have done what they were asked to
    rows,        \* the messages the turn has stored
    told         \* what the client was sent last

loopVars == <<at, round, turnCtx, calls, stop, working, effects, rows, told>>
turnVars == <<capVars, loopVars>>

Key(i) == <<round, i>>
Ended == at \in {"done", "killed"}

\* A send of a ChatStreamChunk, with the id of a message or 0
SendWithId(kind, id) ==
    told' = [kind |-> kind, id |-> id] \/ (turnCtx = "done" /\ UNCHANGED told)
Send(kind) == SendWithId(kind, 0)

\* sendErr, and the loop returns.
Error ==
    /\ Send("error")
    /\ at' = "done"
    /\ UNCHANGED <<round, turnCtx, calls, stop, working, effects, rows>>

LoopInit ==
    /\ CapInit
    /\ at = "cap" /\ round = 0 /\ turnCtx = "live" /\ calls = <<>> /\ stop = FALSE
    /\ working = {} /\ effects = {} /\ rows = <<>>
    /\ told = [kind |-> "nothing", id |-> 0]

-----------------------------------------------------------------------------
(* A round asks the runner *)

\* capLLMHistoryTokens, of SendMessage before the loop and of each round.
CapPrompt ==
    /\ at = "cap"
    /\ CapStep
    /\ UNCHANGED loopVars

NextRound ==
    /\ at = "cap" /\ phase = "capped" /\ round < MaxRounds
    /\ at' = "ask"
    /\ UNCHANGED <<capVars, round, turnCtx, calls, stop, working, effects, rows, told>>

Exhausted ==
    /\ at = "cap" /\ phase = "capped" /\ round = MaxRounds
    /\ Error /\ UNCHANGED capVars

\* The runner fails or says nothing, or asks for a tool the session has not.
AskFails ==
    /\ at = "ask"
    /\ Error /\ UNCHANGED capVars

\* The text is streamed to the client as it comes, tool calls included.
Answers ==
    /\ at = "ask"
    /\ Send("text")
    /\ at' = "answer"
    /\ UNCHANGED <<capVars, round, turnCtx, calls, stop, working, effects, rows>>

AsksForTools(n) ==
    /\ at = "ask"
    /\ Send("text")
    /\ at' = "tools" /\ calls' = [i \in 1 .. n |-> "ready"] /\ stop' = FALSE
    /\ UNCHANGED <<capVars, round, turnCtx, working, effects, rows>>

-----------------------------------------------------------------------------
(* The answer *)

SaveAnswer ==
    /\ at = "answer" /\ turnCtx = "live"
    /\ rows' = Append(rows, [role |-> "assistant", calls |-> 0, of |-> 0, nth |-> 0,
                             ok |-> TRUE])
    /\ at' = "tell"
    /\ UNCHANGED <<capVars, round, turnCtx, calls, stop, working, effects, told>>

AnswerUnsaved ==
    /\ at = "answer"
    /\ Error /\ UNCHANGED capVars

\* streamToolRoundComplete: the last chunk has the id of the answer's message.
TellAnswer ==
    /\ at = "tell"
    /\ SendWithId("text", Len(rows))
    /\ at' = "done"
    /\ UNCHANGED <<capVars, round, turnCtx, calls, stop, working, effects, rows>>

-----------------------------------------------------------------------------
(* The tools of a round *)

Awaited(i) == at = "tools" /\ i \in DOMAIN calls

Goes(i, state) == calls' = [calls EXCEPT ![i] = state]

ToolChecks(i) ==
    /\ Awaited(i) /\ calls[i] = "ready"
    /\ Goes(i, IF stop \/ turnCtx = "done" THEN "failed" ELSE "checked")
    /\ UNCHANGED <<capVars, at, round, turnCtx, stop, working, effects, rows, told>>

\* The client is told, and executeDeclaredTool begins.
ToolStarts(i) ==
    /\ Awaited(i) /\ calls[i] = "checked"
    /\ told' = [kind |-> "status", id |-> 0]
    /\ Goes(i, "running") /\ working' = working \cup {Key(i)}
    /\ UNCHANGED <<capVars, at, round, turnCtx, stop, effects, rows>>

\* The client cannot be told: the other tools of the round are called off.
ToolAborts(i) ==
    /\ Awaited(i) /\ calls[i] = "checked" /\ turnCtx = "done"
    /\ Goes(i, "failed") /\ stop' = TRUE
    /\ UNCHANGED <<capVars, at, round, turnCtx, working, effects, rows, told>>

Effect(k) ==
    /\ k \in working \ effects
    /\ effects' = effects \cup {k}
    /\ UNCHANGED <<capVars, at, round, turnCtx, calls, stop, working, rows, told>>

\* A result that nobody waits for is dropped.
ToolEnds(k, ok) ==
    /\ k \in working /\ (ok => k \in effects)
    /\ working' = working \ {k}
    /\ calls' = IF k[1] = round /\ Awaited(k[2]) /\ calls[k[2]] = "running"
                THEN [calls EXCEPT ![k[2]] = IF ok THEN "ok" ELSE "failed"]
                ELSE calls
    /\ UNCHANGED <<capVars, at, round, turnCtx, stop, effects, rows, told>>

(* Mutant: only the client's leaving ends the wait for a tool. *)
ToolTimeoutNever(i) ==
    /\ Awaited(i) /\ calls[i] = "running" /\ turnCtx = "done"
    /\ Goes(i, "failed")
    /\ UNCHANGED <<capVars, at, round, turnCtx, stop, working, effects, rows, told>>

\* The tool's own time is over, or the round was called off.
ToolTimeout(i) ==
    /\ Awaited(i) /\ calls[i] = "running"
    /\ Goes(i, "failed")
    /\ UNCHANGED <<capVars, at, round, turnCtx, stop, working, effects, rows, told>>

Join ==
    /\ at = "tools" /\ \A i \in DOMAIN calls : calls[i] \in {"ok", "failed"}
    /\ IF \E i \in DOMAIN calls : calls[i] = "failed" THEN Send("notice")
       ELSE UNCHANGED told
    /\ at' = "save"
    /\ UNCHANGED <<capVars, round, turnCtx, calls, stop, working, effects, rows>>

-----------------------------------------------------------------------------
(* The round's messages: one transaction, then the next prompt *)

RoundRows ==
    <<[role |-> "assistant", calls |-> Len(calls), of |-> round, nth |-> 0, ok |-> TRUE]>>
    \o [i \in DOMAIN calls |-> [role |-> "tool", calls |-> 0, of |-> round, nth |-> i,
                                ok |-> calls[i] = "ok"]]

\* The id of a message is its place after the messages of the first prompt.
RoundMessages(runes) ==
    <<[Message(100 * (round + 1), "assistant", 80, 0) EXCEPT !.calls = Len(calls)]>>
    \o [i \in DOMAIN calls |-> Message(100 * (round + 1) + i, "tool", runes, 2)]

(* Mutant: the round's assistant message is not protected from the cut. *)
SaveRoundShortTail(runes) ==
    /\ at = "save" /\ turnCtx = "live"
    /\ rows' = rows \o RoundRows
    /\ Begin(prompt \o RoundMessages(runes), Len(calls), FALSE)
    /\ at' = "cap" /\ round' = round + 1 /\ calls' = <<>>
    /\ UNCHANGED <<turnCtx, stop, working, effects, told>>

(* Mutant: a row at a time, and only what worked. *)
SaveRoundSucceeded(runes) ==
    /\ at = "save" /\ turnCtx = "live"
    /\ rows' = rows \o SelectSeq(RoundRows, LAMBDA row : row.ok)
    /\ Begin(prompt \o RoundMessages(runes), 1 + Len(calls), FALSE)
    /\ at' = "cap" /\ round' = round + 1 /\ calls' = <<>>
    /\ UNCHANGED <<turnCtx, stop, working, effects, told>>

SaveRound(runes) ==
    /\ at = "save" /\ turnCtx = "live"
    /\ rows' = rows \o RoundRows
    /\ Begin(prompt \o RoundMessages(runes), 1 + Len(calls), FALSE)
    /\ at' = "cap" /\ round' = round + 1 /\ calls' = <<>>
    /\ UNCHANGED <<turnCtx, stop, working, effects, told>>

SaveFails ==
    /\ at = "save"
    /\ Error /\ UNCHANGED capVars

-----------------------------------------------------------------------------
Leave ==
    /\ turnCtx = "live" /\ ~Ended
    /\ turnCtx' = "done"
    /\ UNCHANGED <<capVars, at, round, calls, stop, working, effects, rows, told>>

\* What the called servers still do is not looked at any longer.
Kill ==
    /\ ~Ended
    /\ at' = "killed" /\ working' = {}
    /\ UNCHANGED <<capVars, round, turnCtx, calls, stop, effects, rows, told>>

Ask == AskFails \/ Answers \/ \E n \in 1 .. MaxCalls : AsksForTools(n)

Loop ==
    \/ CapPrompt \/ NextRound \/ Exhausted \/ Ask
    \/ SaveAnswer \/ AnswerUnsaved \/ TellAnswer
    \/ Join \/ (\E runes \in ResultRunes : SaveRound(runes)) \/ SaveFails

Goroutine(i) == ToolChecks(i) \/ ToolStarts(i) \/ ToolAborts(i) \/ ToolTimeout(i)

Work(k) == Effect(k) \/ \E ok \in BOOLEAN : ToolEnds(k, ok)

LoopNext ==
    \/ Loop
    \/ \E i \in 1 .. MaxCalls : Goroutine(i)
    \/ \E k \in working : Work(k)
    \/ Leave \/ Kill

LoopSpec == LoopInit /\ [][LoopNext]_turnVars

\* The loop goes on, and so do its goroutines, whose waits have a time limit.
FairLoopSpec ==
    /\ LoopSpec
    /\ WF_turnVars(Loop)
    /\ WF_turnVars(\E i \in 1 .. MaxCalls : Goroutine(i))

-----------------------------------------------------------------------------
(* Properties *)

LoopTypeOK ==
    /\ at \in {"cap", "ask", "answer", "tell", "tools", "save", "done", "killed"}
    /\ phase \in {"cap", "drop", "shrink", "summary", "capped"}
    /\ round \in 0 .. MaxRounds /\ turnCtx \in {"live", "done"} /\ stop \in BOOLEAN
    /\ \A i \in DOMAIN calls : calls[i] \in {"ready", "checked", "running", "ok", "failed"}
    /\ working \cup effects \subseteq (0 .. round) \X (1 .. MaxCalls)
    /\ told.kind \in {"nothing", "text", "status", "notice", "error"}
    /\ told.id \in 0 .. Len(rows)

RowOf(k) == {r \in DOMAIN rows : rows[r].nth = k[2] /\ rows[r].of = k[1]}

(* What a tool has done is on record, whether it was waited for or not: only
   what the tools of the last round did can be missing, when the turn ended
   before that round's transaction.  And a message of the chat that says that a
   tool worked is of a tool that did, before the message was stored; a tool that
   acts after that is recorded as failed. *)
EffectsOnRecord ==
    /\ \A k \in effects : k[1] < round => RowOf(k) # {}
    /\ \A r \in DOMAIN rows : rows[r].role = "tool" /\ rows[r].ok =>
           <<rows[r].of, rows[r].nth>> \in effects

(* The runner of a round always gets the system message, and after it an
   unbroken end of the conversation, with the last round's messages: calls and
   results, of this turn or of an earlier one, are only ever separated right
   after the system message. *)
PromptIsRecent ==
    at \in {"ask", "answer", "tools", "save"} =>
        /\ prompt[1].role = "system"
        /\ \A p \in 2 .. Len(prompt) : prompt[p].role = "tool" =>
              \/ prompt[p].id = prompt[p - 1].id + 1
              \/ p = 2 /\ (round > 0 => prompt[p].id < 100 * round)
        /\ round > 0 => \E p \in DOMAIN prompt :
              /\ prompt[p].id = 100 * round
              /\ Len(prompt) = p + prompt[p].calls

(* A client that stays is told how the turn ended: with the id of the answer's
   message exactly when there is such a message, and with an error otherwise. *)
HeardRightly ==
    at = "done" /\ turnCtx = "live" =>
        IF rows # <<>> /\ rows[Len(rows)].role = "assistant" /\ rows[Len(rows)].calls = 0
        THEN told.id = Len(rows)
        ELSE told.kind = "error"

(* The turn ends, however long its tools take, unless it shortens its prompt
   for ever; and a client that is still there has heard the truth about it. *)
ClientHearsEnd ==
    /\ <>Ended \/ <>[](at = "cap" /\ phase = "shrink")
    /\ []HeardRightly
=============================================================================
