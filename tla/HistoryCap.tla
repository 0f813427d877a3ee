----------------------------- MODULE HistoryCap -----------------------------
(***************************************************************************)
(* How a prompt is cut to the runners' context: capLLMHistoryTokens with   *)
(* the loops of trimLLMMessagesByApproxTokensWithDropped and               *)
(* shrinkMessagesToApproxTokenBudget (internal/usecase/llm_history_tokens  *)
(* .go, chat_usecase_history_tokens.go), one action per pass of a loop.    *)
(*                                                                         *)
(* The oldest messages after the system message go first, until the        *)
(* estimate fits or only the protected end of the prompt is left; a runner *)
(* may be asked to sum up what went, and the sum is put into the system    *)
(* message, after which the prompt is cut once more.  A prompt with        *)
(* nothing between the two is shortened inside its messages instead.       *)
(***************************************************************************)
EXTENDS Integers, Sequences, FiniteSets, SequencesExt

CONSTANTS
    MaxTok,      \* the context of the runners, in estimated tokens
    Prompts,     \* the prompts of the turns, as sequences of messages
    SummaryRunes \* how long a summary can be

ASSUME MaxTokAssumption == MaxTok \in Nat \ {0}

VARIABLES
    prompt,      \* the messages for the runner
    keep,        \* tailPreserve: how many at the end are not to be touched
    mayAsk,      \* allowSummarize, and the runners' hint to sum up
    phase,       \* where capLLMHistoryTokens is
    again,       \* the summary is in, and the second cut goes on
    total,       \* the running estimate of the dropping loop
    dropped      \* the messages the first cut has dropped

capVars == <<prompt, keep, mayAsk, phase, again, total, dropped>>

\* runes: of the content; more: the estimate of names, calls and attachments.
Message(id, role, runes, more) ==
    [id |-> id, role |-> role, runes |-> runes, more |-> more, vision |-> FALSE,
     calls |-> 0]

\* approximateLLMMessageTokens, with perMessageOverhead
TokensOf(m) == m.runes \div 4 + 6 + m.more
SumTokens(s) == FoldLeft(LAMBDA sum, m : sum + TokensOf(m), 0, s)

System == prompt[1]
Middle == SubSeq(prompt, 2, Len(prompt) - keep)

Begin(p, n, ask) ==
    /\ prompt' = p /\ keep' = n /\ mayAsk' = ask
    /\ phase' = "cap" /\ again' = FALSE /\ total' = 0 /\ dropped' = <<>>

-----------------------------------------------------------------------------
(* trimLLMMessagesByApproxTokensWithDropped *)

\* A prompt that fits is left as it is.
Measure ==
    /\ phase = "cap"
    /\ total' = SumTokens(prompt)
    /\ phase' = IF total' <= MaxTok THEN "capped"
                ELSE IF Len(prompt) <= 1 + keep THEN "shrink" ELSE "drop"
    /\ UNCHANGED <<prompt, keep, mayAsk, again, dropped>>

\* The answer to a question about an image goes with the question.
PairedAnswer(first, rest) ==
    /\ rest # <<>> /\ first.role = "user" /\ first.vision
    /\ rest[1].role = "assistant" /\ rest[1].calls = 0

Drop(n) ==
    LET gone == SubSeq(Middle, 1, n)
    IN  /\ prompt' = <<System>> \o SubSeq(prompt, n + 2, Len(prompt))
        /\ dropped' = IF again THEN dropped ELSE dropped \o gone
        /\ total' = total - SumTokens(gone)

(* Mutant: an answer stays without the image it is about. *)
DropOldestAlone ==
    /\ phase = "drop" /\ total > MaxTok /\ Middle # <<>>
    /\ Drop(1)
    /\ UNCHANGED <<keep, mayAsk, phase, again>>

DropOldest ==
    /\ phase = "drop" /\ total > MaxTok /\ Middle # <<>>
    /\ Drop(IF PairedAnswer(Middle[1], Tail(Middle)) THEN 2 ELSE 1)
    /\ UNCHANGED <<keep, mayAsk, phase, again>>

DropEnds ==
    /\ phase = "drop" /\ (total <= MaxTok \/ Middle = <<>>)
    /\ phase' = IF mayAsk /\ ~again THEN "summary" ELSE "capped"
    /\ UNCHANGED <<prompt, keep, mayAsk, again, total, dropped>>

-----------------------------------------------------------------------------
(* shrinkMessagesToApproxTokenBudget *)

\* llmContextTruncationNotice, put after what is left of a message.
NoticeRunes == 54

Shrinkable == {i \in 1 .. Len(prompt) - keep : prompt[i].runes > 0}

Shorter(runes) ==
    IF runes <= 96 THEN 0 ELSE ((3 * runes) \div 4) + NoticeRunes

Shrink ==
    /\ phase = "shrink" /\ SumTokens(prompt) > MaxTok /\ Shrinkable # {}
    /\ prompt' = [prompt EXCEPT ![Max(Shrinkable)].runes = Shorter(@)]
    /\ UNCHANGED <<keep, mayAsk, phase, again, total, dropped>>

ShrinkEnds ==
    /\ phase = "shrink" /\ (SumTokens(prompt) <= MaxTok \/ Shrinkable = {})
    /\ phase' = "capped"
    /\ UNCHANGED <<prompt, keep, mayAsk, again, total, dropped>>

-----------------------------------------------------------------------------
(* summarizeDroppedMessages and injectSummaryAfterSystem *)

\* The runner fails, or says nothing.
NoSummary ==
    /\ phase = "summary"
    /\ phase' = "capped"
    /\ UNCHANGED <<prompt, keep, mayAsk, again, total, dropped>>

Summary(runes) ==
    /\ phase = "summary"
    /\ prompt' = [prompt EXCEPT ![1].runes = @ + runes]
    /\ again' = TRUE /\ phase' = "cap"
    /\ UNCHANGED <<keep, mayAsk, total, dropped>>

CapStep ==
    \/ Measure \/ DropOldest \/ DropEnds \/ Shrink \/ ShrinkEnds
    \/ NoSummary \/ \E runes \in SummaryRunes : Summary(runes)

\* The prompts of a Send, a Regenerate and an edit end with a user's message;
\* that of a Continue ends with the part of the answer, too.
CapInit ==
    /\ prompt \in Prompts /\ keep = 1 /\ mayAsk \in BOOLEAN
    /\ phase = "cap" /\ again = FALSE /\ total = 0 /\ dropped = <<>>

CapFairSpec == CapInit /\ [][CapStep]_capVars /\ WF_capVars(CapStep)

-----------------------------------------------------------------------------
(* Properties *)

(* Nothing is dropped in vain, and nothing that could be dropped stays in a
   prompt that is too long: before the last drop the prompt did not fit.  What
   is left next to the system message is not the answer to a question about an
   image that was dropped just before it.  The running estimate of the loop,
   which is never compared with the prompt, is right in all of this. *)
CutToFit ==
    phase = "capped" /\ dropped # <<>> /\ ~again =>
        /\ Middle # <<>> => ~PairedAnswer(dropped[Len(dropped)], Middle)
        /\ SumTokens(prompt) <= MaxTok \/ Middle = <<>>
        /\ LET n == Len(dropped)
               unit == IF n > 1 /\ PairedAnswer(dropped[n - 1], <<dropped[n]>>) THEN 2 ELSE 1
           IN  SumTokens(prompt) + SumTokens(SubSeq(dropped, n - unit + 1, n)) > MaxTok

(* Cutting a prompt comes to an end.  The loop that shortens messages breaks
   it: a message of more than 96 runes never gets shorter than about 213. *)
CapEnds == <>(phase = "capped")
=============================================================================
