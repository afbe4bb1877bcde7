------------------------------ MODULE ToolLoop ------------------------------
(***************************************************************************)
(* The evaluator of craft_dashboard/llm/evaluator.py: every coroutine of   *)
(* an evaluation worker calls evaluate() of ONE IssueEvaluator.  An        *)
(* evaluation gathers a baseline, then alternates LLM requests (retried by *)
(* client.py) with tool calls (tool_dispatch.py) until the model answers,  *)
(* a round or token limit is reached, or something fails.                  *)
(*                                                                         *)
(* A step of a coroutine reaches from one await to the next.  The tool     *)
(* context is an attribute of the shared evaluator: it is written when an  *)
(* evaluation begins, and read again at the start of every tool call.      *)
(***************************************************************************)
EXTENDS Integers, FiniteSets

CONSTANTS
    Coroutine,
    Issue,
    Open,            \* the issues that are neither closed nor merged
    RoundsOpen,      \* MAX_TOOL_ROUNDS
    RoundsClosed,    \* MAX_CLOSED_TOOL_ROUNDS
    TokenLimit,      \* MAX_TOOL_TOKENS
    HttpAttempts,    \* _MAX_HTTP_ATTEMPTS
    Pacing,          \* tool_call_delay > 0
    MaxTokens,       \* bound: tokens of one response
    MaxCalls         \* bound: tool calls of one response

ASSUME ToolLoopAssumption ==
    /\ IsFiniteSet(Issue) /\ Open \subseteq Issue
    /\ RoundsOpen \in Nat \ {0} /\ RoundsClosed \in Nat \ {0}
    /\ TokenLimit \in Nat \ {0} /\ HttpAttempts \in Nat \ {0}
    /\ Pacing \in BOOLEAN
    /\ MaxTokens \in Nat \ {0} /\ MaxCalls \in Nat \ {0}

VARIABLES
    ctx,      \* IssueEvaluator._tool_ctx: the issue whose context is in it
    eval,     \* eval[c]: the evaluation coroutine c is in
    result,   \* result[i]: how the evaluation of i ended
    billed,   \* billed[i]: tokens of every response received for i
    via,      \* via[i]: the contexts the tool calls of i went through
    begun     \* begun[i]: i was the begun[i]-th evaluation to begin, or 0

loopVars == <<ctx, eval, result, billed, via, begun>>

None == "none"

\* "through": the context of the running tool call; "left": the calls of the
\* response that are still to be made; "tries": attempts of the request.
Idle == [at |-> "idle", issue |-> None, round |-> 0, spent |-> 0,
         left |-> 0, through |-> None, tries |-> 0]

\* What _parse_evaluation_response finds: an object with scores, one with a
\* summary only (as salvaged from truncated JSON), or nothing of use.
Answers == {"whole", "summary", "nothing"}

Waiting == {"single", "request", "final"}   \* for an answer of the LLM

LoopInit ==
    /\ ctx = None
    /\ eval = [c \in Coroutine |-> Idle]
    /\ result = [i \in Issue |-> [end |-> None, tokens |-> 0]]
    /\ billed = [i \in Issue |-> 0]
    /\ via = [i \in Issue |-> {}]
    /\ begun = [i \in Issue |-> 0]

-----------------------------------------------------------------------------
(* The beginning of an evaluation *)

Rounds(i) == IF i \in Open THEN RoundsOpen ELSE RoundsClosed
Started == Cardinality({i \in Issue : begun[i] > 0})

\* evaluate(): an unchanged content hash skips the evaluation; without a
\* project or a context there is one request and no tool.
Skip(c, i) ==
    /\ result' = [result EXCEPT ![i].end = "unchanged"]
    /\ UNCHANGED <<ctx, eval>>

Single(c, i) ==
    /\ eval' = [eval EXCEPT ![c] = [Idle EXCEPT !.at = "single", !.issue = i, !.tries = 1]]
    /\ UNCHANGED <<ctx, result>>

\* The context is stored before the first await of either kind of issue.
WithTools(c, i) ==
    /\ ctx' = i
    /\ eval' = [eval EXCEPT ![c] =
          [Idle EXCEPT !.at = IF i \in Open THEN "baseline" ELSE "request",
                       !.issue = i, !.round = 1, !.tries = 1]]
    /\ UNCHANGED result

Begin(c, i) ==
    /\ eval[c].at = "idle"
    /\ begun[i] = 0
    /\ begun' = [begun EXCEPT ![i] = Started + 1]
    /\ Skip(c, i) \/ Single(c, i) \/ WithTools(c, i)
    /\ UNCHANGED <<billed, via>>

\* Mutant: the context is stored once the baseline is there.
BaselineStoresContext(c) == ctx' = eval[c].issue
BaselineContext(c) == UNCHANGED ctx

End(c, how, tokens) ==
    /\ eval' = [eval EXCEPT ![c] = Idle]
    /\ result' = [result EXCEPT ![eval[c].issue] =
                     [end |-> how, tokens |-> tokens]]

\* Layout, grep and related issues, read through the evaluation's own
\* context: a missing pin, an unreadable layout or a grep that failed for
\* every pattern discards it, the rest is left out of the baseline.
Baseline(c) ==
    /\ eval[c].at = "baseline"
    /\ BaselineContext(c)
    /\ \/ /\ eval' = [eval EXCEPT ![c].at = "request"]
          /\ UNCHANGED result
       \/ End(c, "discarded", 0)
    /\ UNCHANGED <<billed, via, begun>>

-----------------------------------------------------------------------------
(* Requests to the LLM *)

\* 429, 5xx, a transport error or a body without choices is retried.
Retried(c) ==
    /\ eval[c].tries < HttpAttempts
    /\ eval' = [eval EXCEPT ![c].tries = @ + 1]
    /\ UNCHANGED result

\* 402, 403 and any other status are raised at once.
RequestFails(c) ==
    /\ eval[c].at \in Waiting
    /\ \/ Retried(c)
       \/ eval[c].tries = HttpAttempts /\ End(c, "unavailable", 0)
       \/ End(c, "quota", 0)
    /\ UNCHANGED <<ctx, billed, via, begun>>

\* A closed issue needs a summary, an open one the three scores as well.
Usable(i, answer) ==
    answer \in (IF i \in Open THEN {"whole"} ELSE {"whole", "summary"})

\* The tokens reported with a result are those of every round.
LastRoundOnly(c, n) == n                             \* mutant: no running total
Total(c, n) == eval[c].spent + n

\* A response without tool calls ends the loop, whatever it contains.  The
\* last request forbids tools, so that what it asks for is only text.
FinalAnswer(c) ==
    /\ eval[c].at \in Waiting
    /\ \E n \in 1..MaxTokens, answer \in Answers :
          LET i == eval[c].issue
          IN  /\ billed' = [billed EXCEPT ![i] = @ + n]
              /\ IF Usable(i, answer)
                 THEN End(c, "stored", Total(c, n))
                 ELSE End(c, "discarded", 0)
    /\ UNCHANGED <<ctx, via, begun>>

\* The calls of a response are dispatched one after the other; the first one
\* picks its context up without an await in between.
ToolRequest(c) ==
    /\ eval[c].at = "request"
    /\ \E n \in 1..MaxTokens, k \in 1..MaxCalls :
          /\ billed' = [billed EXCEPT ![eval[c].issue] = @ + n]
          /\ eval' = [eval EXCEPT ![c] =
                [@ EXCEPT !.at = "tool", !.spent = Total(c, n), !.left = k, !.through = ctx]]
    /\ UNCHANGED <<ctx, result, via, begun>>

-----------------------------------------------------------------------------
(* Tool calls *)

\* The limit is tested after a round, never within one.
TokensOnly(c) == eval[c].spent >= TokenLimit               \* mutant
LimitReached(c) ==
    \/ eval[c].round = Rounds(eval[c].issue)
    \/ eval[c].spent >= TokenLimit

AfterRound(c) ==
    IF LimitReached(c)
    THEN [eval[c] EXCEPT !.at = IF Pacing THEN "lastPause" ELSE "final",
                         !.left = 0, !.through = None, !.tries = 1]
    ELSE [eval[c] EXCEPT !.at = IF Pacing THEN "pause" ELSE "request",
                         !.left = 0, !.through = None, !.tries = 1, !.round = @ + 1]

\* What a handler reads, and where it records the paths it has touched, goes
\* through the context of the call.
Dispatched(c) == via' = [via EXCEPT ![eval[c].issue] = @ \cup {eval[c].through}]

\* Every call is answered, with "Error: ..." when its handler fails: the loop
\* goes on.
ToolAnswers(c) ==
    /\ eval[c].at = "tool"
    /\ Dispatched(c)
    /\ eval' = [eval EXCEPT ![c] =
          IF eval[c].left > 1
          THEN [eval[c] EXCEPT !.left = @ - 1, !.through = ctx]
          ELSE AfterRound(c)]
    /\ UNCHANGED <<ctx, result, billed, begun>>

Resume(c) ==
    /\ eval[c].at \in {"pause", "lastPause"}
    /\ eval' = [eval EXCEPT ![c].at = IF @ = "pause" THEN "request" ELSE "final"]
    /\ UNCHANGED <<ctx, result, billed, via, begun>>

-----------------------------------------------------------------------------
LoopStep(c) ==
    Baseline(c) \/ RequestFails(c) \/ FinalAnswer(c) \/ ToolRequest(c)
        \/ ToolAnswers(c) \/ Resume(c)

LoopNext ==
    \E c \in Coroutine :
        \/ \E i \in Issue : Begin(c, i)
        \/ Baseline(c) \/ RequestFails(c) \/ FinalAnswer(c)
        \/ ToolRequest(c) \/ ToolAnswers(c) \/ Resume(c)

LoopSpec == LoopInit /\ [][LoopNext]_loopVars

\* Every request has a timeout, every git call a deadline, every sleep ends.
LoopFairness == \A c \in Coroutine : WF_loopVars(LoopStep(c))

-----------------------------------------------------------------------------
(* Properties *)

LoopTypeOK ==
    /\ ctx \in Issue \cup {None}
    /\ \A c \in Coroutine :
          /\ eval[c].at \in {"idle", "baseline", "tool", "pause", "lastPause"} \cup Waiting
          /\ eval[c].issue \in Issue \cup {None}
          /\ eval[c].round \in 0..Rounds(eval[c].issue)
          /\ eval[c].tries \in 0..HttpAttempts
          /\ eval[c].left \in 0..MaxCalls
    /\ \A i \in Issue : via[i] \subseteq Issue /\ begun[i] \in 0..Cardinality(Issue)

\* The shared attribute may hand an evaluation the context of another one,
\* but only of one that began later: with one coroutine, and for the last
\* evaluation that began, a tool call never leaves its own context.
NeverAnOlderContext ==
    \A i \in Issue : \A j \in via[i] : begun[j] >= begun[i]

\* A stored evaluation reports the tokens of all its responses, and the
\* budget is overrun by less than the two responses that follow it: the one
\* that crosses the limit, and the final one.
BudgetAndBill ==
    \A i \in Issue :
        /\ billed[i] < TokenLimit + 2 * MaxTokens
        /\ result[i].end = "stored" => result[i].tokens = billed[i]

\* However the model, the tools and the service behave, an evaluation ends.
EvaluationsEnd ==
    \A i \in Issue : begun[i] > 0 ~> result[i].end # None
=============================================================================
