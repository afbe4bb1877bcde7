----------------------------- MODULE EvalWorker -----------------------------
(***************************************************************************)
(* One run of the evaluation worker: the coroutines of _worker_loop in     *)
(* scripts/llm/eval_worker.py and what they share, which is RunState and   *)
(* the module-level shutdown and pause flags of worker_runtime.py, the     *)
(* quota backoff and the circuit breaker.                                  *)
(*                                                                         *)
(* asyncio switches coroutines only at an await that suspends.  The locks  *)
(* are never contended (no holder awaits), so a step runs from one HTTP    *)
(* call, LLM call or sleep to the next.                                    *)
(***************************************************************************)
EXTENDS Integers, FiniteSets

CONSTANTS
    Worker,        \* coroutines: --concurrency
    Limit,         \* --limit, 0 for none; 1 for a run of one --issue
    Threshold,     \* _CONSECUTIVE_FAILURE_THRESHOLD
    MaxFailures,   \* bound: consecutive failures
    MaxLost,       \* bound: /release calls that fail
    MaxKeys,       \* bound: presses of the space key
    MaxRaises,     \* bound: preflights that raise
    MaxRefusals    \* bound: 401, 403 or 426 answers to /next

ASSUME WorkerAssumption ==
    /\ IsFiniteSet(Worker) /\ Worker # {}
    /\ Limit \in Nat /\ Threshold \in Nat \ {0} /\ MaxFailures \in Nat
    /\ MaxLost \in Nat /\ MaxKeys \in Nat /\ MaxRaises \in Nat /\ MaxRefusals \in Nat

VARIABLES
    pc,             \* pc[w]: what coroutine w awaits
    claim,          \* claim[w]: the server still counts w's issue as claimed
    reserved, evaluated, failures,          \* RunState
    shutdown, paused,                       \* shutdown_state, paused_state
    quotaPaused, breakerActive,             \* guards of the two pauses
    asked,          \* history: shutdown was not the limit's doing
    lost, keys, raises, refusals            \* counters of the bounded steps

runState == <<reserved, evaluated, failures>>
flags == <<shutdown, paused, quotaPaused, breakerActive>>
bounds == <<lost, keys, raises, refusals>>
vars == <<pc, claim, runState, flags, asked, bounds>>

\* Coroutines that have reserved a slot and not given it back.
Holding == {"fetching", "preflight", "blocked", "evaluating", "submitting"}
Pc == Holding \cup {"loop", "sleeping", "quota", "breaker", "releasing",
                    "returned", "cancelled"}

Init ==
    /\ pc = [w \in Worker |-> "loop"]
    /\ claim = [w \in Worker |-> FALSE]
    /\ reserved = 0 /\ evaluated = 0 /\ failures = 0
    /\ shutdown = FALSE /\ paused = FALSE
    /\ quotaPaused = FALSE /\ breakerActive = FALSE
    /\ asked = FALSE
    /\ lost = 0 /\ keys = 0 /\ raises = 0 /\ refusals = 0

Goto(w, l) == pc' = [pc EXCEPT ![w] = l]

-----------------------------------------------------------------------------
(* RunState *)

Overbooked == Limit > 0 /\ reserved > Limit  \* mutant: off by one
Full == Limit > 0 /\ reserved >= Limit

SlotKept == UNCHANGED reserved              \* mutant: release() forgotten
ReleaseSlot ==
    reserved' = IF Limit > 0 /\ reserved > 0 THEN reserved - 1 ELSE reserved

\* runtime.single_issue: no caller of Runtime ever passes it, so that a run of
\* one --issue which fails goes on polling.
SingleIssue == FALSE

ReleaseAndMaybeStop ==
    /\ ReleaseSlot
    /\ shutdown' = (shutdown \/ SingleIssue)

-----------------------------------------------------------------------------
(* The top of _worker_loop and GET /next *)

LeaveUnlessPaused(w) == shutdown /\ ~paused    \* mutant: pause tested first
MayLeave(w) == shutdown

Leave(w) ==
    /\ pc[w] = "loop"
    /\ MayLeave(w)
    /\ Goto(w, "returned")
    /\ UNCHANGED <<claim, runState, flags, asked, bounds>>

NoSlot(w) ==
    /\ pc[w] = "loop"
    /\ ~shutdown /\ ~paused /\ Full
    /\ Goto(w, "returned")
    /\ UNCHANGED <<claim, runState, flags, asked, bounds>>

Reserve(w) ==
    /\ pc[w] = "loop"
    /\ ~shutdown /\ ~paused /\ ~Full
    /\ reserved' = IF Limit > 0 THEN reserved + 1 ELSE reserved
    /\ Goto(w, "fetching")
    /\ UNCHANGED <<claim, evaluated, failures, flags, asked, bounds>>

FetchIssue(w) ==
    /\ pc[w] = "fetching"
    /\ claim' = [claim EXCEPT ![w] = TRUE]
    /\ Goto(w, "preflight")
    /\ UNCHANGED <<runState, flags, asked, bounds>>

\* 204, 429, 5xx, a transport error, a body that is no JSON.
FetchNothing(w) ==
    /\ pc[w] = "fetching"
    /\ ReleaseSlot
    /\ Goto(w, "sleeping")
    /\ UNCHANGED <<claim, evaluated, failures, flags, asked, bounds>>

\* 401, 403, 426: the run is over, and the slot is not given back.
FetchRefused(w) ==
    /\ pc[w] = "fetching"
    /\ refusals < MaxRefusals
    /\ refusals' = refusals + 1
    /\ shutdown' = TRUE /\ asked' = TRUE
    /\ Goto(w, "loop")
    /\ UNCHANGED <<claim, runState, paused, quotaPaused, breakerActive, lost, keys, raises>>

Wake(w) ==
    /\ pc[w] = "sleeping"
    /\ Goto(w, "loop")
    /\ UNCHANGED <<claim, runState, flags, asked, bounds>>

-----------------------------------------------------------------------------
(* Preflight *)

PreflightPass(w) ==
    /\ pc[w] = "preflight"
    /\ Goto(w, "evaluating")
    /\ UNCHANGED <<claim, runState, flags, asked, bounds>>

ClaimKept(w) == UNCHANGED <<claim, lost>>   \* mutant: no POST /release

\* POST /release; its failure is logged, and the lease has to run out.
HandBack(w) ==
    \/ /\ claim' = [claim EXCEPT ![w] = FALSE]
       /\ UNCHANGED lost
    \/ /\ lost < MaxLost
       /\ lost' = lost + 1
       /\ UNCHANGED claim

PreflightBlocked(w) ==
    /\ pc[w] = "preflight"
    /\ HandBack(w)
    /\ Goto(w, "blocked")
    /\ UNCHANGED <<runState, flags, asked, keys, raises, refusals>>

BlockedSlot(w) ==
    /\ pc[w] = "blocked"
    /\ ReleaseAndMaybeStop
    /\ Goto(w, "sleeping")
    /\ UNCHANGED <<claim, evaluated, failures, paused, quotaPaused, breakerActive,
                   asked, bounds>>

\* git takes too long (subprocess.TimeoutExpired): nobody catches it, gather
\* gives up and every other coroutine is cancelled with the client closed.
PreflightRaises(w) ==
    /\ pc[w] = "preflight"
    /\ raises < MaxRaises
    /\ raises' = raises + 1
    /\ pc' = [v \in Worker |-> IF pc[v] = "returned" THEN "returned" ELSE "cancelled"]
    /\ UNCHANGED <<claim, runState, flags, asked, lost, keys, refusals>>

-----------------------------------------------------------------------------
(* _evaluate_issue and POST /result *)

EvalDone(w) ==
    /\ pc[w] = "evaluating"
    /\ Goto(w, "submitting")
    /\ UNCHANGED <<claim, runState, flags, asked, bounds>>

\* The content is unchanged (evaluator), or has changed (409).
Skipped(w) ==
    /\ pc[w] \in {"evaluating", "submitting"}
    /\ ReleaseAndMaybeStop
    /\ Goto(w, "releasing")
    /\ UNCHANGED <<claim, evaluated, failures, paused, quotaPaused, breakerActive,
                   asked, bounds>>

\* The LLM or the validation fails, or the submission does.  The failure that
\* trips the breaker sleeps on behalf of all.
Failed(w) ==
    /\ pc[w] \in {"evaluating", "submitting"}
    /\ failures < MaxFailures
    /\ ReleaseAndMaybeStop
    /\ failures' = failures + 1
    /\ IF failures' >= Threshold /\ ~breakerActive
       THEN /\ breakerActive' = TRUE /\ paused' = TRUE
            /\ Goto(w, "breaker")
       ELSE /\ Goto(w, "releasing")
            /\ UNCHANGED <<breakerActive, paused>>
    /\ UNCHANGED <<claim, evaluated, quotaPaused, asked, bounds>>

\* Every worker may run out of quota at once; one of them sleeps for all.
FirstToPause(w) == ~quotaPaused

QuotaHit(w) ==
    /\ pc[w] = "evaluating"
    /\ ReleaseSlot
    /\ IF FirstToPause(w)
       THEN /\ quotaPaused' = TRUE /\ paused' = TRUE
            /\ Goto(w, "quota")
       ELSE /\ Goto(w, "releasing")
            /\ UNCHANGED <<quotaPaused, paused>>
    /\ UNCHANGED <<claim, evaluated, failures, shutdown, breakerActive, asked, bounds>>

\* The sleep is over and check_quota succeeds (or shutdown ends the loop).
QuotaBack(w) ==
    /\ pc[w] = "quota"
    /\ paused' = FALSE /\ quotaPaused' = FALSE
    /\ Goto(w, "releasing")
    /\ UNCHANGED <<claim, runState, shutdown, breakerActive, asked, bounds>>

StillPaused == paused                       \* mutant: the pause is not lifted
PauseAfterBreaker == FALSE

BreakerEnd(w) ==
    /\ pc[w] = "breaker"
    /\ failures' = 0
    /\ paused' = PauseAfterBreaker /\ breakerActive' = FALSE
    /\ Goto(w, "releasing")
    /\ UNCHANGED <<claim, reserved, evaluated, shutdown, quotaPaused, asked, bounds>>

\* The finally block: whatever was not submitted is handed back.
ReleaseClaim(w) ==
    /\ pc[w] = "releasing"
    /\ HandBack(w)
    /\ Goto(w, "sleeping")
    /\ UNCHANGED <<runState, flags, asked, keys, raises, refusals>>

\* 200: complete(), then the limit's shutdown.  Without a limit nothing reads
\* the number of evaluations.
SubmitStored(w) ==
    /\ pc[w] = "submitting"
    /\ claim' = [claim EXCEPT ![w] = FALSE]
    /\ evaluated' = IF Limit > 0 THEN evaluated + 1 ELSE evaluated
    /\ failures' = 0
    /\ shutdown' = (shutdown \/ (Limit > 0 /\ evaluated' >= Limit))
    /\ Goto(w, "sleeping")
    /\ UNCHANGED <<reserved, paused, quotaPaused, breakerActive, asked, bounds>>

-----------------------------------------------------------------------------
(* The user *)

\* A second Ctrl+C kills the process and ends the model.
Interrupt ==
    /\ ~shutdown
    /\ shutdown' = TRUE /\ asked' = TRUE
    /\ UNCHANGED <<pc, claim, runState, paused, quotaPaused, breakerActive, bounds>>

SpaceKey ==
    /\ ~shutdown
    /\ keys < MaxKeys
    /\ keys' = keys + 1
    /\ paused' = ~paused
    /\ UNCHANGED <<pc, claim, runState, shutdown, quotaPaused, breakerActive, asked,
                   lost, raises, refusals>>

-----------------------------------------------------------------------------
Step(w) ==
    \/ Leave(w) \/ NoSlot(w) \/ Reserve(w)
    \/ FetchIssue(w) \/ FetchNothing(w) \/ FetchRefused(w) \/ Wake(w)
    \/ PreflightPass(w) \/ PreflightBlocked(w) \/ BlockedSlot(w) \/ PreflightRaises(w)
    \/ EvalDone(w) \/ Skipped(w) \/ Failed(w) \/ QuotaHit(w) \/ SubmitStored(w)
    \/ QuotaBack(w) \/ BreakerEnd(w) \/ ReleaseClaim(w)

Next == (\E w \in Worker : Step(w)) \/ Interrupt \/ SpaceKey

Spec == Init /\ [][Next]_vars

\* Coroutines keep running, sleeps end, calls are answered, the quota comes
\* back.  That evaluations succeed once in a while is an assumption about the
\* queue and the LLM, and only a run with a limit needs it.
Fairness ==
    /\ \A w \in Worker : WF_vars(Step(w))
    /\ \A w \in Worker : SF_vars(FetchIssue(w)) /\ SF_vars(PreflightPass(w))
    /\ \A w \in Worker : SF_vars(EvalDone(w)) /\ SF_vars(SubmitStored(w))

FairSpec == Spec /\ Fairness

-----------------------------------------------------------------------------
(* Properties *)

\* Every variable keeps its type; in particular the reservations stay between
\* zero and --limit, whichever path gives a slot back.
TypeOK ==
    /\ pc \in [Worker -> Pc]
    /\ claim \in [Worker -> BOOLEAN]
    /\ reserved \in 0..Limit /\ evaluated \in Nat /\ failures \in Nat
    /\ shutdown \in BOOLEAN /\ paused \in BOOLEAN
    /\ quotaPaused \in BOOLEAN /\ breakerActive \in BOOLEAN /\ asked \in BOOLEAN
    /\ lost \in Nat /\ keys \in Nat /\ raises \in Nat /\ refusals \in Nat

InFlight == {w \in Worker : pc[w] \in Holding}
Over == \A w \in Worker : pc[w] \in {"returned", "cancelled"}

\* The slots add up whatever becomes of the issues: what is reserved is what
\* has been evaluated and what is in flight, until a refused /next or an
\* exception ends the run.  So the run never evaluates more than --limit.
SlotsAddUp ==
    Limit > 0 /\ refusals = 0 /\ raises = 0 =>
        /\ reserved = evaluated + Cardinality(InFlight)
        /\ reserved <= Limit

\* A coroutine that finds no free slot goes for good, although a slot may be
\* given back later: still a run that nobody stopped has reached its limit
\* when its last coroutine goes.
NoEarlyExit ==
    Over /\ ~asked /\ raises = 0 => Limit > 0 /\ evaluated = Limit

\* A pause has somebody to end it: unless the user plays with the space key,
\* a run is paused only while a backoff or the breaker sleeps, each by one
\* coroutine at most.
PauseHasOwner ==
    raises = 0 =>
        /\ quotaPaused <=> \E w \in Worker : pc[w] = "quota"
        /\ breakerActive <=> \E w \in Worker : pc[w] = "breaker"
        /\ Cardinality({w \in Worker : pc[w] = "quota"}) <= 1
        /\ Cardinality({w \in Worker : pc[w] = "breaker"}) <= 1
        /\ paused /\ keys = 0 => quotaPaused \/ breakerActive

\* Together: limit, slots and pauses, which the coroutines share, stay in step
\* through every backoff, breaker trip, shutdown and failure.
SlotsAndPausesSound == SlotsAddUp /\ NoEarlyExit /\ PauseHasOwner

\* An issue whose evaluation was not stored is handed back: a run that ends
\* by itself leaves a claim behind only where a /release failed.
ClaimsHandedBack ==
    raises = 0 /\ lost = 0 =>
        \A w \in Worker : pc[w] \in {"loop", "sleeping", "returned"} => ~claim[w]

\* After Ctrl+C or the limit every coroutine returns, paused or not.
ShutdownEnds == shutdown ~> Over

\* A run with a limit ends, whatever pauses and failures it goes through,
\* unless the user leaves it paused.
RunEnds == Limit > 0 => <>(Over \/ keys > 0)
=============================================================================
