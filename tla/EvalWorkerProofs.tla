-------------------------- MODULE EvalWorkerProofs --------------------------
(***************************************************************************)
(* The invariants of a worker run, for every number of coroutines and      *)
(* every limit and threshold.  SlotsAddUp is inductive once typing is      *)
(* known; the others follow from Sleepers, Claims and Ending, which are.   *)
(***************************************************************************)
EXTENDS EvalWorker, FiniteSetTheorems, TLAPS

\* At most one coroutine sleeps for the quota, and one for the breaker.
Alone(l) == \A v, w \in Worker : pc[v] = l /\ pc[w] = l => v = w

Sleepers ==
    raises = 0 =>
        /\ quotaPaused <=> \E w \in Worker : pc[w] = "quota"
        /\ breakerActive <=> \E w \in Worker : pc[w] = "breaker"
        /\ Alone("quota") /\ Alone("breaker")
        /\ paused /\ keys = 0 => quotaPaused \/ breakerActive

\* Where a coroutine may have a claim.
Claiming == {"preflight", "evaluating", "submitting", "quota", "breaker", "releasing"}

Claims ==
    raises = 0 /\ lost = 0 => \A w \in Worker : pc[w] \notin Claiming => ~claim[w]

\* A shutdown that nobody asked for is the limit's.
Ending ==
    /\ refusals > 0 => asked
    /\ raises = 0 /\ shutdown /\ ~asked => Limit > 0 /\ evaluated = Limit
    /\ NoEarlyExit

-----------------------------------------------------------------------------
(* Type correctness *)

\* The initial state is typed.
LEMMA InitTyped == Init => TypeOK
<1> SUFFICES ASSUME Init  PROVE TypeOK
  OBVIOUS
<1>1. pc \in [Worker -> Pc] /\ claim \in [Worker -> BOOLEAN]
  BY DEF Init, Pc
<1>2. 0 \in 0..Limit
  BY WorkerAssumption
<1>3. QED  BY <1>1, <1>2 DEF Init, TypeOK

\* A /release, received or lost, leaves the claims and their count typed.
LEMMA HandBackTyped ==
    ASSUME TypeOK, NEW w \in Worker, HandBack(w)
    PROVE  claim' \in [Worker -> BOOLEAN] /\ lost' \in Nat
<1>1. CASE claim' = [claim EXCEPT ![w] = FALSE] /\ lost' = lost
  BY <1>1 DEF TypeOK
<1>2. CASE claim' = claim /\ lost' = lost + 1
  BY <1>2 DEF TypeOK
<1>3. QED  BY <1>1, <1>2 DEF HandBack

\* No step leaves the types.
LEMMA StepTyped == TypeOK /\ [Next]_vars => TypeOK'
<1> SUFFICES ASSUME TypeOK, [Next]_vars  PROVE TypeOK'
  OBVIOUS
<1> USE WorkerAssumption DEF TypeOK, Pc, Holding, Goto, ReleaseSlot, runState, flags, bounds
<1>1. ASSUME NEW w \in Worker, Leave(w)  PROVE TypeOK'
  BY <1>1 DEF Leave
<1>2. ASSUME NEW w \in Worker, NoSlot(w)  PROVE TypeOK'
  BY <1>2 DEF NoSlot, Full
<1>3. ASSUME NEW w \in Worker, Reserve(w)  PROVE TypeOK'
  BY <1>3 DEF Reserve, Full
<1>4. ASSUME NEW w \in Worker, FetchIssue(w)  PROVE TypeOK'
  BY <1>4 DEF FetchIssue
<1>5. ASSUME NEW w \in Worker, FetchNothing(w)  PROVE TypeOK'
  BY <1>5 DEF FetchNothing
<1>6. ASSUME NEW w \in Worker, FetchRefused(w)  PROVE TypeOK'
  BY <1>6 DEF FetchRefused
<1>7. ASSUME NEW w \in Worker, Wake(w)  PROVE TypeOK'
  BY <1>7 DEF Wake
<1>8. ASSUME NEW w \in Worker, PreflightPass(w)  PROVE TypeOK'
  BY <1>8 DEF PreflightPass
<1>9. ASSUME NEW w \in Worker, PreflightBlocked(w)  PROVE TypeOK'
  BY <1>9, HandBackTyped DEF PreflightBlocked
<1>10. ASSUME NEW w \in Worker, BlockedSlot(w)  PROVE TypeOK'
  BY <1>10 DEF BlockedSlot, ReleaseAndMaybeStop, SingleIssue
<1>11. ASSUME NEW w \in Worker, PreflightRaises(w)  PROVE TypeOK'
  BY <1>11 DEF PreflightRaises
<1>12. ASSUME NEW w \in Worker, EvalDone(w)  PROVE TypeOK'
  BY <1>12 DEF EvalDone
<1>13. ASSUME NEW w \in Worker, Skipped(w)  PROVE TypeOK'
  BY <1>13 DEF Skipped, ReleaseAndMaybeStop, SingleIssue
<1>14. ASSUME NEW w \in Worker, Failed(w)  PROVE TypeOK'
  <2>1. CASE failures' >= Threshold /\ ~breakerActive
    BY <1>14, <2>1 DEF Failed, ReleaseAndMaybeStop, SingleIssue
  <2>2. CASE ~(failures' >= Threshold /\ ~breakerActive)
    BY <1>14, <2>2 DEF Failed, ReleaseAndMaybeStop, SingleIssue
  <2>3. QED  BY <2>1, <2>2
<1>15. ASSUME NEW w \in Worker, QuotaHit(w)  PROVE TypeOK'
  <2>1. CASE FirstToPause(w)
    BY <1>15, <2>1 DEF QuotaHit
  <2>2. CASE ~FirstToPause(w)
    BY <1>15, <2>2 DEF QuotaHit
  <2>3. QED  BY <2>1, <2>2
<1>16. ASSUME NEW w \in Worker, SubmitStored(w)  PROVE TypeOK'
  BY <1>16 DEF SubmitStored
<1>17. ASSUME NEW w \in Worker, QuotaBack(w)  PROVE TypeOK'
  BY <1>17 DEF QuotaBack
<1>18. ASSUME NEW w \in Worker, BreakerEnd(w)  PROVE TypeOK'
  BY <1>18 DEF BreakerEnd, PauseAfterBreaker
<1>19. ASSUME NEW w \in Worker, ReleaseClaim(w)  PROVE TypeOK'
  BY <1>19, HandBackTyped DEF ReleaseClaim
<1>20. CASE Interrupt
  BY <1>20 DEF Interrupt
<1>21. CASE SpaceKey
  <2>1. paused' \in BOOLEAN
    BY <1>21, ZenonT(30) DEF SpaceKey
  <2>2. QED  BY <1>21, <2>1 DEF SpaceKey
<1>22. CASE UNCHANGED vars
  BY <1>22 DEF vars
<1>23. QED
  BY <1>1, <1>2, <1>3, <1>4, <1>5, <1>6, <1>7, <1>8, <1>9, <1>10, <1>11, <1>12, <1>13, <1>14, <1>15, <1>16, <1>17, <1>18, <1>19, <1>20, <1>21, <1>22 DEF Next, Step

\* Every variable keeps its type.
THEOREM TypeCorrect == Spec => []TypeOK
BY InitTyped, StepTyped, PTL DEF Spec

-----------------------------------------------------------------------------
(* The slots of --limit *)

\* The coroutines in flight can be counted.
LEMMA InFlightFinite ==
    /\ IsFiniteSet(InFlight) /\ IsFiniteSet(InFlight')
    /\ Cardinality(InFlight) \in Nat /\ Cardinality(InFlight') \in Nat
<1>1. InFlight \in SUBSET Worker /\ InFlight' \in SUBSET Worker
  BY DEF InFlight
<1>2. QED  BY <1>1, WorkerAssumption, FS_Subset, FS_CardinalityType

\* One coroutine takes off: one more is in flight.
LEMMA TakeOff ==
    ASSUME TypeOK, NEW w \in Worker, pc[w] \notin Holding,
           NEW l \in Holding, pc' = [pc EXCEPT ![w] = l]
    PROVE  Cardinality(InFlight') = Cardinality(InFlight) + 1
<1>1. InFlight' = InFlight \cup {w} /\ w \notin InFlight
  BY DEF InFlight, TypeOK
<1>2. QED  BY <1>1, InFlightFinite, FS_AddElement

\* One coroutine lands: there was one, and there is one less.
LEMMA Land ==
    ASSUME TypeOK, NEW w \in Worker, pc[w] \in Holding,
           NEW l, l \notin Holding, pc' = [pc EXCEPT ![w] = l]
    PROVE  /\ Cardinality(InFlight') = Cardinality(InFlight) - 1
           /\ Cardinality(InFlight) > 0
<1>1. InFlight' = InFlight \ {w} /\ w \in InFlight
  BY DEF InFlight, TypeOK
<1>2. Cardinality(InFlight') = Cardinality(InFlight) - 1
  BY <1>1, InFlightFinite, FS_RemoveElement
<1>3. QED  BY <1>2, InFlightFinite

\* A coroutine that goes on within a phase changes nothing about the slots.
LEMMA StayPut ==
    ASSUME TypeOK, NEW w \in Worker, NEW l, pc[w] \in Holding <=> l \in Holding,
           pc' = [pc EXCEPT ![w] = l]
    PROVE  InFlight' = InFlight
BY DEF InFlight, TypeOK

\* The slots add up initially: nothing is reserved, nobody in flight.
LEMMA InitSlots == Init => SlotsAddUp
<1> SUFFICES ASSUME Init  PROVE SlotsAddUp
  OBVIOUS
<1>1. InFlight = {}
  BY DEF Init, InFlight, Holding
<1>2. QED  BY <1>1, FS_EmptySet, WorkerAssumption DEF Init, SlotsAddUp

\* No step loses or doubles a slot.
LEMMA StepSlots == TypeOK /\ SlotsAddUp /\ [Next]_vars => SlotsAddUp'
<1> DEFINE In == Cardinality(InFlight)
           Kept == reserved' = evaluated' + Cardinality(InFlight') /\ reserved' <= Limit
<1> SUFFICES ASSUME TypeOK, SlotsAddUp, [Next]_vars,
                    Limit > 0, refusals' = 0, raises' = 0
             PROVE  Kept
  BY DEF SlotsAddUp
<1>0. reserved \in Nat /\ evaluated \in Nat /\ refusals \in Nat /\ raises \in Nat /\ Limit \in Nat
  BY WorkerAssumption DEF TypeOK
<1>1. ASSUME refusals = 0, raises = 0
      PROVE  /\ reserved = evaluated + In /\ reserved <= Limit
             /\ In \in Nat /\ Cardinality(InFlight') \in Nat
  BY <1>1, InFlightFinite DEF SlotsAddUp
<1> HIDE DEF In
<1>2. ASSUME NEW w \in Worker, Reserve(w)  PROVE Kept
  <2>1. Cardinality(InFlight') = In + 1
    BY <1>2, TakeOff DEF Reserve, Goto, Holding, In
  <2>2. refusals = 0 /\ raises = 0
    BY <1>2 DEF Reserve, bounds
  <2>3. reserved' = reserved + 1 /\ reserved < Limit /\ evaluated' = evaluated
    BY <1>2, <1>0 DEF Reserve, Full
  <2>4. QED  BY <1>0, <1>1, <2>1, <2>2, <2>3
<1>3. ASSUME NEW w \in Worker, ReleaseSlot, evaluated' = evaluated, refusals = 0, raises = 0,
             pc[w] \in Holding, NEW l, l \notin Holding, Goto(w, l)
      PROVE  Kept
  <2>1. Cardinality(InFlight') = In - 1 /\ In > 0
    BY <1>3, Land DEF Goto, In
  <2>2. reserved' = reserved - 1
    BY <1>0, <1>1, <1>3, <2>1 DEF ReleaseSlot
  <2>3. QED  BY <1>0, <1>1, <1>3, <2>1, <2>2
<1>4. ASSUME NEW w \in Worker, SubmitStored(w)
      PROVE  Kept
  <2>1. Cardinality(InFlight') = In - 1
    BY <1>4, Land DEF SubmitStored, Goto, Holding, In
  <2>2. reserved' = reserved /\ evaluated' = evaluated + 1 /\ refusals = 0 /\ raises = 0
    BY <1>4 DEF SubmitStored, bounds
  <2>3. QED  BY <1>0, <1>1, <2>1, <2>2
<1>5. ASSUME InFlight' = InFlight, reserved' = reserved, evaluated' = evaluated,
             refusals = 0, raises = 0
      PROVE  Kept
  BY <1>1, <1>5 DEF In
<1>6. ASSUME NEW w \in Worker,
             \/ FetchNothing(w) \/ BlockedSlot(w) \/ Skipped(w) \/ Failed(w) \/ QuotaHit(w)
      PROVE  Kept
  <2>1. ReleaseSlot /\ evaluated' = evaluated /\ refusals = 0 /\ raises = 0 /\ pc[w] \in Holding
    BY <1>6 DEF FetchNothing, BlockedSlot, Skipped, Failed, QuotaHit, ReleaseAndMaybeStop,
                bounds, Holding
  <2>2. \E l \in {"sleeping", "releasing", "breaker", "quota"} : Goto(w, l)
    BY <1>6 DEF FetchNothing, BlockedSlot, Skipped, Failed, QuotaHit
  <2>3. QED  BY <1>3, <2>1, <2>2 DEF Holding
<1>7. ASSUME NEW w \in Worker,
             \/ FetchIssue(w) \/ PreflightPass(w) \/ PreflightBlocked(w) \/ EvalDone(w)
             \/ Leave(w) \/ NoSlot(w) \/ Wake(w) \/ QuotaBack(w) \/ BreakerEnd(w) \/ ReleaseClaim(w)
      PROVE  Kept
  <2>1. reserved' = reserved /\ evaluated' = evaluated /\ refusals = 0 /\ raises = 0
    BY <1>7 DEF FetchIssue, PreflightPass, PreflightBlocked, EvalDone, Leave, NoSlot, Wake,
                QuotaBack, BreakerEnd, ReleaseClaim, runState, bounds
  <2>2. \/ \E l \in Holding : pc[w] \in Holding /\ Goto(w, l)
        \/ \E l \in {"returned", "loop", "releasing", "sleeping"} : pc[w] \notin Holding /\ Goto(w, l)
    BY <1>7 DEF FetchIssue, PreflightPass, PreflightBlocked, EvalDone, Leave, NoSlot, Wake,
                QuotaBack, BreakerEnd, ReleaseClaim, Holding
  <2>3. InFlight' = InFlight
    BY <2>2, StayPut DEF Goto, Holding
  <2>4. QED  BY <1>5, <2>1, <2>3
<1>8. ASSUME NEW w \in Worker, FetchRefused(w) \/ PreflightRaises(w)
      PROVE  Kept
  BY <1>0, <1>8 DEF FetchRefused, PreflightRaises
<1>9. CASE Interrupt \/ SpaceKey \/ UNCHANGED vars
  <2>1. /\ pc' = pc /\ reserved' = reserved /\ evaluated' = evaluated
        /\ refusals = 0 /\ raises = 0
    BY <1>9 DEF Interrupt, SpaceKey, vars, runState, bounds
  <2>2. InFlight' = InFlight
    BY <2>1 DEF InFlight
  <2>3. QED  BY <1>5, <2>1, <2>2
<1>10. QED  BY <1>2, <1>4, <1>6, <1>7, <1>8, <1>9 DEF Next, Step

\* What is reserved is what was evaluated and what is in flight, never more
\* than --limit.
THEOREM SlotsCorrect == Spec => []SlotsAddUp
BY InitTyped, StepTyped, InitSlots, StepSlots, PTL DEF Spec

-----------------------------------------------------------------------------
(* The pauses *)

\* A coroutine that neither falls asleep for a pause nor wakes up from one
\* leaves the pauses as they are.
LEMMA PausesKept ==
    ASSUME TypeOK, Sleepers, NEW w \in Worker, NEW l,
           l \notin {"quota", "breaker"}, pc[w] \notin {"quota", "breaker"}, Goto(w, l),
           UNCHANGED <<quotaPaused, breakerActive, paused, keys, raises>>
    PROVE  Sleepers'
BY DEF TypeOK, Sleepers, Alone, Goto

\* No step starts a pause that nobody sleeps for, or loses the sleeper.
LEMMA StepSleepers == TypeOK /\ Sleepers /\ [Next]_vars => Sleepers'
<1> SUFFICES ASSUME TypeOK, Sleepers, [Next]_vars  PROVE Sleepers'
  OBVIOUS
<1> USE DEF bounds, flags, runState
<1>1. ASSUME NEW w \in Worker,
             \/ Leave(w) \/ NoSlot(w) \/ Reserve(w) \/ FetchIssue(w) \/ FetchNothing(w)
             \/ FetchRefused(w) \/ Wake(w) \/ PreflightPass(w) \/ PreflightBlocked(w)
      PROVE  Sleepers'
  BY <1>1, PausesKept DEF Leave, NoSlot, Reserve, FetchIssue, FetchNothing, FetchRefused,
                          Wake, PreflightPass, PreflightBlocked
<1>2. ASSUME NEW w \in Worker,
             \/ BlockedSlot(w) \/ EvalDone(w) \/ Skipped(w) \/ SubmitStored(w) \/ ReleaseClaim(w)
      PROVE  Sleepers'
  BY <1>2, PausesKept DEF BlockedSlot, EvalDone, Skipped, SubmitStored, ReleaseClaim
<1>3. ASSUME NEW w \in Worker, PreflightRaises(w)  PROVE Sleepers'
  BY <1>3 DEF PreflightRaises, Sleepers, TypeOK
<1>4. ASSUME NEW w \in Worker, Failed(w)  PROVE Sleepers'
  <2>1. CASE failures' >= Threshold /\ ~breakerActive
    BY <1>4, <2>1 DEF Failed, Sleepers, Alone, Goto, TypeOK
  <2>2. CASE ~(failures' >= Threshold /\ ~breakerActive)
    BY <1>4, <2>2, PausesKept DEF Failed
  <2>3. QED  BY <2>1, <2>2
<1>5. ASSUME NEW w \in Worker, QuotaHit(w)  PROVE Sleepers'
  <2>1. CASE FirstToPause(w)
    BY <1>5, <2>1 DEF QuotaHit, FirstToPause, Sleepers, Alone, Goto, TypeOK
  <2>2. CASE ~FirstToPause(w)
    BY <1>5, <2>2, PausesKept DEF QuotaHit
  <2>3. QED  BY <2>1, <2>2
<1>6. ASSUME NEW w \in Worker, QuotaBack(w)  PROVE Sleepers'
  BY <1>6 DEF QuotaBack, Sleepers, Alone, Goto, TypeOK
<1>7. ASSUME NEW w \in Worker, BreakerEnd(w)  PROVE Sleepers'
  BY <1>7 DEF BreakerEnd, PauseAfterBreaker, Sleepers, Alone, Goto, TypeOK
<1>8. CASE Interrupt \/ UNCHANGED vars
  BY <1>8 DEF Interrupt, vars, Sleepers, Alone
<1>9. CASE SpaceKey
  BY <1>9 DEF SpaceKey, Sleepers, Alone, TypeOK
<1>10. QED
  BY <1>1, <1>2, <1>3, <1>4, <1>5, <1>6, <1>7, <1>8, <1>9 DEF Next, Step

\* One of something at most is what Alone says.
LEMMA AloneCounts ==
    ASSUME NEW l, Alone(l)  PROVE Cardinality({w \in Worker : pc[w] = l}) <= 1
<1> DEFINE S == {w \in Worker : pc[w] = l}
<1>1. CASE S = {}
  BY <1>1, FS_EmptySet
<1>2. ASSUME NEW w \in S  PROVE Cardinality(S) <= 1
  <2>1. S = {w}
    BY <1>2 DEF Alone
  <2>2. QED  BY <2>1, FS_Singleton
<1>3. QED  BY <1>1, <1>2

\* A paused run has somebody who sleeps and will end the pause, and each kind
\* of pause has one sleeper.
THEOREM PausesOwned == Spec => []PauseHasOwner
<1>1. Init => Sleepers
  BY DEF Init, Sleepers, Alone
<1>2. Sleepers => PauseHasOwner
  BY AloneCounts DEF Sleepers, PauseHasOwner
<1>3. QED  BY InitTyped, StepTyped, <1>1, StepSleepers, <1>2, PTL DEF Spec

-----------------------------------------------------------------------------
(* The claims *)

\* No step leaves a claim behind with a coroutine that goes on to other work.
LEMMA StepClaims == TypeOK /\ Claims /\ [Next]_vars => Claims'
<1> SUFFICES ASSUME TypeOK, Claims, [Next]_vars, raises' = 0, lost' = 0,
                    NEW v \in Worker, pc'[v] \notin Claiming
             PROVE  ~claim'[v]
  BY DEF Claims
<1> USE DEF bounds, flags, runState, Claiming, Claims, TypeOK, Goto
<1>0. raises \in Nat /\ lost \in Nat
  OBVIOUS
<1>1. ASSUME NEW w \in Worker,
             \/ Leave(w) \/ NoSlot(w) \/ Reserve(w) \/ FetchIssue(w) \/ FetchNothing(w)
             \/ FetchRefused(w) \/ Wake(w) \/ PreflightPass(w) \/ BlockedSlot(w)
      PROVE  ~claim'[v]
  BY <1>1 DEF Leave, NoSlot, Reserve, FetchIssue, FetchNothing, FetchRefused, Wake,
              PreflightPass, BlockedSlot
<1>2. ASSUME NEW w \in Worker, PreflightBlocked(w) \/ ReleaseClaim(w)  PROVE ~claim'[v]
  BY <1>0, <1>2 DEF PreflightBlocked, ReleaseClaim, HandBack
<1>3. ASSUME NEW w \in Worker,
             \/ EvalDone(w) \/ Skipped(w) \/ Failed(w) \/ QuotaHit(w) \/ SubmitStored(w)
             \/ QuotaBack(w) \/ BreakerEnd(w)
      PROVE  ~claim'[v]
  BY <1>3 DEF EvalDone, Skipped, Failed, QuotaHit, SubmitStored, QuotaBack, BreakerEnd
<1>4. ASSUME NEW w \in Worker, PreflightRaises(w)  PROVE ~claim'[v]
  BY <1>0, <1>4 DEF PreflightRaises
<1>5. CASE Interrupt \/ SpaceKey \/ UNCHANGED vars
  BY <1>5 DEF Interrupt, SpaceKey, vars
<1>6. QED  BY <1>1, <1>2, <1>3, <1>4, <1>5 DEF Next, Step

\* Whatever was claimed and not stored is handed back, unless a /release or a
\* preflight fails.
THEOREM ClaimsReturned == Spec => []ClaimsHandedBack
<1>1. Init => Claims
  BY DEF Init, Claims
<1>2. Claims => ClaimsHandedBack
  BY DEF Claims, ClaimsHandedBack, Claiming
<1>3. QED  BY InitTyped, StepTyped, <1>1, StepClaims, <1>2, PTL DEF Spec

-----------------------------------------------------------------------------
(* The end of the run *)

\* Slots of evaluations: never more evaluations than --limit.
LEMMA EvaluatedBound ==
    ASSUME TypeOK, SlotsAddUp, Limit > 0, refusals = 0, raises = 0
    PROVE  evaluated <= Limit /\ (InFlight = {} => evaluated = reserved)
<1>1. reserved = evaluated + Cardinality(InFlight) /\ reserved <= Limit
  BY DEF SlotsAddUp
<1>2. Cardinality(InFlight) \in Nat
  BY InFlightFinite
<1>3. InFlight = {} => Cardinality(InFlight) = 0
  BY FS_EmptySet
<1>4. QED  BY <1>1, <1>2, <1>3, WorkerAssumption DEF TypeOK

\* release_and_maybe_stop never stops: no run is in single-issue mode.
LEMMA NeverStops == TypeOK /\ ReleaseAndMaybeStop => (shutdown' <=> shutdown)
BY DEF TypeOK, ReleaseAndMaybeStop, SingleIssue

\* A shutdown without Ctrl+C or refusal comes with the last evaluation of the
\* limit, and stays with it.
LEMMA StepShutdown ==
    ASSUME TypeOK, SlotsAddUp, SlotsAddUp', TypeOK', Ending, [Next]_vars
    PROVE  /\ refusals' > 0 => asked'
           /\ raises' = 0 /\ shutdown' /\ ~asked' => Limit > 0 /\ evaluated' = Limit
<1> USE DEF bounds, flags, runState
<1>0. /\ refusals > 0 => asked
      /\ raises = 0 /\ shutdown /\ ~asked => Limit > 0 /\ evaluated = Limit
      /\ refusals \in Nat /\ raises \in Nat /\ evaluated \in Nat
  BY DEF Ending, TypeOK
<1>1. ASSUME NEW w \in Worker, SubmitStored(w)
      PROVE  /\ refusals' > 0 => asked'
             /\ raises' = 0 /\ shutdown' /\ ~asked' => Limit > 0 /\ evaluated' = Limit
  <2>1. /\ refusals' = refusals /\ raises' = raises /\ asked' = asked
        /\ evaluated' = IF Limit > 0 THEN evaluated + 1 ELSE evaluated
        /\ shutdown' <=> shutdown \/ (Limit > 0 /\ evaluated' >= Limit)
    BY <1>1 DEF SubmitStored
  <2>2. Limit > 0 /\ refusals' = 0 /\ raises' = 0 => evaluated' <= Limit
    BY InFlightFinite, WorkerAssumption DEF SlotsAddUp, TypeOK
  <2>3. QED  BY <1>0, <2>1, <2>2, WorkerAssumption
<1>2. ASSUME NEW w \in Worker, FetchRefused(w) \/ PreflightRaises(w)
      PROVE  /\ refusals' > 0 => asked'
             /\ raises' = 0 /\ shutdown' /\ ~asked' => Limit > 0 /\ evaluated' = Limit
  BY <1>0, <1>2 DEF FetchRefused, PreflightRaises
<1>3. CASE Interrupt
  BY <1>3 DEF Interrupt
<1>4. ASSUME /\ refusals' = refusals /\ raises' = raises /\ evaluated' = evaluated
             /\ asked' = asked /\ (shutdown' <=> shutdown)
      PROVE  /\ refusals' > 0 => asked'
             /\ raises' = 0 /\ shutdown' /\ ~asked' => Limit > 0 /\ evaluated' = Limit
  BY <1>0, <1>4
<1>5. ASSUME NEW w \in Worker,
             \/ Leave(w) \/ NoSlot(w) \/ Reserve(w) \/ FetchIssue(w) \/ FetchNothing(w) \/ Wake(w)
             \/ PreflightPass(w) \/ PreflightBlocked(w) \/ BlockedSlot(w) \/ EvalDone(w)
      PROVE  /\ refusals' = refusals /\ raises' = raises /\ evaluated' = evaluated
             /\ asked' = asked /\ (shutdown' <=> shutdown)
  BY <1>5, NeverStops DEF Leave, NoSlot, Reserve, FetchIssue, FetchNothing, Wake, PreflightPass,
              PreflightBlocked, BlockedSlot, EvalDone
<1>6. ASSUME NEW w \in Worker,
             Skipped(w) \/ Failed(w) \/ QuotaHit(w) \/ QuotaBack(w) \/ BreakerEnd(w) \/ ReleaseClaim(w)
      PROVE  /\ refusals' = refusals /\ raises' = raises /\ evaluated' = evaluated
             /\ asked' = asked /\ (shutdown' <=> shutdown)
  BY <1>6, NeverStops DEF Skipped, Failed, QuotaHit, QuotaBack, BreakerEnd, ReleaseClaim
<1>7. CASE SpaceKey \/ UNCHANGED vars
  BY <1>4, <1>7 DEF SpaceKey, vars
<1>8. QED  BY <1>1, <1>2, <1>3, <1>4, <1>5, <1>6, <1>7 DEF Next, Step

\* The last coroutine leaves when the limit is reached.
LEMMA StepEnding ==
    ASSUME TypeOK, SlotsAddUp, SlotsAddUp', TypeOK', Ending, [Next]_vars
    PROVE  Ending'
<1> SUFFICES ASSUME Over', ~asked', raises' = 0  PROVE Limit > 0 /\ evaluated' = Limit
  BY StepShutdown DEF Ending, NoEarlyExit
<1> USE DEF bounds, flags, runState
<1>0. \A w \in Worker : pc'[w] \in {"returned", "cancelled"}
  BY DEF Over
<1>1. ASSUME NEW w \in Worker, Leave(w)  PROVE Limit > 0 /\ evaluated' = Limit
  BY <1>1, StepShutdown DEF Leave, MayLeave
<1>2. ASSUME NEW w \in Worker, NoSlot(w)  PROVE Limit > 0 /\ evaluated' = Limit
  <2>1. /\ Limit > 0 /\ reserved >= Limit /\ refusals = 0 /\ raises = 0
        /\ reserved' = reserved /\ evaluated' = evaluated
    BY <1>2 DEF NoSlot, Full, Ending, TypeOK
  <2>2. InFlight = {}
    BY <1>0, <1>2 DEF NoSlot, Goto, InFlight, Holding, TypeOK
  <2>3. reserved <= Limit /\ evaluated = reserved
    BY <2>1, <2>2, EvaluatedBound DEF SlotsAddUp
  <2>4. QED  BY <2>1, <2>3, WorkerAssumption DEF TypeOK
<1>3. ASSUME NEW w \in Worker, Step(w), ~Leave(w), ~NoSlot(w)  PROVE FALSE
  <2>1. PreflightRaises(w) => raises' # 0
    BY DEF PreflightRaises, TypeOK
  <2>2. ~PreflightRaises(w) => \E l \in Pc \ {"returned", "cancelled"} : Goto(w, l)
    BY <1>3 DEF Step, Reserve, FetchIssue, FetchNothing, FetchRefused, Wake, PreflightPass,
                PreflightBlocked, BlockedSlot, EvalDone, Skipped, Failed, QuotaHit, SubmitStored,
                QuotaBack, BreakerEnd, ReleaseClaim, Pc, Holding
  <2>3. QED  BY <1>0, <2>1, <2>2 DEF Goto, TypeOK
<1>4. CASE Interrupt
  BY <1>4 DEF Interrupt
<1>5. CASE SpaceKey \/ UNCHANGED vars
  BY <1>0, <1>5 DEF SpaceKey, vars, Ending, NoEarlyExit, Over
<1>6. QED  BY <1>1, <1>2, <1>3, <1>4, <1>5 DEF Next

\* A run that nobody stops ends with as many evaluations as it was to make.
THEOREM EndsAtLimit == Spec => []NoEarlyExit
<1>1. Init => Ending
  BY WorkerAssumption DEF Init, Ending, NoEarlyExit, Over
<1>2. TypeOK /\ SlotsAddUp /\ Ending /\ [Next]_vars => Ending'
  BY StepTyped, StepSlots, StepEnding
<1>3. Ending => NoEarlyExit
  BY DEF Ending
<1>4. QED  BY InitTyped, StepTyped, InitSlots, StepSlots, <1>1, <1>2, <1>3, PTL DEF Spec

-----------------------------------------------------------------------------
(* What the coroutines share *)

\* Whatever the coroutines do, the shared limit, slots and pauses stay in step.
THEOREM SharedStateSound == Spec => []SlotsAndPausesSound
<1>1. SlotsAddUp /\ NoEarlyExit /\ PauseHasOwner => SlotsAndPausesSound
  BY DEF SlotsAndPausesSound
<1>2. QED  BY SlotsCorrect, EndsAtLimit, PausesOwned, <1>1, PTL
=============================================================================
