----------------------------- MODULE AcpClient -----------------------------
(***************************************************************************)
(* CopilotACPClient of craft_dashboard/llm/acp_client.py: the coroutines   *)
(* of a worker share one ACP subprocess.  complete() starts it when it is  *)
(* not running, under the client's lock, and shakes hands with it; then it *)
(* opens a session, sets two options and prompts, each a request answered  *)
(* by the reader task or given up after a timeout.                         *)
(*                                                                         *)
(* asyncio.Lock is not reentrant: who waits for it while holding it waits  *)
(* for ever.                                                               *)
(***************************************************************************)
EXTENDS Integers

CONSTANTS
    Caller,        \* coroutines that call complete()
    MaxCallsEach,  \* bound: calls of each
    MaxProcs       \* bound: subprocesses started

VARIABLES
    lock,     \* the holder of _lock, or Nobody
    proc,     \* _proc: "none", "running", "dead"
    procs,    \* subprocesses started so far: requests know theirs
    greeted,  \* the running subprocess has answered initialize
    call,     \* call[c]: where complete() of caller c stands
    calls,    \* calls[c]: calls made by c
    closing,  \* close() at the end of the run: "no", "wanted", "done"
    refused,  \* history: an initialize was answered with an error
    mute      \* history: the handshake of this subprocess timed out

acpVars == <<lock, proc, procs, greeted, call, calls, closing, refused, mute>>

Nobody == "nobody"

ASSUME AcpAssumption ==
    MaxCallsEach \in Nat /\ MaxProcs \in Nat /\ Nobody \notin Caller

Requests == 1..4      \* session/new, the model, allow_all, session/prompt

\* "of" is the subprocess a request was written to.
Out == [at |-> "out", request |-> 0, of |-> 0]
At(where) == [Out EXCEPT !.at = where]

AcpInit ==
    /\ lock = Nobody /\ proc = "none" /\ procs = 0
    /\ greeted = FALSE
    /\ call = [c \in Caller |-> Out]
    /\ calls = [c \in Caller |-> 0]
    /\ closing = "no" /\ refused = FALSE /\ mute = FALSE

-----------------------------------------------------------------------------
Call(c) ==
    /\ call[c].at = "out" /\ closing = "no"
    /\ calls[c] < MaxCallsEach
    /\ calls' = [calls EXCEPT ![c] = @ + 1]
    /\ call' = [call EXCEPT ![c] = At("ensure")]
    /\ UNCHANGED <<lock, proc, procs, greeted, closing, refused, mute>>

\* Every request takes the lock for its number, behind whoever waits for it;
\* then it is written to the subprocess there is, without one it raises.
Sending(k) == [At("sending") EXCEPT !.request = k]
Written(k) ==
    IF proc = "none" THEN Out ELSE [at |-> "waiting", request |-> k, of |-> procs]

\* A running subprocess is taken as it is, whether or not it was ever greeted.
EnsureRunning(c) ==
    /\ call[c].at = "ensure" /\ lock = Nobody
    /\ proc = "running"
    /\ call' = [call EXCEPT ![c] = Sending(1)]
    /\ UNCHANGED <<lock, proc, procs, greeted, calls, closing, refused, mute>>

Spawn(c) ==
    /\ call[c].at = "ensure" /\ lock = Nobody
    /\ proc # "running"
    /\ \/ /\ procs < MaxProcs
          /\ proc' = "running" /\ procs' = procs + 1 /\ greeted' = FALSE
          /\ lock' = c /\ mute' = FALSE
          /\ call' = [call EXCEPT ![c] = [At("handshake") EXCEPT !.of = procs + 1]]
       \/ /\ call' = [call EXCEPT ![c] = Out]      \* no gh, or the spawn failed
          /\ UNCHANGED <<lock, proc, procs, greeted, mute>>
    /\ UNCHANGED <<calls, closing, refused>>

Greeted(c) ==
    /\ call[c].at = "handshake" /\ proc = "running"
    /\ greeted' = TRUE
    /\ lock' = Nobody
    /\ call' = [call EXCEPT ![c] = Sending(1)]
    /\ UNCHANGED <<proc, procs, calls, closing, refused, mute>>

\* The answer is an error: close() is awaited, which wants the lock.
Refused(c) ==
    /\ call[c].at = "handshake" /\ proc = "running"
    /\ refused' = TRUE
    /\ call' = [call EXCEPT ![c] = At("selfClose")]
    /\ UNCHANGED <<lock, proc, procs, greeted, calls, closing, mute>>

\* wait_for gives up: the lock goes back, the subprocess stays.
LockKept == UNCHANGED lock                         \* mutant
LockBack == lock' = Nobody
HandshakeTimeout(c) ==
    /\ call[c].at = "handshake"
    /\ mute' = TRUE
    /\ LockBack
    /\ call' = [call EXCEPT ![c] = Out]
    /\ UNCHANGED <<proc, procs, greeted, calls, closing, refused>>

-----------------------------------------------------------------------------
MayWrite(c) == call[c].at = "sending" /\ lock = Nobody

NextRequest(c) ==
    /\ MayWrite(c)
    /\ call' = [call EXCEPT ![c] = Written(@.request)]
    /\ UNCHANGED <<lock, proc, procs, greeted, calls, closing, refused, mute>>

\* Errors of the options are not looked at, those of the session and of the
\* prompt end the call; the last answer completes it.
Answered(c) ==
    LET k == call[c].request
    IN  /\ call[c].at = "waiting"
        /\ proc = "running" /\ call[c].of = procs
        /\ \/ k < 4 /\ call' = [call EXCEPT ![c] = Sending(k + 1)]
           \/ k \in {1, 4} /\ call' = [call EXCEPT ![c] = Out]
        /\ UNCHANGED <<lock, proc, procs, greeted, calls, closing, refused, mute>>

\* Nothing else wakes who waits for a subprocess that has died.
RequestTimeout(c) ==
    /\ call[c].at = "waiting"
    /\ call' = [call EXCEPT ![c] = Out]
    /\ UNCHANGED <<lock, proc, procs, greeted, calls, closing, refused, mute>>

Die ==
    /\ proc = "running"
    /\ proc' = "dead"
    /\ UNCHANGED <<lock, procs, greeted, call, calls, closing, refused, mute>>

EndRun ==
    /\ closing = "no"
    /\ closing' = "wanted"
    /\ UNCHANGED <<lock, proc, procs, greeted, call, calls, refused, mute>>

\* The subprocess is terminated and every pending future cancelled.
Close ==
    /\ closing = "wanted" /\ lock = Nobody
    /\ closing' = "done"
    /\ proc' = "none" /\ greeted' = FALSE
    /\ call' = [c \in Caller |-> IF call[c].at = "waiting" THEN Out ELSE call[c]]
    /\ UNCHANGED <<lock, procs, calls, refused, mute>>

-----------------------------------------------------------------------------
\* The waits of a caller end: for the lock, when it is free; for an answer.
AcpStep(c) ==
    \/ EnsureRunning(c) \/ Spawn(c) \/ NextRequest(c)
    \/ Greeted(c) \/ Refused(c) \/ HandshakeTimeout(c)
    \/ Answered(c) \/ RequestTimeout(c)

AcpNext ==
    \/ \E c \in Caller :
          \/ Call(c) \/ EnsureRunning(c) \/ Spawn(c) \/ Greeted(c) \/ Refused(c)
          \/ HandshakeTimeout(c) \/ NextRequest(c) \/ Answered(c) \/ RequestTimeout(c)
    \/ Die \/ EndRun \/ Close

AcpSpec == AcpInit /\ [][AcpNext]_acpVars

\* The event loop runs what can run; wait_for ends every wait.
AcpFairness == (\A c \in Caller : WF_acpVars(AcpStep(c))) /\ WF_acpVars(Close)

-----------------------------------------------------------------------------
(* Properties *)

AcpTypeOK ==
    /\ lock \in Caller \cup {Nobody}
    /\ proc \in {"none", "running", "dead"} /\ procs \in 0..MaxProcs
    /\ greeted \in BOOLEAN /\ refused \in BOOLEAN /\ mute \in BOOLEAN
    /\ call \in [Caller -> [at : {"out", "ensure", "handshake", "sending", "waiting", "selfClose"},
                            request : 0..4, of : 0..MaxProcs]]
    /\ calls \in [Caller -> 0..MaxCallsEach]
    /\ closing \in {"no", "wanted", "done"}

\* No request reaches a subprocess before its handshake, however many callers
\* start at once and however often the subprocess dies, unless that
\* handshake has timed out: the half-started subprocess is then taken for a good one.
HandshakeFirst ==
    \A c \in Caller :
        call[c].at = "waiting" /\ call[c].of = procs /\ proc = "running" => greeted \/ mute

\* Callers get an answer or an exception, and close() at the end of the run
\* returns, unless an initialize was refused: the caller that is told so
\* closes the client under the client's own lock and never comes back.
CallsReturn ==
    /\ \A c \in Caller : call[c].at # "out" ~> call[c].at = "out" \/ refused
    /\ closing = "wanted" ~> closing = "done" \/ refused
=============================================================================
