----------------------------- MODULE MCEvaluation -----------------------------
(***************************************************************************)
(* The parts an evaluation goes through, one at a time: they share no      *)
(* state.  "part" says whose behaviour this one is.                        *)
(***************************************************************************)
EXTENDS ToolLoop, AcpClient, GitReader, Mirrors

VARIABLE part

vars == <<part, loopVars, acpVars, readerVars, mirrorVars>>

Init ==
    /\ part \in {"loop", "acp", "reader", "mirror"}
    /\ LoopInit /\ AcpInit /\ ReaderInit /\ MirrorInit
    /\ dir = "bare" => part = "mirror"

Next ==
    /\ UNCHANGED part
    /\ \/ part = "loop" /\ LoopNext /\ UNCHANGED <<acpVars, readerVars, mirrorVars>>
       \/ part = "acp" /\ AcpNext /\ UNCHANGED <<loopVars, readerVars, mirrorVars>>
       \/ part = "reader" /\ ReaderNext /\ UNCHANGED <<loopVars, acpVars, mirrorVars>>
       \/ part = "mirror" /\ MirrorNext /\ UNCHANGED <<loopVars, acpVars, readerVars>>

\* The fairness of each part, in the behaviours that are its own.
Spec ==
    /\ Init /\ [][Next]_vars
    /\ \A c \in Coroutine : WF_loopVars(part = "loop" /\ LoopStep(c))
    /\ \A c \in Caller : WF_acpVars(part = "acp" /\ AcpStep(c))
    /\ WF_acpVars(part = "acp" /\ Close)
    /\ \A t \in Task : /\ WF_readerVars(part = "reader" /\ GitStep(t))
                       /\ WF_readerVars(part = "reader" /\ EdgeStep(t))
                       /\ \A s \in Streams : WF_readerVars(part = "reader" /\ DrainStep(t, s))
    /\ \A s \in Syncer : WF_mirrorVars(part = "mirror" /\ SyncStep(s))

\* The type invariants of the parts.
TypeOK == LoopTypeOK /\ AcpTypeOK /\ ReaderTypeOK /\ MirrorTypeOK

\* The safety invariants of the parts: the token budget and the bill of an
\* evaluation (evaluator.py), no request before the handshake (acp_client.py),
\* and reads that are bounded in number and size (reader.py).
SafeEvaluation == BudgetAndBill /\ HandshakeFirst /\ BoundedReads

\* Nothing an evaluation waits for keeps it for ever: evaluate() ends, what
\* complete() and close() of the ACP client want they get, a read of a mirror
\* ends.
EverythingReturns ==
    /\ EvaluationsEnd
    /\ CallsReturn
    /\ part = "reader" => ReadsEnd

\* sync_mirror repairs whatever it finds, see Mirrors.
MirrorsHealed == part = "mirror" => EventuallyHealed
=============================================================================
