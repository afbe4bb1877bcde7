-------------------------- MODULE EvaluationStore --------------------------
(***************************************************************************)
(* What the evaluation queue promises to whoever reads evaluations: each   *)
(* issue has at most one current evaluation, an evaluation gets there only *)
(* through a request that was accepted while it described the issue as it  *)
(* was, and nothing but another evaluation or /clear takes it away.        *)
(* Workers, claims, leases, placeholders, retries, releases and deadlocks  *)
(* are not visible here: EvalQueue implements this module.                 *)
(***************************************************************************)
CONSTANTS
    Issue,      \* primary keys of the issues
    Slot,       \* submissions the server may be handling
    Content,    \* what an issue may contain, its state included
    Generation  \* values of evidence_generation

VARIABLES
    content,    \* content[i]: what issue i contains now, and its generation
    stored,     \* stored[i]: the evaluations of i that are kept, at most one
    accepted    \* accepted[r]: the evaluation request r will store, if any

storeVars == <<content, stored, accepted>>

Version == [hash : Content, gen : Generation]
Evaluation == [issue : Issue, of : Version]

StoreTypeOK ==
    /\ content \in [Issue -> Version]
    /\ stored \in [Issue -> SUBSET Version]
    /\ accepted \in [Slot -> SUBSET Evaluation]

StoreInit ==
    /\ content \in [Issue -> Version]
    /\ stored \in [Issue -> SUBSET Version]
    /\ \A i \in Issue : \A u, v \in stored[i] : u = v
    /\ accepted = [r \in Slot |-> {}]

\* The evaluation r brings is accepted, as an evaluation of what the issue
\* contains at this moment.
Accept(r, i) ==
    /\ accepted[r] = {}
    /\ accepted' = [accepted EXCEPT ![r] = {[issue |-> i, of |-> content[i]]}]
    /\ UNCHANGED <<content, stored>>

\* It replaces whatever was stored: the issue may have moved on meanwhile.
Store(r) ==
    \E e \in accepted[r] :
        /\ stored' = [stored EXCEPT ![e.issue] = {e.of}]
        /\ accepted' = [accepted EXCEPT ![r] = {}]
        /\ UNCHANGED content

Drop(r) ==
    /\ accepted' = [accepted EXCEPT ![r] = {}]
    /\ UNCHANGED <<content, stored>>

Change(i) ==
    /\ content'[i] \in Version
    /\ content' = [content EXCEPT ![i] = content'[i]]
    /\ UNCHANGED <<stored, accepted>>

Delete(i) ==
    /\ stored' = [stored EXCEPT ![i] = {}]
    /\ UNCHANGED <<content, accepted>>

StoreNext ==
    \/ \E r \in Slot : Store(r) \/ Drop(r) \/ \E i \in Issue : Accept(r, i)
    \/ \E i \in Issue : Change(i) \/ Delete(i)

StoreSpec == StoreInit /\ [][StoreNext]_storeVars
=============================================================================
