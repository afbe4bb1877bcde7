------------------------------ MODULE MCHistory ------------------------------
(***************************************************************************)
(* The two histories the dashboard keeps by itself, one at a time: daily   *)
(* snapshots of issues and daily counts of CI failures.  "part" says whose *)
(* behaviour this one is.                                                  *)
(***************************************************************************)
EXTENDS Snapshots, CIRetention

VARIABLE part

vars == <<part, snapshotVars, retentionVars>>

\* Run "a" is run again once; run "b" is of another workflow on the same branch, so
\* that their daily counts meet.
MCAttempts == {<<"a", 1>>, <<"a", 2>>, <<"b", 1>>}
MCWorkflow == [r \in {"a", "b"} |-> IF r = "a" THEN "tests" ELSE "nightly"]

\* The jobs are named after spread; their log shows a failed spread task or
\* nothing that a parser knows.
MCShapes == {[hints |-> {"spread"}, log |-> l, notes |-> "none"] : l \in {{}, {"spread"}}}

Init ==
    /\ part \in {"snapshots", "ci"}
    /\ SnapshotInit /\ RetentionInit

Next ==
    /\ UNCHANGED part
    /\ \/ part = "snapshots" /\ SnapshotNext /\ UNCHANGED retentionVars
       \/ part = "ci" /\ RetentionNext /\ UNCHANGED snapshotVars

Spec == Init /\ [][Next]_vars

\* The type invariants of the parts.
TypeOK == SnapshotTypeOK /\ RetentionTypeOK

\* Snapshots of past days are exact and do not depend on who computed them
\* (collectors/snapshots.py, scripts/backfill_snapshots.py), and the rates of
\* CI failures are rates (repositories/ci_repository.py, services/ci_gc.py).
HistorySound == HistoryExact /\ SameAge /\ RatesAddUp
=============================================================================
