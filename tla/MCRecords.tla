------------------------------ MODULE MCRecords ------------------------------
(***************************************************************************)
(* What becomes of stored evaluations: their links and their retention,    *)
(* the list of issues that is ordered by them, the tokens one needs to     *)
(* submit them, and the scripts that fill columns of stored rows, one at a *)
(* time.  "part" says whose behaviour this one is.                         *)
(***************************************************************************)
EXTENDS EvalRecords, IssueList, EvalTokens, Backfills

CONSTANTS i1, i2, i3, i4

VARIABLE part

vars == <<part, recordVars, listVars, tokenVars, backfillVars>>

\* Two issues tie at the beginning, until one of them is evaluated again.
MCScores == [i \in {i1, i2, i3, i4} |-> CASE i = i1 -> 1 [] i = i3 -> 3 [] OTHER -> 2]

Init ==
    /\ part \in {"records", "list", "tokens", "scripts"}
    /\ RecordsInit /\ ListInit /\ TokensInit /\ BackfillInit
    /\ part # "scripts" => script = "hash" /\ \A i \in Id : table[i].state = "open"

Next ==
    /\ UNCHANGED part
    /\ \/ part = "records" /\ RecordsNext /\ UNCHANGED <<listVars, tokenVars, backfillVars>>
       \/ part = "list" /\ ListNext /\ UNCHANGED <<recordVars, tokenVars, backfillVars>>
       \/ part = "tokens" /\ TokensNext /\ UNCHANGED <<recordVars, listVars, backfillVars>>
       \/ part = "scripts" /\ BackfillNext /\ UNCHANGED <<recordVars, listVars, tokenVars>>

\* The fairness of the records, in the behaviours that are theirs.
Spec ==
    /\ Init /\ [][Next]_vars
    /\ \A s \in Server : WF_recordVars(part = "records" /\ CheckCap(s))
    /\ WF_recordVars(part = "records" /\ ReadLinks)
    /\ WF_recordVars(part = "records" /\ WriteLinks)
    /\ WF_recordVars(part = "records" /\ GcStep)

\* The type invariants of the parts.
TypeOK == RecordsTypeOK /\ ListTypeOK /\ TokensTypeOK /\ BackfillTypeOK

\* No current evaluation is lost to gc.py, no result that reaches the daily
\* cap goes unnoticed by _maybe_trip_daily_spend_cap, and a backfill script
\* leaves no row out and none with the hash or the metadata of another time.
RecordsKept == CurrentSurvives /\ CapTrips /\ BackfillsSound
=============================================================================
