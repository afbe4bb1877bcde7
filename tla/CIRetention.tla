----------------------------- MODULE CIRetention -----------------------------
(***************************************************************************)
(* What becomes of recorded CI failures: parse_log_tail and the collector  *)
(* find signatures in them, CIRepository.search counts them in the live    *)
(* catalogue, and run_ci_gc folds them into daily counts, deletes them     *)
(* when they are old, and later deletes the runs.  Runs are recorded here  *)
(* one by one, up to Delay days late; CICollector says which.              *)
(***************************************************************************)
EXTENDS Integers, FiniteSets

CONSTANTS
    Attempts,      \* the attempts of runs: pairs of a run and a number
    Trunk,         \* the runs whose branch class is "main"
    Workflow,      \* Workflow[r]: workflow_name of run r
    Retention,     \* DEFAULT_DETAIL_RETENTION_DAYS, and _CATALOG_LOOKBACK_DAYS
    RunRetention,  \* DEFAULT_RUN_RETENTION_DAYS
    Delay,         \* _MAX_LOOKBACK_DAYS
    Shapes,        \* bound: jobs, by the parsers their name hints at, those that find
                   \* something in their log, and their annotations
    LastDate        \* bound

LogKinds == {"spread", "pytest", "go", "linter"}

ASSUME CIRetentionAssumption ==
    /\ IsFiniteSet(Attempts) /\ \A x \in Attempts : x[2] \in Nat
    /\ \A f \in Shapes : f.hints \subseteq LogKinds /\ f.log \subseteq LogKinds
    /\ Delay \in Nat /\ Retention \in Nat /\ RunRetention \in Nat
    /\ Delay < Retention /\ Retention < RunRetention
    /\ LastDate \in Nat

VARIABLES
    today,
    runs,     \* ci_workflow_runs, by run and attempt
    details,  \* ci_job_failures and their ci_test_failures, likewise
    daily     \* ci_failure_daily_counts

retentionVars == <<today, runs, details, daily>>

Missing == [outcome |-> "none", began |-> -1]
NoDetail == [at |-> -1, found |-> {}]

\* branch_class_for: by event and branch; each run has its class.
Class(r) == IF r \in Trunk THEN "main" ELSE "pr"
Classes == {"main", "pr"}

RetentionInit ==
    /\ today = 0
    /\ runs = [x \in Attempts |-> Missing]
    /\ details = [x \in Attempts |-> NoDetail]
    /\ daily = {}

-----------------------------------------------------------------------------
(* What is found in a job *)

\* parse_log_tail: the parsers the job's name hints at, all of them when they
\* find nothing, and the linters in any case.
ParseLog(hints, log) ==
    LET hinted == hints \cap log
    IN  (IF hinted = {} THEN log ELSE hinted) \cup (log \cap {"linter"})

\* _parse_job_failure: the log first if the name gives a hint, annotations
\* before the log if not; annotations that are no failures still are some.
Finds(hints, log, notes) ==
    IF hints # {} /\ ParseLog(hints, log) # {} THEN ParseLog(hints, log)
    ELSE IF notes = "failure" THEN {"annotation"}
    ELSE IF notes = "other" \/ hints # {} THEN {}
    ELSE ParseLog(hints, log)

Findings == {Finds(f.hints, f.log, f.notes) : f \in Shapes}

-----------------------------------------------------------------------------
(* Time, and the collector *)

NewDay ==
    /\ today < LastDate
    /\ today' = today + 1
    /\ UNCHANGED <<runs, details, daily>>

\* Attempts are recorded once they are over; an earlier one may be missed.
Record(x) ==
    /\ runs[x] = Missing
    /\ \A y \in Attempts : y[1] = x[1] /\ y[2] > x[2] => runs[y] = Missing
    /\ \E outcome \in {"success", "failure", "cancelled"}, began \in (today - Delay)..today :
          /\ began >= 0
          /\ \A y \in Attempts : y[1] = x[1] => runs[y].began <= began
          /\ runs' = [runs EXCEPT ![x] = [outcome |-> outcome, began |-> began]]
          /\ IF outcome = "success" THEN UNCHANGED details
             ELSE \E found \in Findings :
                     details' = [details EXCEPT ![x] = [at |-> today, found |-> found]]
    /\ UNCHANGED <<today, daily>>

-----------------------------------------------------------------------------
(* Counting *)

\* A job with nothing found counts under its own name.
Signs(x) ==
    IF details[x] = NoDetail THEN {}
    ELSE IF details[x].found = {} THEN {"job"} ELSE details[x].found

LatestOf(X) == {x \in X : \A y \in X : y[1] = x[1] => y[2] <= x[2]}
InClass(X, c) == {x \in X : Class(x[1]) = c}
Like(X, r) == {x \in InClass(X, Class(r)) : Workflow[x[1]] = Workflow[r]}
Failures(X) == {x \in X : runs[x].outcome = "failure"}

\* CIRepository.search: a group for each workflow, class and signature, here that
\* of run r, and its two counts.
InWindow == {x \in Attempts : runs[x] # Missing /\ runs[x].began >= today - Retention}
Occurrences(r, s) == {x \in Failures(Like(LatestOf(InWindow), r)) : s \in Signs(x)}

RunsOf(r) == Like(LatestOf(InWindow), r)

Outdated(days) == {x \in Attempts : runs[x] # Missing /\ runs[x].began <= today - days}
OnDay(X, d) == {x \in X : runs[x].began = d}

\* _rollup_daily_counts, of the runs that began before the cutoff: one row
\* for each signature that failed in a workflow on a day.
RowFor(X, x, s) ==
    LET alike == Like(OnDay(X, runs[x].began), x[1])
    IN  [day |-> runs[x].began, class |-> Class(x[1]), sign |-> s,
         fails |-> Cardinality({y \in Failures(alike) : s \in Signs(y)}),
         total |-> Cardinality(alike)]
Rollup(X) == UNION {{RowFor(X, x, s) : s \in Signs(x)} : x \in Failures(X)}

\* Mutant: the roll-up begins a day later than the pruning.
CountedLate == Rollup(LatestOf(Outdated(Retention + 1)))
Counted == Rollup(LatestOf(Outdated(Retention)))

KeyOf(d) == [day |-> d.day, class |-> d.class, sign |-> d.sign]

\* A row that is there already is overwritten, and so is that of another workflow,
\* which the key does not name: the last one stays.
LastOnes(new) ==
    {K \in SUBSET new :
        /\ \A n \in new : \E d \in K : KeyOf(d) = KeyOf(n)
        /\ \A d, e \in K : KeyOf(d) = KeyOf(e) => d = e}
Upserted(new) == {d \in daily : \A n \in new : KeyOf(d) # KeyOf(n)} \cup new

\* Details go when they are old, and with their runs.
Pruned(gone) ==
    [x \in Attempts |-> IF x \in gone \/ details[x].at <= today - Retention
                        THEN NoDetail ELSE details[x]]

CollectGarbage ==
    LET gone == Outdated(RunRetention)
    IN  /\ today >= Retention
        /\ \E last \in LastOnes(Counted) : daily' = Upserted(last)
        /\ details' = Pruned(gone)
        /\ runs' = [x \in Attempts |-> IF x \in gone THEN Missing ELSE runs[x]]
        /\ UNCHANGED today

-----------------------------------------------------------------------------
RetentionNext ==
    \/ NewDay
    \/ \E x \in Attempts : Record(x)
    \/ CollectGarbage

RetentionSpec == RetentionInit /\ [][RetentionNext]_retentionVars

-----------------------------------------------------------------------------
(* Properties *)

RetentionTypeOK ==
    /\ today \in 0..LastDate
    /\ \A x \in Attempts :
          /\ runs[x].began <= today
          /\ details[x] # NoDetail => runs[x].outcome \in {"failure", "cancelled"}
    /\ \A d, e \in daily : KeyOf(d) = KeyOf(e) => d = e

\* The detail of a failure the catalogue would count is only deleted with a
\* daily count that has it, and no daily count ever goes away.
PrunedIsCounted ==
    [][/\ \A x \in Attempts :
             x \in LatestOf(Outdated(Retention)) /\ runs[x].outcome = "failure"
                   /\ details[x] # NoDetail /\ details'[x] = NoDetail
                => \A s \in Signs(x) : \E d \in daily' :
                      d.day = runs[x].began /\ d.class = Class(x[1]) /\ d.sign = s
       /\ \A d \in daily : \E e \in daily' : KeyOf(d) = KeyOf(e)]_retentionVars

\* No failure rate, live or daily, exceeds 100 %, and no failed run with a
\* recorded job is missing from the catalogue: superseded attempts, branch classes,
\* workflows and unparsed jobs are treated alike on both sides of the fraction.
RatesAddUp ==
    /\ \A x \in Attempts, s \in LogKinds \cup {"annotation", "job"} :
          Cardinality(Occurrences(x[1], s)) <= Cardinality(RunsOf(x[1]))
    /\ \A x \in Failures(LatestOf(InWindow)) :
          details[x] # NoDetail =>
             \E s \in LogKinds \cup {"annotation", "job"} : x \in Occurrences(x[1], s)
    /\ \A d \in daily : 0 < d.fails /\ d.fails <= d.total
=============================================================================
