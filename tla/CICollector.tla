----------------------------- MODULE CICollector -----------------------------
(***************************************************************************)
(* CIFailureCollector: every pass copies recent workflow runs of a project *)
(* from GitHub and records the failed job of those that failed.  There is  *)
(* no watermark: where a pass begins is derived from the stored runs that  *)
(* may still change.  The clock counts days.                               *)
(*                                                                         *)
(* A run has one job.  Runs of forks, which are skipped, are left out; what*)
(* is found in a log is in CIRetention.                                    *)
(***************************************************************************)
EXTENDS Integers, FiniteSetsExt

CONSTANTS
    Margin,        \* the day _resolve_since steps back
    Grace,         \* _RERUN_GRACE_DAYS
    Lookback,      \* _MAX_LOOKBACK_DAYS
    MaxRuns, MaxReruns, MaxPasses, MaxDay  \* bounds

ASSUME CICollectorAssumption ==
    /\ Margin \in Nat /\ Grace \in Nat /\ Lookback \in Nat
    /\ MaxRuns \in Nat /\ MaxReruns \in Nat /\ MaxPasses \in Nat /\ MaxDay \in Nat

VARIABLES
    day,
    hub,      \* hub[r]: run r at GitHub
    rows,     \* ci_workflow_runs, by run and attempt
    jobs,     \* ci_job_failures, by run and attempt: "none", "parsed", "bare"
    pass,     \* the pass under way
    passes,   \* passes begun so far
    last      \* history: the day of the last pass that stored anything

ciVars == <<day, hub, rows, jobs, pass, passes, last>>

Run == 1..MaxRuns
Attempt == Run \X (1..MaxReruns + 1)
NoRun == [created |-> -1, attempt |-> 0, state |-> "none", updated |-> -1]
NoRow == [state |-> "none", done |-> -1, fetched |-> -1]
NoPass == [on |-> FALSE, since |-> -1, now |-> -1]
Pushed == {r \in Run : hub[r] # NoRun}

CIInit ==
    /\ day = 0
    /\ hub = [r \in Run |-> NoRun]
    /\ rows = [x \in Attempt |-> NoRow]
    /\ jobs = [x \in Attempt |-> "none"]
    /\ pass = NoPass /\ passes = 0
    /\ last = -Lookback

-----------------------------------------------------------------------------
(* GitHub, and time *)

NextDay ==
    /\ day < MaxDay
    /\ day' = day + 1
    /\ UNCHANGED <<hub, rows, jobs, pass, passes, last>>

Push(r) ==
    /\ r \notin Pushed /\ \A q \in Run : q < r => q \in Pushed
    /\ hub' = [hub EXCEPT ![r] = [created |-> day, attempt |-> 1, state |-> "running",
                                  updated |-> day]]
    /\ UNCHANGED <<day, rows, jobs, pass, passes, last>>

Complete(r) ==
    /\ hub[r].state = "running"
    /\ \E s \in {"success", "failure"} :
          hub' = [hub EXCEPT ![r].state = s, ![r].updated = day]
    /\ UNCHANGED <<day, rows, jobs, pass, passes, last>>

\* A rerun keeps its number and its date of creation; the listing shows the
\* last attempt only.
Rerun(r) ==
    /\ hub[r].state \in {"success", "failure"}
    /\ hub[r].attempt <= MaxReruns
    /\ hub' = [hub EXCEPT ![r].attempt = @ + 1, ![r].state = "running", ![r].updated = day]
    /\ UNCHANGED <<day, rows, jobs, pass, passes, last>>

-----------------------------------------------------------------------------
(* A pass *)

Eligible == {x \in Attempt : \/ rows[x].state = "running"
                             \/ rows[x] # NoRow /\ rows[x].done >= day - Grace}

OldestFetch == Min({rows[x].fetched : x \in Eligible})

OldestItself == OldestFetch                               \* mutant: no margin
Since == OldestFetch - Margin

Floor == IF Eligible = {} THEN day - Lookback ELSE Max({Since, day - Lookback})

BeginPass ==
    /\ ~pass.on /\ passes < MaxPasses
    /\ passes' = passes + 1
    /\ pass' = [on |-> TRUE, since |-> Floor, now |-> day]
    /\ UNCHANGED <<day, hub, rows, jobs, last>>

Listed == {r \in Pushed : hub[r].created >= pass.since}
Current(r) == <<r, hub[r].attempt>>
RowNow(r) == [state |-> hub[r].state,
              done |-> IF hub[r].state = "running" THEN -1 ELSE hub[r].updated,
              fetched |-> pass.now]

\* The runs in R are upserted; a job that is recorded already is left alone,
\* however little was found in its log.
StoreRuns(R) ==
    rows' = [x \in Attempt |-> IF x[1] \in R /\ x = Current(x[1]) THEN RowNow(x[1]) ELSE rows[x]]
AnyConclusion(R) == {Current(r) : r \in {q \in R : jobs[Current(q)] = "none"}}  \* mutant
NewJobs(R) == {Current(r) : r \in {q \in R : hub[q].state = "failure" /\ jobs[Current(q)] = "none"}}
StoreJobs(parsed, bare) ==
    jobs' = [x \in Attempt |-> IF x \in parsed THEN "parsed" ELSE IF x \in bare THEN "bare" ELSE jobs[x]]

Commit ==
    /\ pass' = NoPass /\ last' = pass.now
    /\ UNCHANGED <<day, hub, passes>>

EndPass ==
    /\ pass.on
    /\ StoreRuns(Listed)
    /\ StoreJobs(NewJobs(Listed), {})
    /\ Commit

\* An error at run r, newest first, that is no rate limit: what is staged is
\* committed with whatever the project's session does next.  A log that could
\* not be fetched leaves its job behind, flushed before the download.
TornPass(r) ==
    LET newer == {q \in Listed : q > r}
    IN  /\ pass.on /\ r \in Listed
        /\ StoreRuns(newer \cup {r})
        /\ \/ StoreJobs(NewJobs(newer), {})
           \/ StoreJobs(NewJobs(newer), NewJobs({r}))
        /\ Commit

\* A rate limit, or a crash, ends the session.
LostPass ==
    /\ pass.on
    /\ pass' = NoPass
    /\ UNCHANGED <<day, hub, rows, jobs, passes, last>>

-----------------------------------------------------------------------------
CINext ==
    \/ NextDay
    \/ \E r \in Run : Push(r) \/ Complete(r) \/ Rerun(r) \/ TornPass(r)
    \/ BeginPass \/ EndPass \/ LostPass

CISpec == CIInit /\ [][CINext]_ciVars

-----------------------------------------------------------------------------
(* Properties *)

CITypeOK ==
    /\ day \in 0..MaxDay /\ last \in -Lookback..day
    /\ \A x \in Attempt : rows[x] # NoRow => rows[x].fetched <= last /\ rows[x].done <= day
    /\ \A x \in Attempt : jobs[x] # "none" => rows[x].state = "failure"

\* Whatever failed or was cut short before, a pass that ends has stored the
\* current state of every run that began later than a day before the last
\* pass that stored anything, and a job for each that has failed: what was
\* running then is not lost, although the floor is derived from the rows.
RecentRunsStored ==
    [][EndPass => \A r \in Pushed :
          hub[r].created >= Max({last - Margin, pass.now - Lookback})
              => /\ rows'[Current(r)] = RowNow(r)
                 /\ hub[r].state = "failure" => jobs'[Current(r)] # "none"]_ciVars
=============================================================================
