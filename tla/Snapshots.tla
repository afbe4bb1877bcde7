------------------------------ MODULE Snapshots ------------------------------
(***************************************************************************)
(* The daily snapshots of one project.  A collection run stores what the   *)
(* issues are, then the snapshot of today from the state of the rows, then *)
(* those of the days that have none from the dates of the rows.  The       *)
(* script backfill_snapshots.py computes every day from the dates, with an *)
(* algorithm of its own.                                                   *)
(*                                                                         *)
(* Time goes by half days.  A snapshot keeps the sets its counts are the   *)
(* sizes of; the splits by type and author are subsets of these, and each  *)
(* median is one of the same shape.                                        *)
(***************************************************************************)
EXTENDS Integers, FiniteSets

CONSTANTS
    Issue,
    Undated,       \* issues that are closed without a date
    LastDay, MaxRuns  \* bounds

ASSUME SnapshotAssumption ==
    /\ IsFiniteSet(Issue) /\ Undated \subseteq Issue /\ LastDay \in Nat /\ MaxRuns \in Nat

VARIABLES
    now,
    issues,        \* issues[i]: as GitHub or Launchpad has it
    reopened,      \* history: issues that were closed and opened again
    rows,          \* rows[i]: the issue row
    readAt,        \* history: when the rows were read
    run,           \* the collection run under way
    snaps,         \* snapshots, by date
    starts           \* starts of the driver and of the script so far

snapshotVars == <<now, issues, reopened, rows, readAt, run, snaps, starts>>

Never == -1
Day(t) == t \div 2
DayBefore(d) == 2 * (d - 1)                           \* mutant
Midnight(d) == 2 * d
Today == Day(now)

Absent == [opened |-> Never, closed |-> Never, state |-> "absent"]

SnapshotInit ==
    /\ now = 0
    /\ issues = [i \in Issue |-> Absent] /\ reopened = {}
    /\ rows = issues /\ readAt = 0
    /\ run = "idle"
    /\ snaps = <<>> /\ starts = 0

-----------------------------------------------------------------------------
(* The issues, and time *)

Pass ==
    /\ now < 2 * LastDay /\ now' = now + 1
    /\ UNCHANGED <<issues, reopened, rows, readAt, run, snaps, starts>>

Opened(i) ==
    /\ issues[i].state = "absent"
    /\ issues' = [issues EXCEPT ![i] = [opened |-> now, closed |-> Never, state |-> "open"]]
    /\ UNCHANGED <<now, reopened, rows, readAt, run, snaps, starts>>

Closed(i) ==
    /\ issues[i].state = "open"
    /\ issues' = [issues EXCEPT ![i].state = "closed",
                                ![i].closed = IF i \in Undated THEN Never ELSE now]
    /\ UNCHANGED <<now, reopened, rows, readAt, run, snaps, starts>>

Reopened(i) ==
    /\ issues[i].state = "closed" /\ i \notin reopened
    /\ issues' = [issues EXCEPT ![i].state = "open", ![i].closed = Never]
    /\ reopened' = reopened \cup {i}
    /\ UNCHANGED <<now, rows, readAt, run, snaps, starts>>

-----------------------------------------------------------------------------
(* Counting *)

\* compute_snapshot_counts: the state as it is, and what was closed that day;
\* a missing closed_at counts as that day.
OpenNow(r) == {i \in DOMAIN r : r[i].state = "open"}
ClosedOn(r, d) ==
    {i \in DOMAIN r : r[i].state = "closed" /\ (r[i].closed = Never \/ Day(r[i].closed) = d)}

\* _filter_issues_for_date: the rows as they were on a past day.
AsOf(r, d) ==
    LET was == {i \in DOMAIN r : /\ r[i].state # "absent" /\ Day(r[i].opened) <= d
                                 /\ r[i].closed = Never \/ Day(r[i].closed) >= d}
    IN  [i \in was |-> IF r[i].closed = Never \/ Day(r[i].closed) > d
                       THEN [r[i] EXCEPT !.state = "open"] ELSE r[i]]

\* The k-th of the sorted values.
KthOf(S, value, k) ==
    CHOOSE v \in {value[i] : i \in S} :
       /\ Cardinality({i \in S : value[i] < v}) < k
       /\ Cardinality({i \in S : value[i] <= v}) >= k

\* The middle one of the values, twice, or the sum of the middle two.
TwiceMedian(S, value) ==
    LET n == Cardinality(S)
    IN  KthOf(S, value, (n + 1) \div 2) + KthOf(S, value, n \div 2 + 1)

\* _get_median_age: days from the median time of creation to midnight.
AgeAtMidnight(r, S, d) ==
    LET created == [i \in S |-> r[i].opened]
    IN  IF S = {} THEN 0 ELSE (2 * Midnight(d) - TwiceMedian(S, created)) \div 4

LiveSnapshot(r, d, t) ==
    [open |-> OpenNow(r), closed |-> ClosedOn(r, d),
     age |-> AgeAtMidnight(r, OpenNow(r), d), read |-> t]

\* Mutant: a past day is counted as today is.
CountedAsToday(r, d, t) == LiveSnapshot(r, d, t)
PastSnapshot(r, d, t) == LiveSnapshot(AsOf(r, d), d, t)

\* compute_snapshot_for_date of the script
OpenOn(r, d) ==
    {i \in Issue : /\ r[i].state # "absent" /\ Day(r[i].opened) <= d
                   /\ r[i].closed = Never \/ Day(r[i].closed) > d}
ScriptClosed(r, d) ==
    {i \in Issue : r[i].state # "absent" /\ r[i].closed # Never /\ Day(r[i].closed) = d}

ScriptAge(r, S, d) ==
    LET age == [i \in S |-> d - Day(r[i].opened)]
    IN  IF S = {} THEN 0 ELSE TwiceMedian(S, age) \div 2

ScriptSnapshot(r, d, t) ==
    [open |-> OpenOn(r, d), closed |-> ScriptClosed(r, d),
     age |-> ScriptAge(r, OpenOn(r, d), d), read |-> t]

-----------------------------------------------------------------------------
(* The collection run *)

\* The issues of the project are fetched and committed.
Collect ==
    /\ run = "idle" /\ starts < MaxRuns
    /\ starts' = starts + 1
    /\ rows' = issues /\ readAt' = now
    /\ run' = "snapshot"
    /\ UNCHANGED <<now, issues, reopened, snaps>>

\* generate_snapshot: today, replaced when it is there.
TakeSnapshot ==
    /\ run = "snapshot"
    /\ snaps' = [d \in DOMAIN snaps \cup {Today} |->
                   IF d = Today THEN LiveSnapshot(rows, d, readAt) ELSE snaps[d]]
    /\ run' = "backfill"
    /\ UNCHANGED <<now, issues, reopened, rows, readAt, starts>>

Between(first, last) == (first + 1)..(last - 1)

\* backfill_missing_snapshots: one commit, of the days after the last one.
BackfillDays ==
    /\ run = "backfill"
    /\ LET before == {d \in DOMAIN snaps : d < Today}
           last == CHOOSE d \in before : \A e \in before : e <= d
           missing == IF before = {} THEN {} ELSE Between(last, Today)
       IN  snaps' = [d \in DOMAIN snaps \cup missing |->
                       IF d \in missing THEN PastSnapshot(rows, d, readAt) ELSE snaps[d]]
    /\ run' = "idle"
    /\ UNCHANGED <<now, issues, reopened, rows, readAt, starts>>

FailRun ==
    /\ run # "idle" /\ run' = "idle"
    /\ UNCHANGED <<now, issues, reopened, rows, readAt, snaps, starts>>

-----------------------------------------------------------------------------
(* The script *)

\* From the first issue to today, a batch of days at a time; it may be killed
\* between two batches.
RunScript ==
    LET stored == {i \in Issue : rows[i].state # "absent"}
    IN  /\ starts < MaxRuns /\ starts' = starts + 1
        /\ \E i \in stored, last \in 0..Today :
              LET first == Day(rows[i].opened) IN
              /\ \A j \in stored : first <= Day(rows[j].opened)
              /\ snaps' = [d \in DOMAIN snaps \cup first..last |->
                             IF d \in first..last THEN ScriptSnapshot(rows, d, readAt) ELSE snaps[d]]
              /\ UNCHANGED <<now, issues, reopened, rows, readAt, run>>

-----------------------------------------------------------------------------
SnapshotNext ==
    \/ Pass \/ \E i \in Issue : Opened(i) \/ Closed(i) \/ Reopened(i)
    \/ Collect \/ TakeSnapshot \/ BackfillDays \/ FailRun
    \/ RunScript

SnapshotSpec == SnapshotInit /\ [][SnapshotNext]_snapshotVars

-----------------------------------------------------------------------------
(* Properties *)

SnapshotTypeOK ==
    /\ DOMAIN snaps \subseteq 0..LastDay /\ run \in {"idle", "snapshot", "backfill"}
    /\ \A d \in DOMAIN snaps :
          /\ snaps[d].open \subseteq Issue /\ snaps[d].closed \subseteq Issue
          /\ snaps[d].age >= -1 /\ snaps[d].read <= now

\* History is accurate: once a day is over, a snapshot made of rows read after
\* it has as open and as closed exactly the issues that were, whichever of
\* the three ways it was made; issues that were reopened since or are closed
\* without a date aside.  A live snapshot is made of rows read on its day: of it
\* this says nothing until it has been made up again.
HistoryExact ==
    \A d \in DOMAIN snaps : snaps[d].read >= Midnight(d + 1) =>
       \A i \in Issue \ (reopened \cup Undated) :
          LET was == issues[i] IN
          /\ i \in snaps[d].open <=> /\ was.state # "absent" /\ Day(was.opened) <= d
                                     /\ was.closed = Never \/ Day(was.closed) > d
          /\ i \in snaps[d].closed <=> was.closed # Never /\ Day(was.closed) = d

\* The runs and the script count the same: the median age of a day that both
\* compute from the same rows differs by a day at most, which is the time of
\* day the script leaves out.
SameAge ==
    \A d \in DOMAIN snaps :
       LET r == rows IN d < Day(readAt) =>
          ScriptSnapshot(r, d, readAt).age - PastSnapshot(r, d, readAt).age \in {0, 1}
=============================================================================
