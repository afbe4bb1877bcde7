----------------------------- MODULE Collection -----------------------------
(***************************************************************************)
(* scripts/collect_data.py and scripts/collect/: invocations by cron that  *)
(* collect the issues of one source, GitHub.  A guard on collection_runs   *)
(* is meant to keep them apart; each goes over its projects, with an       *)
(* open-issue pass, a full pass or both (collectors/github.py) between     *)
(* watermarks; the rotation takes the project whose full refresh is        *)
(* longest ago (collectors/scheduler.py).  GitHub changes all the while.   *)
(*                                                                         *)
(* A tick is a second, the resolution of GitHub's updated_at.  What the    *)
(* API answers is taken one item at a time: an item that waits in its page *)
(* is one that has been served and not yet stored.                         *)
(***************************************************************************)
EXTENDS Integers, Sequences, FiniteSets, FiniteSetsExt, SequencesExt

CONSTANTS
    Proc,         \* entries of the crontab, each one invocation at a time
    Cron,         \* Cron[p]: the modes entry p may be started in
    Projects,     \* number of configured projects, in the order of their names
    Issue,        \* issues and pull requests
    Owner,        \* Owner[i]: the project of an issue
    Attempts,     \* _GITHUB_RETRY_ATTEMPTS
    MaxTime,      \* bound: ticks of the clock
    MaxChanges,   \* bound: changes on GitHub
    MaxFaults     \* bound: failed calls and statements, rate limits, crashes, long runs

Project == 1..Projects

\* "refresh" is --mode all --full-refresh.
Mode == {"open", "full", "all", "refresh", "rotation"}

ASSUME CollectionAssumption ==
    /\ Cron \in [Proc -> SUBSET Mode]
    /\ Projects \in Nat \ {0} /\ Owner \in [Issue -> Project]
    /\ Attempts \in Nat \ {0}
    /\ MaxTime \in Nat /\ MaxChanges \in Nat /\ MaxFaults \in Nat

VARIABLES
    now,
    gh,           \* gh[i]: state and updated_at on GitHub, and how often it has changed
    db,           \* db[i]: state and last_fetched_at of the issues row, and what it holds
    wmOpen,       \* wmOpen[q], wmFull[q]: the watermarks github_issues_open
    wmFull,       \*   and github of a project
    refreshed,    \* projects by refresh_schedule.last_refreshed_at
    failed,       \* failed[q]: consecutive_failures > 0
    job,          \* job[p]: the invocation of entry p
    orphans,      \* runs that died "running" less than six hours ago
    overlap,      \* history: two runs have been alive at the same time
    during,       \* history: during[i]: the last change fell into a full pass
    changes, faults              \* counters of the bounded steps

marks == <<wmOpen, wmFull>>
schedule == <<refreshed, failed>>
history == <<overlap, during>>
bounds == <<changes, faults>>
vars == <<now, gh, db, marks, schedule, job, orphans, history, bounds>>

Time == 0..MaxTime
Never == -1         \* NULL, and earlier than any time
None == [open |-> FALSE, at |-> Never, version |-> Never]      \* no such issue

\* A row holds the version of the issue that was served.  lapse is a history: why
\* it was behind already when it was given its last_fetched_at, because the issue
\* had changed since ("overtaken"), because comments or details could not be
\* fetched ("bare"), because only the state was asked for ("closed").
NoRow == [open |-> FALSE, at |-> Never, version |-> Never, lapse |-> "none"]
Of(q) == {i \in Issue : Owner[i] = q}

-----------------------------------------------------------------------------
(* An invocation *)

Idle == [pc |-> "idle", mode |-> "open", todo |-> {}, run |-> "none", phase |-> "none",
         since |-> Never, began |-> Never, attempt |-> 1, cursor |-> MaxTime, seen |-> {},
         item |-> {}, row |-> NoRow, closing |-> {}, stamp |-> Never,
         staged |-> [i \in Issue |-> NoRow]]

Cur(j) == Min(j.todo)
Goto(p, j) == job' = [job EXCEPT ![p] = j]

\* What the session of p reads: its own uncommitted rows, or the table.
View(p, i) == IF job[p].staged[i] # NoRow THEN job[p].staged[i] ELSE db[i]

\* Leaving a project closes its session: what was not committed is gone.
Leave(j, rest) ==
    [Idle EXCEPT !.mode = j.mode, !.run = j.run, !.todo = rest,
                 !.pc = IF rest = {} THEN "done" ELSE "project"]
NextProject(j) == Leave(j, j.todo \ {Cur(j)})
Stop(j) == Leave(j, {})

\* collect_issues is called: a first time, or again on the same session.
Call(j) ==
    [j EXCEPT !.pc = "list", !.cursor = MaxTime, !.seen = {}, !.item = {}, !.row = NoRow,
              !.closing = {}, !.stamp = Never]

Init ==
    /\ now = 0
    /\ gh \in [Issue -> {None} \cup [open : BOOLEAN, at : {0}, version : {0}]]
    /\ db = [i \in Issue |-> NoRow]
    /\ wmOpen = [q \in Project |-> Never] /\ wmFull = [q \in Project |-> Never]
    /\ refreshed = <<>>
    /\ failed = [q \in Project |-> FALSE]
    /\ job = [p \in Proc |-> Idle]
    /\ orphans = 0
    /\ overlap = FALSE
    /\ during = [i \in Issue |-> FALSE]
    /\ changes = 0 /\ faults = 0

Fault == faults < MaxFaults /\ faults' = faults + 1

-----------------------------------------------------------------------------
(* Starting: the choice of the rotation, the guard, the run *)

Due == Project \ ToSet(refreshed)
NextInLine == Len(refreshed) + 1            \* mutant: a position, not an age
LeastRecentlyRefreshed == IF Due # {} THEN Min(Due) ELSE Head(refreshed)

\* The rotation makes its choice before it waits for the source.
Start(p, m) ==
    /\ job[p].pc = "idle"
    /\ m \in Cron[p]
    /\ Goto(p, [Idle EXCEPT !.pc = "guard", !.mode = m,
                 !.todo = IF m = "rotation" THEN {LeastRecentlyRefreshed} ELSE Project])
    /\ UNCHANGED <<now, gh, db, marks, schedule, orphans, history, bounds>>

Taken == orphans > 0 \/ \E p \in Proc : job[p].run = "fresh"

GuardPass(p) ==
    /\ job[p].pc = "guard" /\ ~Taken
    /\ Goto(p, [job[p] EXCEPT !.pc = "create"])
    /\ UNCHANGED <<now, gh, db, marks, schedule, orphans, history, bounds>>

\* Still taken when the wait is over.
GuardAbort(p) ==
    /\ job[p].pc = "guard" /\ Taken
    /\ Goto(p, Idle)
    /\ UNCHANGED <<now, gh, db, marks, schedule, orphans, history, bounds>>

CreateRun(p) ==
    /\ job[p].pc = "create"
    /\ Goto(p, [job[p] EXCEPT !.pc = "project", !.run = "fresh"])
    /\ overlap' = (overlap \/ \E r \in Proc : job[r].run # "none")
    /\ UNCHANGED <<now, gh, db, marks, schedule, orphans, during, bounds>>

FinishRun(p) ==
    /\ job[p].pc = "done"
    /\ Goto(p, Idle)
    /\ UNCHANGED <<now, gh, db, marks, schedule, orphans, history, bounds>>

-----------------------------------------------------------------------------
(* The two passes over a project *)

BeginOpen(p) ==
    LET j == job[p]
    IN  /\ j.pc = "project" /\ j.mode # "full"
        /\ Goto(p, Call([j EXCEPT !.phase = "open", !.since = wmOpen[Cur(j)], !.began = now]))
        /\ UNCHANGED <<now, gh, db, marks, schedule, orphans, history, bounds>>

OpenSince(j) == wmOpen[Cur(j)]              \* mutant: the other watermark
FullSince(j) == IF j.mode = "refresh" THEN Never ELSE wmFull[Cur(j)]

BeginFull(p) ==
    LET j == job[p]
    IN  /\ j.pc = "due" \/ (j.pc = "project" /\ j.mode = "full")
        /\ Goto(p, Call([j EXCEPT !.phase = "full", !.since = FullSince(j), !.began = now,
                                  !.attempt = 1]))
        /\ UNCHANGED <<now, gh, db, marks, schedule, orphans, history, bounds>>

\* next_refresh_at is in the future.
NotDue(p) ==
    LET j == job[p]
    IN  /\ j.pc = "project" /\ j.mode = "full" /\ Cur(j) \notin Due
        /\ Goto(p, NextProject(j))
        /\ UNCHANGED <<now, gh, db, marks, schedule, orphans, history, bounds>>

\* What the listing still has to serve: open items only, or all; updated since
\* the watermark; newest first, so that an item that changes meanwhile jumps
\* ahead of the cursor.
Listing(j) ==
    {i \in Of(Cur(j)) \ j.seen :
        /\ gh[i] # None
        /\ j.phase = "open" => gh[i].open
        /\ gh[i].at >= j.since /\ gh[i].at <= j.cursor}

\* An item is served and, unless it is older than the row, fetched.
Unchanged(p, i) == gh[i].at <= View(p, i).at
Served(i) == [NoRow EXCEPT !.open = gh[i].open, !.version = gh[i].version]

Serve(p) ==
    LET j == job[p]
    IN  /\ j.pc = "list"
        /\ \E i \in Listing(j) :
              LET k == [j EXCEPT !.seen = @ \cup {i}, !.cursor = gh[i].at]
              IN  /\ \A l \in Listing(j) : gh[l].at <= gh[i].at
                  /\ Goto(p, IF Unchanged(p, i) THEN k
                             ELSE [k EXCEPT !.pc = "fetch", !.item = {i}, !.row = Served(i)])
        /\ UNCHANGED <<now, gh, db, marks, schedule, orphans, history, bounds>>

\* The row is made of what was served, and stamped with the time it is made.
Made(row, lapse) == [row EXCEPT !.at = now, !.lapse = lapse]
Lapse(i, row) == IF gh[i].version = row.version THEN "none" ELSE "overtaken"

Payload(p) ==
    LET j == job[p]
    IN  /\ j.pc = "fetch"
        /\ \E i \in j.item :
              Goto(p, [j EXCEPT !.pc = "store", !.row = Made(j.row, Lapse(i, j.row))])
        /\ UNCHANGED <<now, gh, db, marks, schedule, orphans, history, bounds>>

\* The full pass asks again for comments and details, and does without them.
PayloadFails(p) ==
    LET j == job[p]
    IN  /\ j.pc = "fetch" /\ j.phase = "full"
        /\ Fault
        /\ Goto(p, [j EXCEPT !.pc = "store", !.row = Made(j.row, "bare")])
        /\ UNCHANGED <<now, gh, db, marks, schedule, orphans, history, changes>>

Locked(p, i) == \E r \in Proc \ {p} : job[r].staged[i] # NoRow

\* The upsert waits for another session that has written the row.
Store(p) ==
    LET j == job[p]
    IN  /\ j.pc = "store"
        /\ \E i \in j.item :
              /\ ~Locked(p, i)
              /\ Goto(p, [j EXCEPT !.pc = "list", !.item = {}, !.row = NoRow,
                                   !.staged[i] = j.row])
        /\ UNCHANGED <<now, gh, db, marks, schedule, orphans, history, bounds>>

Listed(p) ==
    LET j == job[p]
    IN  /\ j.pc = "list"
        /\ Listing(j) = {}
        /\ Goto(p, [j EXCEPT !.pc = IF j.phase = "open" THEN "reconcile" ELSE "commit",
                             !.cursor = MaxTime, !.since = Never,
                             !.seen = IF j.phase = "open" THEN @ ELSE {}])
        /\ UNCHANGED <<now, gh, db, marks, schedule, orphans, history, bounds>>

\* Rows stored as open that were not served.
OfThisPass(p) == {i \in Issue \ job[p].seen : job[p].staged[i].open}      \* mutant
Dropped(p) == {i \in Of(Cur(job[p])) \ job[p].seen : View(p, i).open}

\* GitHub is asked about each of them ...
ReportedClosed(p) == {i \in Dropped(p) : ~gh[i].open}

Reconcile(p) ==
    LET j == job[p]
    IN  /\ j.pc = "reconcile"
        /\ Goto(p, [j EXCEPT !.pc = "answered", !.seen = {},
                             !.closing = ReportedClosed(p)])
        /\ UNCHANGED <<now, gh, db, marks, schedule, orphans, history, bounds>>

\* ... the time is taken once the answers are there ...
Answered(p) ==
    LET j == job[p]
    IN  /\ j.pc = "answered"
        /\ Goto(p, [j EXCEPT !.pc = "close", !.stamp = now])
        /\ UNCHANGED <<now, gh, db, marks, schedule, orphans, history, bounds>>

\* ... and those that are closed are marked, and stamped as if they had been fetched.
ClosedRow(row, t) == [row EXCEPT !.open = FALSE, !.at = t, !.lapse = "closed"]

Close(p) ==
    LET j == job[p]
    IN  /\ j.pc = "close"
        /\ \E i \in j.closing :
              /\ ~Locked(p, i)
              /\ Goto(p, [j EXCEPT !.closing = @ \ {i},
                                   !.staged[i] = ClosedRow(View(p, i), j.stamp)])
        /\ UNCHANGED <<now, gh, db, marks, schedule, orphans, history, bounds>>

Commit(p) ==
    LET j == job[p]
    IN  /\ j.pc = "commit" \/ (j.pc = "close" /\ j.closing = {})
        /\ db' = [i \in Issue |-> View(p, i)]
        /\ Goto(p, [j EXCEPT !.pc = IF j.phase = "open" THEN "mark" ELSE "snapshot",
                             !.stamp = Never, !.staged = Idle.staged])
        /\ UNCHANGED <<now, gh, marks, schedule, orphans, history, bounds>>

MarkNow(j) == now                                \* mutant
MarkAt(j) == j.began

\* After the open pass: on to the next project, or to the full pass.
AfterOpen(j, staged) ==
    IF j.mode = "open" THEN NextProject(j)
    ELSE [Idle EXCEPT !.pc = "due", !.mode = j.mode, !.run = j.run, !.todo = j.todo,
                      !.staged = staged]

\* A snapshot that cannot be generated afterwards changes nothing here.
MarkOpen(p) ==
    LET j == job[p]
    IN  /\ j.pc = "mark" /\ j.phase = "open"
        /\ wmOpen' = [wmOpen EXCEPT ![Cur(j)] = MarkAt(j)]
        /\ Goto(p, AfterOpen(j, j.staged))
        /\ UNCHANGED <<now, gh, db, wmFull, schedule, orphans, history, bounds>>

UpdateSchedule(p) ==
    LET j == job[p]  q == Cur(j)
    IN  /\ j.pc = "snapshot"
        /\ refreshed' = Append(RemoveFirst(refreshed, q), q)
        /\ failed' = [failed EXCEPT ![q] = FALSE]
        /\ Goto(p, [j EXCEPT !.pc = "mark"])
        /\ UNCHANGED <<now, gh, db, marks, orphans, history, bounds>>

\* Unlike the open pass, the full pass takes the time at its end.
MarkFull(p) ==
    LET j == job[p]
    IN  /\ j.pc = "mark" /\ j.phase = "full"
        /\ wmFull' = [wmFull EXCEPT ![Cur(j)] = now]
        /\ Goto(p, NextProject(j))
        /\ UNCHANGED <<now, gh, db, wmOpen, schedule, orphans, history, bounds>>

-----------------------------------------------------------------------------
(* What goes wrong *)

\* An open pass that fails leaves the session to the full pass as it is.
Record(p, staged) ==
    LET j == job[p]
    IN  IF j.phase = "open"
        THEN Goto(p, AfterOpen(j, staged)) /\ UNCHANGED failed
        ELSE /\ failed' = [failed EXCEPT ![Cur(j)] = TRUE]
             /\ Goto(p, NextProject(j))

\* What an open pass needs of an item comes with its page.
AsksGitHub(j) == j.pc \in {"list", "reconcile"} \/ (j.pc = "fetch" /\ j.phase = "full")

\* GitHub fails: collect_issues is tried again, then the project has failed.
Fail(p) ==
    LET j == job[p]
    IN  /\ AsksGitHub(j)
        /\ Fault
        /\ IF j.attempt < Attempts
           THEN Goto(p, Call([j EXCEPT !.attempt = @ + 1])) /\ UNCHANGED failed
           ELSE Record(p, j.staged)
        /\ UNCHANGED <<now, gh, db, marks, refreshed, orphans, history, changes>>

SnapshotFails(p) ==
    /\ job[p].pc = "snapshot"
    /\ Fault
    /\ Record(p, job[p].staged)
    /\ UNCHANGED <<now, gh, db, marks, refreshed, orphans, history, changes>>

\* The database refuses a statement: the transaction is lost, and outside of
\* the passes (where the quota is asked for, too), or in front of a full pass,
\* which queries the same session, so is the run.
Broke(p) ==
    IF job[p].phase = "none" \/ (job[p].phase = "open" /\ job[p].mode # "open")
    THEN Goto(p, Stop(job[p])) /\ UNCHANGED failed
    ELSE Record(p, Idle.staged)

Break(p) ==
    /\ job[p].run # "none" /\ job[p].pc # "done"
    /\ Fault
    /\ Broke(p)
    /\ UNCHANGED <<now, gh, db, marks, refreshed, orphans, history, changes>>

Wants(p) ==
    CASE job[p].pc = "store" -> job[p].item
      [] job[p].pc = "close" -> job[p].closing
      [] OTHER -> {}

Stuck(p) == Wants(p) # {} /\ \A i \in Wants(p) : Locked(p, i)

\* Two sessions wait for each other's rows; PostgreSQL aborts one.
Deadlock(p) ==
    /\ Stuck(p)
    /\ \E r \in Proc \ {p} :
          /\ Stuck(r)
          /\ \E i \in Wants(p) : job[r].staged[i] # NoRow
          /\ \E i \in Wants(r) : job[p].staged[i] # NoRow
    /\ Broke(p)
    /\ UNCHANGED <<now, gh, db, marks, refreshed, orphans, history, bounds>>

\* The quota is exhausted: the rest of the projects is left for another run.
RateLimited(p) ==
    /\ job[p].pc = "project" \/ AsksGitHub(job[p])
    /\ Fault
    /\ Goto(p, Stop(job[p]))
    /\ UNCHANGED <<now, gh, db, marks, schedule, orphans, history, changes>>

Crash(p) ==
    /\ job[p].pc # "idle"
    /\ Fault
    /\ orphans' = IF job[p].run = "fresh" THEN orphans + 1 ELSE orphans
    /\ Goto(p, Idle)
    /\ UNCHANGED <<now, gh, db, marks, schedule, history, changes>>

-----------------------------------------------------------------------------
(* Time and the world *)

Tick ==
    /\ now < MaxTime
    /\ now' = now + 1
    /\ UNCHANGED <<gh, db, marks, schedule, job, orphans, history, bounds>>

\* Six hours pass: since a run died, or since one began that is still alive.
NoCutoff(n) == n                        \* mutant: no cutoff
Expire(n) == n - 1

OrphanAges ==
    /\ orphans > 0
    /\ orphans' = Expire(orphans)
    /\ UNCHANGED <<now, gh, db, marks, schedule, job, history, bounds>>

RunAges(p) ==
    /\ job[p].run = "fresh"
    /\ Fault
    /\ Goto(p, [job[p] EXCEPT !.run = "stale"])
    /\ UNCHANGED <<now, gh, db, marks, schedule, orphans, history, changes>>

\* An issue is opened, edited, commented on, closed, merged or reopened.
Change(i, open) ==
    /\ changes < MaxChanges
    /\ changes' = changes + 1
    /\ gh' = [gh EXCEPT ![i] = [open |-> open, at |-> now, version |-> @.version + 1]]
    /\ during' = [during EXCEPT ![i] =
                    \E p \in Proc : job[p].phase = "full" /\ Cur(job[p]) = Owner[i]]
    /\ UNCHANGED <<now, db, marks, schedule, job, orphans, overlap, faults>>

-----------------------------------------------------------------------------
Proceed(p) ==
    \/ GuardPass(p) \/ GuardAbort(p) \/ CreateRun(p) \/ FinishRun(p)
    \/ BeginOpen(p) \/ BeginFull(p) \/ NotDue(p)
    \/ Serve(p) \/ Payload(p) \/ Store(p) \/ Listed(p)
    \/ Reconcile(p) \/ Answered(p) \/ Close(p) \/ Commit(p)
    \/ MarkOpen(p) \/ UpdateSchedule(p) \/ MarkFull(p)
    \/ Deadlock(p)

Begin(p) == \E m \in Mode : Start(p, m)

Next ==
    \/ \E p \in Proc :
          \/ Begin(p) \/ Proceed(p)
          \/ Fail(p) \/ PayloadFails(p) \/ SnapshotFails(p) \/ Break(p) \/ RateLimited(p)
          \/ Crash(p) \/ RunAges(p)
    \/ Tick \/ OrphanAges
    \/ \E i \in Issue, open \in BOOLEAN : Change(i, open)

Spec == Init /\ [][Next]_vars

\* cron starts its entries again and again, an invocation goes on,
\* and time passes.
Fairness ==
    /\ \A p \in Proc : WF_vars(Begin(p)) /\ WF_vars(Proceed(p))
    /\ WF_vars(OrphanAges)

FairSpec == Spec /\ Fairness

-----------------------------------------------------------------------------
(* Properties *)

Mark == Time \cup {Never}
Version == Nat \cup {Never}

State == [open : BOOLEAN, at : Time, version : Version] \cup {None}
Row == [open : BOOLEAN, at : Mark, version : Version,
        lapse : {"none", "overtaken", "bare", "closed"}]

Job == [pc : {"idle", "guard", "create", "project", "due", "list", "fetch", "store",
              "reconcile", "answered", "close", "commit", "mark", "snapshot", "done"},
        mode : Mode, todo : SUBSET Project, run : {"none", "fresh", "stale"},
        phase : {"none", "open", "full"}, since : Mark, began : Mark,
        attempt : 1..Attempts, cursor : Time, seen : SUBSET Issue, item : SUBSET Issue,
        row : Row, closing : SUBSET Issue, stamp : Mark, staged : [Issue -> Row]]

\* Every variable keeps its type; in particular a call is tried no more than
\* _GITHUB_RETRY_ATTEMPTS times.
TypeOK ==
    /\ now \in Time /\ gh \in [Issue -> State] /\ db \in [Issue -> Row]
    /\ wmOpen \in [Project -> Mark] /\ wmFull \in [Project -> Mark]
    /\ refreshed \in Seq(Project) /\ failed \in [Project -> BOOLEAN]
    /\ job \in [Proc -> Job]
    /\ orphans \in Nat
    /\ overlap \in BOOLEAN /\ during \in [Issue -> BOOLEAN]
    /\ changes \in Nat /\ faults \in Nat

\* The row holds the issue as it is on GitHub, with comments and details.
Fetched(i) == db[i].version = gh[i].version /\ db[i].lapse # "bare"

\* The row is not older than the last change, so that every pass takes the issue
\* for unchanged, and yet it need not hold it: it was behind when it was stamped,
\* or the change fell into the second of the stamp.
Skipped(i) == db[i].at >= gh[i].at /\ (db[i].lapse # "none" \/ db[i].at = gh[i].at)

\* The open-issue watermark, from which the next sweep lists, never gets ahead
\* of what is stored: an open issue whose last change is older is in the table
\* as it is now, whatever failed, was retried, crashed, was rolled back or
\* changed while a pass was listing.  It speaks of runs that did not overlap,
\* and it excepts by name (Skipped) what the comparison of updated_at with
\* last_fetched_at passes over, although github.py:461 says of it that changes
\* "are never silently ignored".
OpenWatermarkSound ==
    ~overlap => \A i \in Issue :
        gh[i].open /\ gh[i].at < wmOpen[Owner[i]] => Fetched(i) \/ Skipped(i)

\* The watermark of the full pass loses nothing but what changes while a full
\* pass is under way, which is older than the time it is set to, and what is
\* passed over as unchanged.
FullWatermarkGap ==
    ~overlap => \A i \in Issue :
        gh[i].at < wmFull[Owner[i]] /\ ~during[i] => Fetched(i) \/ Skipped(i)

\* As long as sweeps of every project go on being committed, a row does not
\* stay open for good after its issue was closed, even when runs overlap and
\* one stores what it was served before the other reconciled.
Swept(q) == \E p \in Proc : job[p].phase = "open" /\ Cur(job[p]) = q /\ Commit(p)
ClosedIsNoticed ==
    (\A q \in Project : []<><<Swept(q)>>_vars)
        => <>[](\A i \in Issue : db[i].open => gh[i].open)

\* A run that died does not lock the source out for good: there is a live run
\* again and again.
SourceComesBack == []<>(\E p \in Proc : job[p].run # "none")
=============================================================================
