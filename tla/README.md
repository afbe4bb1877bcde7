# craft-dashboard: a TLA+ model of its moving parts

craft-dashboard collects the issues and pull requests of the *craft* projects
into PostgreSQL, lets LLM workers evaluate them, and shows the result.  This
directory holds TLA+ modules translated from the source, the TLC
configurations that check them on small instances, and proofs, checked by
TLAPS, of what matters most for every value of the constants.

    tlc -workers 2 -config EvalQueue_safety.cfg MCEvalQueue     # a run
    tlapm EvalQueueProofs.tla                                   # a proof

`PROJECT.json` lists the components, the runs, the lines each definition
stands for, the hazards found in the code with the properties that watch
them, and the theorems.  A definition whose comment says *mutant* is not part
of any specification: it is the plausible bug that a property must notice
when it takes the place of the definition below it.

## 1. Inventory

| part | state it keeps | operations | who it talks to | what is hard |
|---|---|---|---|---|
| **evaluation queue API** (`routes/eval_api.py`, `llm/evaluation_queue.py`) | `llm_evaluations` (one `latest` row per issue, with a lease `eval_locked_until`), `issues.content_hash`, `issues.evidence_generation` | `/next`, `/result`, `/release`, `/clear`, `/quota-pause`, `/status` | workers by HTTP; PostgreSQL | concurrent transactions under READ COMMITTED, an `await` of the embedding service between read and write, expiring leases, submissions that arrive late or twice, deadlocks |
| **evaluation worker** (`scripts/llm/eval_worker.py`, `worker_runtime.py`, `eval_http.py`, `llm/preflight.py`) | `RunState` (slots), `shutdown_state`, `paused_state`, two guards | N coroutines: reserve, fetch, preflight, evaluate, submit, release | the API, the LLM, git mirrors, the keyboard | flags shared by four parties, a dozen ways an evaluation ends, who gives back the slot and the claim |
| **evaluator and tool loop** (`llm/evaluator.py`, `tool_dispatch.py`, `tools.py`) | `_tool_ctx` on an evaluator shared by all coroutines | rounds of LLM calls and tool calls, synthesis | the LLM, git readers, the API | shared state across an `await`; evidence paths |
| **commit scanner** (`commit_scanner/scanner.py`) | `projects.last_scanned_sha`, `issues.evidence_generation` | one pass: sync, `git log`, match, bump, commit, per project | git mirrors, the database, embeddings | failures at every step, dry runs, overlapping passes, read-modify-write |
| **git mirrors** (`git_mirrors/*`) | bare repositories on disk, a layout cache, a semaphore | fetch, clone, re-clone, capped reads | scanner, workers, `mirrors sync` | concurrent syncs without a lock, truncation, rewritten history |
| **collection** (`scripts/collect_data.py`, `scripts/collect/*`, `collectors/scheduler.py`) | `collection_runs`, the refresh schedule, watermarks | a run of one or all sources, rotation, hourly refresh | GitHub, Launchpad | check-then-act guard against parallel runs, stale runs after a crash, ordering of watermark and snapshot, fairness of the rotation |
| **GitHub collector** (`collectors/github*.py`) | `issues`, `releases` | incremental upserts, reconciliation of what has disappeared | GitHub | listings that move, clocks that differ, retries on a used session |
| **Launchpad collector** (`collectors/launchpad.py`) | `issues` | search since the watermark, fetch one by one, one commit | Launchpad | what changes between the search and the watermark |
| **forum collector** (`collectors/forum.py`) | `forum_topics`, `forum_backfill_state` | categories, a historical walk in batches, refresh of recent topics | Discourse | pages that shift, pinned topics, progress stored at the end of a batch |
| **CI failures** (`collectors/ci_collector.py`, `ci/parsers.py`, `repositories/ci_repository.py`, `services/ci_gc.py`) | `ci_workflow_runs`, `ci_job_failures`, `ci_test_failures`, daily counts | a pass, the catalogue, retention | GitHub Actions | a floor derived from stored rows, reruns, counting before deleting |
| **snapshots** (`collectors/snapshots.py`, `scripts/backfill_snapshots.py`) | `snapshots`, one per day | live, made up by a run, made up by the script | `issues` | three algorithms for one number, midnight |
| **LLM clients, retry and rate limits** (`llm/client.py`, `llm/acp_client.py`, `http_retry.py`, `scripts/llm/ratelimit.py`) | a subprocess, its lock and sessions; a sliding window | complete, close; bounded retry | OpenRouter, ACP agents | a lock that is not reentrant, a subprocess that dies or does not answer |
| **issue links and retention** (`repositories/issue_link_repository.py`, `scripts/gc.py`, `services/*_gc.py`) | `issue_links`, superseded evaluations, transcripts | create, reconcile, delete what is old | the database | select first and delete later, while others write |
| **evaluation tokens** (`services/eval_auth_service.py`, `scripts/manage_eval_tokens.py`) | `eval_api_tokens`, a cache in each process | create, rotate, revoke, authenticate | API, command line, admin page | a cache no other process can evict from |
| **backfill scripts** (`scripts/backfill_*.py`) | one column of stored rows each | chunk, compute or ask, write | `issues`, embeddings, GitHub | write by id what was read earlier |
| **dashboard pages** (`routes/*`, `repositories/issue_repository.py`) | none | the issue list with pages and semantic search; statistics | the database | pages of a list that moves |
| **activity, admin, application shell** | an in-memory activity record | read-only pages, wiring | the database | little |

How they interact: collectors write `issues` (content and state, through
`content_hash`); the scanner raises `evidence_generation` of issues a new
commit implicates; `/next` offers every issue whose latest evaluation does not
match the two, and puts a lease on it; a worker evaluates it, and `/result`
replaces the latest row or refuses; `/release` gives a claim back.

What makes each part correct:

* queue: a result of other content never counts as current; a stored result is
  only ever replaced by another one; a claim is not lost; a change that lands
  at a bad moment is not swallowed; everything ends up evaluated;
* worker: no more evaluations than `--limit`, and no fewer; pauses end; claims
  go back; Ctrl+C works in every state;
* scanner: `last_scanned_sha` never gets ahead of what has been read; what was
  read raised the generation; one project does not hold up another;
* evaluation: a tool call runs in the context of its own issue; the bill is that
  of all responses and the budget holds; whatever is waited for returns;
* collection: at most one run per source; a watermark never passes what was
  collected; every project gets its turn; a floor that is derived from rows
  asks again for all that may have changed; a walk that says "done" is;
* mirrors: a sync ends with a good mirror and removes none; reads are bounded;
* records: no current evaluation is deleted, no signature is pruned uncounted,
  links find their issue, a day counts the same whoever counts it;
* tokens: a revoked one stops working within a known time.

## 2. Plan

| order | module | composes | status |
|---|---|---|---|
| 1 | `EvalQueue`, `EvalQueueProofs` | API, pending query, PostgreSQL, workers as clients, writers of issues | done |
| 2 | `EvalWorker`, `EvalWorkerProofs` | worker coroutines, `RunState`, flags, backoffs | done |
| 3 | `CommitScanner`, `CommitScannerProofs` | scanner, mirrors as it meets them, upstream | done |
| 4 | `Collection` | run guard, rotation, the GitHub collector's passes with their watermarks, GitHub | done |
| 5 | `EvaluationStore` | what the queue promises its readers; `EvalQueue` implements it, as a property of `eval_queue_safety` and as a theorem | done |
| 6 | `ToolLoop`, `AcpClient`, `GitReader`, `Mirrors` | what an evaluation goes through; composed in `MCEvaluation` | done |
| 7 | `CICollector`, `ForumBackfill`, `Launchpad`, `CollectorsProofs` | the collectors with their own idea of where to go on; composed in `MCCollectors` | done |
| 8 | `EvalRecords`, `IssueList`, `EvalTokens`, `Backfills`, `RecordsProofs` | what becomes of evaluations; composed in `MCRecords` | done |
| 9 | `Snapshots`, `CIRetention`, `HistoryProofs` | the histories; composed in `MCHistory` | done |
| 10 | `EvaluationProofs` | the safety of an evaluation and of the mirrors, for any number of coroutines, callers, reads and syncs | done |
| 11 | `CollectionProofs` | type correctness and the two watermarks of GitHub for any number of crontab entries, projects and issues | done |

The modules of 6 to 9 share no variables with each other.  A composed module
extends several of them and takes one per behaviour (`part`), so that one run
checks them all without multiplying their states; their actions, fairness and
properties are those of the modules, restricted to the part they belong to.

## 3. The modules

### EvalQueue

| TLA+ | code |
|---|---|
| `issue[i]` | the `issues` row: content, state, `evidence_generation` |
| `row[i]` | the `llm_evaluations` row with `latest`: a placeholder (`"pending"`), a result, or none; its lease is the number of ticks left of `eval_locked_until` |
| `UpToDate`, `NeedsEvaluation`, `Rank`, `Before`, `Unlocked` | `build_pending_evaluation_query` |
| `NextSelect`, `NextLock`, `ClaimByInsert`, `ClaimByUpdate` | `GET /api/eval/next`: snapshot, `FOR UPDATE OF issues SKIP LOCKED`, and the claim's commit |
| `SubmitRead`, `SubmitDemote`, `SubmitCommit`, `SubmitFail` | `POST /api/eval/result`, cut at the `await` of the embeddings and at the two statements whose locks others meet |
| `ReleaseRead`, `ReleaseCommit` | `POST /api/eval/release` |
| `Finish`, `GiveUp`, `SubmitTimeout`, `RetryOrRefuse`, `Accepted`, `Refused` | the client side: `_evaluate_issue`, `post_submission` and its three attempts |
| `ChangeIssue`, `BumpGeneration`, `Clear`, `Crash`, `Tick` | collectors, scanner, `/clear`, a dead worker, time |
| `AbortNext`, `AbortResult` | PostgreSQL breaking the deadlock between `/next` (issue, then evaluation) and `/result` (evaluation, then issue) |

A handler is several actions exactly where another transaction can come in
between.  PostgreSQL is not under `src/`; it is modelled from the statements
the code sends: a statement reads one snapshot, an updated row that was locked
is read again (and a row that was not locked is not), an UPDATE waits for the
lock of the row, the partial unique index refuses a second `latest` row, and a
deadlock ends with either victim.  `saw` in a row and `saw.gen` in a request
are history: what the evaluating worker was handed.  Contents are small
numbers and a hash is the content and state it is computed from; the columns
of an evaluation nothing tests are left out.  `force`, `incomplete`,
`stale_days`, the project filters, the cost cap and the queue snapshots are
not modelled.  `InitialRows` are what `/result` can have left before: any
text, any version, the generation and state the issue has.

### EvalWorker

| TLA+ | code |
|---|---|
| `pc[w]` | what coroutine `w` awaits: an HTTP call, the LLM, one of three sleeps |
| `reserved`, `evaluated`, `failures` | `RunState` |
| `shutdown`, `paused`, `quotaPaused`, `breakerActive` | `shutdown_state`, `paused_state`, `_quota_paused`, `_circuit_breaker_active` |
| `claim[w]` | the server's view of the claim |
| `Reserve`, `NoSlot`, `Leave`, `Fetch*`, `Wake` | `_worker_loop`, `_fetch_next_issue` |
| `Preflight*`, `BlockedSlot` | `_run_issue_preflight`, `run_preflight` |
| `EvalDone`, `Skipped`, `Failed`, `QuotaHit`, `SubmitStored`, `ReleaseClaim` | `_evaluate_issue`, `_submit_evaluation`, `_record_completion` |
| `QuotaBack`, `BreakerEnd` | the ends of `_enter_quota_backoff`, `_enter_circuit_breaker` |
| `Interrupt`, `SpaceKey` | signal handler, keyboard thread |

asyncio switches only at an `await` that suspends, so an action runs from one
suspension to the next; the `asyncio.Lock`s are never held across one and are
left out.  The keyboard thread's `paused = not paused` is one action: the flag
is read and written within a few bytecodes, and the finer interleaving only
makes a key press count as a later one.  `"sleeping"` merges the polling,
pacing and failure sleeps: their lengths differ, and nothing here depends on
them.  Without `--limit` the counters no test reads stay as they are, which
keeps the model finite.

### CommitScanner

| TLA+ | code |
|---|---|
| `run[s]` | the pass of process `s`: where it stands, whether it is a dry run, the `last_scanned_sha` list it read at its start, the log it is matching and what was cut off it, the hits, the generations it has loaded |
| `upstream`, `mirror`, `objects` | the default branch, HEAD of the bare mirror, the commits the mirror holds |
| `last`, `gen`, `open` | `projects.last_scanned_sha`, `issues.evidence_generation`, `issues.state` |
| `Start`, `NextProject` | `scan_all_projects`: the list is read once; that another pass is at work keeps no new one from starting |
| `Sync`, `SyncAgain`, `SyncSkipped`, `OtherSync` | `sync_mirror` and its other callers |
| `Baseline`, `ReadLog`, `NoLog` | the three ways a project goes on after `rev-parse HEAD` |
| `Match`, `MatchRest`, `Select`, `Raised`, `Commits` | `scan_project`: signals, the final query, `evidence_generation += 1` and the commit |
| `Fail`, `Crash` | the catch-all of the loop; a killed process |
| `Push`, `ForcePush`, `Toggle` | upstream, and collectors closing and reopening issues |

A SHA stands for the history it names, a set of commits, so that
`git log a..b` is `b \ a`; a force-push takes commits away.  Commits are those
`--no-merges` lists; merges are left out of the model.  The byte cap of
`_exec_git_capped` is a number of commits.  Processes come and go: a pass that
begins takes the first free number of `Scanner`.  Which issues a message refers to
is chosen when the commit is pushed; what the path and embedding signals add
is any set of open issues (they may be anything), so that properties rest on
references alone.  `seen`, `cut`, `told`, `clobbered`, `landed` and `steady` are
history: what committed passes have read of a project's commits and what was cut
off their logs, which commits they read for which issues, and the issues whose
generation a pass has raised from an older one than it found when it wrote.

### Collection

| TLA+ | code |
|---|---|
| `job[p]` | an invocation of `collect_data.py` started by entry `p` of the crontab: where it stands, its mode, the projects still to do, its `collection_runs` row, the pass it is in, the attempt, the listing's cursor, and what its session has written and not committed (`staged`) |
| `gh[i]`, `db[i]` | an issue or pull request on GitHub (state, `updated_at`, and how often it has changed) and its row (state, `last_fetched_at`, and which version of the issue it holds) |
| `wmOpen`, `wmFull` | `collection_watermarks` with source `github_issues_open` and `github` |
| `refreshed`, `failed` | `refresh_schedule`: the projects in the order of `last_refreshed_at`; `consecutive_failures > 0` |
| `orphans` | rows of `collection_runs` left `running` by invocations that died |
| `Start`, `LeastRecentlyRefreshed`, `GuardPass`, `GuardAbort`, `CreateRun`, `FinishRun` | `_main`, `get_least_recently_refreshed`, `_wait_for_source_available`, `_run_source` |
| `BeginOpen`, `MarkOpen` | `_collect_open_issues` before and after the collector |
| `NotDue`, `BeginFull`, `UpdateSchedule`, `MarkFull` | `_is_full_pass_due`, `_collect_all_issues` |
| `Serve`, `Unchanged`, `Payload`, `PayloadFails`, `Made`, `Store`, `Listed` | `collect_issues`: `_is_unchanged`, `_fetch_item_payload` with the REST errors it swallows, `_build_issue_values`, `upsert_issue` |
| `Reconcile`, `Answered`, `ClosedRow`, `Close`, `Commit` | `_reconcile_dropped_open_items`, `mark_issue_closed` |
| `Fail`, `Record`, `Break`, `SnapshotFails`, `RateLimited`, `Deadlock`, `Crash` | `_retry_github`, the `except` clauses of the passes and of `_run_source`, `RateLimitError`, PostgreSQL, a killed process |
| `OrphanAges`, `RunAges` | the six hours of `_get_running_collection_run` |
| `Change`, `Tick` | GitHub, the clock |

The guard's check and the creation of the run are two actions, as they are two
transactions.  Pages are served one item at a time, in the order of
`updated_at`, newest first: an item that changes while the listing is under way
jumps ahead of the cursor.  The row's freshness is read together with the item
(an item is looked at right after it is yielded).  Three steps follow: the item's
values are those it was served with (`Served`), the row is stamped when its
payload is there (`Payload`, `Made`), and upserted (`Store`); a change or an
upsert of another session may come between any two.  The open pass has the
payload with the page (GraphQL); the full pass asks for it again (REST), and goes
on without it when that fails (`PayloadFails`).  A row holds a `version`, so that
what it contains can be told from when it was stamped.  `lapse` is history and
says why a row was behind already when it was stamped: the issue had changed since
it was served (`"overtaken"`), its payload was not to be had (`"bare"`), or only
its state was asked for (`"closed"`).  A tick is a second, the resolution of
`updated_at`; the code's own stamps are finer, which the model makes coarser.  A session that the database has refused a statement loses
what it staged; a session GitHub failed keeps it, and the next attempt or the
full pass goes on with it, as in the code.  The rows of dependencies, releases
and CI are committed before the passes and nothing here reads them.
`refresh_age_days` matters only to a listing without a watermark that is not
full, which `_collect_all_issues` never asks for (without a watermark it asks
for `state="full"`).  `overlap` and `during` are history, too.  `Init` is a database
with project rows only, and any issues on GitHub.

### EvaluationStore

The abstract specification of the queue, with three variables: what each issue
contains now (with its generation), the evaluations stored of it (at most
one), and what each submission under way was accepted for.  A submission is
accepted only as an evaluation of what the issue contains at that moment;
storing puts it in the place of what was there; nothing else but `/clear`
takes an evaluation away.  `EvalQueue` maps to it by (`Store` in `EvalQueue.tla`):
`content` is the issue's hash and generation, `stored` the latest row if it is a
result, `accepted` the requests that have passed the hash test.  Claims,
leases, placeholders, releases, retries and deadlocks are stuttering.

### The parts of an evaluation

| TLA+ | code |
|---|---|
| `ToolLoop` `ctx`, `eval[c]` | `IssueEvaluator._tool_ctx`; the coroutine's place in `evaluate`, its round, attempts, tokens and tool calls left |
| `Begin`, `Baseline`, `RequestFails`, `FinalAnswer`, `ToolRequest`, `ToolAnswers`, `Resume` | `evaluate`, `_evaluate_closed`, `_run_tool_loop`, `complete_with_tools` with its retries, `dispatch_tool_call` |
| `AcpClient` `lock`, `proc`, `call[c]` | `_lock`, `_proc`, the place of `complete()` |
| `EnsureRunning`, `Spawn`, `Greeted`, `Refused`, `HandshakeTimeout`, `NextRequest`, `Answered`, `RequestTimeout`, `Die`, `Close` | `_ensure_started`, `_send_request`, `_read_loop`, `close` |
| `GitReader` `permits`, `read[t]`, `git[t]` | the semaphore, `_exec_git_capped` with its buffers and open pipes, the subprocess |
| `Start`, `Writes`, `Drain`, `EndOfFile`, `Exits`, `Finish`, `Deadline` | the selector loop, the cap, the deadline; git writing and exiting |
| `Mirrors` `dir`, `birth`, `sync[s]` | the directory on disk, which repository it holds, the place of a `sync_mirror` |
| `Configure`, `Fetch`, `Check`, `Remove`, `Clone`, `ConfigureClone` | `sync_mirror`, cut at every `asyncio.to_thread` |

A step goes from one suspension to the next.  `ToolLoop` abstracts what a tool
or a model says to what the loop tests: an answer, tool calls, neither; tokens
are small numbers.  An evaluation that starts later may take the shared context
from an earlier one, which the code does; `NeverAnOlderContext` says what is
left.  In `AcpClient` each caller's requests know the subprocess they were
written to.  git in `GitReader` writes chunks to two pipes of a bounded size in
any order and reacts to a full pipe by waiting.  In `Mirrors` git is external:
a killed clone may leave anything; `Damage` is the disk or an operator.

### The collectors with a memory of their own

`CICollector`: `hub` is GitHub, `rows` and `jobs` the two tables, `Since` is
`_resolve_since`.  `BeginPass`, `StoreRuns`, `StoreJobs`, `EndPass`, `TornPass`,
`LostPass` are a pass that ends, is cut short after a flush and a commit, or
before.  A run has one job.  The clock counts days.

`ForumBackfill`: `listing` is the forum, which moves with `Post` and `Lose`;
`progress` is `category_progress`; `FetchPage`, `LeaveCategory`, `SaveBatch`,
`FailBatch` are the loop of `backfill_batch`, and `Refresh` the pages of
`refresh_recent`.  A page has one topic.

`Launchpad`: `bugs` is Launchpad, `copies` the rows, `mark` the watermark.
`BeginSweep` searches, `FetchBug` loads a bug and its comments, `CommitBugs`
commits them, `EndSweep` makes the snapshot and the watermark.

### Records, lists, tokens and scripts

`EvalRecords`: `StoreResult` and `CheckCap` are the two transactions of a
submission that count money; `DropTranscripts`, `SelectEmbeddings`,
`ClearEmbeddings`, `SelectRows`, `DeleteRows` are `gc.py` with its batches;
`ReadLinks` and `WriteLinks` the reconciliation after a collection;
`ClearIssue` is `/clear`.

`IssueList`: `LiteralItems` is the query with its order, offset and limit for
some order the database may choose among ties, `Merged` what
`routes/issues.py` makes of it and the semantic results; the answer names the
page it shows, which is the last one if a later one was asked for (`Request`).
`OpenList` and `TurnPage` are a reader.

`EvalTokens`: `Lookup`, `Answer` and `Stamp` are `authenticate` before and after
its query; `Revoke`, `Rotate` by the admin page evict from the server's cache,
by the command line they do not.

`Backfills`: one behaviour is about one script (`script`).  `ReadChunk` is the
keyset query, `WriteChunk` or `WriteRow` the update by id; for closing references
`GetRow` is the `session.get` before it, so that a collector may store the row
between the two.  `Upsert` and `Submitted` are the collectors and the API, which
write the same rows; `HealRead`, `HealWrite` and `HealLost` are `submit_result`
correcting a content hash, which it computes before it awaits the embeddings and
flushes afterwards, if at all.  A value holds what it was computed from, so that
a stale one shows.  `raced` is history: the rows that were stored while something
read of them was on its way to be written.

### Histories

`Snapshots`: time goes by half days; `LiveSnapshot`, `PastSnapshot` and
`ScriptSnapshot` are the three algorithms, `Collect`, `TakeSnapshot`,
`BackfillDays` and `RunScript` when they run.  A snapshot keeps the sets whose
sizes the code stores.  Its age is that of the median issue: `KthOf` says what the
k-th of the sorted values is by counting those below it, as issues tie.
`CIRetention`: `ParseLog` and `Finds` give the
signatures of a failed job by kinds of lines, `Occurrences` and `RunsOf` the
catalogue's fraction for each workflow and branch class, `Rollup` the daily
counts, `LastOnes` and `Upserted` what stays of those of several workflows under
one key, `CollectGarbage` the deletion after them.

## 4. The runs

| run | instance | what it shows |
|---|---|---|
| `eval_queue_safety` | 2 workers, 1 issue, 2 attempts, 1 edit, 1 bump, 1 fault, TTL 1 | `CurrentMeansSameContent`, `NoLeakedClaim`, `ResultsSurvive`, `LateChangesSurvive`, `ImplementsStore` |
| `eval_queue_settles` | 1 worker, 2 issues, open ones only, 1 edit, 1 `/clear`, 1 fault, 1 crash | `AllEventuallyCurrent` |
| `eval_queue_double_pick` | 2 workers, 1 issue, nothing else happens | finding: `NoDoublePick` fails |
| `eval_queue_generation` | 1 worker, 1 issue, 1 bump | finding: `GenerationIsTheEvaluateds` fails |
| `eval_worker` | 2 coroutines, `--limit 2`, breaker at 2 failures, 1 lost release, 1 key, 1 raise, 1 refusal | `SlotsAndPausesSound`, `ClaimsHandedBack`, `ShutdownEnds`, `RunEnds` |
| `commit_scanner` | 2 scanners, 2 projects, 1 issue, 2 commits, a cap of 1, 1 force-push, 1 toggle, 1 fault; an overlapping pass takes the fault and the force-push | `NothingSkipped`, `HitsInvalidate`, `CaughtUp` |
| `collection` | 1 entry in the modes open, full, all with full refresh, rotation; 1 project, 2 interchangeable issues, 1 change, 2 attempts, 2 ticks, 1 fault | `OpenWatermarkSound`, `FullWatermarkGap` |
| `collection_overlap` | 2 entries of the open sweep, 1 project, 2 issues, 1 change, 1 fault | `ClosedIsNoticed`, `SourceComesBack` |
| `evaluation` | 2 coroutines, 2 issues, 2 rounds; 2 callers, 2 subprocesses; 2 readers, 1 permit, pipes of one chunk; 2 syncs, 1 damage, 2 timeouts | `NeverAnOlderContext`, `SafeEvaluation`, `EverythingReturns`, `OnlySuspectsRemoved`, `MirrorsHealed` |
| `collectors` | 2 CI runs, 1 rerun, 2 passes, 3 days; 2 categories, 7 topics, batches of 2 requests, a streak of 2; 2 bugs, an overlap of 1, 2 edits, 1 error | `DoneMeansStored`, `WatermarkCovers`, `RecentRunsStored`, `CollectorsCatchUp` |
| `records` | 2 issues, 3 rows, batches of 1, 2 servers; a list of 4 in pages of 2; 1 token, 2 secrets, 2 clients; 2 rows and chunks of 1, 1 hash being corrected | `RecordsKept`, `RevocationHolds`, `PagesShowAll`, `LinksResolve` |
| `history` | 2 issues, 3 days, 2 runs; 3 attempts of 2 CI runs of two workflows, retention of 2 days | `HistorySound`, `PrunedIsCounted` |

Every run also checks the type invariant of its modules.

**Why the bounds are enough.**  Every counter bound is a named constant in a
guard.  Two workers and one issue are the smallest instance in which claims
collide; two attempts are the smallest with a late duplicate; one tick of
lease makes expiry possible between any two steps.  One text and one edit mean
that the content changes by opening or closing the issue, which changes the
hash, the kind of evaluation and the generation test all at once; more texts,
edits, workers and ticks are covered by the proofs, which hold for all values.
Two issues in the liveness run are needed for one to wait behind another.
Two coroutines with a limit of two show every contention for the last slot.  Two
projects are needed for isolation, two commits for a range of which a part is
old, and for a log that a cap of one commit cuts.  Two scanners of which one
started before the other ended lose an increment; that an overlapping pass counts
as the fault and the force-push of a behaviour (`MaxFaults`, `MaxForce`) keeps
the states apart in which they would only multiply each other, and the theorems
have no such bound.
For a watermark to get ahead of an issue there must be a time before and a time
after the pass began, one issue to serve and one that changes behind the
cursor; two ticks put a change strictly between the serving of an item and its
stamp, and two attempts let a retry start from staged rows.  A fault is any one
of a failed call, a refused statement, an exhausted quota, a crash or a run of
more than six hours.  In `collection_overlap` the clock stands
still: neither the guard nor the reconciliation looks at it, and what remains
is the race of an issue's first upsert with the other run's reconciliation.
In `evaluation` two of each are enough for one to overwrite, wait for or remove
what another relies on; a pipe of one chunk blocks at the second, a cap of two
is passed by three; a budget of three tokens with responses of up to two is
crossed by the second.  In `collectors` a rerun and a day's margin need three
days; a category of six topics with one of the oldest pinned at its head is
walked by three batches, one of which fails; two bugs let one change while the
other is fetched, and the overlap of one is exceeded by a sweep of two ticks.
In `records` a batch of one leaves the rest for the next, three rows are a
superseded, a current and a late one; four issues of which two tie fill two
pages; two clients are one that is being answered and one that comes later; two
rows in chunks of one show a selection that shrinks under the walk, and one
submission that corrects a hash (`MaxHealing`) is enough to write over a newer one.  In
`history` three days give each snapshot algorithm a day to disagree on, and
retention ends within them for details and not for runs.
`CHECK_DEADLOCK FALSE` is set where it is because every model ends: with all bounds used
up and nothing to evaluate the queue is at rest, a worker run is over when its
coroutines have returned.

**Fairness.**  `EvalQueue`: workers keep polling, an evaluation ends in time,
the server answers what it has received, time passes; strong fairness for the
two steps that wait for a row lock stands for PostgreSQL's lock queue.
Nothing is assumed of edits, bumps, `/clear`, failures and crashes, which are
bounded: the code promises nothing to an issue whose evaluation fails for
ever.  `EvalWorker`: coroutines are scheduled by asyncio, sleeps and calls have
timeouts; that a fetch, a preflight, an evaluation and a submission succeed
once in a while is an assumption on the outside world that only `RunEnds`
needs.  `CommitScanner`: passes are scheduled by cron for ever, not all of
them dry (strongly fair for the scanners together, as a number may be taken at
one moment), and each pass that has begun goes on.  `Collection`: cron starts its
entries again and again, an invocation goes on (its waits have time limits),
and six hours pass.  Sweeps need not
succeed; `ClosedIsNoticed` is about the case in which they go on being
committed, and says so.  `ToolLoop`, `AcpClient`, `GitReader`: every await
has a timeout or is of something that is scheduled, so each coroutine, each
pipe that can be drained and git itself go on; no answer of the model, no
success of a tool and no deadline is assumed.  `Mirrors`: a sync goes on, and the
scheduled one comes back for ever.  `ForumBackfill`: runs go on; `Launchpad`: a
sweep goes on and a full one begins again and again (strongly fair, as the
incremental ones need not leave room for it at one moment).  `EvalRecords`:
submissions, garbage collection and reconciliation go on.

## 5. What is proved

| theorem | for all | rests on |
|---|---|---|
| `EvalQueueProofs!TypeCorrect` | workers, issues, attempts, bounds | `Bound`: which program counters and phases come with an issue |
| `ContentCorrect` | 〃 | `Stored`: the hash column of a result is the hash of what its worker saw |
| `ResultsKept`, `LateChangesKept` | 〃 | `TypeInv`; row by row |
| `ClaimsKept` | 〃 | `RowsWellFormed`, `OwnRequest`, `Leased` |
| `EvalQueueProofs!QueueImplementsStore` | 〃 | `TypeInv`, `Stored`, and what a request between the hash test and the commit holds; one step of the queue at a time |
| `EvalWorkerProofs!TypeCorrect`, `SharedStateSound` (from `SlotsCorrect`, `PausesOwned`, `EndsAtLimit`), `ClaimsReturned` | coroutines, limits, thresholds, bounds | `Sleepers`, `Claims`, `Ending` |
| `CommitScannerProofs!TypeCorrect`, `NothingLost`, `HitsCount` | scanners (overlapping ones too), projects, issues, bounds | `HasHead`; `LastRead`, `Listed`, `Ranges`; `Within`, `Founds`, `Grown` |
| `CollectionProofs!TypeCorrect`, `OpenSweepMissesNothing`, `FullPassGap` | crontab entries, projects, issues, attempts, times, changes, faults | `Shape`, `Clock`, `Truthful`, `OneRun`, `DbSound`, `Sound` |
| `CollectorsProofs!TypeCorrect` | runs, categories, listings, bugs, bounds | `CIInv`, `ForumInv`, `LaunchpadInv` |
| `RunsNotLost` | runs, reruns, passes, margins, graces, lookbacks | `CIInv`; `FloorLow` |
| `DoneIsStored` | categories, listings, posts, losses, batch sizes, streaks | `Walked`, `Shown`, of the stored walks and of the batch's copy |
| `WatermarkMissesNothing` | bugs, overlaps, edits, errors | `Behind`, `SweepCovers` |
| `EvaluationProofs!TypeCorrect`, `EvaluationSafe`, `ContextsNeverOlder` | coroutines, issues, rounds, limits, callers, reads, pipes, concurrency | `LoopInv`, `AcpInv`, `ReaderInv` |
| `GoodMirrorsKept` | syncs, damages, timeouts | `MirrorInv` |
| `RecordsProofs!TypeCorrect` | issues, rows, tokens, tables, scripts, bounds | `RecordsInv`, `ListInv`, `TokensInv`, `ScriptInv` |
| `RecordsSound` | issues, servers, caps, batch sizes, retention times; rows, chunks, limits, texts | `Selection`, `Current`, `Noticed`; `ChunkFresh`, `RowFresh`, `HealsFresh`, `PassedFilled` |
| `PagesComplete` | items, scores, page sizes, bounds | `Unchanged`: `Met`, `OnOnePage` |
| `RevocationTakesHold` | tokens, secrets, requests, lifetimes | `OneOwner`, `ValidNotEnded`, `CacheBefore`, `LookedUpBefore` |
| `HistoryProofs!TypeCorrect`, `HistoryCorrect` | issues, days, runs; attempts, jobs, retention times | `SnapInv`, `RetentionInv` |
| `PruningCounts` | attempts, jobs, retention times | `RetentionInv` |

None of the invariants is inductive by itself.  `CurrentMeansSameContent`
speaks of the row and the issue; that it survives a commit needs to know what
a request *between* the hash test and the commit holds, which is `Stored`.
`NoLeakedClaim` says that some worker is active; the step that could break it
is a release whose UPDATE does not clear the lease, so `Leased` counts a
worker in `"freeing"` only while its UPDATE will clear the row it loaded, and
for that it must be known that a row with key 0 is no row (`RowsWellFormed`)
and that the answer a worker waits for is about its own issue (`OwnRequest`).
`NoEarlyExit` holds of the last state of a run; `Ending` says of every state
how a coroutine can have returned: because of the shutdown that only the limit
sets, or because all slots were taken, in which case the evaluations in flight
and done add up to the limit and those in flight are not over.  `SlotsAddUp`
counts a set; the lemmas `TakeOff`, `Land` and `StayPut` say how a step of one
coroutine changes that count.

`NothingSkipped` follows once it is known that what a pass listed at its start
was read or cut off (`Listed`, `LastRead`) and that its log, with what was cut off
it, is all that lies between that and its head (`Ranges`).  `HitsInvalidate`
relates a commit to a generation several steps later: `Found` follows an issue
from the message to the hits to the loaded rows; `Grown` says that the generation
of an issue that no pass has raised from an older one only grows, so that what a
pass writes, one more than what it loaded, is beyond the generation at the time
the commit landed.  Neither theorem has a hypothesis: passes overlap, and logs are
cut.  The exceptions are sets (`cut`, `clobbered`) that the actions fill exactly
when the code loses something; without either exception TLC finds a
counterexample in the run.

`QueueImplementsStore` goes through the steps of the queue: a lease, a
placeholder and a release change nothing a reader sees; the hash test is
`Accept`; the commit is `Store`, for which the row that is replaced must be that of
the issue the request is about; of the two attempts of one submission each has
a slot of its own.  `OpenSweepMissesNothing` and `FullPassGap` are about the table and the
watermarks; their invariant is about the sessions.  It has two halves.  The first
is about stamps alone: what a watermark claims is not older than the change
(`UpToDate`).  The second, `Truthful`, says what such a row is worth: it holds the
issue as it is, or it is one of those `Skipped` names.  It needs no assumption on
overlaps, and must hold of what is staged and of the row that is about to be
(`Honest`) as well as of the table (`DbHonest`).  Of the first half, `Kept` says that what a
watermark claims is in what the session reads, its own rows included, so that a
commit cannot undo it; `Covered`, that what a pass owes is stored, waits to be
stored, or is still before the cursor; it survives a retry because that lists
again from where the pass began.  `Marked` makes the time a row is closed at
harmless: the watermarks are not younger than the pass.  `RestSound` says that
whoever has rolled back reads the table.  All of it holds only while runs do not
overlap (`OneRun`).

`WatermarkMissesNothing` follows a bug through a sweep
(`SweepCovers`): it is still to be fetched, staged, or stored as it was when the
sweep began, or has changed since, in which case the next search finds it, as
the sweep has not taken longer than the overlap.  `DoneIsStored` follows a topic
through the walk of its category: what a walk saw at its beginning is stored, or
it is further down the listing than the page the walk has come to (`Walked`).
Posts only move it further down, and a walk that ends at a streak of old topics
has passed those that are not: there are fewer pinned topics than the streak and
the others are in order (`Shown`).  The same must hold of the copy a batch works
on, which a failure throws away.  `RunsNotLost` rests on where a pass begins: not
later than the margin before the last pass that stored its rows, or than the
lookback, as no row is fetched after that pass (`FloorLow`); and a row that has a
conclusion has that of its attempt, so that a run which was recorded is not owed.

`RecordsSound` is about two things.  What `gc.py` has selected is superseded and
stays so (`Selection`), since a current row is new when it becomes one, so that a
batch deletes nothing current however late it comes; and a day whose bill is at the
cap has tripped, or the submission that brought it there is still to look
(`Noticed`), for which the sum must be counted row by row.  Of the scripts,
`PassedFilled` says which rows a run has come past; `ChunkFresh` that a chunk of
content hashes, `HealsFresh` that a hash on its way from a submission, and
`RowFresh` that the metadata closing references are merged with, are the table's
but for rows that were stored meanwhile.
`PagesComplete` counts: without ties the rank of an item is the same in every order
the database may choose (`Ranked`), and so page p shows the ranks between
two multiples of the page size.

`HistoryCorrect` relates the rows a snapshot is made of to what issues did later:
an issue that is not what its row says changed since the row was read (`Since`), and
so not on a day that was over then.  That a median of whole days and one of half
days differ by a day at most is `AgesClose`, from lemmas on the k-th of finitely
many values: there is one, just one (`KthExists`, `KthUnique`), and
subtracting them all from a date turns the order around (`KthAge`).  The
rates are at most 1 because what a row counts is a subset of what it divides by;
`PruningCounts` is a step's own property: `RollupSound`, `LastOnesSound` and
`UpsertedSound` say that a row with the key of a failure is among those stored by
the step that deletes its detail.

`RevocationTakesHold` rests on
`CacheBefore` and `LookedUpBefore`: neither an entry of the cache nor a request
that was found valid is younger than the end of its secret; the stamp of an
entry is the time its request began, and so its lifetime counts from there.

`NeverAnOlderContext` is about an evaluator that is shared: `Numbered` says that
evaluations are numbered in the order in which they began, `OneEach` that an issue
is with one coroutine.  That the reads in progress stay below the concurrency needs the
permits counted with those who hold one; `GoodMirrorsKept` needs that what a
sync is about to remove was seen broken, timed out, or has been cloned since.

The proofs assume what the `ASSUME`s of the modules say and nothing else: the
bounds are natural numbers, `TTL` and `MaxAttempts` are positive, primary keys
are positive numbers, there is at least one coroutine and finitely many; issues,
items, bugs, tokens and attempts of CI runs are finitely many; a category has
fewer pinned topics than `_CUTOFF_PAGE_STREAK` and shows the others newest first;
details of failures are kept longer than a run may be late, and runs longer than
details; the absent value of a column is not a value.  Each
of these is evaluated by TLC in every run that has the module.

Every invariant and every action property that a passing run checks is a theorem.
Only model-checked are the liveness properties, as fairness and `ENABLED` are out of
the prover's reach: `AllEventuallyCurrent`, `ShutdownEnds`, `RunEnds`, `CaughtUp`,
`ClosedIsNoticed`, `SourceComesBack`, `EverythingReturns`, `MirrorsHealed`,
`CollectorsCatchUp` and `LinksResolve`.

## 6. Where the code and its comments disagree

1. `submit_result` stamps the generation it reads at submission
   (`eval_api.py:637`), not the one the evaluation saw; the model's comment on
   the column (`models/llm_evaluation.py:90-92`) says *"at the time this
   evaluation ran"*.  A commit scanned in between is never evaluated
   (`eval_queue_generation`).
2. `FOR UPDATE OF issues SKIP LOCKED` does not keep two workers from claiming
   one issue (`evaluation_queue.py:192-202`): the lease is a column of a row
   that is not locked and was read from an older snapshot
   (`eval_queue_double_pick`).

The following are excluded from a property by name, because the code does not
keep them; there the property says which case it leaves out.

* The end of a circuit-breaker pause lifts the pause of a quota backoff that
  still sleeps (`eval_worker.py:237` against the docstring at 150-154); it takes
  three coroutines, and the run has two.
* A `git log` longer than 200 000 bytes is cut without an error, and
  `last_scanned_sha` moves past the commits cut off (`scanner.py:238`,
  `reader.py:47`): `cut` in `NothingSkipped`.
* Two passes of the scanner that overlap, which nothing prevents, both load a
  generation and write it back plus one (`scanner.py:315`): one increment is lost,
  or a later pass's taken back, and an evaluation from before the lost one counts
  as current: `clobbered` in `HitsInvalidate`.
* GitHub's changes are *"never silently ignored"* (`github.py:461-464`), but
  `last_fetched_at` is the time the row is made (`github.py:155`), not the time
  the item was served, and `_is_unchanged` compares it with `updated_at` (477): a
  change after the item's page was served and before the row was stamped is older
  than the stamp, and every later pass, a full one too, takes the issue for
  unchanged until it changes again: `"overtaken"`, and the second of the stamp
  itself, in `Skipped`.
* The full pass logs a failed request for comments (`github.py:515-523`) or for the
  details of a pull request (539-548), stores the row without them and stamps it
  as fetched: it stays so until the issue changes again (`"bare"`).
* The reconciliation stamps an issue as fetched that it has only asked the state
  of (`github.py:600-640`), so that neither its last comments nor its closing
  references are ever collected, although `backfill_closing_references.py:8-9`
  says *"regular collection will populate the field going forward"* (`"closed"`).
* The rotation does not ignore the watermark of a GitHub project
  (`collect_data.py:186-196` passes no `full_refresh`, against 130-132 and
  173-177), and that watermark is the time at the end of the last full pass
  (`github_pass.py:481`): `during` in `FullWatermarkGap`.
* The rotation is not a round robin (`scheduler.py:46-48`,
  `collect_data.py:132-134`): a failure leaves `last_refreshed_at` as it is, and
  a project that fails every time is picked for ever.
* A refused `initialize` makes the ACP client wait for its own lock for ever
  (`acp_client.py:122`, `refused`), and a handshake that times out leaves a
  subprocess that counts as started (`acp_client.py:114`, `mute`).
* A validity check of a mirror that exceeds its timeout counts as a failed one,
  and the mirror is removed (`sync.py:174`, `late`).
* A sweep of Launchpad that takes longer than the overlap loses what changes
  meanwhile until the next rotation (`launchpad_pass.py:90`, `slow`).
* CI runs created more than a day before the oldest row that may still change
  are not asked for (`ci_collector.py:156`, against "never silently missed").
* Two passes of retention over one day overwrite its daily count
  (`ci_gc.py:259`), and so do two workflows with one signature, as the key of a
  count has no workflow (`ci_gc.py:232`) although its total is that of one (159);
  `PrunedIsCounted` says that a signature stays counted, not how often.
* Reopened issues, and those closed without a date, are counted otherwise by
  each of the three snapshot algorithms (`reopened`, `Undated`).
* A content hash that is computed while a collector stores the issue overwrites
  the newer one: by the script (`backfill_content_hash.py:142`), and by
  `submit_result`, which corrects the column by the row it has read and flushes it
  after it has awaited the embeddings (`eval_api.py:285`, 539, 610): `raced` in
  `HashesHonest`.
* Closing references are merged *"into existing metadata to avoid overwriting other
  fields"* (`backfill_closing_references.py:186`), but what a collector stores
  between that read and the commit (187-197) is overwritten: `raced` in
  `MetadataKept`.
* Semantic results are counted on every page of a search and put on the first only
  (`issues.py:263-268`): a page that is offered for them does not come, since the
  query goes back to the last one it has (`issue_repository.py:411`).
  `PagesShowAll` ends there.
* A live snapshot is made of rows read on its day and lacks what happens in the
  rest of it (`snapshots.py:344`); `HistoryExact` is about rows read after the day.
* Pages of the issue list repeat or skip issues of equal rank
  (`issue_repository.py:451`, `NoTies`).

## 7. What is not modelled

The components marked `not_modelled` in `PROJECT.json`: the admin view and the
activity record only report on what the other components keep, and the
application shell wires things together.  Of the dashboard only the issue list
is modelled; statistics, engagement and CI pages read and format.  Migrations
run before the programs start.  Within the modelled components the parts left
out are named in section 3 and in the notes of `PROJECT.json`: of the larger
ones, the layout cache and path projection of the mirrors, the rate limiter's
window and the lengths of delays, what a tool returns and how prompts are put
together, the regular expressions that parse logs, references and payloads, and
the mapping of GitHub's, Launchpad's and the forum's answers to columns.

Three properties are deliberately not stated because the code makes no such
promise: that a lease is only given up by its holder (`/release` checks no
ownership), that issues behind one that always fails are ever evaluated, and
that a project's daily counts of CI failures are those of all its runs.
