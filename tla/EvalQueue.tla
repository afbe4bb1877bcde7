----------------------------- MODULE EvalQueue -----------------------------
(***************************************************************************)
(* The pull queue of LLM evaluations: craft_dashboard/routes/eval_api.py   *)
(* and craft_dashboard/llm/evaluation_queue.py on top of PostgreSQL, the   *)
(* workers of scripts/llm/eval_worker.py as their clients, and the writers *)
(* that move issues underneath them (collectors, commit scanner, /clear).  *)
(*                                                                         *)
(* Every handler is cut where another transaction can come in between: a   *)
(* /next takes the statement's snapshot, locks a candidate, then commits;  *)
(* a /result reads the issue, awaits the embeddings, demotes the old row,  *)
(* then inserts and commits; a /release loads the row, then commits.       *)
(*                                                                         *)
(* Time is relative: a lease is the number of ticks left of               *)
(* eval_locked_until, 0 once it has expired, NoLease when it is NULL.      *)
(***************************************************************************)
EXTENDS Integers, FiniteSets

CONSTANTS
    Worker,       \* coroutines of one or several eval workers
    Issue,        \* primary keys of the issues
    RowId,        \* primary keys an llm_evaluations row may get
    Text,         \* contents of an issue (title, body, labels, comments)
    TTL,          \* _LOCK_TTL in ticks
    MaxAttempts,  \* max_retries of post_submission
    OpenOnly,     \* the worker polls with open_only
    MaxGen,       \* bound: evidence_generation
    MaxEdits,     \* bound: content and state changes by the collectors
    MaxClears,    \* bound: calls of /clear
    MaxFaults,    \* bound: failed evaluations, embeddings, submissions
    MaxCrashes    \* bound: workers that die, /release calls that are lost

ASSUME ConstantsAssumption ==
    /\ RowId \subseteq Nat \ {0}
    /\ Issue \subseteq RowId     \* the rows Init starts from have these keys
    /\ Text \subseteq Nat /\ Text # {}
    /\ TTL \in Nat \ {0}
    /\ MaxAttempts \in Nat \ {0}
    /\ OpenOnly \in BOOLEAN
    /\ MaxGen \in Nat /\ MaxEdits \in Nat
    /\ MaxClears \in Nat /\ MaxFaults \in Nat /\ MaxCrashes \in Nat

VARIABLES
    issue,    \* issue[i]: the issues row
    row,      \* row[i]: the llm_evaluations row of i with latest = true
    pc,       \* pc[w]: where worker w, or the request it waits for, stands
    work,     \* work[w]: the claim w was handed, and what it read with it
    snap,     \* snap[w]: candidates in the snapshot of w's /next
    held,     \* held[w]: the evaluation row w's /next or /release has loaded
    attempt,  \* attempt[w]: the attempt of post_submission w waits for
    sub,      \* sub[w][k]: the server's handling of that attempt
    edits, clears, faults, crashes   \* counters of the bounded environment steps

vars == <<issue, row, pc, work, snap, held, attempt, sub,
          edits, clears, faults, crashes>>
env == <<edits, clears, faults, crashes>>

-----------------------------------------------------------------------------
(* Data *)

Attempt == 1..MaxAttempts
NoLease == -1
NewVersion == 1     \* the eval version of the running server; 0 is an older one

Hashes == [text : Text \cup {-1}, open : BOOLEAN]
NoHash == [text |-> -1, open |-> FALSE]

\* compute_content_hash: the content and the state, and nothing else.
HashOf(iss) == [text |-> iss.text, open |-> iss.open]

IssueRecord == [text : Text, open : BOOLEAN, gen : Nat]

\* What /next hands to a worker.
Seen == [hash : Hashes, gen : Nat]
NothingSeen == [hash |-> NoHash, gen |-> 0]

\* A row of llm_evaluations.  "open" is eval_type = "scoring"; "saw" is a
\* history field: what the evaluating worker was handed by /next.
Row == [id : RowId \cup {0}, kind : {"none", "pending", "result"},
        lease : NoLease..TTL, hash : Hashes, open : BOOLEAN, gen : Nat,
        ver : 0..NewVersion, saw : Seen]

NoRow == [id |-> 0, kind |-> "none", lease |-> NoLease, hash |-> NoHash,
          open |-> TRUE, gen |-> 0, ver |-> 0, saw |-> NothingSeen]

Pending(id) == [NoRow EXCEPT !.id = id, !.kind = "pending", !.lease = TTL]

Work == [issue : Issue \cup {-1}, saw : Seen, lease : NoLease..TTL]
NoWork == [issue |-> -1, saw |-> NothingSeen, lease |-> NoLease]

\* "saw" came with the payload (its generation is history), the hash, the
\* generation and the state are what the handler has read.
Submission == [phase : {"none", "sent", "embedding", "demoted"},
               issue : Issue \cup {-1}, saw : Seen, hash : Hashes,
               gen : Nat, open : BOOLEAN, target : RowId \cup {0}]
NoSub == [phase |-> "none", issue |-> -1, saw |-> NothingSeen, hash |-> NoHash,
          gen |-> 0, open |-> TRUE, target |-> 0]

Candidate == [issue : Issue, row : Row, rank : 1..6]

-----------------------------------------------------------------------------
(* The pending query *)

\* A placeholder has no eval_version, which counts as outdated.
VersionOutdated(iss, r) ==
    \/ r.kind = "pending"
    \/ r.open = iss.open /\ r.ver # NewVersion

UpToDate(iss, r) ==
    /\ r.kind = "result"
    /\ r.open = iss.open
    /\ ~VersionOutdated(iss, r)
    /\ r.hash = HashOf(iss)
    /\ iss.open => r.gen = iss.gen

NeedsEvaluation(iss, r) ==
    /\ OpenOnly => iss.open
    /\ ~UpToDate(iss, r)

\* eval_locked_until IS NULL OR eval_locked_until <= now
UnlockedNullOnly(r) == r.lease = NoLease    \* mutant: expiry forgotten
Unlocked(r) == r.lease <= 0

\* priority, then open_first; Issue.id breaks the ties
Rank(iss, r) ==
    CASE r.kind = "none" -> IF iss.open THEN 1 ELSE 2
      [] r.kind # "none" /\ VersionOutdated(iss, r) -> IF iss.open THEN 3 ELSE 4
      [] OTHER -> IF iss.open THEN 5 ELSE 6

Candidates ==
    { [issue |-> i, row |-> row[i], rank |-> Rank(issue[i], row[i])] :
        i \in {j \in Issue : Unlocked(row[j]) /\ NeedsEvaluation(issue[j], row[j])} }

Before(c, d) == c.rank < d.rank \/ (c.rank = d.rank /\ c.issue <= d.issue)

\* The issues row is held FOR UPDATE by a /next between its lock and its commit.
IssueLocked(i) == \E w \in Worker : pc[w] = "claiming" /\ work[w].issue = i

\* A latest row that a /result has demoted, and not committed yet, is locked.
RowLocked(id) ==
    \E w \in Worker, k \in Attempt :
        /\ sub[w][k].phase = "demoted"
        /\ sub[w][k].target = id
        /\ row[sub[w][k].issue].id = id

UsedIds ==
    {row[i].id : i \in Issue} \cup {held[w].id : w \in Worker}
        \cup UNION {{c.row.id : c \in snap[w]} : w \in Worker}
        \cup {sub[w][k].target : w \in Worker, k \in Attempt}

FreshIds == RowId \ UsedIds
NewId == CHOOSE id \in FreshIds : TRUE

-----------------------------------------------------------------------------
(* Initial states: any mix of never evaluated, stale and current issues *)

Evaluated(iss, id, text, ver) ==
    LET h == [text |-> text, open |-> iss.open]
    IN  [NoRow EXCEPT !.id = id, !.kind = "result", !.hash = h,
                      !.open = iss.open, !.gen = iss.gen, !.ver = ver,
                      !.saw = [hash |-> h, gen |-> iss.gen]]

InitialRows(i) ==
    {NoRow} \cup {Evaluated(issue[i], i, t, v) : t \in Text, v \in 0..NewVersion}

Init ==
    /\ issue \in [Issue -> [text : Text, open : BOOLEAN, gen : {0}]]
    /\ row \in [Issue -> UNION {InitialRows(i) : i \in Issue}]
    /\ \A i \in Issue : row[i] \in InitialRows(i)
    /\ pc = [w \in Worker |-> "idle"]
    /\ work = [w \in Worker |-> NoWork]
    /\ snap = [w \in Worker |-> {}]
    /\ held = [w \in Worker |-> NoRow]
    /\ attempt = [w \in Worker |-> 0]
    /\ sub = [w \in Worker |-> [k \in Attempt |-> NoSub]]
    /\ edits = 0 /\ clears = 0 /\ faults = 0 /\ crashes = 0

-----------------------------------------------------------------------------
(* GET /api/eval/next *)

\* The statement's snapshot: SELECT ... FOR UPDATE SKIP LOCKED reads the
\* committed rows once; with no candidate the reply is 204.
NextSelect(w) ==
    /\ pc[w] = "idle"
    /\ Candidates # {}
    /\ snap' = [snap EXCEPT ![w] = Candidates]
    /\ pc' = [pc EXCEPT ![w] = "selecting"]
    /\ UNCHANGED <<issue, row, work, held, attempt, sub, env>>

\* LockRows walks the sorted snapshot: a locked issues row is skipped, one
\* that changed since the snapshot is tested again in its new version, but
\* against the evaluation row of the snapshot, which FOR UPDATE OF issues
\* does not lock.
Lockable(w) ==
    {c \in snap[w] : ~IssueLocked(c.issue) /\ NeedsEvaluation(issue[c.issue], c.row)}

NextLock(w) ==
    /\ pc[w] = "selecting"
    /\ snap' = [snap EXCEPT ![w] = {}]
    /\ IF Lockable(w) = {}
       THEN /\ pc' = [pc EXCEPT ![w] = "idle"]
            /\ UNCHANGED <<work, held>>
       ELSE \E c \in Lockable(w) :
            /\ \A d \in Lockable(w) : Before(c, d)
            /\ pc' = [pc EXCEPT ![w] = "claiming"]
            /\ work' = [work EXCEPT ![w] =
                  [issue |-> c.issue, lease |-> NoLease,
                   saw |-> [hash |-> HashOf(issue[c.issue]), gen |-> issue[c.issue].gen]]]
            /\ held' = [held EXCEPT ![w] = c.row]
    /\ UNCHANGED <<issue, row, attempt, sub, env>>

Claimed(w) ==
    /\ pc' = [pc EXCEPT ![w] = "evaluating"]
    /\ work' = [work EXCEPT ![w].lease = TTL]
    /\ held' = [held EXCEPT ![w] = NoRow]

NotClaimed(w) ==
    /\ pc' = [pc EXCEPT ![w] = "idle"]
    /\ work' = [work EXCEPT ![w] = NoWork]
    /\ held' = [held EXCEPT ![w] = NoRow]

\* A never evaluated issue gets a placeholder row; the partial unique index
\* turns a second one into an IntegrityError, answered with 204.
ClaimByInsert(w) ==
    LET i == work[w].issue
    IN  /\ pc[w] = "claiming"
        /\ held[w].kind = "none"
        /\ IF row[i].kind = "none"
           THEN /\ FreshIds # {}
                /\ row' = [row EXCEPT ![i] = Pending(NewId)]
                /\ Claimed(w)
           ELSE /\ NotClaimed(w)
                /\ UNCHANGED row
        /\ UNCHANGED <<issue, snap, attempt, sub, env>>

\* Otherwise eval_locked_until is set by primary key on the row that was
\* read, whether or not it is still the latest one.  A row deleted by /clear
\* matches nothing, and the request fails.
ClaimByUpdate(w) ==
    LET i == work[w].issue
    IN  /\ pc[w] = "claiming"
        /\ held[w].kind # "none"
        /\ ~RowLocked(held[w].id)
        /\ \/ /\ row[i].id = held[w].id
              /\ row' = [row EXCEPT ![i].lease = TTL]
              /\ Claimed(w)
           \/ /\ row[i].id # held[w].id
              /\ Claimed(w)
              /\ UNCHANGED row
           \/ /\ row[i].id # held[w].id /\ clears > 0
              /\ NotClaimed(w)
              /\ UNCHANGED row
        /\ UNCHANGED <<issue, snap, attempt, sub, env>>

-----------------------------------------------------------------------------
(* The worker between claim and answer *)

Fault == faults < MaxFaults /\ faults' = faults + 1

Request(w) ==
    [NoSub EXCEPT !.phase = "sent", !.issue = work[w].issue, !.saw = work[w].saw]

Send(w, k) == sub' = [sub EXCEPT ![w][k] = Request(w)]

\* A valid evaluation is posted.  A late attempt of the worker's previous
\* issue is over by then (bound: one submission per attempt number).
Finish(w) ==
    /\ pc[w] = "evaluating"
    /\ sub[w][1].phase = "none"
    /\ Send(w, 1)
    /\ pc' = [pc EXCEPT ![w] = "submitting"]
    /\ attempt' = [attempt EXCEPT ![w] = 1]
    /\ UNCHANGED <<issue, row, work, snap, held, env>>

\* Preflight, the LLM, the quota or the validation stopped the evaluation.
GiveUp(w) ==
    /\ pc[w] = "evaluating"
    /\ Fault
    /\ pc' = [pc EXCEPT ![w] = "releasing"]
    /\ UNCHANGED <<issue, row, work, snap, held, attempt, sub, edits, clears, crashes>>

Awaited(w, k) == pc[w] = "submitting" /\ attempt[w] = k

\* The worker's reaction to a stored result, to a refusal (409, 422), and to
\* a 5xx or a timeout: retry up to MaxAttempts, then give the claim back.
Accepted(w) ==
    /\ pc' = [pc EXCEPT ![w] = "idle"]
    /\ work' = [work EXCEPT ![w] = NoWork]
    /\ attempt' = [attempt EXCEPT ![w] = 0]

RefusedForgets(w) == Accepted(w)            \* mutant: claim not given back
Refused(w) ==
    /\ pc' = [pc EXCEPT ![w] = "releasing"]
    /\ attempt' = [attempt EXCEPT ![w] = 0]
    /\ UNCHANGED work

RetryOrRefuse(w) ==
    IF attempt[w] < MaxAttempts
    THEN /\ attempt' = [attempt EXCEPT ![w] = @ + 1]
         /\ UNCHANGED <<pc, work>>
    ELSE Refused(w)

\* The next attempt, when there is one, goes out with the failure of this.
Resend(w, k) ==
    IF Awaited(w, k) /\ k < MaxAttempts
    THEN [sub[w] EXCEPT ![k] = NoSub, ![k + 1] = Request(w)]
    ELSE [sub[w] EXCEPT ![k] = NoSub]

Fail500(w, k) ==
    /\ sub' = [sub EXCEPT ![w] = Resend(w, k)]
    /\ IF Awaited(w, k) THEN RetryOrRefuse(w) ELSE UNCHANGED <<pc, work, attempt>>

\* The client stops waiting, and the server goes on with the request it has.
\* A ReadTimeout is retried, any other transport error is not.
SubmitTimeout(w) ==
    LET k == attempt[w]
    IN  /\ pc[w] = "submitting"
        /\ Fault
        /\ \/ /\ k < MaxAttempts
              /\ sub[w][k + 1].phase = "none"
              /\ Send(w, k + 1)
              /\ RetryOrRefuse(w)
           \/ /\ Refused(w)
              /\ UNCHANGED sub
        /\ UNCHANGED <<issue, row, snap, held, edits, clears, crashes>>

-----------------------------------------------------------------------------
(* POST /api/eval/result *)

SameContentAlways(s) == TRUE                \* mutant: no 409
SameContent(s) == s.saw.hash = HashOf(issue[s.issue])

\* session.get(Issue): the hash is compared, and the generation and the
\* state that will be stamped on the new row are read, here.
SubmitRead(w, k) ==
    LET s == sub[w][k]
        iss == issue[s.issue]
    IN  /\ s.phase = "sent"
        /\ IF SameContent(s)
           THEN /\ sub' = [sub EXCEPT ![w][k] =
                     [s EXCEPT !.phase = "embedding", !.hash = HashOf(iss),
                               !.gen = iss.gen, !.open = iss.open]]
                /\ UNCHANGED <<pc, work, attempt>>
           ELSE /\ sub' = [sub EXCEPT ![w][k] = NoSub]
                /\ IF Awaited(w, k) THEN Refused(w) ELSE UNCHANGED <<pc, work, attempt>>
        /\ UNCHANGED <<issue, row, snap, held, env>>

\* The request never arrives (ConnectError), or the embedding service fails
\* and the answer is 503.
SubmitFail(w, k) ==
    /\ sub[w][k].phase \in {"sent", "embedding"}
    /\ Awaited(w, k) /\ k < MaxAttempts => sub[w][k + 1].phase = "none"
    /\ Fault
    /\ Fail500(w, k)
    /\ UNCHANGED <<issue, row, snap, held, edits, clears, crashes>>

\* UPDATE ... SET latest = false: seen by others only at the commit, but its
\* snapshot decides which row this transaction can replace.  Behind another
\* /result it waits, then finds that row demoted and nothing to update.
SubmitDemote(w, k) ==
    /\ sub[w][k].phase = "embedding"
    /\ sub' = [sub EXCEPT ![w][k] =
          [@ EXCEPT !.phase = "demoted", !.target = row[sub[w][k].issue].id]]
    /\ UNCHANGED <<issue, row, pc, work, snap, held, attempt, env>>

StampAtCommit(s) == issue[s.issue].gen      \* mutant: generation read last
StampedGeneration(s) == s.gen

Result(id, s) ==
    [id |-> id, kind |-> "result", lease |-> NoLease, hash |-> s.hash,
     open |-> s.open, gen |-> StampedGeneration(s), ver |-> NewVersion, saw |-> s.saw]

\* The flush writes the issues row, so it waits for its lock; the insert
\* fails on the unique index when another row has become the latest.
SubmitCommit(w, k) ==
    LET s == sub[w][k]
        i == s.issue
    IN  /\ s.phase = "demoted"
        /\ ~IssueLocked(i)
        /\ \/ /\ row[i].id \in {0, s.target}
              /\ FreshIds # {}
              /\ row' = [row EXCEPT ![i] = Result(NewId, s)]
              /\ sub' = [sub EXCEPT ![w][k] = NoSub]
              /\ IF Awaited(w, k) THEN Accepted(w) ELSE UNCHANGED <<pc, work, attempt>>
           \/ /\ row[i].id \notin {0, s.target}
              /\ Awaited(w, k) /\ k < MaxAttempts => sub[w][k + 1].phase = "none"
              /\ Fail500(w, k)
              /\ UNCHANGED row
        /\ UNCHANGED <<issue, snap, held, env>>

\* /next holds the issues row and wants the evaluation row, /result holds
\* the evaluation row and wants the issues row: PostgreSQL aborts either.
Deadlocked(v, w, k) ==
    /\ pc[v] = "claiming" /\ held[v].kind # "none" /\ RowLocked(held[v].id)
    /\ sub[w][k].phase = "demoted"
    /\ sub[w][k].target = held[v].id /\ sub[w][k].issue = work[v].issue

AbortNext(v, w, k) ==
    /\ Deadlocked(v, w, k)
    /\ NotClaimed(v)
    /\ UNCHANGED <<issue, row, snap, attempt, sub, env>>

AbortResult(v, w, k) ==
    /\ Deadlocked(v, w, k)
    /\ Awaited(w, k) /\ k < MaxAttempts => sub[w][k + 1].phase = "none"
    /\ Fault
    /\ Fail500(w, k)
    /\ UNCHANGED <<issue, row, snap, held, edits, clears, crashes>>

-----------------------------------------------------------------------------
(* POST /api/eval/release *)

\* Loads the latest row, whoever holds it; 404 when there is none.
ReleaseRead(w) ==
    LET r == row[work[w].issue]
    IN  /\ pc[w] = "releasing"
        /\ IF r.kind = "none"
           THEN NotClaimed(w)
           ELSE /\ held' = [held EXCEPT ![w] = r]
                /\ pc' = [pc EXCEPT ![w] = "freeing"]
                /\ UNCHANGED work
        /\ UNCHANGED <<issue, row, snap, attempt, sub, env>>

\* Written by primary key, and only the columns whose value changed: a
\* placeholder stops being the latest row, a result loses its lease.
FreedAlways(r) == NoRow                     \* mutant: no "pending" test
Freed(r) ==
    CASE r.kind = "pending" -> NoRow
      [] OTHER -> [r EXCEPT !.lease = NoLease]

ReleaseCommit(w) ==
    LET i == work[w].issue
    IN  /\ pc[w] = "freeing"
        /\ ~IssueLocked(i) /\ ~RowLocked(held[w].id)
        /\ IF row[i].id = held[w].id /\ held[w].lease # NoLease
           THEN row' = [row EXCEPT ![i] = Freed(row[i])]
           ELSE UNCHANGED row
        /\ NotClaimed(w)
        /\ UNCHANGED <<issue, snap, attempt, sub, env>>

-----------------------------------------------------------------------------
(* The rest of the world *)

\* A collector upserts the issue: its content or its state changes.
ChangeIssue(i) ==
    /\ edits < MaxEdits
    /\ ~IssueLocked(i)
    /\ \E t \in Text, o \in BOOLEAN :
          /\ <<t, o>> # <<issue[i].text, issue[i].open>>
          /\ issue' = [issue EXCEPT ![i] = [@ EXCEPT !.text = t, !.open = o]]
    /\ edits' = edits + 1
    /\ UNCHANGED <<row, pc, work, snap, held, attempt, sub, clears, faults, crashes>>

\* The commit scanner implicates an open issue in a new commit.
BumpGeneration(i) ==
    /\ issue[i].open
    /\ issue[i].gen < MaxGen
    /\ ~IssueLocked(i)
    /\ issue' = [issue EXCEPT ![i].gen = @ + 1]
    /\ UNCHANGED <<row, pc, work, snap, held, attempt, sub, env>>

\* /clear deletes every evaluation of the issue, placeholders included.
Clear(i) ==
    /\ clears < MaxClears
    /\ row[i].kind # "none" /\ ~RowLocked(row[i].id)
    /\ row' = [row EXCEPT ![i] = NoRow]
    /\ clears' = clears + 1
    /\ UNCHANGED <<issue, pc, work, snap, held, attempt, sub, edits, faults, crashes>>

\* The worker dies, or its /release never arrives; requests the server has
\* already received run to their end.
Crash(w) ==
    /\ pc[w] \in {"evaluating", "submitting", "releasing"}
    /\ crashes < MaxCrashes
    /\ crashes' = crashes + 1
    /\ Accepted(w)
    /\ UNCHANGED <<issue, row, snap, held, sub, edits, clears, faults>>

TickBelowZero(l) == l - 1                   \* mutant: NULL leases run down
TickDown(l) == IF l > 0 THEN l - 1 ELSE l

\* Time passes: every lease, and every worker's idea of it, runs down.
Tick ==
    /\ \/ \E i \in Issue : row[i].lease > 0
       \/ \E w \in Worker : work[w].lease > 0
    /\ row' = [i \in Issue |-> [row[i] EXCEPT !.lease = TickDown(@)]]
    /\ work' = [w \in Worker |-> [work[w] EXCEPT !.lease = TickDown(@)]]
    /\ UNCHANGED <<issue, pc, snap, held, attempt, sub, env>>

-----------------------------------------------------------------------------
NextCall(w) == NextSelect(w) \/ NextLock(w) \/ ClaimByInsert(w) \/ ClaimByUpdate(w)

Next ==
    \/ \E w \in Worker :
          \/ NextSelect(w) \/ NextLock(w) \/ ClaimByInsert(w) \/ ClaimByUpdate(w)
          \/ Finish(w) \/ GiveUp(w) \/ SubmitTimeout(w) \/ Crash(w)
          \/ ReleaseRead(w) \/ ReleaseCommit(w)
    \/ \E w \in Worker, k \in Attempt :
          \/ SubmitRead(w, k) \/ SubmitFail(w, k)
          \/ SubmitDemote(w, k) \/ SubmitCommit(w, k)
          \/ \E v \in Worker : AbortNext(v, w, k) \/ AbortResult(v, w, k)
    \/ \E i \in Issue : ChangeIssue(i) \/ BumpGeneration(i) \/ Clear(i)
    \/ Tick

Spec == Init /\ [][Next]_vars

\* Workers keep polling, an evaluation ends, the server answers what it has
\* received, the database detects deadlocks and time passes.  Strong fairness
\* stands for PostgreSQL's lock queues: who waits for a row that is free again
\* and again gets it.  Nothing is assumed of collectors, scanner, /clear, or
\* of any failure.
Fairness ==
    /\ \A w \in Worker :
          /\ WF_vars(NextCall(w)) /\ WF_vars(Finish(w))
          /\ WF_vars(ReleaseRead(w)) /\ SF_vars(ReleaseCommit(w))
    /\ \A w \in Worker, k \in Attempt :
          /\ WF_vars(SubmitRead(w, k) \/ SubmitDemote(w, k))
          /\ SF_vars(SubmitCommit(w, k))
    /\ WF_vars(\E v, w \in Worker, k \in Attempt : AbortNext(v, w, k))
    /\ WF_vars(Tick)

FairSpec == Spec /\ Fairness

-----------------------------------------------------------------------------
(* Properties *)

\* Every variable keeps its type; in particular a lease never exceeds TTL.
TypeOK ==
    /\ issue \in [Issue -> IssueRecord]
    /\ row \in [Issue -> Row]
    /\ pc \in [Worker -> {"idle", "selecting", "claiming", "evaluating",
                          "submitting", "releasing", "freeing"}]
    /\ work \in [Worker -> Work]
    /\ snap \in [Worker -> SUBSET Candidate]
    /\ held \in [Worker -> Row]
    /\ attempt \in [Worker -> 0..MaxAttempts]
    /\ sub \in [Worker -> [Attempt -> Submission]]
    /\ edits \in Nat /\ clears \in Nat /\ faults \in Nat /\ crashes \in Nat

\* An evaluation that the queue regards as current was computed from the
\* content and state the issue has now, however long its worker took and
\* whatever the collectors did meanwhile (the 409 of /result, the hash test
\* of /next).
CurrentMeansSameContent ==
    \A i \in Issue :
        UpToDate(issue[i], row[i]) => row[i].saw.hash = HashOf(issue[i])

\* Nobody's claim leaks: as long as no worker has died, a row that carries a
\* lease belongs to an issue some worker is still working on, so that an
\* issue waits for the ten minutes of _LOCK_TTL only after a crash.
Active(w, i) ==
    /\ work[w].issue = i
    /\ pc[w] \in {"evaluating", "submitting", "releasing", "freeing"}

NoLeakedClaim ==
    crashes = 0 =>
        \A i \in Issue : row[i].lease # NoLease => \E w \in Worker : Active(w, i)

\* A stored evaluation is only ever replaced by another one: claims, expired
\* claims, releases by anyone and retries never take it away; only /clear does.
ResultsSurvive ==
    [][\A i \in Issue :
          row[i].kind = "result" => row'[i].kind = "result" \/ Clear(i)]_vars

\* An issue becomes current through a result only if its generation and its
\* content are those read when that result's request was accepted: a commit
\* or an edit that lands during the embedding call is not swallowed.
LateChangesSurvive ==
    [][\A i \in Issue :
          (/\ ~UpToDate(issue[i], row[i]) /\ UpToDate(issue'[i], row'[i])
           /\ row'[i].id # row[i].id)
          => \E w \in Worker, k \in Attempt :
                /\ sub[w][k].phase = "demoted" /\ sub[w][k].issue = i
                /\ sub[w][k].hash = HashOf(issue[i])
                /\ issue[i].open => sub[w][k].gen = issue[i].gen]_vars

\* Once edits, commits, /clear, failures and crashes stop, every issue the
\* workers ask for ends up with a current evaluation.
AllEventuallyCurrent ==
    <>[](\A i \in Issue : ~NeedsEvaluation(issue[i], row[i]))

-----------------------------------------------------------------------------
(* The store the queue implements *)

StoredVersions(r) ==
    IF r.kind = "result" THEN {[hash |-> r.saw.hash, gen |-> r.gen]} ELSE {}

AcceptedEvaluations(s) ==
    IF s.phase \in {"embedding", "demoted"}
    THEN {[issue |-> s.issue, of |-> [hash |-> s.saw.hash, gen |-> s.gen]]}
    ELSE {}

Slots == Worker \X Attempt
StoreContent == [i \in Issue |-> [hash |-> HashOf(issue[i]), gen |-> issue[i].gen]]
StoreStored == [i \in Issue |-> StoredVersions(row[i])]
StoreAccepted == [r \in Slots |-> AcceptedEvaluations(sub[r[1]][r[2]])]

Abstract == INSTANCE EvaluationStore WITH
    Slot <- Slots, Content <- Hashes, Generation <- Nat,
    content <- StoreContent, stored <- StoreStored, accepted <- StoreAccepted

\* With all its claims, leases, placeholders, retries, releases and aborted
\* transactions the queue is a store of evaluations: a result only replaces
\* another result, it was computed from the content the issue had when the
\* request was accepted, and it carries the generation of that moment.
ImplementsStore == Abstract!StoreSpec

-----------------------------------------------------------------------------
(* Claims of comments that the code does not keep *)

Live(w, i) ==
    /\ pc[w] \in {"evaluating", "submitting"}
    /\ work[w].issue = i /\ work[w].lease > 0

\* evaluation_queue.py 192-202: row locking keeps two workers from picking
\* the same issue.
NoDoublePick ==
    \A v, w \in Worker : \A i \in Issue : Live(v, i) /\ Live(w, i) => v = w

\* models/llm_evaluation.py 90-92: the stored evidence_generation is that of
\* the moment the evaluation ran, so that an open issue whose row matches its
\* generation was evaluated with it.
GenerationIsTheEvaluateds ==
    \A i \in Issue :
        UpToDate(issue[i], row[i]) /\ issue[i].open => row[i].saw.gen = issue[i].gen
=============================================================================
