--------------------------- MODULE CommitScanner ---------------------------
(***************************************************************************)
(* craft_dashboard/commit_scanner/scanner.py: passes over the bare mirrors *)
(* that turn new commits into bumps of Issue.evidence_generation, each     *)
(* project in one transaction with its last_scanned_sha; the mirrors as    *)
(* git_mirrors/sync.py keeps them; git log as git_mirrors/reader.py caps   *)
(* it.  Issues open and close meanwhile, upstream pushes and force-pushes. *)
(*                                                                         *)
(* Commits are those git log --no-merges lists, the others left out, and   *)
(* numbered in the order they are pushed.  A SHA stands for                *)
(* the history it names: the set of the commits reachable from it that are *)
(* younger than the model, so that git log a..b is b \ a.                  *)
(***************************************************************************)
EXTENDS Integers, FiniteSets

CONSTANTS
    Scanner,      \* commit-scanner processes, which nothing keeps apart, by number
    Projects,     \* number of projects with a clone URL, in the order of Project.id
    Issue,        \* primary keys of the issues
    Cap,          \* _MAX_OUTPUT_BYTES, in commits
    MaxCommits,   \* bound: commits pushed
    MaxForce,     \* bound: force-pushes, and passes that overlap
    MaxToggles,   \* bound: issues closed or opened by the collectors
    MaxFaults     \* bound: failed fetches, failed queries, crashes, overlapping passes

ASSUME ScannerAssumption ==
    /\ Scanner \subseteq Nat /\ Projects \in Nat \ {0}
    /\ Cap \in Nat \ {0} /\ MaxCommits \in Nat
    /\ MaxForce \in Nat /\ MaxToggles \in Nat /\ MaxFaults \in Nat

VARIABLES
    upstream,     \* upstream[p]: what the default branch of p points to
    pushed,       \* commits pushed so far
    names,        \* names[c]: the issues the message of c refers to
    mirror,       \* mirror[p]: HEAD of the bare mirror, NoSha without a mirror
    objects,      \* objects[p]: the commits the mirror holds
    last,         \* last[p]: Project.last_scanned_sha
    open, gen,    \* open[i], gen[i]: state and evidence_generation of an issue
    run,          \* run[s]: the pass of scanner s
    landed,       \* history: gen when c was pushed
    seen,         \* history: commits of p that committed passes have read
    cut,          \* history: commits of p that git printed and the reader cut off
    told,         \* history: <<c, i>>: a pass read c while i was open all along
    clobbered,    \* history: issues whose generation was raised from an older one
    forces, toggles, faults      \* counters of the bounded steps

world == <<upstream, pushed, names, landed>>
mirrors == <<mirror, objects>>
history == <<seen, cut, told, clobbered>>
bounds == <<forces, toggles, faults>>
vars == <<world, mirrors, last, open, gen, run, history, bounds>>

Project == 1..Projects
Commit == 1..MaxCommits
NoSha == {0}        \* NULL, a set that is no history
Sha == SUBSET Commit

-----------------------------------------------------------------------------
(* A pass *)

\* read[i] is the generation the final query loaded, -1 when it did not.
Unread == [i \in Issue |-> -1]

Idle == [pc |-> "idle", dry |-> FALSE, cur |-> 1, listed |-> [p \in Project |-> NoSha],
         head |-> NoSha, log |-> {}, cut |-> {}, todo |-> {}, hits |-> {},
         read |-> Unread, steady |-> {}]

Open == {i \in Issue : open[i]}

MoreInclusive(r) == r.cur <= Projects       \* mutant: off by one
More(r) == r.cur < Projects

\* Whatever became of a project, the loop goes on with the rest of the list.
NextProject(r) ==
    IF More(r)
    THEN [Idle EXCEPT !.pc = "sync", !.dry = r.dry, !.cur = r.cur + 1,
                      !.listed = [r.listed EXCEPT ![r.cur] = NoSha]]
    ELSE Idle

Goto(s, r) == run' = [run EXCEPT ![s] = r]

Init ==
    /\ upstream = [p \in Project |-> {}]
    /\ pushed = 0
    /\ names = [c \in Commit |-> {}]
    /\ landed = [c \in Commit |-> [i \in Issue |-> 0]]
    /\ mirror = [p \in Project |-> NoSha]
    /\ objects = [p \in Project |-> {}]
    /\ last = [p \in Project |-> NoSha]
    /\ open = [i \in Issue |-> TRUE]
    /\ gen = [i \in Issue |-> 0]
    /\ run = [s \in Scanner |-> Idle]
    /\ seen = [p \in Project |-> {}]
    /\ cut = [p \in Project |-> {}]
    /\ told = {} /\ clobbered = {}
    /\ forces = 0 /\ toggles = 0 /\ faults = 0

Fault == faults < MaxFaults /\ faults' = faults + 1
Forced == forces < MaxForce /\ forces' = forces + 1

\* Every project's last_scanned_sha is read once, when the pass begins; that
\* another one is still at work keeps nobody from it.  Processes come and go: a
\* new one takes the first number that is free.
Start(s, dry) ==
    /\ run[s].pc = "idle" /\ \A t \in Scanner : t < s => run[t].pc # "idle"
    /\ IF \A t \in Scanner : run[t].pc = "idle" THEN UNCHANGED <<forces, faults>>
       ELSE Fault /\ Forced
    /\ Goto(s, [Idle EXCEPT !.pc = "sync", !.dry = dry, !.listed = last])
    /\ UNCHANGED <<world, mirrors, last, open, gen, history, toggles>>

-----------------------------------------------------------------------------
(* sync_mirror *)

\* Fetched, or cloned when it is missing.  The reflogs keep what a
\* force-push has left behind.
Fetched(p) ==
    /\ mirror' = [mirror EXCEPT ![p] = upstream[p]]
    /\ objects' = [objects EXCEPT ![p] = @ \cup upstream[p]]

\* A corrupt mirror is removed and cloned again: the reflogs are gone.
Recloned(p) ==
    /\ mirror' = [mirror EXCEPT ![p] = upstream[p]]
    /\ objects' = [objects EXCEPT ![p] = upstream[p]]

\* ... or cannot be.
Removed(p) ==
    /\ mirror' = [mirror EXCEPT ![p] = NoSha]
    /\ objects' = [objects EXCEPT ![p] = {}]

Sync(s) ==
    /\ run[s].pc = "sync"
    /\ Fetched(run[s].cur)
    /\ Goto(s, [run[s] EXCEPT !.pc = "head"])
    /\ UNCHANGED <<world, last, open, gen, history, bounds>>

SyncAgain(s) ==
    /\ run[s].pc = "sync" /\ mirror[run[s].cur] # NoSha
    /\ Fault
    /\ Recloned(run[s].cur)
    /\ Goto(s, [run[s] EXCEPT !.pc = "head"])
    /\ UNCHANGED <<world, last, open, gen, history, forces, toggles>>

\* The fetch fails, the clone fails, or configuring what was cloned does.
SyncSkipped(s) ==
    LET p == run[s].cur
    IN  /\ run[s].pc = "sync"
        /\ Fault
        /\ UNCHANGED mirrors \/ Removed(p) \/ (mirror[p] = NoSha /\ Fetched(p))
        /\ Goto(s, NextProject(run[s]))
        /\ UNCHANGED <<world, last, open, gen, history, forces, toggles>>

\* craft-dashboard mirrors sync, or an eval worker, fetches the same mirror.
OtherSync(p) ==
    /\ mirror[p] # upstream[p]
    /\ Fetched(p)
    /\ UNCHANGED <<world, last, open, gen, run, history, bounds>>

-----------------------------------------------------------------------------
(* scan_project *)

Newest(c, S) == {d \in S : d >= c}

\* git log lists the newest commits first, and what is past the cap is cut
\* off without an error.
Output(S) == {c \in S : Cardinality(Newest(c, S)) <= Cap}

Persists(s) == ~run[s].dry

\* A project that was never scanned only gets a baseline.
Baseline(s) ==
    LET r == run[s]  p == r.cur
    IN  /\ r.pc = "head" /\ mirror[p] # NoSha
        /\ r.listed[p] = NoSha
        /\ IF Persists(s)
           THEN /\ last' = [last EXCEPT ![p] = mirror[p]]
                /\ seen' = [seen EXCEPT ![p] = @ \cup mirror[p]]
           ELSE UNCHANGED <<last, seen>>
        /\ Goto(s, NextProject(r))
        /\ UNCHANGED <<world, mirrors, open, gen, cut, told, clobbered, bounds>>

\* rev-parse HEAD, then git log pinned to what it returned.
ReadLog(s) ==
    LET r == run[s]  p == r.cur  new == mirror[p] \ r.listed[p]
    IN  /\ r.pc = "head" /\ mirror[p] # NoSha
        /\ r.listed[p] # NoSha
        /\ r.listed[p] \subseteq objects[p]
        /\ Goto(s, [r EXCEPT !.pc = "match", !.head = mirror[p], !.log = Output(new),
                             !.cut = new \ Output(new), !.todo = Output(new), !.steady = Open])
        /\ UNCHANGED <<world, mirrors, last, open, gen, history, bounds>>

AbortPass(r) == Idle                        \* mutant: no isolation of projects
AfterFailure(r) == NextProject(r)

\* No mirror, or git log fails because the mirror does not hold
\* last_scanned_sha (any more): the project is skipped, in every pass.
NoLog(s) ==
    LET r == run[s]  p == r.cur
    IN  /\ r.pc = "head"
        /\ \/ mirror[p] = NoSha
           \/ r.listed[p] # NoSha /\ ~(r.listed[p] \subseteq objects[p])
        /\ Goto(s, AfterFailure(r))
        /\ UNCHANGED <<world, mirrors, last, open, gen, history, bounds>>

Hits(r, c) == r.hits \cup (names[c] \cap Open)

\* The references of one commit are resolved to open issues.
Match(s) ==
    LET r == run[s]
    IN  /\ r.pc = "match" /\ r.todo # {}
        /\ \E c \in r.todo :
              /\ Newest(c, r.todo) = {c}
              /\ Goto(s, [r EXCEPT !.todo = @ \ {c}, !.hits = Hits(r, c)])
        /\ UNCHANGED <<world, mirrors, last, open, gen, history, bounds>>

\* Changed paths and semantic neighbours add any open issues.  A dry run is
\* over then: its transaction is rolled back.
MatchRest(s) ==
    LET r == run[s]
    IN  /\ r.pc = "match" /\ r.todo = {}
        /\ \E near \in SUBSET (IF r.log = {} THEN {} ELSE Open) :
              Goto(s, IF Persists(s)
                      THEN [r EXCEPT !.pc = "select", !.hits = @ \cup near]
                      ELSE NextProject(r))
        /\ UNCHANGED <<world, mirrors, last, open, gen, history, bounds>>

\* The matched issues that are still open are loaded ...
Select(s) ==
    LET r == run[s]
    IN  /\ r.pc = "select"
        /\ Goto(s, [r EXCEPT !.pc = "commit",
                     !.read = [i \in Issue |-> IF i \in r.hits \cap Open THEN gen[i] ELSE -1]])
        /\ UNCHANGED <<world, mirrors, last, open, gen, history, bounds>>

RaisedOnce(n) == 1                          \* mutant: a flag
Raised(n) == n + 1

HeadByNow(s) == mirror[run[s].cur]          \* mutant: rev-parse once more
ScannedTo(s) == run[s].head

\* ... and what was loaded, plus one, is written with last_scanned_sha: whatever
\* another pass has made of the generation in between is lost.
Commits(s) ==
    LET r == run[s]  p == r.cur
    IN  /\ r.pc = "commit"
        /\ gen' = [i \in Issue |-> IF r.read[i] = -1 THEN gen[i] ELSE Raised(r.read[i])]
        /\ last' = [last EXCEPT ![p] = ScannedTo(s)]
        /\ seen' = [seen EXCEPT ![p] = @ \cup r.log]
        /\ cut' = [cut EXCEPT ![p] = @ \cup r.cut]
        /\ told' = told \cup {ci \in r.log \X r.steady : ci[2] \in names[ci[1]]}
        /\ clobbered' = clobbered \cup {i \in Issue : r.read[i] # -1 /\ r.read[i] < gen[i]}
        /\ Goto(s, NextProject(r))
        /\ UNCHANGED <<world, mirrors, open, bounds>>

\* git, the embedding service, the database or a deadlock with a collector
\* raises: rolled back, and on with the next project.
Fail(s) ==
    /\ run[s].pc \in {"head", "match", "select", "commit"}
    /\ Fault
    /\ Goto(s, AfterFailure(run[s]))
    /\ UNCHANGED <<world, mirrors, last, open, gen, history, forces, toggles>>

Crash(s) ==
    /\ run[s].pc # "idle"
    /\ Fault
    /\ Goto(s, Idle)
    /\ UNCHANGED <<world, mirrors, last, open, gen, history, forces, toggles>>

-----------------------------------------------------------------------------
(* The rest of the world *)

Push(p) ==
    /\ pushed < MaxCommits
    /\ pushed' = pushed + 1
    /\ upstream' = [upstream EXCEPT ![p] = @ \cup {pushed + 1}]
    /\ \E is \in SUBSET Issue : names' = [names EXCEPT ![pushed + 1] = is]
    /\ landed' = [landed EXCEPT ![pushed + 1] = gen]
    /\ UNCHANGED <<mirrors, last, open, gen, run, history, bounds>>

ForcePush(p) ==
    /\ Forced
    /\ \E c \in upstream[p] : upstream' = [upstream EXCEPT ![p] = @ \ Newest(c, @)]
    /\ UNCHANGED <<pushed, names, landed, mirrors, last, open, gen, run, history,
                   toggles, faults>>

Toggle(i) ==
    /\ toggles < MaxToggles
    /\ toggles' = toggles + 1
    /\ open' = [open EXCEPT ![i] = ~@]
    /\ run' = [s \in Scanner |-> [run[s] EXCEPT !.steady = @ \ {i}]]
    /\ UNCHANGED <<world, mirrors, last, gen, history, forces, faults>>

-----------------------------------------------------------------------------
Proceed(s) ==
    \/ Sync(s) \/ Baseline(s) \/ ReadLog(s) \/ NoLog(s)
    \/ Match(s) \/ MatchRest(s) \/ Select(s) \/ Commits(s)

Next ==
    \/ \E s \in Scanner :
          \/ \E dry \in BOOLEAN : Start(s, dry)
          \/ Proceed(s) \/ SyncAgain(s) \/ SyncSkipped(s) \/ Fail(s) \/ Crash(s)
    \/ \E p \in Project : OtherSync(p) \/ Push(p) \/ ForcePush(p)
    \/ \E i \in Issue : Toggle(i)

Spec == Init /\ [][Next]_vars

\* Passes are scheduled again and again, not all of them dry, and a pass that
\* has begun goes on.
Fairness ==
    /\ \A s \in Scanner : WF_vars(Proceed(s))
    /\ SF_vars(\E s \in Scanner : Start(s, FALSE))

FairSpec == Spec /\ Fairness

-----------------------------------------------------------------------------
(* Properties *)

Pass == [pc : {"idle", "sync", "head", "match", "select", "commit"}, dry : BOOLEAN,
         cur : Project, listed : [Project -> Sha \cup {NoSha}], head : Sha \cup {NoSha},
         log : Sha, cut : Sha, todo : Sha, hits : SUBSET Issue,
         read : [Issue -> Nat \cup {-1}], steady : SUBSET Issue]

\* Every variable keeps its type; in particular a pass stays on the projects
\* there are.
TypeOK ==
    /\ upstream \in [Project -> Sha] /\ pushed \in 0..MaxCommits
    /\ names \in [Commit -> SUBSET Issue] /\ landed \in [Commit -> [Issue -> Nat]]
    /\ mirror \in [Project -> Sha \cup {NoSha}] /\ objects \in [Project -> Sha]
    /\ last \in [Project -> Sha \cup {NoSha}]
    /\ open \in [Issue -> BOOLEAN] /\ gen \in [Issue -> Nat]
    /\ run \in [Scanner -> Pass]
    /\ seen \in [Project -> Sha] /\ cut \in [Project -> Sha]
    /\ told \in SUBSET (Commit \X Issue) /\ clobbered \in SUBSET Issue
    /\ forces \in Nat /\ toggles \in Nat /\ faults \in Nat

\* last_scanned_sha never gets ahead of the scanner: every commit it covers
\* was read by a pass that was committed, or precedes the baseline, whatever
\* failed, crashed, was rolled back, ran dry or overlapped on the way; but for
\* what was cut off, and nothing is cut off a log that is within the cap.
NothingSkipped ==
    /\ \A p \in Project : last[p] # NoSha => last[p] \subseteq seen[p] \cup cut[p]
    /\ \A s \in Scanner :
          run[s].cut # {} => Cardinality(run[s].head \ run[s].listed[run[s].cur]) > Cap

\* A commit that refers to an issue makes stale every evaluation made before
\* it landed: once a pass has read it, with the issue open all along, the
\* generation is beyond the one the issue had then, whatever other passes run
\* at the same time; but for an issue whose generation one pass has written over
\* the increment of another.
HitsInvalidate ==
    \A ci \in told : ci[2] \notin clobbered => gen[ci[2]] > landed[ci[1]][ci[2]]

\* Once pushes, failures and crashes stop, every project is scanned up to its
\* head, whatever becomes of the others, unless its mirror has lost the commit
\* the last pass ended at.
Stranded(p) == last[p] # NoSha /\ ~(last[p] \subseteq objects[p])
CaughtUp ==
    \A p \in Project : <>[](last[p] = upstream[p] \/ Stranded(p))
=============================================================================
