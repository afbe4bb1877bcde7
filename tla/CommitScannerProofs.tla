------------------------ MODULE CommitScannerProofs ------------------------
(***************************************************************************)
(* The safety properties of CommitScanner for every number of projects,    *)
(* issues, scanner processes and commits, and for every cap: any number of *)
(* passes may be at work, overlap as often as they like, and have logs     *)
(* that are cut.                                                           *)
(***************************************************************************)
EXTENDS CommitScanner, FiniteSetTheorems, TLAPS

\* A pass that has a log of commits before it.
Reading(r) == r.pc \in {"match", "select", "commit"}

\* Such a pass has a head: rev-parse came first.
HasHead == \A s \in Scanner : Reading(run[s]) => run[s].head # NoSha

TypeInv == TypeOK /\ HasHead

-----------------------------------------------------------------------------
(* Steps that only move a pass *)

\* What the steps have in common that get no further than a mirror: the pass
\* of s has no log afterwards and forgets at most what it had listed.
Quiet(s) ==
    /\ \E r \in Pass :
          /\ run' = [run EXCEPT ![s] = r]
          /\ ~Reading(r)
          /\ r.steady \subseteq run[s].steady
          /\ \A p \in Project : r.listed[p] \in {NoSha, run[s].listed[p]}
          /\ r.cut = {} \/ (r.cut = run[s].cut /\ ~Reading(run[s]))
    /\ run[s].pc # "idle"
    /\ \A p \in Project : mirror'[p] \in {NoSha, mirror[p], upstream[p]}
    /\ UNCHANGED <<world, last, open, gen, history>>

\* The pass before its start is a pass.
LEMMA IdleTyped ==
    /\ Idle \in Pass /\ ~Reading(Idle)
    /\ Idle.steady = {} /\ Idle.cut = {} /\ \A p \in Project : Idle.listed[p] = NoSha
<1>1. 1 \in Project
  BY ScannerAssumption DEF Project
<1>2. Unread \in [Issue -> Nat \cup {-1}]
  BY DEF Unread
<1>3. QED  BY <1>1, <1>2 DEF Idle, Pass, Reading, Sha

\* The loop goes on with a project there is, and with nothing in its hands.
LEMMA NextProjectFacts ==
    ASSUME NEW r \in Pass
    PROVE  /\ NextProject(r) \in Pass /\ ~Reading(NextProject(r))
           /\ NextProject(r).steady = {} /\ NextProject(r).cut = {}
           /\ \A p \in Project : NextProject(r).listed[p] \in {NoSha, r.listed[p]}
<1>1. CASE ~More(r)
  BY <1>1, IdleTyped DEF NextProject
<1>2. CASE More(r)
  <2>1. r.cur + 1 \in Project
    BY <1>2, ScannerAssumption DEF More, Pass, Project
  <2>2. [r.listed EXCEPT ![r.cur] = NoSha] \in [Project -> Sha \cup {NoSha}]
    BY DEF Pass
  <2>3. NextProject(r) = [Idle EXCEPT !.pc = "sync", !.dry = r.dry, !.cur = r.cur + 1,
                              !.listed = [r.listed EXCEPT ![r.cur] = NoSha]]
    BY <1>2 DEF NextProject
  <2>4. NextProject(r) \in Pass /\ NextProject(r).pc = "sync" /\ NextProject(r).steady = {}
        /\ NextProject(r).cut = {}
    BY <2>1, <2>2, <2>3, IdleTyped DEF Pass, Idle
  <2>5. \A p \in Project : NextProject(r).listed[p] \in {NoSha, r.listed[p]}
    BY <2>3, IdleTyped DEF Idle, Pass
  <2>6. QED  BY <2>4, <2>5 DEF Reading
<1>3. QED  BY <1>1, <1>2

\* A pass whose program counter alone changes is a pass.
LEMMA MovedTyped ==
    ASSUME NEW r \in Pass, NEW l \in {"head", "match", "select", "commit"}
    PROVE  [r EXCEPT !.pc = l] \in Pass
BY DEF Pass

\* Syncs, failures and crashes are quiet.
LEMMA QuietSteps ==
    ASSUME TypeInv, NEW s \in Scanner,
           \/ Sync(s) \/ SyncAgain(s) \/ SyncSkipped(s)
           \/ NoLog(s) \/ Fail(s) \/ Crash(s)
    PROVE  Quiet(s) /\ UNCHANGED <<upstream, last, seen, told>>
<1> DEFINE r == run[s]
<1>0. r \in Pass /\ r.cur \in Project /\ mirror \in [Project -> Sha \cup {NoSha}]
      /\ upstream \in [Project -> Sha]
  BY DEF TypeInv, TypeOK, Pass
<1>a. ASSUME run' = [run EXCEPT ![s] = [r EXCEPT !.pc = "head"]], r.pc = "sync"
      PROVE  \E q \in Pass :
                /\ run' = [run EXCEPT ![s] = q] /\ ~Reading(q)
                /\ q.steady \subseteq run[s].steady
                /\ \A p \in Project : q.listed[p] \in {NoSha, run[s].listed[p]}
                /\ q.cut = {} \/ (q.cut = run[s].cut /\ ~Reading(run[s]))
  <2>1. [r EXCEPT !.pc = "head"] \in Pass
    BY <1>0, MovedTyped
  <2>2. [r EXCEPT !.pc = "head"].pc = "head"
    BY <1>0 DEF Pass
  <2>3. QED  BY <1>a, <1>0, <2>1, <2>2 DEF Pass, Reading
<1>b. ASSUME run' = [run EXCEPT ![s] = NextProject(r)] \/ run' = [run EXCEPT ![s] = Idle]
      PROVE  \E q \in Pass :
                /\ run' = [run EXCEPT ![s] = q] /\ ~Reading(q)
                /\ q.steady \subseteq run[s].steady
                /\ \A p \in Project : q.listed[p] \in {NoSha, run[s].listed[p]}
                /\ q.cut = {} \/ (q.cut = run[s].cut /\ ~Reading(run[s]))
  <2>1. CASE run' = [run EXCEPT ![s] = NextProject(r)]
    BY <1>0, <2>1, NextProjectFacts
  <2>2. CASE run' = [run EXCEPT ![s] = Idle]
    BY <1>0, <2>2, IdleTyped
  <2>3. QED  BY <1>b, <2>1, <2>2
<1>1. CASE Sync(s)
  BY <1>1, <1>0, <1>a DEF Sync, Quiet, Goto, Fetched, history, world
<1>2. CASE SyncAgain(s)
  BY <1>2, <1>0, <1>a DEF SyncAgain, Quiet, Goto, Recloned, history, world
<1>3. CASE SyncSkipped(s)
  BY <1>3, <1>0, <1>b
  DEF SyncSkipped, Quiet, Goto, Removed, Fetched, mirrors, history, world
<1>4. CASE NoLog(s)
  BY <1>4, <1>0, <1>b DEF NoLog, AfterFailure, Quiet, Goto, mirrors, history, world
<1>5. CASE Fail(s)
  BY <1>5, <1>0, <1>b DEF Fail, AfterFailure, Quiet, Goto, mirrors, history, world
<1>6. CASE Crash(s)
  BY <1>6, <1>0, <1>b DEF Crash, Quiet, Goto, mirrors, history, world
<1>7. QED  BY <1>1, <1>2, <1>3, <1>4, <1>5, <1>6

-----------------------------------------------------------------------------
(* Types *)

LEMMA InitTyped == Init => TypeInv
<1> SUFFICES ASSUME Init PROVE TypeInv
  OBVIOUS
<1>1. run \in [Scanner -> Pass] /\ \A s \in Scanner : run[s] = Idle
  BY IdleTyped DEF Init
<1>2. HasHead
  BY <1>1, IdleTyped DEF HasHead
<1>3. names \in [Commit -> SUBSET Issue] /\ landed \in [Commit -> [Issue -> Nat]]
  BY DEF Init
<1>4. 0 \in 0..MaxCommits
  BY ScannerAssumption
<1>5. {} \in Sha
  BY DEF Sha
<1>6. QED  BY <1>1, <1>2, <1>3, <1>4, <1>5 DEF Init, TypeInv, TypeOK

\* A quiet step keeps the types, since the mirrors and counters do.
LEMMA QuietTyped ==
    ASSUME TypeInv, NEW s \in Scanner, Quiet(s),
           mirror' \in [Project -> Sha \cup {NoSha}], objects' \in [Project -> Sha],
           forces' \in Nat, toggles' \in Nat, faults' \in Nat
    PROVE  TypeInv'
<1>1. PICK r \in Pass : run' = [run EXCEPT ![s] = r] /\ ~Reading(r)
  BY DEF Quiet
<1>2. run' \in [Scanner -> Pass]
  BY <1>1 DEF TypeInv, TypeOK
<1>3. HasHead'
  BY <1>1 DEF TypeInv, TypeOK, HasHead, Reading
<1>4. QED  BY <1>2, <1>3 DEF Quiet, TypeInv, TypeOK, world, history

\* A step that gives one scanner a pass with a head keeps the types, when
\* nothing else changes.
LEMMA RunTyped ==
    ASSUME TypeInv, NEW s \in Scanner, NEW r \in Pass, Reading(r) => r.head # NoSha,
           run' = [run EXCEPT ![s] = r],
           UNCHANGED <<world, mirrors, last, open, gen, history>>,
           UNCHANGED bounds \/ (forces' \in Nat /\ toggles' \in Nat /\ faults' \in Nat)
    PROVE  TypeInv'
<1>1. run' \in [Scanner -> Pass]
  BY DEF TypeInv, TypeOK
<1>2. HasHead'
  BY DEF TypeInv, TypeOK, HasHead, Reading
<1>3. forces' \in Nat /\ toggles' \in Nat /\ faults' \in Nat
  BY DEF TypeInv, TypeOK, bounds
<1>4. QED  BY <1>1, <1>2, <1>3 DEF TypeInv, TypeOK, world, mirrors, history

\* The lists of projects and commits of a pass that reads a log.
LEMMA OutputTyped ==
    ASSUME NEW S \in Sha
    PROVE  Output(S) \in Sha /\ Output(S) \subseteq S
BY DEF Output, Sha

\* Whatever a sync does to a mirror leaves a mirror or none.
LEMMA SyncTyped ==
    ASSUME TypeInv, NEW p \in Project,
           UNCHANGED mirrors \/ Fetched(p) \/ Recloned(p) \/ Removed(p)
    PROVE  mirror' \in [Project -> Sha \cup {NoSha}] /\ objects' \in [Project -> Sha]
<1>1. /\ mirror \in [Project -> Sha \cup {NoSha}] /\ objects \in [Project -> Sha]
      /\ upstream[p] \in Sha /\ {} \in Sha /\ objects[p] \cup upstream[p] \in Sha
  BY DEF TypeInv, TypeOK, Sha
<1>2. CASE UNCHANGED mirrors
  BY <1>1, <1>2 DEF mirrors
<1>3. CASE Fetched(p)
  BY <1>1, <1>3 DEF Fetched
<1>4. CASE Recloned(p)
  BY <1>1, <1>4 DEF Recloned
<1>5. CASE Removed(p)
  BY <1>1, <1>5 DEF Removed
<1>6. QED  BY <1>2, <1>3, <1>4, <1>5

\* Every step keeps the types.
LEMMA StepTyped == TypeInv /\ [Next]_vars => TypeInv'
<1> SUFFICES ASSUME TypeInv, [Next]_vars PROVE TypeInv'
  OBVIOUS
<1> USE ScannerAssumption
<1>0. ASSUME NEW s \in Scanner
      PROVE  /\ run[s] \in Pass /\ run[s].cur \in Project
             /\ run[s].listed \in [Project -> Sha \cup {NoSha}]
  BY DEF TypeInv, TypeOK, Pass
<1>1. ASSUME NEW s \in Scanner, NEW dry \in BOOLEAN, Start(s, dry) PROVE TypeInv'
  <2> DEFINE r == [Idle EXCEPT !.pc = "sync", !.dry = dry, !.listed = last]
  <2>1. r \in Pass /\ r.pc = "sync"
    BY IdleTyped DEF Idle, Pass, TypeInv, TypeOK
  <2>2. forces' \in Nat /\ toggles' \in Nat /\ faults' \in Nat
    <3>1. toggles' = toggles /\ (UNCHANGED <<forces, faults>> \/ (Fault /\ Forced))
      BY <1>1 DEF Start
    <3>2. QED  BY <3>1 DEF Fault, Forced, TypeInv, TypeOK
  <2>3. QED  BY <1>1, <2>1, <2>2, RunTyped DEF Start, Goto, Reading
<1>2. ASSUME NEW s \in Scanner,
             \/ Sync(s) \/ SyncAgain(s) \/ SyncSkipped(s)
             \/ NoLog(s) \/ Fail(s) \/ Crash(s)
      PROVE  TypeInv'
  <2>1. Quiet(s)
    BY <1>2, QuietSteps
  <2>2. mirror' \in [Project -> Sha \cup {NoSha}] /\ objects' \in [Project -> Sha]
    BY <1>2, <1>0, SyncTyped
    DEF Sync, SyncAgain, SyncSkipped, NoLog, Fail, Crash
  <2>3. forces' \in Nat /\ toggles' \in Nat /\ faults' \in Nat
    BY <1>2
    DEF TypeInv, TypeOK, Sync, SyncAgain, SyncSkipped, NoLog, Fail, Crash, Fault, bounds
  <2>4. QED  BY <2>1, <2>2, <2>3, QuietTyped
<1>3. ASSUME NEW s \in Scanner, Baseline(s) PROVE TypeInv'
  <2> DEFINE r == run[s]
  <2>1. NextProject(r) \in Pass /\ ~Reading(NextProject(r))
    BY <1>0, NextProjectFacts
  <2>2. run' \in [Scanner -> Pass] /\ HasHead'
    BY <1>3, <2>1 DEF Baseline, Goto, TypeInv, TypeOK, HasHead, Reading
  <2>3. mirror[r.cur] \in Sha
    <3>1. r.cur \in Project /\ mirror[r.cur] # NoSha
      BY <1>3, <1>0 DEF Baseline
    <3>2. QED  BY <3>1 DEF TypeInv, TypeOK
  <2>4. last' \in [Project -> Sha \cup {NoSha}] /\ seen' \in [Project -> Sha]
    <3>1. seen[r.cur] \cup mirror[r.cur] \in Sha
      BY <1>0, <2>3 DEF TypeInv, TypeOK, Sha
    <3>2. CASE Persists(s)
      BY <1>0, <1>3, <2>3, <3>1, <3>2 DEF Baseline, TypeInv, TypeOK
    <3>3. CASE ~Persists(s)
      BY <1>3, <3>3 DEF Baseline, TypeInv, TypeOK
    <3>4. QED  BY <3>2, <3>3
  <2>5. QED  BY <1>3, <2>2, <2>4 DEF Baseline, TypeInv, TypeOK, world, mirrors, bounds
<1>4. ASSUME NEW s \in Scanner, ReadLog(s) PROVE TypeInv'
  <2> DEFINE p == run[s].cur
             new == mirror[p] \ run[s].listed[p]
             out == Output(new)
             r == [run[s] EXCEPT !.pc = "match", !.head = mirror[p], !.log = out,
                                 !.cut = new \ out, !.todo = out, !.steady = Open]
  <2>1. mirror[p] \in Sha
    BY <1>4, <1>0 DEF ReadLog, TypeInv, TypeOK
  <2>2. out \in Sha /\ new \ out \in Sha
    BY <2>1, OutputTyped DEF Sha
  <2>3. Open \in SUBSET Issue
    BY DEF Open
  <2>4. r \in Pass /\ r.head = mirror[p]
    BY <1>0, <2>1, <2>2, <2>3 DEF Pass
  <2>5. QED  BY <1>4, <2>4, RunTyped DEF ReadLog, Goto, history, TypeInv, TypeOK
<1>5. ASSUME NEW s \in Scanner, Match(s) PROVE TypeInv'
  <2>1. PICK c \in run[s].todo :
            run' = [run EXCEPT ![s] =
                       [run[s] EXCEPT !.todo = @ \ {c}, !.hits = Hits(run[s], c)]]
    BY <1>5 DEF Match, Goto
  <2> DEFINE r == [run[s] EXCEPT !.todo = @ \ {c}, !.hits = Hits(run[s], c)]
  <2>2. Hits(run[s], c) \in SUBSET Issue
    BY <1>0 DEF Hits, Open, Pass
  <2>3. r \in Pass /\ r.pc = run[s].pc /\ r.head = run[s].head
    BY <1>0, <2>2 DEF Pass, Sha
  <2>4. Reading(r) => r.head # NoSha
    BY <2>3 DEF TypeInv, HasHead, Reading
  <2>5. QED  BY <1>5, <2>1, <2>3, <2>4, RunTyped DEF Match, history, TypeInv, TypeOK
<1>6. ASSUME NEW s \in Scanner, MatchRest(s) PROVE TypeInv'
  <2>1. PICK near \in SUBSET Open :
            run' = [run EXCEPT ![s] =
                       IF Persists(s)
                       THEN [run[s] EXCEPT !.pc = "select", !.hits = @ \cup near]
                       ELSE NextProject(run[s])]
    BY <1>6 DEF MatchRest, Goto
  <2> DEFINE r == [run[s] EXCEPT !.pc = "select", !.hits = @ \cup near]
  <2>2. r \in Pass /\ r.head = run[s].head /\ Reading(run[s])
    BY <1>0, <1>6 DEF Pass, Open, MatchRest, Reading
  <2>3. r.head # NoSha
    BY <2>2 DEF TypeInv, HasHead
  <2>4. NextProject(run[s]) \in Pass /\ ~Reading(NextProject(run[s]))
    BY <1>0, NextProjectFacts
  <2>5. CASE Persists(s)
    BY <1>6, <2>1, <2>2, <2>3, <2>5, RunTyped DEF MatchRest, history, TypeInv, TypeOK
  <2>6. CASE ~Persists(s)
    BY <1>6, <2>1, <2>4, <2>6, RunTyped DEF MatchRest, history, TypeInv, TypeOK
  <2>7. QED  BY <2>5, <2>6
<1>7. ASSUME NEW s \in Scanner, Select(s) PROVE TypeInv'
  <2> DEFINE loaded == [i \in Issue |-> IF i \in run[s].hits \cap Open THEN gen[i] ELSE -1]
             r == [run[s] EXCEPT !.pc = "commit", !.read = loaded]
  <2>1. loaded \in [Issue -> Nat \cup {-1}]
    BY DEF TypeInv, TypeOK
  <2>2. r \in Pass /\ r.head = run[s].head /\ Reading(run[s])
    BY <1>0, <1>7, <2>1 DEF Pass, Select, Reading
  <2>3. r.head # NoSha
    BY <2>2 DEF TypeInv, HasHead
  <2>4. QED  BY <1>7, <2>2, <2>3, RunTyped DEF Select, Goto, history, TypeInv, TypeOK
<1>8. ASSUME NEW s \in Scanner, Commits(s) PROVE TypeInv'
  <2> DEFINE r == run[s]
  <2>1. NextProject(r) \in Pass /\ ~Reading(NextProject(r))
    BY <1>0, NextProjectFacts
  <2>2. run' \in [Scanner -> Pass] /\ HasHead'
    BY <1>8, <2>1 DEF Commits, Goto, TypeInv, TypeOK, HasHead, Reading
  <2>3. r.head \in Sha /\ r.log \in Sha /\ r.cut \in Sha /\ r.steady \in SUBSET Issue
    BY <1>0, <1>8 DEF Commits, TypeInv, HasHead, Reading, Pass
  <2>4. gen' \in [Issue -> Nat]
    BY <1>0, <1>8 DEF Commits, Raised, TypeInv, TypeOK, Pass
  <2>5. /\ last' \in [Project -> Sha \cup {NoSha}] /\ seen' \in [Project -> Sha]
        /\ cut' \in [Project -> Sha]
    BY <1>8, <2>3 DEF Commits, ScannedTo, TypeInv, TypeOK, Sha
  <2>6. told' \in SUBSET (Commit \X Issue) /\ clobbered' \in SUBSET Issue
    BY <1>8, <2>3 DEF Commits, TypeInv, TypeOK, Sha
  <2>7. QED  BY <1>8, <2>2, <2>4, <2>5, <2>6 DEF Commits, TypeInv, TypeOK, world, mirrors, bounds
<1>9. ASSUME NEW p \in Project, OtherSync(p) PROVE TypeInv'
  <2>1. mirror' \in [Project -> Sha \cup {NoSha}] /\ objects' \in [Project -> Sha]
    BY <1>9 DEF OtherSync, Fetched, TypeInv, TypeOK, Sha
  <2>2. QED  BY <1>9, <2>1 DEF OtherSync, TypeInv, TypeOK, HasHead, Reading, world, history, bounds
<1>10. ASSUME NEW p \in Project, Push(p) PROVE TypeInv'
  <2>1. pushed' \in 0..MaxCommits /\ pushed + 1 \in Commit
    BY <1>10 DEF Push, TypeInv, TypeOK, Commit
  <2>2. upstream' \in [Project -> Sha] /\ names' \in [Commit -> SUBSET Issue]
        /\ landed' \in [Commit -> [Issue -> Nat]]
    BY <1>10, <2>1 DEF Push, TypeInv, TypeOK, Sha
  <2>3. QED  BY <1>10, <2>1, <2>2 DEF Push, TypeInv, TypeOK, HasHead, Reading, mirrors, history, bounds
<1>11. ASSUME NEW p \in Project, ForcePush(p) PROVE TypeInv'
  <2>1. upstream' \in [Project -> Sha]
    BY <1>11 DEF ForcePush, TypeInv, TypeOK, Sha
  <2>f. forces' \in Nat
    BY <1>11 DEF ForcePush, Forced, TypeInv, TypeOK
  <2>2. QED  BY <1>11, <2>1, <2>f DEF ForcePush, TypeInv, TypeOK, HasHead, Reading, mirrors, history
<1>12. ASSUME NEW i \in Issue, Toggle(i) PROVE TypeInv'
  <2>1. open' \in [Issue -> BOOLEAN] /\ toggles' \in Nat
    BY <1>12 DEF Toggle, TypeInv, TypeOK
  <2>2. \A s \in Scanner : /\ run'[s] \in Pass
                           /\ run'[s].pc = run[s].pc /\ run'[s].head = run[s].head
    <3> TAKE s \in Scanner
    <3>1. run'[s] = [run[s] EXCEPT !.steady = @ \ {i}]
      BY <1>12 DEF Toggle
    <3>2. QED  BY <1>0, <3>1 DEF Pass
  <2>3. run' \in [Scanner -> Pass] /\ HasHead'
    BY <1>12, <2>2 DEF Toggle, TypeInv, HasHead, Reading
  <2>4. QED  BY <1>12, <2>1, <2>3 DEF Toggle, TypeInv, TypeOK, world, mirrors, history
<1>13. CASE UNCHANGED vars
  BY <1>13 DEF vars, world, mirrors, history, bounds, TypeInv, TypeOK, HasHead, Reading
<1>14. QED
  BY <1>1, <1>2, <1>3, <1>4, <1>5, <1>6, <1>7, <1>8, <1>9, <1>10, <1>11, <1>12, <1>13
  DEF Next, Proceed

\* Every variable keeps its type, for any number of scanners, projects and
\* issues and any bounds; every pass stays on the projects there are.
THEOREM TypeCorrect == Spec => []TypeOK
<1>1. TypeInv => TypeOK
  BY DEF TypeInv
<1>2. QED  BY InitTyped, StepTyped, <1>1, PTL DEF Spec

-----------------------------------------------------------------------------
(* Nothing is skipped *)

\* A log that fits the cap is printed whole.
LEMMA WholeOutput ==
    ASSUME NEW S \in Sha, Output(S) # S
    PROVE  Cardinality(S) > Cap
<1>1. IsFiniteSet(1..MaxCommits) /\ S \subseteq 1..MaxCommits
  BY FS_Interval, ScannerAssumption DEF Sha, Commit
<1>2. IsFiniteSet(S) /\ Cardinality(S) \in Nat
  BY <1>1, FS_Subset, FS_CardinalityType
<1>3. PICK c \in S : ~(Cardinality(Newest(c, S)) <= Cap)
  BY DEF Output
<1>4. Cardinality(Newest(c, S)) <= Cardinality(S) /\ Cardinality(Newest(c, S)) \in Nat
  <2>1. Newest(c, S) \subseteq S
    BY DEF Newest
  <2>2. QED  BY <1>2, <2>1, FS_Subset, FS_CardinalityType
<1>5. QED  BY <1>2, <1>3, <1>4, ScannerAssumption

\* What a pass took over from the table was read or cut off, and what lies
\* between that and the head it has before it, or the reader cut it off.
Covered(p) == seen[p] \cup cut[p]

LastRead == \A p \in Project : last[p] # NoSha => last[p] \subseteq Covered(p)

Listed == \A s \in Scanner, p \in Project :
    run[s].listed[p] # NoSha => run[s].listed[p] \subseteq Covered(p)

LogRange(r) ==
    /\ r.listed[r.cur] # NoSha
    /\ r.head \ r.listed[r.cur] \subseteq r.log \cup r.cut
    /\ r.cut # {} => Cardinality(r.head \ r.listed[r.cur]) > Cap

Ranges == \A s \in Scanner : IF Reading(run[s]) THEN LogRange(run[s]) ELSE run[s].cut = {}

ReadInv == LastRead /\ Listed /\ Ranges

LEMMA InitRead == Init => ReadInv
BY IdleTyped DEF Init, ReadInv, LastRead, Listed, Ranges, Reading

\* A quiet step reads nothing and moves no last_scanned_sha.
LEMMA QuietRead ==
    ASSUME TypeInv, ReadInv, NEW s \in Scanner, Quiet(s)
    PROVE  ReadInv'
<1>1. PICK r \in Pass :
         /\ run' = [run EXCEPT ![s] = r] /\ ~Reading(r)
         /\ \A p \in Project : r.listed[p] \in {NoSha, run[s].listed[p]}
         /\ r.cut = {} \/ (r.cut = run[s].cut /\ ~Reading(run[s]))
  BY DEF Quiet
<1>2. \A t \in Scanner : run'[t] = IF t = s THEN r ELSE run[t]
  BY <1>1 DEF TypeInv, TypeOK
<1>3. UNCHANGED <<last, seen, cut>>
  BY DEF Quiet, history
<1>4. Listed'
  BY <1>1, <1>2, <1>3 DEF ReadInv, Listed, Covered
<1>5. Ranges'
  BY <1>1, <1>2 DEF ReadInv, Ranges, Reading, LogRange
<1>6. LastRead'
  BY <1>3 DEF ReadInv, LastRead, Covered
<1>7. QED  BY <1>4, <1>5, <1>6 DEF ReadInv

\* So does a step that gives a pass a log or takes it further.
LEMMA RunRead ==
    ASSUME TypeInv, ReadInv, NEW s \in Scanner, NEW r \in Pass,
           run' = [run EXCEPT ![s] = r], UNCHANGED <<last, seen, cut>>,
           IF Reading(r) THEN LogRange(r) ELSE r.cut = {},
           \A p \in Project : \/ r.listed[p] \in {NoSha, run[s].listed[p]}
                              \/ r.listed[p] = last[p]
    PROVE  ReadInv'
<1>1. \A t \in Scanner : run'[t] = IF t = s THEN r ELSE run[t]
  BY DEF TypeInv, TypeOK
<1>2. Listed'
  BY <1>1 DEF ReadInv, Listed, LastRead, Covered
<1>3. Ranges'
  BY <1>1 DEF ReadInv, Ranges, Reading, LogRange
<1>4. QED  BY <1>2, <1>3 DEF ReadInv, LastRead, Covered

\* Every step keeps ReadInv.  Commits is the step that matters: the head it
\* writes is what the pass had listed, which was read, and the log it has.
LEMMA StepRead == TypeInv /\ ReadInv /\ [Next]_vars => ReadInv'
<1> SUFFICES ASSUME TypeInv, ReadInv, [Next]_vars PROVE ReadInv'
  OBVIOUS
<1>0. ASSUME NEW s \in Scanner
      PROVE  /\ run[s] \in Pass /\ run[s].cur \in Project
             /\ run[s].listed \in [Project -> Sha \cup {NoSha}]
  BY DEF TypeInv, TypeOK, Pass
<1>1. ASSUME NEW s \in Scanner, NEW dry \in BOOLEAN, Start(s, dry) PROVE ReadInv'
  <2> DEFINE r == [Idle EXCEPT !.pc = "sync", !.dry = dry, !.listed = last]
  <2>1. r \in Pass /\ r.pc = "sync" /\ r.listed = last /\ r.cut = {}
    BY IdleTyped DEF Idle, Pass, TypeInv, TypeOK
  <2>2. QED  BY <1>1, <2>1, RunRead DEF Start, Goto, Reading, history
<1>2. ASSUME NEW s \in Scanner,
             \/ Sync(s) \/ SyncAgain(s) \/ SyncSkipped(s)
             \/ NoLog(s) \/ Fail(s) \/ Crash(s)
      PROVE  ReadInv'
  BY <1>2, QuietSteps, QuietRead
<1>3. ASSUME NEW s \in Scanner, Baseline(s) PROVE ReadInv'
  <2> DEFINE r == run[s]  q == NextProject(run[s])
  <2>1. /\ q \in Pass /\ ~Reading(q) /\ q.cut = {}
        /\ \A p \in Project : q.listed[p] \in {NoSha, r.listed[p]}
    BY <1>0, NextProjectFacts
  <2>2. \A t \in Scanner : run'[t] = IF t = s THEN q ELSE run[t]
    BY <1>3 DEF Baseline, Goto, TypeInv, TypeOK
  <2>3. \A p \in Project : seen[p] \subseteq seen'[p] /\ cut'[p] = cut[p]
    <3>1. CASE Persists(s)
      <4>1. seen' = [seen EXCEPT ![r.cur] = @ \cup mirror[r.cur]]
        BY <1>3, <3>1 DEF Baseline
      <4>2. QED  BY <1>0, <1>3, <4>1 DEF Baseline, TypeInv, TypeOK
    <3>2. CASE ~Persists(s)
      BY <1>3, <3>2 DEF Baseline
    <3>3. QED  BY <3>1, <3>2
  <2>4. \A p \in Project : last'[p] = last[p] \/ last'[p] \subseteq seen'[p]
    <3>1. CASE Persists(s)
      BY <1>0, <1>3, <3>1 DEF Baseline, TypeInv, TypeOK
    <3>2. CASE ~Persists(s)
      BY <1>3, <3>2 DEF Baseline
    <3>3. QED  BY <3>1, <3>2
  <2>5. LastRead'
    BY <2>3, <2>4 DEF ReadInv, LastRead, Covered
  <2>6. Listed'
    BY <2>1, <2>2, <2>3 DEF ReadInv, Listed, Covered
  <2>7. Ranges'
    BY <2>1, <2>2 DEF ReadInv, Ranges, Reading, LogRange
  <2>8. QED  BY <2>5, <2>6, <2>7 DEF ReadInv
<1>4. ASSUME NEW s \in Scanner, ReadLog(s) PROVE ReadInv'
  <2> DEFINE p == run[s].cur
             new == mirror[p] \ run[s].listed[p]
             out == Output(new)
             r == [run[s] EXCEPT !.pc = "match", !.head = mirror[p], !.log = out,
                                 !.cut = new \ out, !.todo = out, !.steady = Open]
  <2>1. mirror[p] \in Sha /\ mirror[p] \ run[s].listed[p] \in Sha
    BY <1>4, <1>0 DEF ReadLog, TypeInv, TypeOK, Sha
  <2>2. /\ out \in Sha /\ new \ out \in Sha /\ out \subseteq new
        /\ new \ out # {} => Cardinality(new) > Cap
    BY <2>1, OutputTyped, WholeOutput DEF Sha
  <2>3. Open \in SUBSET Issue
    BY DEF Open
  <2>4. /\ r \in Pass /\ r.pc = "match" /\ r.head = mirror[p] /\ r.log = out
        /\ r.cut = new \ out /\ r.listed = run[s].listed /\ r.cur = p
    BY <1>0, <2>1, <2>2, <2>3 DEF Pass
  <2>5. LogRange(r)
    BY <1>4, <2>2, <2>4 DEF ReadLog, LogRange
  <2>6. QED  BY <1>4, <2>4, <2>5, RunRead DEF ReadLog, Goto, history, Reading
<1>5. ASSUME NEW s \in Scanner, Match(s) PROVE ReadInv'
  <2>1. PICK c \in run[s].todo :
            run' = [run EXCEPT ![s] =
                       [run[s] EXCEPT !.todo = @ \ {c}, !.hits = Hits(run[s], c)]]
    BY <1>5 DEF Match, Goto
  <2> DEFINE r == [run[s] EXCEPT !.todo = @ \ {c}, !.hits = Hits(run[s], c)]
  <2>2. Hits(run[s], c) \in SUBSET Issue
    BY <1>0 DEF Hits, Open, Pass
  <2>3. /\ r \in Pass /\ r.pc = run[s].pc /\ r.head = run[s].head
        /\ r.log = run[s].log /\ r.listed = run[s].listed /\ r.cur = run[s].cur
        /\ r.cut = run[s].cut
    BY <1>0, <2>2 DEF Pass, Sha
  <2>4. Reading(r) /\ LogRange(r)
    BY <1>5, <2>3 DEF ReadInv, Ranges, Reading, LogRange, Match
  <2>5. QED  BY <1>5, <2>1, <2>3, <2>4, RunRead DEF Match, history
<1>6. ASSUME NEW s \in Scanner, MatchRest(s) PROVE ReadInv'
  <2>1. PICK near \in SUBSET Open :
            run' = [run EXCEPT ![s] =
                       IF Persists(s)
                       THEN [run[s] EXCEPT !.pc = "select", !.hits = @ \cup near]
                       ELSE NextProject(run[s])]
    BY <1>6 DEF MatchRest, Goto
  <2> DEFINE r == [run[s] EXCEPT !.pc = "select", !.hits = @ \cup near]
  <2>2. /\ r \in Pass /\ r.head = run[s].head /\ Reading(run[s]) /\ Reading(r)
        /\ r.log = run[s].log /\ r.listed = run[s].listed /\ r.cur = run[s].cur
        /\ r.cut = run[s].cut
    BY <1>0, <1>6 DEF Pass, Open, MatchRest, Reading
  <2>3. LogRange(r)
    BY <2>2 DEF ReadInv, Ranges, LogRange
  <2>4. /\ NextProject(run[s]) \in Pass /\ ~Reading(NextProject(run[s]))
        /\ NextProject(run[s]).cut = {}
        /\ \A p \in Project : NextProject(run[s]).listed[p] \in {NoSha, run[s].listed[p]}
    BY <1>0, NextProjectFacts
  <2>5. CASE Persists(s)
    BY <1>6, <2>1, <2>2, <2>3, <2>5, RunRead DEF MatchRest, history
  <2>6. CASE ~Persists(s)
    BY <1>6, <2>1, <2>4, <2>6, RunRead DEF MatchRest, history
  <2>7. QED  BY <2>5, <2>6
<1>7. ASSUME NEW s \in Scanner, Select(s) PROVE ReadInv'
  <2> DEFINE loaded == [i \in Issue |-> IF i \in run[s].hits \cap Open THEN gen[i] ELSE -1]
             r == [run[s] EXCEPT !.pc = "commit", !.read = loaded]
  <2>1. loaded \in [Issue -> Nat \cup {-1}]
    BY DEF TypeInv, TypeOK
  <2>2. /\ r \in Pass /\ r.head = run[s].head /\ Reading(run[s]) /\ Reading(r)
        /\ r.log = run[s].log /\ r.listed = run[s].listed /\ r.cur = run[s].cur
        /\ r.cut = run[s].cut
    BY <1>0, <1>7, <2>1 DEF Pass, Select, Reading
  <2>3. LogRange(r)
    BY <2>2 DEF ReadInv, Ranges, LogRange
  <2>4. QED  BY <1>7, <2>2, <2>3, RunRead DEF Select, Goto, history
<1>8. ASSUME NEW s \in Scanner, Commits(s) PROVE ReadInv'
  <2> DEFINE r == run[s]  q == NextProject(run[s])
  <2>1. /\ q \in Pass /\ ~Reading(q) /\ q.cut = {}
        /\ \A p \in Project : q.listed[p] \in {NoSha, r.listed[p]}
    BY <1>0, NextProjectFacts
  <2>2. \A t \in Scanner : run'[t] = IF t = s THEN q ELSE run[t]
    BY <1>8 DEF Commits, Goto, TypeInv, TypeOK
  <2>3. \A p \in Project : seen'[p] = IF p = r.cur THEN seen[p] \cup r.log ELSE seen[p]
    BY <1>8 DEF Commits, TypeInv, TypeOK
  <2>c. \A p \in Project : cut'[p] = IF p = r.cur THEN cut[p] \cup r.cut ELSE cut[p]
    BY <1>8 DEF Commits, TypeInv, TypeOK
  <2>4. \A p \in Project : last'[p] = IF p = r.cur THEN r.head ELSE last[p]
    BY <1>8 DEF Commits, ScannedTo, TypeInv, TypeOK
  <2>5. LogRange(r)
    BY <1>8 DEF Commits, ReadInv, Ranges, Reading
  <2>6. r.head \subseteq seen'[r.cur] \cup cut'[r.cur]
    <3>1. r.listed[r.cur] \subseteq seen[r.cur] \cup cut[r.cur]
      BY <1>0, <2>5 DEF ReadInv, Listed, LogRange, Covered
    <3>2. r.head \ r.listed[r.cur] \subseteq r.log \cup r.cut
      BY <2>5 DEF LogRange
    <3>3. QED  BY <1>0, <2>3, <2>c, <3>1, <3>2
  <2>7. LastRead'
    BY <2>3, <2>c, <2>4, <2>6 DEF ReadInv, LastRead, Covered
  <2>8. Listed'
    <3>1. \A p \in Project : Covered(p) \subseteq Covered(p)'
      BY <2>3, <2>c DEF Covered
    <3>2. \A t \in Scanner, p \in Project :
             run'[t].listed[p] # NoSha => run'[t].listed[p] = run[t].listed[p]
      BY <2>1, <2>2
    <3>3. QED  BY <3>1, <3>2 DEF ReadInv, Listed
  <2>9. Ranges'
    BY <2>1, <2>2 DEF ReadInv, Ranges, Reading, LogRange
  <2>10. QED  BY <2>7, <2>8, <2>9 DEF ReadInv
<1>9. ASSUME NEW p \in Project, OtherSync(p) \/ Push(p) \/ ForcePush(p) PROVE ReadInv'
  BY <1>9 DEF OtherSync, Push, ForcePush, ReadInv, LastRead, Listed, Ranges,
              Covered, Reading, LogRange, history
<1>10. ASSUME NEW i \in Issue, Toggle(i) PROVE ReadInv'
  <2>1. ASSUME NEW s \in Scanner
        PROVE  /\ run'[s].pc = run[s].pc /\ run'[s].head = run[s].head
               /\ run'[s].log = run[s].log /\ run'[s].listed = run[s].listed
               /\ run'[s].cur = run[s].cur /\ run'[s].cut = run[s].cut
    <3>1. run'[s] = [run[s] EXCEPT !.steady = @ \ {i}]
      BY <1>10 DEF Toggle
    <3>2. QED  BY <1>0, <3>1 DEF Pass
  <2>2. UNCHANGED <<last, seen, cut>>
    BY <1>10 DEF Toggle, history
  <2>3. QED  BY <2>1, <2>2 DEF ReadInv, LastRead, Listed, Ranges, Covered, Reading, LogRange
<1>11. CASE UNCHANGED vars
  BY <1>11 DEF vars, history, ReadInv, LastRead, Listed, Ranges, Covered, Reading, LogRange
<1>12. QED
  BY <1>1, <1>2, <1>3, <1>4, <1>5, <1>6, <1>7, <1>8, <1>9, <1>10, <1>11
  DEF Next, Proceed

\* last_scanned_sha never gets ahead of what committed passes have read but by
\* what the reader cut off a log that was longer than its cap, however many
\* scanners overlap.
THEOREM NothingLost == Spec => []NothingSkipped
<1>1. Init => TypeInv /\ ReadInv
  BY InitTyped, InitRead
<1>2. TypeInv /\ ReadInv /\ [Next]_vars => (TypeInv /\ ReadInv)'
  BY StepTyped, StepRead
<1>3. ReadInv => NothingSkipped
  BY DEF ReadInv, LastRead, Covered, Ranges, LogRange, NothingSkipped
<1>4. QED  BY <1>1, <1>2, <1>3, PTL DEF Spec

-----------------------------------------------------------------------------
(* What was read raised the generation *)

\* No commit is anywhere before it is pushed.
Within ==
    /\ \A p \in Project : upstream[p] \subseteq 1..pushed
    /\ \A p \in Project : mirror[p] = NoSha \/ mirror[p] \subseteq 1..pushed
    /\ \A ci \in told : ci[1] \in 1..pushed

Steadies == \A s \in Scanner : run[s].steady \subseteq Open

\* The issues that a commit names and that have been open since the log was
\* read are hits once the commit has been matched, and hits that are still
\* open are loaded.
Found(r) ==
    /\ r.log \subseteq 1..pushed
    /\ \A c \in r.log \ r.todo : names[c] \cap r.steady \subseteq r.hits
    /\ r.pc # "match" => r.todo = {}
    /\ r.pc = "commit" => \A i \in r.hits \cap r.steady : r.read[i] # -1

Founds == \A s \in Scanner : Reading(run[s]) => Found(run[s])

\* A generation that is never raised from an older one only grows.
Grown == \A c \in Commit, i \in Issue \ clobbered : landed[c][i] <= gen[i]

HitInv == Within /\ Steadies /\ Founds /\ Grown /\ HitsInvalidate

LEMMA InitHit == Init => HitInv
<1> SUFFICES ASSUME Init PROVE HitInv
  OBVIOUS
<1>1. \A s \in Scanner : run[s] = Idle
  BY DEF Init
<1>2. Steadies /\ Founds
  BY <1>1, IdleTyped DEF Steadies, Founds, Idle
<1>3. Within /\ Grown /\ HitsInvalidate
  BY DEF Init, Within, Grown, HitsInvalidate
<1>4. QED  BY <1>2, <1>3 DEF HitInv

\* A step of one pass that writes nothing to the database.
LEMMA RunHit ==
    ASSUME TypeInv, HitInv, NEW s \in Scanner, NEW r \in Pass,
           run' = [run EXCEPT ![s] = r],
           r.steady \subseteq Open, Reading(r) => Found(r),
           \A p \in Project : mirror'[p] \in {NoSha, mirror[p], upstream[p]},
           UNCHANGED <<world, open, gen, told, clobbered>>
    PROVE  HitInv'
<1>1. \A t \in Scanner : run'[t] = IF t = s THEN r ELSE run[t]
  BY DEF TypeInv, TypeOK
<1>2. UNCHANGED <<upstream, pushed, names, landed>>
  BY DEF world
<1>3. Within'
  BY <1>2 DEF HitInv, Within
<1>4. Steadies'
  BY <1>1 DEF HitInv, Steadies, Open
<1>5. Founds'
  BY <1>1, <1>2 DEF HitInv, Founds, Reading, Found
<1>6. Grown' /\ HitsInvalidate'
  BY <1>2 DEF HitInv, Grown, HitsInvalidate
<1>7. QED  BY <1>3, <1>4, <1>5, <1>6 DEF HitInv

\* A quiet step, in particular.
LEMMA QuietHit ==
    ASSUME TypeInv, HitInv, NEW s \in Scanner, Quiet(s)
    PROVE  HitInv'
<1>1. PICK r \in Pass :
         /\ run' = [run EXCEPT ![s] = r] /\ ~Reading(r)
         /\ r.steady \subseteq run[s].steady
  BY DEF Quiet
<1>2. r.steady \subseteq Open
  BY <1>1 DEF HitInv, Steadies
<1>3. QED  BY <1>1, <1>2, RunHit DEF Quiet, history

\* The commit of a pass: every issue that is told of is loaded, and raised
\* from the generation it has if it is not clobbered.
LEMMA CommitsHit ==
    ASSUME TypeInv, HitInv, NEW s \in Scanner, Commits(s)
    PROVE  HitInv'
<1> DEFINE r == run[s]  q == NextProject(run[s])
<1>0. r \in Pass /\ r.pc = "commit" /\ Reading(r)
  BY DEF TypeInv, TypeOK, Commits, Reading
<1>1. q \in Pass /\ ~Reading(q) /\ q.steady = {}
  BY <1>0, NextProjectFacts
<1>2. \A t \in Scanner : run'[t] = IF t = s THEN q ELSE run[t]
  BY DEF Commits, Goto, TypeInv, TypeOK
<1>3. UNCHANGED <<upstream, pushed, names, landed, mirror, open>>
  BY DEF Commits, world, mirrors
<1>4. Found(r)
  BY <1>0 DEF HitInv, Founds
<1>5. \A i \in Issue : gen'[i] = IF r.read[i] = -1 THEN gen[i] ELSE r.read[i] + 1
  BY DEF Commits, Raised
<1>6. gen \in [Issue -> Nat] /\ told \in SUBSET (Commit \X Issue)
      /\ landed \in [Commit -> [Issue -> Nat]] /\ r.read \in [Issue -> Nat \cup {-1}]
  BY <1>0 DEF TypeInv, TypeOK, Pass
<1>7. ASSUME NEW i \in Issue, i \notin clobbered'
      PROVE  /\ i \notin clobbered /\ gen'[i] \in Nat /\ gen[i] <= gen'[i]
             /\ r.read[i] # -1 => gen[i] < gen'[i]
  <2>1. i \notin clobbered /\ ~(r.read[i] # -1 /\ r.read[i] < gen[i])
    BY <1>7 DEF Commits
  <2>2. r.read[i] \in Nat \cup {-1} /\ gen[i] \in Nat
    BY <1>6
  <2>3. QED  BY <1>5, <2>1, <2>2
<1>8. \A ci \in told' : \/ ci \in told
                        \/ ci[1] \in r.log /\ ci[2] \in r.steady \cap names[ci[1]]
  BY DEF Commits
<1>9. Within'
  BY <1>3, <1>4, <1>8 DEF HitInv, Within, Found
<1>10. Steadies'
  BY <1>1, <1>2, <1>3 DEF HitInv, Steadies, Open
<1>11. Founds'
  BY <1>1, <1>2, <1>3 DEF HitInv, Founds, Reading, Found
<1>12. Grown'
  <2> SUFFICES ASSUME NEW c \in Commit, NEW i \in Issue, i \notin clobbered'
               PROVE  landed'[c][i] <= gen'[i]
    BY DEF Grown
  <2>1. i \notin clobbered /\ gen[i] <= gen'[i] /\ gen'[i] \in Nat
    BY <1>7
  <2>2. landed[c][i] <= gen[i] /\ landed[c][i] \in Nat /\ gen[i] \in Nat
    BY <1>6, <2>1 DEF HitInv, Grown
  <2>3. QED  BY <1>3, <2>1, <2>2
<1>13. HitsInvalidate'
  <2> SUFFICES ASSUME NEW ci \in told', ci[2] \notin clobbered'
               PROVE  gen'[ci[2]] > landed'[ci[1]][ci[2]]
    BY DEF HitsInvalidate
  <2>1. ci[1] \in Commit /\ ci[2] \in Issue
    BY <1>0, <1>6, <1>8 DEF Pass, Sha
  <2>2. /\ ci[2] \notin clobbered /\ gen'[ci[2]] \in Nat /\ gen[ci[2]] <= gen'[ci[2]]
        /\ r.read[ci[2]] # -1 => gen[ci[2]] < gen'[ci[2]]
    BY <1>7, <2>1
  <2>3. gen[ci[2]] \in Nat /\ landed[ci[1]][ci[2]] \in Nat
    BY <1>6, <2>1
  <2>4. CASE ci \in told
    <3>1. gen[ci[2]] > landed[ci[1]][ci[2]]
      BY <2>2, <2>4 DEF HitInv, HitsInvalidate
    <3>2. QED  BY <1>3, <2>2, <2>3, <3>1
  <2>5. CASE ci[1] \in r.log /\ ci[2] \in r.steady \cap names[ci[1]]
    <3>1. ci[2] \in r.hits
      BY <1>0, <1>4, <2>5 DEF Found
    <3>2. r.read[ci[2]] # -1
      BY <1>0, <1>4, <2>5, <3>1 DEF Found
    <3>3. landed[ci[1]][ci[2]] <= gen[ci[2]]
      BY <2>1, <2>2 DEF HitInv, Grown
    <3>4. QED  BY <1>3, <2>2, <2>3, <3>2, <3>3
  <2>6. QED  BY <1>8, <2>4, <2>5
<1>14. QED  BY <1>9, <1>10, <1>11, <1>12, <1>13 DEF HitInv

\* Every step keeps HitInv.
LEMMA StepHit == TypeInv /\ HitInv /\ [Next]_vars => HitInv'
<1> SUFFICES ASSUME TypeInv, HitInv, [Next]_vars PROVE HitInv'
  OBVIOUS
<1>0. ASSUME NEW s \in Scanner
      PROVE  /\ run[s] \in Pass /\ run[s].cur \in Project
             /\ run[s].steady \subseteq Open
             /\ Reading(run[s]) => Found(run[s])
  BY DEF TypeInv, TypeOK, Pass, HitInv, Steadies, Founds
<1>1. ASSUME NEW s \in Scanner, NEW dry \in BOOLEAN, Start(s, dry) PROVE HitInv'
  <2> DEFINE r == [Idle EXCEPT !.pc = "sync", !.dry = dry, !.listed = last]
  <2>1. r \in Pass /\ r.pc = "sync" /\ r.steady = {}
    BY IdleTyped DEF Idle, Pass, TypeInv, TypeOK
  <2>2. QED  BY <1>1, <2>1, RunHit DEF Start, Goto, Reading, mirrors, history
<1>2. ASSUME NEW s \in Scanner,
             \/ Sync(s) \/ SyncAgain(s) \/ SyncSkipped(s)
             \/ NoLog(s) \/ Fail(s) \/ Crash(s)
      PROVE  HitInv'
  BY <1>2, QuietSteps, QuietHit
<1>3. ASSUME NEW s \in Scanner, Baseline(s) PROVE HitInv'
  <2>1. /\ NextProject(run[s]) \in Pass /\ ~Reading(NextProject(run[s]))
        /\ NextProject(run[s]).steady = {}
    BY <1>0, NextProjectFacts
  <2>2. QED  BY <1>3, <2>1, RunHit DEF Baseline, Goto, mirrors
<1>4. ASSUME NEW s \in Scanner, ReadLog(s) PROVE HitInv'
  <2> DEFINE p == run[s].cur
             new == mirror[p] \ run[s].listed[p]
             out == Output(new)
             r == [run[s] EXCEPT !.pc = "match", !.head = mirror[p], !.log = out,
                                 !.cut = new \ out, !.todo = out, !.steady = Open]
  <2>1. mirror[p] \in Sha /\ mirror[p] \ run[s].listed[p] \in Sha
    BY <1>4, <1>0 DEF ReadLog, TypeInv, TypeOK, Sha
  <2>2. out \in Sha /\ out \subseteq mirror[p] /\ new \ out \in Sha
    BY <2>1, OutputTyped DEF Sha
  <2>3. Open \in SUBSET Issue
    BY DEF Open
  <2>4. r \in Pass /\ r.pc = "match" /\ r.log = out /\ r.todo = out /\ r.steady = Open
    BY <1>0, <2>1, <2>2, <2>3 DEF Pass
  <2>5. out \subseteq 1..pushed
    BY <1>0, <1>4, <2>2 DEF ReadLog, HitInv, Within
  <2>6. Found(r)
    BY <2>4, <2>5 DEF Found
  <2>7. QED  BY <1>4, <2>4, <2>6, RunHit DEF ReadLog, Goto, history, mirrors
<1>5. ASSUME NEW s \in Scanner, Match(s) PROVE HitInv'
  <2>1. PICK c \in run[s].todo :
            run' = [run EXCEPT ![s] =
                       [run[s] EXCEPT !.todo = @ \ {c}, !.hits = Hits(run[s], c)]]
    BY <1>5 DEF Match, Goto
  <2> DEFINE r == [run[s] EXCEPT !.todo = @ \ {c}, !.hits = Hits(run[s], c)]
  <2>2. Hits(run[s], c) \in SUBSET Issue
    BY <1>0 DEF Hits, Open, Pass
  <2>3. /\ r \in Pass /\ r.pc = "match" /\ r.log = run[s].log
        /\ r.todo = run[s].todo \ {c} /\ r.hits = run[s].hits \cup (names[c] \cap Open)
        /\ r.steady = run[s].steady
    BY <1>0, <1>5, <2>2 DEF Pass, Sha, Match, Hits
  <2>4. Found(run[s])
    BY <1>0, <1>5 DEF Match, Reading
  <2>5. Found(r)
    <3>1. ASSUME NEW d \in r.log \ r.todo PROVE names[d] \cap r.steady \subseteq r.hits
      <4>1. CASE d = c
        BY <1>0, <2>3, <4>1
      <4>2. CASE d # c
        BY <2>3, <2>4, <3>1, <4>2 DEF Found
      <4>3. QED  BY <4>1, <4>2
    <3>2. QED  BY <2>3, <2>4, <3>1 DEF Found
  <2>6. QED  BY <1>0, <1>5, <2>1, <2>3, <2>5, RunHit DEF Match, history, mirrors
<1>6. ASSUME NEW s \in Scanner, MatchRest(s) PROVE HitInv'
  <2>1. PICK near \in SUBSET Open :
            run' = [run EXCEPT ![s] =
                       IF Persists(s)
                       THEN [run[s] EXCEPT !.pc = "select", !.hits = @ \cup near]
                       ELSE NextProject(run[s])]
    BY <1>6 DEF MatchRest, Goto
  <2> DEFINE r == [run[s] EXCEPT !.pc = "select", !.hits = @ \cup near]
  <2>2. /\ r \in Pass /\ r.pc = "select" /\ r.log = run[s].log
        /\ r.todo = {} /\ run[s].todo = {}
        /\ run[s].hits \subseteq r.hits /\ r.steady = run[s].steady
    BY <1>0, <1>6 DEF Pass, Open, MatchRest
  <2>3. Found(run[s])
    BY <1>0, <1>6 DEF MatchRest, Reading
  <2>4. Found(r)
    BY <2>2, <2>3 DEF Found
  <2>5. /\ NextProject(run[s]) \in Pass /\ ~Reading(NextProject(run[s]))
        /\ NextProject(run[s]).steady = {}
    BY <1>0, NextProjectFacts
  <2>6. CASE Persists(s)
    BY <1>0, <1>6, <2>1, <2>2, <2>4, <2>6, RunHit DEF MatchRest, history, mirrors
  <2>7. CASE ~Persists(s)
    BY <1>6, <2>1, <2>5, <2>7, RunHit DEF MatchRest, history, mirrors
  <2>8. QED  BY <2>6, <2>7
<1>7. ASSUME NEW s \in Scanner, Select(s) PROVE HitInv'
  <2> DEFINE loaded == [i \in Issue |-> IF i \in run[s].hits \cap Open THEN gen[i] ELSE -1]
             r == [run[s] EXCEPT !.pc = "commit", !.read = loaded]
  <2>1. loaded \in [Issue -> Nat \cup {-1}]
    BY DEF TypeInv, TypeOK
  <2>2. /\ r \in Pass /\ r.pc = "commit" /\ r.log = run[s].log /\ r.read = loaded
        /\ r.todo = run[s].todo /\ r.hits = run[s].hits /\ r.steady = run[s].steady
    BY <1>0, <2>1 DEF Pass
  <2>3. Found(run[s]) /\ run[s].todo = {}
    BY <1>0, <1>7 DEF Select, Reading, Found
  <2>4. \A i \in r.hits \cap r.steady : loaded[i] # -1
    <3> TAKE i \in r.hits \cap r.steady
    <3>1. i \in Issue /\ i \in run[s].hits \cap Open
      BY <1>0, <2>2 DEF Open
    <3>2. loaded[i] = gen[i] /\ gen[i] \in Nat
      BY <3>1 DEF TypeInv, TypeOK
    <3>3. QED  BY <3>2
  <2>5. Found(r)
    BY <2>2, <2>3, <2>4 DEF Found
  <2>6. QED  BY <1>0, <1>7, <2>2, <2>5, RunHit DEF Select, Goto, history, mirrors
<1>8. ASSUME NEW s \in Scanner, Commits(s) PROVE HitInv'
  BY <1>8, CommitsHit
<1>9. ASSUME NEW p \in Project, OtherSync(p) PROVE HitInv'
  <2>1. Within'
    BY <1>9 DEF OtherSync, Fetched, world, history, HitInv, Within, TypeInv, TypeOK
  <2>2. QED
    BY <1>9, <2>1
    DEF OtherSync, world, history, HitInv, Steadies, Open, Founds, Reading,
        Found, Grown, HitsInvalidate
<1>10. ASSUME NEW p \in Project, Push(p) PROVE HitInv'
  <2>1. pushed \in Nat /\ pushed' = pushed + 1
    BY <1>10 DEF Push, TypeInv, TypeOK
  <2>2. \A c \in 1..pushed : c \in 1..pushed' /\ c # pushed + 1
    BY <2>1
  <2>3. \A c \in 1..pushed : names'[c] = names[c] /\ landed'[c] = landed[c]
    BY <1>10, <2>2 DEF Push, TypeInv, TypeOK
  <2>4. UNCHANGED <<mirror, open, gen, run, told, clobbered>>
    BY <1>10 DEF Push, mirrors, history
  <2>5. Steadies'
    BY <2>4 DEF HitInv, Steadies, Open
  <2>6. Within'
    <3>1. \A q \in Project : upstream'[q] \subseteq upstream[q] \cup {pushed + 1}
      BY <1>10 DEF Push, TypeInv, TypeOK
    <3>2. pushed + 1 \in 1..pushed'
      BY <2>1
    <3>3. QED  BY <2>2, <2>4, <3>1, <3>2 DEF HitInv, Within
  <2>7. Founds'
    <3> SUFFICES ASSUME NEW s \in Scanner, Reading(run[s])
                 PROVE  Found(run[s])'
      BY <2>4 DEF Founds, Reading
    <3>1. Found(run[s])
      BY <1>0
    <3>2. QED  BY <2>2, <2>3, <2>4, <3>1 DEF Found
  <2>8. Grown'
    BY <1>10, <2>4 DEF Push, HitInv, Grown, TypeInv, TypeOK
  <2>9. HitsInvalidate'
    BY <2>3, <2>4 DEF HitInv, HitsInvalidate, Within
  <2>10. QED  BY <2>5, <2>6, <2>7, <2>8, <2>9 DEF HitInv
<1>11. ASSUME NEW p \in Project, ForcePush(p) PROVE HitInv'
  <2>1. Within'
    BY <1>11 DEF ForcePush, mirrors, history, HitInv, Within, TypeInv, TypeOK
  <2>2. QED
    BY <1>11, <2>1
    DEF ForcePush, history, HitInv, Steadies, Open, Founds, Reading,
        Found, Grown, HitsInvalidate
<1>12. ASSUME NEW i \in Issue, Toggle(i) PROVE HitInv'
  <2>1. ASSUME NEW s \in Scanner
        PROVE  /\ run'[s].pc = run[s].pc /\ run'[s].log = run[s].log
               /\ run'[s].todo = run[s].todo /\ run'[s].hits = run[s].hits
               /\ run'[s].read = run[s].read /\ run'[s].steady = run[s].steady \ {i}
    <3>1. run'[s] = [run[s] EXCEPT !.steady = @ \ {i}]
      BY <1>12 DEF Toggle
    <3>2. QED  BY <1>0, <3>1 DEF Pass
  <2>2. UNCHANGED <<upstream, pushed, names, landed, mirror, gen, told, clobbered>>
    BY <1>12 DEF Toggle, world, mirrors, history
  <2>3. Open \ {i} \subseteq Open'
    BY <1>12 DEF Toggle, Open, TypeInv, TypeOK
  <2>4. Steadies'
    BY <1>0, <2>1, <2>3 DEF Steadies
  <2>5. Within' /\ Grown' /\ HitsInvalidate'
    BY <2>1, <2>2 DEF HitInv, Within, Grown, HitsInvalidate
  <2>6. Founds'
    BY <1>0, <2>1, <2>2 DEF Founds, Reading, Found
  <2>7. QED  BY <2>4, <2>5, <2>6 DEF HitInv
<1>13. CASE UNCHANGED vars
  BY <1>13
  DEF vars, world, mirrors, history, HitInv, Within, Steadies, Open, Founds,
      Reading, Found, Grown, HitsInvalidate
<1>14. QED
  BY <1>1, <1>2, <1>3, <1>4, <1>5, <1>6, <1>7, <1>8, <1>9, <1>10, <1>11, <1>12, <1>13
  DEF Next, Proceed

\* A commit that refers to an open issue makes the evaluations from before it
\* stale, whatever fails, is closed or is cut off meanwhile, and however passes
\* overlap; but for an issue whose generation a pass has raised from an older one.
THEOREM HitsCount == Spec => []HitsInvalidate
<1>1. Init => TypeInv /\ HitInv
  BY InitTyped, InitHit
<1>2. TypeInv /\ HitInv /\ [Next]_vars => (TypeInv /\ HitInv)'
  BY StepTyped, StepHit
<1>3. HitInv => HitsInvalidate
  BY DEF HitInv
<1>4. QED  BY <1>1, <1>2, <1>3, PTL DEF Spec

=============================================================================
