-------------------------- MODULE CollectorsProofs --------------------------
(***************************************************************************)
(* Where the collectors of CI failures, forum topics and Launchpad bugs go *)
(* on: no run, topic or bug falls behind it, for any number of them and of *)
(* failures.  Each collector has its inductive invariant; they share no    *)
(* state.                                                                  *)
(***************************************************************************)
EXTENDS MCCollectors, SequenceTheorems, WellFoundedInduction, TLAPS

(* Numbers *)

\* The order of numbers, in the form in which the library has it.
LEMMA NatOrder == OpToRel(<, Nat) = {ss \in Nat \X Nat : ss[1] < ss[2]}
BY DEF OpToRel

LEMMA MinIn ==
  ASSUME NEW S \in SUBSET Nat, S # {}
  PROVE  /\ Min(S) \in S
         /\ \A y \in S : Min(S) <= y
<1> DEFINE R == {ss \in Nat \X Nat : ss[1] < ss[2]}
<1>1. PICK x \in S : \A y \in S : ~(<<y, x>> \in R)
  BY WFMin, NatLessThanWellFounded, NatOrder
<1>2. \A y \in S : x <= y
  <2> SUFFICES ASSUME NEW y \in S, ~(x <= y) PROVE FALSE
    OBVIOUS
  <2>1. x \in Nat /\ y \in Nat /\ y < x
    OBVIOUS
  <2>2. <<y, x>> \in R
    BY <2>1
  <2> QED
    BY <1>1, <2>2
<1> QED
  BY <1>2 DEF Min

LEMMA MaxOfTwo ==
  ASSUME NEW a \in Int, NEW b \in Int
  PROVE  Max({a, b}) = IF a >= b THEN a ELSE b
BY DEF Max

-----------------------------------------------------------------------------
(* CI failures *)

HubRun == [created : Int, attempt : Int, state : {"none", "running", "success", "failure"},
           updated : Int]
CIRow == [state : {"none", "running", "success", "failure"}, done : Int, fetched : Int]

\* A row is no younger than the last commit and has the conclusion of its
\* attempt, which is final; what comes after the last commit begins from it.
CIInv ==
    /\ day \in 0..MaxDay
    /\ last \in -Lookback..day
    /\ hub \in [Run -> HubRun]
    /\ rows \in [Attempt -> CIRow]
    /\ jobs \in [Attempt -> {"none", "parsed", "bare"}]
    /\ pass \in [on : BOOLEAN, since : Int, now : Int]
    /\ \A r \in Run :
          /\ hub[r].updated <= day
          /\ hub[r] = NoRun \/ hub[r].attempt \in 1..MaxReruns + 1
          /\ hub[r] = NoRun <=> hub[r].state = "none"
    /\ \A x \in Attempt :
          /\ rows[x] = NoRow <=> rows[x].state = "none"
          /\ rows[x] # NoRow => /\ rows[x].fetched \in 0..last /\ rows[x].done <= day
                                /\ x[2] <= hub[x[1]].attempt
          /\ rows[x].state \in {"success", "failure"} /\ x[2] = hub[x[1]].attempt =>
                hub[x[1]].state = rows[x].state
          /\ jobs[x] # "none" => rows[x].state = "failure"
    /\ pass.on => /\ pass.now \in 0..day /\ last <= pass.now
                  /\ \/ pass.since <= last - Margin
                     \/ pass.since <= pass.now - Lookback

LEMMA CIBegins == CIInit => CIInv
<1> SUFFICES ASSUME CIInit PROVE CIInv
  OBVIOUS
<1>1. NoRun \in HubRun /\ NoRow \in CIRow /\ NoPass \in [on : BOOLEAN, since : Int, now : Int]
      /\ ~NoPass.on
  BY DEF NoRun, HubRun, NoRow, CIRow, NoPass
<1>2. \A r \in Run : hub[r] = NoRun
  BY DEF CIInit
<1>3. \A x \in Attempt : rows[x] = NoRow /\ jobs[x] = "none"
  BY DEF CIInit
<1>4. day = 0 /\ last = -Lookback
  BY DEF CIInit
<1>5. /\ hub \in [Run -> HubRun] /\ rows \in [Attempt -> CIRow]
      /\ jobs \in [Attempt -> {"none", "parsed", "bare"}]
  BY <1>1 DEF CIInit
<1>6. pass = NoPass
  BY DEF CIInit
<1> QED
  BY <1>1, <1>2, <1>3, <1>4, <1>5, <1>6, CICollectorAssumption
  DEF CICollectorAssumption, CIInv, NoRun, NoRow

LEMMA CINumbers ==
  ASSUME CIInv
  PROVE  /\ day \in Nat /\ last \in Int /\ last <= day /\ MaxDay \in Nat /\ MaxReruns \in Nat
         /\ Lookback \in Nat /\ Margin \in Nat /\ Grace \in Nat /\ day <= MaxDay
         /\ -Lookback <= last
BY CICollectorAssumption DEF CICollectorAssumption, CIInv

LEMMA RunRecords ==
  ASSUME NEW g \in HubRun, NEW s, NEW u
  PROVE  /\ [g EXCEPT !.state = s, !.updated = u] =
               [created |-> g.created, attempt |-> g.attempt, state |-> s, updated |-> u]
         /\ [g EXCEPT !.attempt = @ + 1, !.state = s, !.updated = u] =
               [created |-> g.created, attempt |-> g.attempt + 1, state |-> s, updated |-> u]
<1>1. PICK x \in Int, b \in Int, y \in {"none", "running", "success", "failure"}, z \in Int :
         g = [created |-> x, attempt |-> b, state |-> y, updated |-> z]
  BY DEF HubRun
<1> DEFINE e1 == [g EXCEPT !.state = s]
           e2 == [g EXCEPT !.attempt = @ + 1]
           e3 == [e2 EXCEPT !.state = s]
<1>2. e1 = [created |-> x, attempt |-> b, state |-> s, updated |-> z]
  BY <1>1
<1>3. e2 = [created |-> x, attempt |-> b + 1, state |-> y, updated |-> z]
  BY <1>1
<1>4. [g EXCEPT !.state = s, !.updated = u] = [e1 EXCEPT !.updated = u]
  OBVIOUS
<1>5. [g EXCEPT !.attempt = @ + 1, !.state = s, !.updated = u] = [e3 EXCEPT !.updated = u]
  OBVIOUS
<1> HIDE DEF e1, e2
<1>6. e3 = [created |-> x, attempt |-> b + 1, state |-> s, updated |-> z]
  BY <1>3
<1> HIDE DEF e3
<1>7. [e1 EXCEPT !.updated = u] = [created |-> x, attempt |-> b, state |-> s, updated |-> u]
  BY <1>2
<1>8. [e3 EXCEPT !.updated = u] = [created |-> x, attempt |-> b + 1, state |-> s, updated |-> u]
  BY <1>6
<1>9. g.created = x /\ g.attempt = b
  BY <1>1
<1> QED
  BY <1>4, <1>5, <1>7, <1>8, <1>9

\* A step of GitHub, which changes one run.
LEMMA HubStep ==
  ASSUME CIInv, NEW r \in Run, NEW h \in HubRun,
         hub' = [hub EXCEPT ![r] = h],
         h.updated <= day, h.attempt \in 1..MaxReruns + 1, h.state # "none",
         \/ hub[r].state \in {"none", "running"} /\ (hub[r].state = "running" => hub[r].attempt = h.attempt)
         \/ hub[r].attempt < h.attempt,
         UNCHANGED <<day, rows, jobs, pass, last>>
  PROVE  CIInv'
<1>1. hub' \in [Run -> HubRun] /\ hub'[r] = h /\ \A q \in Run : q # r => hub'[q] = hub[q]
  BY DEF CIInv
<1>2. h # NoRun
  BY DEF NoRun
<1>3. \A q \in Run :
          /\ hub'[q].updated <= day
          /\ hub'[q] = NoRun \/ hub'[q].attempt \in 1..MaxReruns + 1
          /\ hub'[q] = NoRun <=> hub'[q].state = "none"
  BY <1>1, <1>2 DEF CIInv
<1>4. ASSUME NEW x \in Attempt
      PROVE  /\ rows[x] # NoRow => x[2] <= hub'[x[1]].attempt
             /\ rows[x].state \in {"success", "failure"} /\ x[2] = hub'[x[1]].attempt =>
                   hub'[x[1]].state = rows[x].state
  <2>1. x[1] \in Run /\ x[2] \in Nat
    BY DEF Attempt
  <2>2. CASE x[1] # r
    BY <1>1, <2>1, <2>2 DEF CIInv
  <2>3. CASE x[1] = r
    <3>1. rows[x] # NoRow => x[2] <= hub[r].attempt
      BY <2>1, <2>3 DEF CIInv
    <3>2. hub[r].state = "none" => rows[x] = NoRow
      <4>1. hub[r].state = "none" => hub[r].attempt = 0
        BY DEF CIInv, NoRun
      <4> QED
        BY <3>1, <4>1, <2>1, CINumbers DEF Attempt
    <3>3. rows[x] # NoRow => x[2] <= h.attempt
      BY <3>1, <3>2, <2>1 DEF CIInv, HubRun
    <3>4. ASSUME rows[x].state \in {"success", "failure"}, x[2] = h.attempt
          PROVE  h.state = rows[x].state
      <4>1. rows[x] # NoRow
        BY <3>4 DEF NoRow
      <4>2. hub[r].state # "none" /\ ~(hub[r].attempt < h.attempt)
        BY <3>1, <3>2, <3>4, <4>1, <2>1 DEF CIInv, HubRun
      <4>3. hub[r].state = "running" /\ hub[r].attempt = h.attempt
        BY <4>2
      <4>4. hub[r].state = rows[x].state
        BY <3>4, <4>3, <2>3 DEF CIInv
      <4> QED
        BY <3>4, <4>3, <4>4
    <3> QED
      BY <1>1, <2>3, <3>3, <3>4
  <2> QED
    BY <2>2, <2>3
<1> QED
  BY <1>1, <1>3, <1>4, CINumbers DEF CIInv

LEMMA InNewJobs ==
  ASSUME NEW R, NEW x \in NewJobs(R)
  PROVE  x[1] \in R /\ x = Current(x[1]) /\ hub[x[1]].state = "failure"
<1>1. PICK q \in R : hub[q].state = "failure" /\ x = Current(q)
  BY DEF NewJobs
<1>2. x[1] = q
  BY <1>1 DEF Current
<1> QED
  BY <1>1, <1>2

\* A commit stores the runs of R and jobs of some that have failed.
LEMMA CommitStep ==
  ASSUME CIInv, pass.on, NEW R \in SUBSET Pushed, StoreRuns(R), Commit,
         jobs' \in [Attempt -> {"none", "parsed", "bare"}],
         \A x \in Attempt : jobs'[x] # "none" => jobs[x] # "none" \/ x \in NewJobs(R)
  PROVE  CIInv'
<1>1. /\ day' = day /\ hub' = hub /\ pass' = NoPass /\ last' = pass.now
      /\ ~NoPass.on /\ NoPass \in [on : BOOLEAN, since : Int, now : Int]
  BY DEF Commit, NoPass
<1>2. pass.now \in 0..day /\ last <= pass.now
  BY DEF CIInv
<1>3. ASSUME NEW x \in Attempt
      PROVE  /\ rows'[x] \in CIRow
             /\ rows'[x] = NoRow <=> rows'[x].state = "none"
             /\ rows'[x] # NoRow => /\ rows'[x].fetched \in 0..last' /\ rows'[x].done <= day
                                    /\ x[2] <= hub[x[1]].attempt
             /\ rows'[x].state \in {"success", "failure"} /\ x[2] = hub[x[1]].attempt =>
                    hub[x[1]].state = rows'[x].state
             /\ jobs'[x] # "none" => rows'[x].state = "failure"
  <2>0. x[1] \in Run /\ x[2] \in Nat
    BY DEF Attempt
  <2>1. CASE x[1] \in R /\ x = Current(x[1])
    <3> DEFINE r == x[1]
    <3>1. rows'[x] = RowNow(r) /\ x[2] = hub[r].attempt
      BY <2>1 DEF StoreRuns, Current
    <3>2. hub[r] \in HubRun /\ hub[r].state # "none" /\ hub[r].updated <= day
      BY <2>0, <2>1 DEF Pushed, CIInv
    <3> DEFINE d == IF hub[r].state = "running" THEN -1 ELSE hub[r].updated
    <3>3. d \in Int /\ d <= day
      BY <3>2, CINumbers DEF HubRun
    <3>3a. RowNow(r) = [state |-> hub[r].state, done |-> d, fetched |-> pass.now]
      BY DEF RowNow
    <3> HIDE DEF d, r
    <3>4. /\ rows'[x] \in CIRow /\ rows'[x].state = hub[r].state
          /\ rows'[x].fetched = pass.now /\ rows'[x].done = d
      BY <3>1, <3>2, <3>3, <3>3a, <1>2 DEF CIRow, HubRun
    <3>5. rows'[x] # NoRow
      BY <3>2, <3>4 DEF NoRow
    <3> USE DEF r
    <3>6. jobs'[x] # "none" => rows'[x].state = "failure"
      <4>1. CASE jobs[x] # "none"
        <5>1. rows[x].state = "failure"
          BY <4>1 DEF CIInv
        <5> QED
          BY <5>1, <3>1, <3>4, <2>0 DEF CIInv
      <4>2. CASE x \in NewJobs(R)
        BY <4>2, <3>4, InNewJobs
      <4> QED
        BY <4>1, <4>2
    <3>7. rows'[x].fetched \in 0..last' /\ rows'[x].done <= day
      BY <3>3, <3>4, <1>1, <1>2
    <3>8. x[2] <= hub[x[1]].attempt
      BY <3>1, <2>0
    <3>9. rows'[x].state # "none"
      BY <3>2, <3>4
    <3>10. rows'[x].state = hub[x[1]].state
      BY <3>4
    <3> QED
      BY <3>4, <3>5, <3>6, <3>7, <3>8, <3>9, <3>10
  <2>2. CASE ~(x[1] \in R /\ x = Current(x[1]))
    <3>1. rows'[x] = rows[x]
      BY <2>2 DEF StoreRuns
    <3>2. x \notin NewJobs(R)
      BY <2>2, InNewJobs
    <3>3. rows[x] # NoRow => rows[x].fetched \in 0..last'
      BY <1>1, <1>2, CINumbers DEF CIInv
    <3> QED
      BY <3>1, <3>2, <3>3 DEF CIInv
  <2> QED
    BY <2>1, <2>2
<1>4. rows' \in [Attempt -> CIRow]
  BY <1>3 DEF StoreRuns
<1>5. last' \in -Lookback'..day'
  BY <1>1, <1>2, CINumbers
<1> QED
  BY <1>1, <1>3, <1>4, <1>5 DEF CIInv

LEMMA JobsStored ==
  ASSUME CIInv, NEW P \in SUBSET Attempt, NEW B \in SUBSET Attempt, StoreJobs(P, B)
  PROVE  /\ jobs' \in [Attempt -> {"none", "parsed", "bare"}]
         /\ \A x \in Attempt : jobs'[x] # "none" => jobs[x] # "none" \/ x \in P \cup B
         /\ \A x \in P : jobs'[x] # "none"
         /\ \A x \in Attempt : jobs[x] # "none" => jobs'[x] # "none"
BY DEF CIInv, StoreJobs

LEMMA CurrentAttempt ==
  ASSUME CIInv, NEW r \in Pushed
  PROVE  r \in Run /\ Current(r) \in Attempt
<1>1. r \in Run /\ hub[r].attempt \in 1..MaxReruns + 1
  BY DEF CIInv, Pushed
<1> QED
  BY <1>1 DEF Current, Attempt

LEMMA NewJobsTyped ==
  ASSUME CIInv, NEW R \in SUBSET Pushed
  PROVE  NewJobs(R) \in SUBSET Attempt
BY CurrentAttempt DEF NewJobs

LEMMA FloorLow ==
  ASSUME CIInv
  PROVE  /\ Floor \in Int
         /\ Floor <= last - Margin \/ Floor <= day - Lookback
<1>1. CASE Eligible = {}
  BY <1>1, CINumbers DEF Floor
<1>2. CASE Eligible # {}
  <2> DEFINE S == {rows[x].fetched : x \in Eligible}
  <2>1. \A x \in Eligible : x \in Attempt /\ rows[x] # NoRow
    BY DEF Eligible, NoRow
  <2>2. \A x \in Eligible : rows[x].fetched \in 0..last
    BY <2>1 DEF CIInv
  <2>3. S \in SUBSET Nat /\ S # {} /\ \A y \in S : y <= last
    BY <1>2, <2>2, CINumbers
  <2>4. Min(S) \in S
    BY <2>3, MinIn
  <2>5. OldestFetch \in Nat /\ OldestFetch <= last
    BY <2>3, <2>4 DEF OldestFetch
  <2>6. Since \in Int /\ Since <= last - Margin
    BY <2>5, CINumbers DEF Since
  <2>7. Floor = IF Since >= day - Lookback THEN Since ELSE day - Lookback
    BY <1>2, <2>6, MaxOfTwo, CINumbers DEF Floor
  <2> QED
    BY <2>6, <2>7, CINumbers
<1> QED
  BY <1>1, <1>2

LEMMA CISteps == CIInv /\ [CINext]_ciVars => CIInv'
<1> SUFFICES ASSUME CIInv, [CINext]_ciVars PROVE CIInv'
  OBVIOUS
<1>1. CASE UNCHANGED ciVars
  BY <1>1 DEF ciVars, CIInv
<1>2. CASE NextDay
  <2>1. day' \in 0..MaxDay /\ day' \in Nat /\ day <= day'
    BY <1>2, CINumbers DEF NextDay
  <2>2. \A r \in Run : hub[r].updated <= day'
    BY <2>1, CINumbers DEF CIInv, HubRun
  <2>3. \A x \in Attempt : rows[x] # NoRow => rows[x].done <= day'
    BY <2>1, CINumbers DEF CIInv, CIRow
  <2>4. last \in -Lookback..day' /\ (pass.on => pass.now \in 0..day')
    BY <2>1, CINumbers DEF CIInv
  <2> QED
    BY <1>2, <2>1, <2>2, <2>3, <2>4 DEF NextDay, CIInv
<1>3. ASSUME NEW r \in Run, Push(r) PROVE CIInv'
  <2> DEFINE h == [created |-> day, attempt |-> 1, state |-> "running", updated |-> day]
  <2>1. /\ h \in HubRun /\ h.updated <= day /\ h.attempt \in 1..MaxReruns + 1 /\ h.state # "none"
    BY CINumbers DEF HubRun
  <2>2. hub[r].state = "none"
    BY <1>3 DEF Push, Pushed, CIInv
  <2>3. hub' = [hub EXCEPT ![r] = h] /\ UNCHANGED <<day, rows, jobs, pass, last>>
    BY <1>3 DEF Push
  <2> HIDE DEF h
  <2> QED
    BY <2>1, <2>2, <2>3, HubStep
<1>4. ASSUME NEW r \in Run, Complete(r) PROVE CIInv'
  <2>1. PICK s \in {"success", "failure"} :
           hub' = [hub EXCEPT ![r].state = s, ![r].updated = day]
    BY <1>4 DEF Complete
  <2> DEFINE h == [created |-> hub[r].created, attempt |-> hub[r].attempt, state |-> s, updated |-> day]
  <2>2. hub[r] \in HubRun /\ hub \in [Run -> HubRun]
    BY DEF CIInv
  <2>3. hub' = [hub EXCEPT ![r] = h]
    <3>1. hub' = [hub EXCEPT ![r] = [hub[r] EXCEPT !.state = s, !.updated = day]]
      BY <2>1, <2>2
    <3>2. [hub[r] EXCEPT !.state = s, !.updated = day] = h
      BY <2>2, RunRecords
    <3> QED
      BY <3>1, <3>2
  <2>4. hub[r].state = "running" /\ hub[r].attempt \in 1..MaxReruns + 1
    BY <1>4 DEF Complete, CIInv
  <2>5. /\ h \in HubRun /\ h.updated <= day /\ h.attempt = hub[r].attempt /\ h.state # "none"
    BY <2>2, <2>4, CINumbers DEF HubRun
  <2>6. UNCHANGED <<day, rows, jobs, pass, last>>
    BY <1>4 DEF Complete
  <2> HIDE DEF h
  <2> QED
    BY <2>3, <2>4, <2>5, <2>6, HubStep
<1>5. ASSUME NEW r \in Run, Rerun(r) PROVE CIInv'
  <2> DEFINE h == [created |-> hub[r].created, attempt |-> hub[r].attempt + 1,
                   state |-> "running", updated |-> day]
  <2>2. hub[r] \in HubRun /\ hub \in [Run -> HubRun]
    BY DEF CIInv
  <2>3. hub' = [hub EXCEPT ![r] = h]
    <3>1. hub' = [hub EXCEPT ![r] = [hub[r] EXCEPT !.attempt = @ + 1, !.state = "running",
                                                 !.updated = day]]
      BY <1>5, <2>2 DEF Rerun
    <3>2. [hub[r] EXCEPT !.attempt = @ + 1, !.state = "running", !.updated = day] = h
      BY <2>2, RunRecords
    <3> QED
      BY <3>1, <3>2
  <2>4. hub[r].attempt \in 1..MaxReruns + 1 /\ hub[r].attempt <= MaxReruns
    BY <1>5 DEF Rerun, CIInv
  <2>5. /\ h \in HubRun /\ h.updated <= day /\ hub[r].attempt < h.attempt /\ h.state # "none"
        /\ h.attempt \in 1..MaxReruns + 1
    BY <2>2, <2>4, CINumbers DEF HubRun
  <2>6. UNCHANGED <<day, rows, jobs, pass, last>>
    BY <1>5 DEF Rerun
  <2> HIDE DEF h
  <2> QED
    BY <2>3, <2>5, <2>6, HubStep
<1>6. CASE BeginPass
  <2>1. pass' = [on |-> TRUE, since |-> Floor, now |-> day]
    BY <1>6 DEF BeginPass
  <2>2. Floor \in Int
    BY FloorLow
  <2> DEFINE f == Floor
  <2> HIDE DEF f
  <2>2a. pass' = [on |-> TRUE, since |-> f, now |-> day] /\ f \in Int
    BY <2>1, <2>2 DEF f
  <2>3. pass' \in [on : BOOLEAN, since : Int, now : Int] /\ pass'.now = day /\ pass'.since = f
    BY <2>2a, CINumbers
  <2>4. f <= last - Margin \/ f <= day - Lookback
    BY FloorLow DEF f
  <2> QED
    BY <1>6, <2>3, <2>4, CINumbers DEF BeginPass, CIInv
<1>7. CASE EndPass
  <2>1. Listed \in SUBSET Pushed
    BY DEF Listed
  <2>2. NewJobs(Listed) \in SUBSET Attempt
    BY <2>1, NewJobsTyped
  <2>3. {} \in SUBSET Attempt
    OBVIOUS
  <2>4. pass.on /\ StoreRuns(Listed) /\ StoreJobs(NewJobs(Listed), {}) /\ Commit
    BY <1>7 DEF EndPass
  <2>5. /\ jobs' \in [Attempt -> {"none", "parsed", "bare"}]
        /\ \A x \in Attempt : jobs'[x] # "none" => jobs[x] # "none" \/ x \in NewJobs(Listed)
    BY <2>2, <2>3, <2>4, JobsStored
  <2> QED
    BY <2>1, <2>4, <2>5, CommitStep
<1>8. ASSUME NEW r \in Run, TornPass(r) PROVE CIInv'
  <2> DEFINE newer == {q \in Listed : q > r}
  <2>1. newer \cup {r} \in SUBSET Pushed /\ newer \in SUBSET Pushed /\ {r} \in SUBSET Pushed
    BY <1>8 DEF Listed, TornPass
  <2>2. NewJobs(newer) \in SUBSET Attempt /\ NewJobs({r}) \in SUBSET Attempt
    BY <2>1, NewJobsTyped
  <2>3. NewJobs(newer) \cup NewJobs({r}) \subseteq NewJobs(newer \cup {r})
    BY DEF NewJobs
  <2>4. pass.on /\ StoreRuns(newer \cup {r}) /\ Commit
        /\ (StoreJobs(NewJobs(newer), {}) \/ StoreJobs(NewJobs(newer), NewJobs({r})))
    BY <1>8 DEF TornPass
  <2>5. {} \in SUBSET Attempt
    OBVIOUS
  <2>6. /\ jobs' \in [Attempt -> {"none", "parsed", "bare"}]
        /\ \A x \in Attempt : jobs'[x] # "none" => jobs[x] # "none" \/ x \in NewJobs(newer \cup {r})
    <3>1. CASE StoreJobs(NewJobs(newer), {})
      BY <2>2, <2>3, <2>5, <3>1, JobsStored
    <3>2. CASE StoreJobs(NewJobs(newer), NewJobs({r}))
      BY <2>2, <2>3, <3>2, JobsStored
    <3> QED
      BY <2>4, <3>1, <3>2
  <2> HIDE DEF newer
  <2> QED
    BY <2>1, <2>4, <2>6, CommitStep
<1>9. CASE LostPass
  BY <1>9 DEF LostPass, CIInv, NoPass
<1> QED
  BY <1>1, <1>2, <1>3, <1>4, <1>5, <1>6, <1>7, <1>8, <1>9 DEF CINext

LEMMA CITyped == CIInv => CITypeOK
<1> SUFFICES ASSUME CIInv PROVE CITypeOK
  OBVIOUS
<1> QED
  BY CINumbers DEF CIInv, CITypeOK, CIRow

\* A pass that ends has stored every run on its list, and the list reaches
\* back far enough.
LEMMA EndPassStores ==
  ASSUME CIInv, EndPass, NEW r \in Pushed,
         hub[r].created >= Max({last - Margin, pass.now - Lookback})
  PROVE  /\ rows'[Current(r)] = RowNow(r)
         /\ hub[r].state = "failure" => jobs'[Current(r)] # "none"
<1>1. /\ pass.on /\ pass.now \in Int /\ pass.since \in Int /\ hub[r].created \in Int
      /\ pass.since <= last - Margin \/ pass.since <= pass.now - Lookback
  BY DEF EndPass, CIInv, Pushed, HubRun
<1>2. Max({last - Margin, pass.now - Lookback}) =
         IF last - Margin >= pass.now - Lookback THEN last - Margin ELSE pass.now - Lookback
  BY <1>1, CINumbers, MaxOfTwo
<1>3. r \in Listed
  BY <1>1, <1>2, CINumbers DEF Listed
<1>4. Current(r) \in Attempt /\ Current(r)[1] = r
  BY CurrentAttempt DEF Current
<1>5. rows'[Current(r)] = RowNow(r)
  BY <1>3, <1>4 DEF EndPass, StoreRuns
<1>6. ASSUME hub[r].state = "failure" PROVE jobs'[Current(r)] # "none"
  <2>1. NewJobs(Listed) \in SUBSET Attempt /\ {} \in SUBSET Attempt
    BY NewJobsTyped DEF Listed
  <2>2. jobs[Current(r)] # "none" \/ Current(r) \in NewJobs(Listed)
    BY <1>3, <1>6 DEF NewJobs
  <2> QED
    BY <1>4, <2>1, <2>2, JobsStored DEF EndPass
<1> QED
  BY <1>5, <1>6

-----------------------------------------------------------------------------
(* The forum *)

Entry == [page : Nat, done : BOOLEAN, streak : 0..Streak - 1, aged : BOOLEAN,
          seen : SUBSET Nat, torn : BOOLEAN]
Walk == [Categories -> Entry]
Batch == [at : {"idle", "page", "save", "refresh"}, cat : Int, left : 0..MaxRequests,
          page : Nat, copy : Walk \cup {<<>>}]

\* A walk of the listing L has stored in T whatever it saw in scope, or will
\* still come to it.
Walked(q, L, T) ==
    /\ q.streak <= q.page
    /\ \A t \in q.seen : InScope(t)
    /\ q.torn \/ \A t \in q.seen :
                    t \in T \/ (~q.done /\ \E n \in DOMAIN L : n > q.page /\ L[n] = t)

WalkSound(p, L, T) == p \in Walk /\ \A c \in Categories : Walked(p[c], L[c], T)

\* A listing of topics up to n, pinned ones first and fewer than the streak.
Shown(L, n) ==
    /\ L \in Seq(1..n)
    /\ \E k \in 0..Streak - 1 : PinnedHead(L, k)
    /\ NewestFirst(L)

BatchSound(b, L, T) ==
    /\ b \in Batch
    /\ b.copy = <<>> \/ WalkSound(b.copy, L, T)
    /\ b.at \in {"page", "save"} => WalkSound(b.copy, L, T)
    /\ b.at = "page" => b.cat \in Categories
    /\ b.at = "refresh" => b.cat \in Categories \cup {-1}

\* What is stored of the walks, and the copy a batch goes on with, is sound
\* for the listings as they are now.
ForumInv ==
    /\ topics \subseteq 1..Newest + posts /\ live \subseteq Categories /\ posts \in 0..MaxPosts
    /\ DOMAIN listing = Categories /\ \A c \in Categories : Shown(listing[c], Newest + posts)
    /\ WalkSound(progress, listing, topics)
    /\ BatchSound(batch, listing, topics)

-----------------------------------------------------------------------------
LEMMA Joined ==
  ASSUME NEW A \in Seq(Nat), NEW B \in Seq(Nat)
  PROVE  /\ A \o B \in Seq(Nat) /\ Len(A \o B) = Len(A) + Len(B)
         /\ \A i \in 1..Len(A) : (A \o B)[i] = A[i]
         /\ \A i \in 1..Len(B) : (A \o B)[Len(A) + i] = B[i]
<1>1. /\ A \o B \in Seq(Nat) /\ Len(A \o B) = Len(A) + Len(B)
      /\ \A i \in 1..Len(A) + Len(B) : (A \o B)[i] = IF i <= Len(A) THEN A[i] ELSE B[i - Len(A)]
  BY ConcatProperties
<1>2. Len(A) \in Nat /\ Len(B) \in Nat
  OBVIOUS
<1>3. \A i \in 1..Len(A) : (A \o B)[i] = A[i]
  BY <1>1, <1>2
<1>4. ASSUME NEW i \in 1..Len(B) PROVE (A \o B)[Len(A) + i] = B[i]
  <2>1. /\ Len(A) + i \in 1..Len(A) + Len(B) /\ ~(Len(A) + i <= Len(A))
        /\ (Len(A) + i) - Len(A) = i
    BY <1>2
  <2> QED
    BY <1>1, <2>1
<1> QED
  BY <1>1, <1>3, <1>4

LEMMA Slice ==
  ASSUME NEW L \in Seq(Nat), NEW a \in Nat, NEW b \in Nat, a >= 1, b <= Len(L), a <= b + 1
  PROVE  /\ SubSeq(L, a, b) \in Seq(Nat) /\ Len(SubSeq(L, a, b)) = b - a + 1
         /\ \A i \in 1..b - a + 1 : SubSeq(L, a, b)[i] = L[a + i - 1]
<1>1. \A i \in a..b : L[i] \in Nat
  BY ElementOfSeq
<1>2. /\ SubSeq(L, a, b) \in Seq(Nat)
      /\ Len(SubSeq(L, a, b)) = IF a <= b THEN b - a + 1 ELSE 0
      /\ \A i \in 1..b - a + 1 : SubSeq(L, a, b)[i] = L[a + i - 1]
  BY <1>1, SubSeqProperties
<1> QED
  BY <1>2

LEMMA Inserted ==
  ASSUME NEW L \in Seq(Nat), NEW k \in 0..Len(L), NEW e \in Nat
  PROVE  /\ InsertAt(L, k + 1, e) \in Seq(Nat)
         /\ Len(InsertAt(L, k + 1, e)) = Len(L) + 1
         /\ InsertAt(L, k + 1, e)[k + 1] = e
         /\ \A i \in 1..k : InsertAt(L, k + 1, e)[i] = L[i]
         /\ \A i \in k + 1..Len(L) : InsertAt(L, k + 1, e)[i + 1] = L[i]
<1> DEFINE m == Len(L)
           A == SubSeq(L, 1, k)
           B == SubSeq(L, k + 1, m)
           E == <<e>>
           C == A \o E
           M == C \o B
<1>0. m \in Nat /\ k \in Nat /\ k <= m
  OBVIOUS
<1>1. A \in Seq(Nat) /\ Len(A) = k /\ \A i \in 1..k : A[i] = L[i]
  BY <1>0, Slice
<1>2. B \in Seq(Nat) /\ Len(B) = m - k /\ \A i \in 1..m - k : B[i] = L[k + i]
  <2>1. \A i \in 1..m - k : (k + 1) + i - 1 = k + i
    BY <1>0
  <2>2. /\ B \in Seq(Nat) /\ Len(B) = m - (k + 1) + 1
        /\ \A i \in 1..m - (k + 1) + 1 : B[i] = L[(k + 1) + i - 1]
    BY <1>0, Slice
  <2>3. m - (k + 1) + 1 = m - k
    BY <1>0
  <2> QED
    BY <2>1, <2>2, <2>3
<1>3. InsertAt(L, k + 1, e) = M
  <2>1. (k + 1) - 1 = k
    OBVIOUS
  <2> QED
    BY <2>1 DEF InsertAt
<1>4. E \in Seq(Nat) /\ Len(E) = 1 /\ E[1] = e
  OBVIOUS
<1> HIDE DEF A, B, E, m
<1>5. /\ C \in Seq(Nat) /\ Len(C) = k + 1 /\ C[k + 1] = e
      /\ \A i \in 1..k : C[i] = L[i]
  <2>1. /\ C \in Seq(Nat) /\ Len(C) = Len(A) + Len(E)
        /\ \A i \in 1..Len(A) : C[i] = A[i]
        /\ \A i \in 1..Len(E) : C[Len(A) + i] = E[i]
    BY <1>1, <1>4, Joined
  <2> QED
    BY <1>0, <1>1, <1>4, <2>1
<1> HIDE DEF C
<1>6. /\ M \in Seq(Nat) /\ Len(M) = (k + 1) + (m - k)
      /\ \A i \in 1..k + 1 : M[i] = C[i]
      /\ \A i \in 1..m - k : M[k + 1 + i] = B[i]
  <2>1. /\ M \in Seq(Nat) /\ Len(M) = Len(C) + Len(B)
        /\ \A i \in 1..Len(C) : M[i] = C[i]
        /\ \A i \in 1..Len(B) : M[Len(C) + i] = B[i]
    BY <1>2, <1>5, Joined
  <2> HIDE DEF M
  <2> QED
    BY <1>2, <1>5, <2>1
<1> HIDE DEF M
<1>7. Len(M) = m + 1 /\ M[k + 1] = e /\ \A i \in 1..k : M[i] = L[i]
  <2>1. Len(M) = m + 1
    BY <1>0, <1>6
  <2>2. k + 1 \in 1..k + 1
    BY <1>0
  <2>3. M[k + 1] = e
    BY <1>5, <1>6, <2>2
  <2>4. ASSUME NEW i \in 1..k PROVE M[i] = L[i]
    <3>1. i \in 1..k + 1
      BY <1>0
    <3> QED
      BY <1>5, <1>6, <3>1
  <2> QED
    BY <2>1, <2>3, <2>4
<1>8. ASSUME NEW i \in k + 1..m PROVE M[i + 1] = L[i]
  <2> DEFINE h == i - k
  <2>1. h \in 1..m - k /\ k + h = i /\ k + 1 + h = i + 1
    BY <1>0
  <2> HIDE DEF h
  <2>2. M[k + 1 + h] = B[h] /\ B[h] = L[k + h]
    BY <1>2, <1>6, <2>1
  <2> QED
    BY <2>1, <2>2
<1> QED
  BY <1>3, <1>6, <1>7, <1>8 DEF m

LEMMA Deleted ==
  ASSUME NEW L \in Seq(Nat), NEW k \in 1..Len(L)
  PROVE  /\ RemoveAt(L, k) \in Seq(Nat) /\ Len(RemoveAt(L, k)) = Len(L) - 1
         /\ \A i \in 1..k - 1 : RemoveAt(L, k)[i] = L[i]
         /\ \A i \in k..Len(L) - 1 : RemoveAt(L, k)[i] = L[i + 1]
<1> DEFINE m == Len(L)
           p == k - 1
           A == SubSeq(L, 1, p)
           B == SubSeq(L, k + 1, m)
           M == A \o B
<1>0. m \in Nat /\ k \in Nat /\ k <= m /\ p \in Nat /\ p + 1 = k
  OBVIOUS
<1>1. A \in Seq(Nat) /\ Len(A) = p /\ \A i \in 1..p : A[i] = L[i]
  BY <1>0, Slice
<1>2. B \in Seq(Nat) /\ Len(B) = m - k /\ \A i \in 1..m - k : B[i] = L[k + i]
  <2>1. \A i \in 1..m - k : (k + 1) + i - 1 = k + i
    BY <1>0
  <2>2. /\ B \in Seq(Nat) /\ Len(B) = m - (k + 1) + 1
        /\ \A i \in 1..m - (k + 1) + 1 : B[i] = L[(k + 1) + i - 1]
    BY <1>0, Slice
  <2>3. m - (k + 1) + 1 = m - k
    BY <1>0
  <2> QED
    BY <2>1, <2>2, <2>3
<1>3. RemoveAt(L, k) = M
  BY DEF RemoveAt
<1> HIDE DEF A, B, m
<1>4. /\ M \in Seq(Nat) /\ Len(M) = p + (m - k)
      /\ \A i \in 1..p : M[i] = A[i]
      /\ \A i \in 1..m - k : M[p + i] = B[i]
  <2>1. /\ M \in Seq(Nat) /\ Len(M) = Len(A) + Len(B)
        /\ \A i \in 1..Len(A) : M[i] = A[i]
        /\ \A i \in 1..Len(B) : M[Len(A) + i] = B[i]
    BY <1>1, <1>2, Joined
  <2> HIDE DEF M
  <2> QED
    BY <1>1, <1>2, <2>1
<1> HIDE DEF M
<1>5. Len(M) = m - 1 /\ \A i \in 1..k - 1 : M[i] = L[i]
  <2>1. Len(M) = m - 1
    BY <1>0, <1>4
  <2>2. ASSUME NEW i \in 1..k - 1 PROVE M[i] = L[i]
    <3>1. i \in 1..p
      OBVIOUS
    <3> QED
      BY <1>1, <1>4, <3>1
  <2> QED
    BY <2>1, <2>2
<1>6. ASSUME NEW i \in k..m - 1 PROVE M[i] = L[i + 1]
  <2> DEFINE h == i - p
  <2>1. h \in 1..m - k /\ k + h = i + 1 /\ p + h = i
    BY <1>0
  <2> HIDE DEF h
  <2>2. M[p + h] = B[h] /\ B[h] = L[k + h]
    BY <1>2, <1>4, <2>1
  <2> QED
    BY <2>1, <2>2
<1> QED
  BY <1>3, <1>4, <1>5, <1>6 DEF m

LEMMA ForumNumbers ==
  /\ Categories \in SUBSET Nat /\ Before \in Nat /\ Streak \in Nat \ {0}
  /\ MaxRequests \in Nat \ {0} /\ Newest \in Nat /\ MaxPosts \in Nat
  /\ \A t \in Pinned : t \in Nat /\ t <= Newest
  /\ DOMAIN Listing = Categories
  /\ \A c \in Categories : Shown(Listing[c], Newest)
BY ForumAssumption DEF ForumAssumption, Shown

LEMMA PinsCounted ==
  ASSUME NEW L \in Seq(Nat), NEW j \in Nat, NEW k \in Nat, PinnedHead(L, j), PinnedHead(L, k)
  PROVE  j = k
<1> SUFFICES ASSUME NEW a \in Nat, NEW b \in Nat, PinnedHead(L, a), PinnedHead(L, b), a < b
             PROVE  FALSE
  OBVIOUS
<1>1. a + 1 \in DOMAIN L /\ a + 1 <= b /\ ~(a + 1 <= a)
  BY DEF PinnedHead
<1> QED
  BY <1>1 DEF PinnedHead

LEMMA Listings ==
  ASSUME NEW n \in Nat, NEW L, Shown(L, n)
  PROVE  /\ L \in Seq(Nat) /\ Len(L) \in Nat /\ DOMAIN L = 1..Len(L)
         /\ \A i \in 1..Len(L) : L[i] \in Nat /\ L[i] >= 1 /\ L[i] <= n
         /\ Streak \in Nat
BY ForumNumbers DEF Shown

LEMMA InsertShown ==
  ASSUME NEW n \in Nat, n >= Newest, NEW L, Shown(L, n), NEW k \in 0..Len(L), PinnedHead(L, k)
  PROVE  Shown(InsertAt(L, k + 1, n + 1), n + 1)
<1> DEFINE m == Len(L)
           M == InsertAt(L, k + 1, n + 1)
<1>0. /\ L \in Seq(Nat) /\ m \in Nat /\ DOMAIN L = 1..m /\ n + 1 \in Nat
      /\ \A i \in 1..m : L[i] \in Nat /\ L[i] >= 1 /\ L[i] <= n
      /\ k \in Nat /\ k <= m
  BY Listings
<1>1. /\ M \in Seq(Nat) /\ Len(M) = m + 1 /\ M[k + 1] = n + 1
      /\ \A i \in 1..k : M[i] = L[i]
      /\ \A i \in k + 1..m : M[i + 1] = L[i]
  BY <1>0, Inserted
<1> HIDE DEF M, m
<1>2. DOMAIN M = 1..m + 1
  BY <1>0, <1>1
<1>3. n + 1 \notin Pinned
  BY ForumNumbers
<1>4. ASSUME NEW i \in k + 2..m + 1
      PROVE  i - 1 \in k + 1..m /\ i - 1 \in DOMAIN L /\ M[i] = L[i - 1]
  <2>1. i - 1 \in k + 1..m /\ (i - 1) + 1 = i
    BY <1>0
  <2> QED
    BY <1>0, <1>1, <2>1
<1>5. ASSUME NEW i \in k + 1..m PROVE L[i] \notin Pinned
  <2>1. i \in DOMAIN L /\ ~(i <= k)
    BY <1>0
  <2> QED
    BY <2>1 DEF PinnedHead
<1>6. PinnedHead(M, k)
  <2>1. ASSUME NEW i \in 1..m + 1, i <= k PROVE M[i] \in Pinned
    <3>1. i \in 1..k /\ i \in DOMAIN L /\ M[i] = L[i]
      BY <1>0, <1>1, <2>1
    <3> QED
      BY <2>1, <3>1 DEF PinnedHead
  <2>2. ASSUME NEW i \in 1..m + 1, ~(i <= k) PROVE M[i] \notin Pinned
    <3>1. CASE i = k + 1
      BY <1>1, <1>3, <3>1
    <3>2. CASE i \in k + 2..m + 1
      BY <1>4, <1>5, <3>2
    <3> QED
      BY <1>0, <2>2, <3>1, <3>2
  <2>3. k <= Len(M)
    BY <1>0, <1>1
  <2> QED
    BY <1>2, <2>1, <2>2, <2>3 DEF PinnedHead
<1>7. NewestFirst(M)
  <2> SUFFICES ASSUME NEW i \in 1..m + 1, NEW h \in 1..m + 1, i < h, M[i] \notin Pinned
               PROVE  M[h] < M[i]
    BY <1>2 DEF NewestFirst
  <2>1. i > k
    BY <1>2, <1>6 DEF PinnedHead
  <2>2. h \in k + 2..m + 1
    BY <1>0, <2>1
  <2>3. M[h] = L[h - 1] /\ h - 1 \in DOMAIN L /\ L[h - 1] \in Nat /\ L[h - 1] <= n
    BY <1>0, <1>4, <2>2
  <2>4. CASE i = k + 1
    BY <1>1, <2>3, <2>4
  <2>5. CASE i \in k + 2..m + 1
    <3>1. M[i] = L[i - 1] /\ i - 1 \in DOMAIN L /\ L[i - 1] \notin Pinned /\ i - 1 < h - 1
      BY <1>4, <2>5
    <3> QED
      BY <2>3, <3>1 DEF Shown, NewestFirst
  <2> QED
    BY <1>0, <2>1, <2>4, <2>5
<1>8. \A i \in 1..m + 1 : M[i] \in 1..n + 1
  <2> SUFFICES ASSUME NEW i \in 1..m + 1 PROVE M[i] \in 1..n + 1
    OBVIOUS
  <2>1. CASE i \in 1..k
    <3>1. i \in 1..m /\ M[i] = L[i]
      BY <1>0, <1>1, <2>1
    <3> QED
      BY <1>0, <3>1
  <2>2. CASE i = k + 1
    BY <1>1, <2>2
  <2>3. CASE i \in k + 2..m + 1
    BY <1>0, <1>4, <2>3
  <2> QED
    BY <1>0, <2>1, <2>2, <2>3
<1>9. M \in Seq(1..n + 1)
  <2>1. M \in [1..m + 1 -> 1..n + 1]
    BY <1>1, <1>2, <1>8, LenProperties
  <2>2. m + 1 \in Nat
    BY <1>0
  <2> QED
    BY <2>1, <2>2, SeqDef
<1>10. k \in 0..Streak - 1
  <2>1. PICK j \in 0..Streak - 1 : PinnedHead(L, j)
    BY DEF Shown
  <2>2. j = k
    BY <1>0, <2>1, PinsCounted, ForumNumbers
  <2> QED
    BY <2>2
<1> QED
  BY <1>6, <1>7, <1>9, <1>10 DEF Shown, M

LEMMA InsertWalked ==
  ASSUME NEW n \in Nat, NEW L, Shown(L, n), NEW k \in 0..Len(L),
         NEW q \in Entry, NEW T, Walked(q, L, T)
  PROVE  Walked(q, InsertAt(L, k + 1, n + 1), T)
<1> DEFINE m == Len(L)
           M == InsertAt(L, k + 1, n + 1)
<1>0. /\ L \in Seq(Nat) /\ m \in Nat /\ DOMAIN L = 1..m /\ n + 1 \in Nat
      /\ k \in Nat /\ k <= m
  BY Listings
<1>1. /\ M \in Seq(Nat) /\ Len(M) = m + 1
      /\ \A i \in 1..k : M[i] = L[i]
      /\ \A i \in k + 1..m : M[i + 1] = L[i]
  BY <1>0, Inserted
<1> HIDE DEF M, m
<1>2. q.page \in Nat /\ DOMAIN M = 1..m + 1
  BY <1>0, <1>1 DEF Entry
<1>3. ASSUME NEW t, NEW i \in DOMAIN L, i > q.page, L[i] = t
      PROVE  \E h \in DOMAIN M : h > q.page /\ M[h] = t
  <2>1. CASE i \in 1..k
    <3>1. i \in DOMAIN M /\ M[i] = t
      BY <1>0, <1>1, <1>2, <1>3, <2>1
    <3> QED
      BY <1>3, <3>1
  <2>2. CASE i \in k + 1..m
    <3>1. i + 1 \in DOMAIN M /\ i + 1 > q.page /\ M[i + 1] = t
      BY <1>0, <1>1, <1>2, <1>3, <2>2
    <3> QED
      BY <3>1
  <2> QED
    BY <1>0, <2>1, <2>2
<1> QED
  BY <1>3 DEF Walked, M

LEMMA DeleteShown ==
  ASSUME NEW n \in Nat, NEW L, Shown(L, n), NEW k \in 1..Len(L)
  PROVE  Shown(RemoveAt(L, k), n)
<1> DEFINE m == Len(L)
           M == RemoveAt(L, k)
<1>0. /\ L \in Seq(Nat) /\ m \in Nat /\ DOMAIN L = 1..m /\ k \in 1..m
      /\ \A i \in 1..m : L[i] \in Nat /\ L[i] >= 1 /\ L[i] <= n
  BY Listings
<1>1. /\ M \in Seq(Nat) /\ Len(M) = m - 1
      /\ \A i \in 1..k - 1 : M[i] = L[i]
      /\ \A i \in k..m - 1 : M[i] = L[i + 1]
  BY <1>0, Deleted
<1>5. PICK j \in 0..Streak - 1 : PinnedHead(L, j)
  BY DEF Shown
<1>5a. j \in Nat /\ j <= m /\ \A i \in 1..m : i <= j <=> L[i] \in Pinned
  BY <1>0, <1>5 DEF PinnedHead
<1> HIDE DEF M, m
<1>2. DOMAIN M = 1..m - 1
  BY <1>0, <1>1
\* The place a topic had before.
<1> DEFINE was(i) == IF i < k THEN i ELSE i + 1
<1>3. ASSUME NEW i \in 1..m - 1
      PROVE  was(i) \in 1..m /\ M[i] = L[was(i)]
  <2>1. CASE i \in 1..k - 1
    BY <1>0, <1>1, <2>1
  <2>2. CASE i \in k..m - 1
    BY <1>0, <1>1, <2>2
  <2> QED
    BY <1>0, <2>1, <2>2
<1>4. \A i, h \in 1..m - 1 : i < h => was(i) < was(h)
  BY <1>0
<1>6. \E h \in 0..Streak - 1 : PinnedHead(M, h)
  <2>0. j \in Nat /\ j <= m /\ Streak \in Nat /\ \A i \in 1..m : i <= j <=> L[i] \in Pinned
    BY <1>5a, ForumNumbers
  <2>1. CASE k <= j
    <3>1. \A i \in 1..m - 1 : i <= j - 1 <=> was(i) <= j
      BY <1>0, <2>0, <2>1
    <3> HIDE DEF was
    <3>2. \A i \in 1..m - 1 : i <= j - 1 <=> M[i] \in Pinned
      BY <1>3, <2>0, <3>1
    <3>3. j - 1 \in 0..Streak - 1 /\ j - 1 <= Len(M)
      BY <1>0, <1>1, <1>5, <2>0, <2>1
    <3>4. PinnedHead(M, j - 1)
      BY <1>2, <3>2, <3>3 DEF PinnedHead
    <3> QED
      BY <3>3, <3>4
  <2>2. CASE k > j
    <3>1. \A i \in 1..m - 1 : i <= j <=> was(i) <= j
      BY <1>0, <2>0, <2>2
    <3> HIDE DEF was
    <3>2. \A i \in 1..m - 1 : i <= j <=> M[i] \in Pinned
      BY <1>3, <2>0, <3>1
    <3>3. j <= Len(M)
      BY <1>0, <1>1, <2>0, <2>2
    <3>4. PinnedHead(M, j)
      BY <1>2, <3>2, <3>3 DEF PinnedHead
    <3> QED
      BY <1>5, <3>4
  <2> QED
    BY <1>0, <2>0, <2>1, <2>2
<1> HIDE DEF was
<1>7. NewestFirst(M)
  BY <1>0, <1>2, <1>3, <1>4 DEF Shown, NewestFirst
<1>8. \A i \in 1..m - 1 : M[i] \in 1..n
  BY <1>0, <1>3
<1>9. M \in Seq(1..n)
  <2>1. M \in [1..m - 1 -> 1..n]
    BY <1>1, <1>2, <1>8, LenProperties
  <2>2. m - 1 \in Nat
    BY <1>0
  <2> QED
    BY <2>1, <2>2, SeqDef
<1> QED
  BY <1>6, <1>7, <1>9 DEF Shown, M

-----------------------------------------------------------------------------
LEMMA Fresh ==
  /\ Unwalked \in Entry /\ ~Unwalked.done
  /\ \A L, T : Walked(Unwalked, L, T)
<1>1. Unwalked \in Entry
  BY ForumNumbers DEF Unwalked, Entry
<1>2. ~Unwalked.done
  BY DEF Unwalked
<1> QED
  BY <1>1, <1>2 DEF Walked, Unwalked

LEMMA EndedEntry ==
  ASSUME NEW q \in Entry
  PROVE  /\ Ended(q) \in Entry /\ Ended(q).page = q.page /\ Ended(q).streak = 0
         /\ Ended(q).done /\ Ended(q).seen = q.seen /\ Ended(q).torn = q.torn
<1>1. Ended(q).page = q.page /\ Ended(q).streak = 0 /\ Ended(q).seen = q.seen
      /\ Ended(q).torn = q.torn /\ Ended(q).done = TRUE /\ Ended(q).aged = q.aged
  BY DEF Ended, Entry
<1>2. Ended(q) \in Entry
  <2> DEFINE e == [q EXCEPT !.done = TRUE]
  <2>1. e \in Entry
    BY DEF Entry
  <2>2. Ended(q) = [e EXCEPT !.streak = 0]
    BY DEF Ended
  <2> HIDE DEF e
  <2> QED
    BY <2>1, <2>2, ForumNumbers DEF Entry
<1> QED
  BY <1>1, <1>2

LEMMA NextPage ==
  ASSUME NEW q \in Entry, NEW s \in 0..Streak - 1
  PROVE  LET e == [q EXCEPT !.page = @ + 1, !.streak = s]
         IN  /\ e \in Entry /\ e.page = q.page + 1 /\ e.streak = s
             /\ e.done = q.done /\ e.seen = q.seen /\ e.torn = q.torn
<1> DEFINE e == [q EXCEPT !.page = @ + 1, !.streak = s]
           e1 == [q EXCEPT !.page = @ + 1]
<1>1. /\ e.page = q.page + 1 /\ e.streak = s
      /\ e.done = q.done /\ e.seen = q.seen /\ e.torn = q.torn
  BY DEF Entry
<1>2. e \in Entry
  <2>1. e1 \in Entry
    BY DEF Entry
  <2>2. e = [e1 EXCEPT !.streak = s]
    OBVIOUS
  <2> HIDE DEF e, e1
  <2> QED
    BY <2>1, <2>2 DEF Entry
<1> QED
  BY <1>1, <1>2

LEMMA BegunEntry ==
  ASSUME NEW n \in Nat, NEW c, Shown(listing[c], n), NEW q \in Entry, NEW T,
         Walked(q, listing[c], T), ~q.done
  PROVE  /\ Begun(q, c) \in Entry /\ Begun(q, c).page = q.page /\ ~Begun(q, c).done
         /\ Walked(Begun(q, c), listing[c], T)
<1>1. CASE q.page # 0
  BY <1>1 DEF Begun
<1>2. CASE q.page = 0
  <2> DEFINE S == {t \in ToSet(listing[c]) : InScope(t)}
             e == [q EXCEPT !.seen = S, !.torn = FALSE]
  <2>1. Begun(q, c) = e
    BY <1>2 DEF Begun
  <2>2. S \in SUBSET Nat /\ \A t \in S : InScope(t) /\ \E i \in DOMAIN listing[c] : i > 0 /\ listing[c][i] = t
    BY Listings DEF ToSet
  <2> HIDE DEF S
  <2>3. e.page = q.page /\ e.done = q.done /\ e.seen = S /\ e.streak = q.streak
    BY DEF Entry
  <2>4. e \in Entry
    BY <2>2 DEF Entry
  <2> HIDE DEF e
  <2>5. \A t \in e.seen : InScope(t)
    BY <2>2, <2>3
  <2>6. \A t \in e.seen : \E i \in DOMAIN listing[c] : i > e.page /\ listing[c][i] = t
    BY <1>2, <2>2, <2>3
  <2>7. ~e.done
    BY <2>3
  <2>8. e.streak <= e.page
    BY <2>3 DEF Walked
  <2> QED
    BY <2>1, <2>3, <2>4, <2>5, <2>6, <2>7, <2>8 DEF Walked
<1> QED
  BY <1>1, <1>2

LEMMA PageWalked ==
  ASSUME NEW n \in Nat, NEW c, Shown(listing[c], n), NEW q \in Entry, NEW T,
         Walked(q, listing[c], T), ~q.done
  PROVE  /\ AfterPage(q, c) \in Entry
         /\ Walked(AfterPage(q, c), listing[c], T \cup PageTopics(c, q.page + 1))
<1> DEFINE L == listing[c]
           m == Len(L)
           p == q.page + 1
           P == PageTopics(c, p)
           t == L[p]
           s == IF InScope(t) THEN 0 ELSE q.streak + 1
<1>0. /\ L \in Seq(Nat) /\ m \in Nat /\ DOMAIN L = 1..m /\ \A i \in 1..m : L[i] \in Nat
      /\ Streak \in Nat
  BY Listings
<1>1. /\ q.page \in Nat /\ q.streak \in Nat /\ p \in Nat /\ q.streak <= q.page
      /\ s \in Nat /\ s <= p
  BY DEF Entry, Walked
<1>2. p <= m => t \in P
  BY <1>0, <1>1 DEF PageTopics
<1>3. \A u \in q.seen : InScope(u)
  BY DEF Walked
<1>4. ASSUME NEW u \in q.seen, ~q.torn
      PROVE  u \in T \/ \E i \in DOMAIN L : i > q.page /\ L[i] = u
  BY <1>4 DEF Walked
\* What there is to show of a walk that ends here.
<1>5. ASSUME \A i \in DOMAIN L : i > p => ~InScope(L[i])
      PROVE  Ended(q) \in Entry /\ Walked(Ended(q), L, T \cup P)
  <2>1. ASSUME NEW u \in q.seen, ~q.torn PROVE u \in T \cup P
    <3>1. CASE \E i \in DOMAIN L : i > q.page /\ L[i] = u
      <4>1. PICK i \in DOMAIN L : i > q.page /\ L[i] = u
        BY <3>1
      <4>2. ~(i > p)
        BY <1>3, <1>5, <2>1, <4>1
      <4>3. i = p /\ p <= m
        BY <1>0, <1>1, <4>1, <4>2
      <4> QED
        BY <1>2, <4>1, <4>3
    <3> QED
      BY <1>4, <2>1, <3>1
  <2> QED
    BY <1>1, <1>3, <2>1, EndedEntry DEF Walked
<1>6. CASE q.page >= m
  <2>1. AfterPage(q, c) = Ended(q)
    BY <1>6 DEF AfterPage
  <2>2. \A i \in DOMAIN L : i > p => ~InScope(L[i])
    BY <1>0, <1>1, <1>6
  <2> QED
    BY <1>5, <2>1, <2>2
<1>7. CASE q.page < m /\ m <= p
  <2>1. AfterPage(q, c) = Ended(q)
    BY <1>0, <1>1, <1>7 DEF AfterPage
  <2>2. \A i \in DOMAIN L : i > p => ~InScope(L[i])
    BY <1>0, <1>1, <1>7
  <2> QED
    BY <1>5, <2>1, <2>2
<1>8. CASE q.page < m /\ p < m /\ s >= Streak
  <2>1. AfterPage(q, c) = Ended(q)
    BY <1>0, <1>1, <1>8 DEF AfterPage, LastPage
  <2>2. ~InScope(t)
    BY <1>8, ForumNumbers
  <2>3. t \notin Pinned
    <3>1. PICK k \in 0..Streak - 1 : PinnedHead(L, k)
      BY DEF Shown
    <3>2. p \in DOMAIN L
      BY <1>0, <1>1, <1>8
    <3>3. ~(p <= k)
      BY <1>0, <1>1, <1>8
    <3> QED
      BY <3>1, <3>2, <3>3 DEF PinnedHead
  <2>4. ASSUME NEW i \in DOMAIN L, i > p PROVE ~InScope(L[i])
    <3>1. p \in DOMAIN L /\ p < i
      BY <1>0, <1>1, <1>8, <2>4
    <3>2. L[i] < L[p]
      BY <2>3, <3>1 DEF Shown, NewestFirst
    <3> QED
      BY <1>0, <2>2, <3>1, <3>2, ForumNumbers DEF InScope
  <2> QED
    BY <1>5, <2>1, <2>4
<1>9. CASE q.page < m /\ p < m /\ s < Streak
  <2> DEFINE e == [q EXCEPT !.page = @ + 1, !.streak = s]
  <2>1. AfterPage(q, c) = e
    BY <1>0, <1>1, <1>9 DEF AfterPage, LastPage
  <2>2. s \in 0..Streak - 1
    BY <1>0, <1>1, <1>9
  <2> HIDE DEF s
  <2>3. /\ e \in Entry /\ e.page = p /\ e.streak = s
        /\ e.done = q.done /\ e.seen = q.seen /\ e.torn = q.torn
    BY <2>2, NextPage
  <2> HIDE DEF e
  <2>4. ASSUME NEW u \in q.seen, ~q.torn
        PROVE  u \in T \cup P \/ \E i \in DOMAIN L : i > p /\ L[i] = u
    <3>1. CASE \E i \in DOMAIN L : i > q.page /\ L[i] = u
      <4>1. PICK i \in DOMAIN L : i > q.page /\ L[i] = u
        BY <3>1
      <4>2. CASE i = p
        BY <1>2, <1>9, <4>1, <4>2, <1>0, <1>1
      <4>3. CASE i > p
        BY <4>1, <4>3
      <4> QED
        BY <1>0, <1>1, <4>1, <4>2, <4>3
    <3> QED
      BY <1>4, <2>4, <3>1
  <2>5. ~e.done
    BY <2>3
  <2>6. e.torn \/ \A u \in e.seen : u \in T \cup P \/ \E i \in DOMAIN L : i > e.page /\ L[i] = u
    BY <2>3, <2>4
  <2>7. e.streak <= e.page /\ \A u \in e.seen : InScope(u)
    BY <1>1, <1>3, <2>3
  <2> QED
    BY <2>1, <2>3, <2>5, <2>6, <2>7 DEF Walked
<1> QED
  BY <1>0, <1>1, <1>6, <1>7, <1>8, <1>9

-----------------------------------------------------------------------------
LEMMA NextCategoryIn ==
  ASSUME NEW C \in SUBSET Categories, NEW c \in Int
  PROVE  NextCategory(C, c) \in C \cup {-1}
<1>1. CASE \E d \in C : d > c
  <2> DEFINE S == {d \in C : d > c}
  <2>1. S \in SUBSET Nat /\ S # {}
    BY <1>1, ForumNumbers
  <2>2. Min(S) \in S /\ \A e \in S : Min(S) <= e
    BY <2>1, MinIn
  <2>3. \E d \in C : d > c /\ \A e \in C : e > c => d <= e
    BY <2>2
  <2> QED
    BY <1>1, <2>3 DEF NextCategory
<1>2. CASE ~\E d \in C : d > c
  BY <1>2 DEF NextCategory
<1> QED
  BY <1>1, <1>2

LEMMA WalkedGrows ==
  ASSUME NEW q, NEW L, NEW T, NEW U, T \subseteq U, Walked(q, L, T)
  PROVE  Walked(q, L, U)
BY DEF Walked

LEMMA SoundGrows ==
  ASSUME NEW L, NEW T, NEW U, T \subseteq U
  PROVE  /\ \A p : WalkSound(p, L, T) => WalkSound(p, L, U)
         /\ \A b : BatchSound(b, L, T) => BatchSound(b, L, U)
BY WalkedGrows DEF WalkSound, BatchSound

LEMMA NoBatchSound ==
  ASSUME NEW L, NEW T
  PROVE  /\ BatchSound(NoBatch, L, T)
         /\ \A c \in Categories \cup {-1} :
               BatchSound([NoBatch EXCEPT !.at = "refresh", !.cat = c], L, T)
<1>1. -1 \in Int /\ 0 \in 0..MaxRequests /\ Categories \subseteq Int
  BY ForumNumbers
<1>2. NoBatch \in Batch /\ NoBatch.copy = <<>> /\ NoBatch.at = "idle"
  BY <1>1 DEF NoBatch, Batch
<1>3. ASSUME NEW c \in Categories \cup {-1}
      PROVE  BatchSound([NoBatch EXCEPT !.at = "refresh", !.cat = c], L, T)
  <2> DEFINE b == [at |-> "refresh", cat |-> c, left |-> 0, page |-> 0, copy |-> <<>>]
             d == [at |-> "refresh", cat |-> -1, left |-> 0, page |-> 0, copy |-> <<>>]
  <2>1. [NoBatch EXCEPT !.at = "refresh", !.cat = c] = [[NoBatch EXCEPT !.at = "refresh"] EXCEPT !.cat = c]
    OBVIOUS
  <2>2. [NoBatch EXCEPT !.at = "refresh"] = d
    BY DEF NoBatch
  <2>3. [d EXCEPT !.cat = c] = b
    OBVIOUS
  <2>4. b \in Batch /\ b.copy = <<>> /\ b.at = "refresh" /\ b.cat = c
    BY <1>1 DEF Batch
  <2> HIDE DEF b, d
  <2> QED
    BY <2>1, <2>2, <2>3, <2>4 DEF BatchSound
<1> QED
  BY <1>2, <1>3 DEF BatchSound

LEMMA EnteredSound ==
  ASSUME NEW p, NEW L, NEW T, WalkSound(p, L, T), NEW c \in Categories
  PROVE  WalkSound(Entered(p, c), L, T)
BY Fresh DEF Entered, WalkSound, Walk

LEMMA AtCategorySound ==
  ASSUME NEW L, NEW T, BatchSound(batch, L, T), NEW p, WalkSound(p, L, T),
         NEW c \in Categories \cup {-1}, NEW left \in 0..MaxRequests
  PROVE  BatchSound(AtCategory(p, c, left), L, T)
<1>1. CASE c = -1 \/ left = 0
  <2> DEFINE b == [batch EXCEPT !.at = "save", !.copy = p]
             e == [batch EXCEPT !.at = "save"]
  <2>1. AtCategory(p, c, left) = b
    BY <1>1 DEF AtCategory
  <2>2. e \in Batch /\ e.at = "save"
    BY DEF Batch, BatchSound
  <2>3. b = [e EXCEPT !.copy = p]
    OBVIOUS
  <2> HIDE DEF b, e
  <2>4. b \in Batch /\ b.at = "save" /\ b.copy = p
    BY <2>2, <2>3 DEF Batch, WalkSound
  <2> QED
    BY <2>1, <2>4 DEF BatchSound
<1>2. CASE ~(c = -1 \/ left = 0)
  <2> DEFINE b == [at |-> "page", cat |-> c, left |-> left, page |-> 0, copy |-> Entered(p, c)]
  <2>1. AtCategory(p, c, left) = b
    BY <1>2 DEF AtCategory
  <2>2. c \in Categories /\ c \in Int
    BY <1>2, ForumNumbers
  <2>3. WalkSound(Entered(p, c), L, T)
    BY <2>2, EnteredSound
  <2>4. b \in Batch /\ b.at = "page" /\ b.cat = c /\ b.copy = Entered(p, c)
    BY <2>2, <2>3 DEF Batch, WalkSound
  <2> HIDE DEF b
  <2> QED
    BY <2>1, <2>2, <2>3, <2>4 DEF BatchSound
<1> QED
  BY <1>1, <1>2

LEMMA TornSound ==
  ASSUME NEW L, NEW M, NEW T, NEW p, WalkSound(p, L, T), NEW c \in Categories,
         \A d \in Categories : d # c => M[d] = L[d]
  PROVE  WalkSound(Torn(p, c), M, T)
<1> DEFINE e == [p[c] EXCEPT !.torn = TRUE]
<1>1. p \in Walk /\ p[c] \in Entry /\ DOMAIN p = Categories
  BY DEF WalkSound, Walk
<1>2. CASE p[c].done
  <2>1. Torn(p, c) = p
    BY <1>2 DEF Torn
  <2>2. Walked(p[c], M[c], T)
    BY <1>2 DEF WalkSound, Walked
  <2> QED
    BY <1>1, <2>1, <2>2 DEF WalkSound
<1>3. CASE ~p[c].done
  <2>1. Torn(p, c) = [p EXCEPT ![c] = e]
    BY <1>1, <1>3 DEF Torn
  <2>2. e \in Entry
    BY <1>1 DEF Entry
  <2>3. e.torn = TRUE /\ e.streak = p[c].streak /\ e.page = p[c].page /\ e.seen = p[c].seen
    BY <1>1 DEF Entry
  <2> HIDE DEF e
  <2>4. Walked(e, M[c], T)
    BY <2>3 DEF WalkSound, Walked
  <2>5. Torn(p, c) \in Walk /\ Torn(p, c)[c] = e
        /\ \A d \in Categories : d # c => Torn(p, c)[d] = p[d]
    BY <1>1, <2>1, <2>2 DEF Walk
  <2> QED
    BY <2>4, <2>5 DEF WalkSound
<1> QED
  BY <1>2, <1>3

LEMMA ForumBegins == ForumInit => ForumInv
<1> SUFFICES ASSUME ForumInit PROVE ForumInv
  OBVIOUS
<1>1. topics = {} /\ live = Categories /\ posts = 0 /\ listing = Listing /\ batch = NoBatch
  BY DEF ForumInit
<1>2. progress = [c \in Categories |-> Unwalked]
  BY DEF ForumInit
<1>3. Newest + 0 = Newest /\ 0 \in 0..MaxPosts
  BY ForumNumbers
<1>4. WalkSound(progress, listing, topics)
  BY <1>2, Fresh DEF WalkSound, Walk
<1> QED
  BY <1>1, <1>3, <1>4, NoBatchSound, ForumNumbers DEF ForumInv

-----------------------------------------------------------------------------
LEMMA PostStep == ASSUME NEW c \in Categories PROVE ForumInv /\ Post(c) => ForumInv'
<1> SUFFICES ASSUME ForumInv, Post(c) PROVE ForumInv'
  OBVIOUS
<1> DEFINE n == Newest + posts
<1>1. PICK k \in 0..Len(listing[c]) :
         /\ PinnedHead(listing[c], k)
         /\ listing' = [listing EXCEPT ![c] = InsertAt(listing[c], k + 1, Newest + posts')]
  BY DEF Post
<1>2. /\ posts' = posts + 1 /\ posts < MaxPosts /\ posts \in 0..MaxPosts
      /\ UNCHANGED <<live, topics, progress, batch>>
  BY DEF Post, ForumInv
<1>3. /\ n \in Nat /\ n >= Newest /\ Newest + posts' = n + 1 /\ posts' \in 0..MaxPosts
      /\ 1..n \subseteq 1..n + 1
  BY <1>2, ForumNumbers
<1>4. /\ DOMAIN listing' = Categories /\ listing'[c] = InsertAt(listing[c], k + 1, n + 1)
      /\ \A d \in Categories : d # c => listing'[d] = listing[d]
  BY <1>1, <1>3 DEF ForumInv
<1>5. \A d \in Categories : Shown(listing[d], n)
  BY DEF ForumInv
<1> HIDE DEF n
<1>6. ASSUME NEW d \in Categories PROVE Shown(listing'[d], n + 1)
  <2>1. CASE d = c
    BY <1>1, <1>3, <1>4, <1>5, <2>1, InsertShown
  <2>2. CASE d # c
    <3>1. Seq(1..n) \subseteq Seq(1..n + 1)
      BY <1>3, SeqMonotonic
    <3> QED
      BY <1>4, <1>5, <2>2, <3>1 DEF Shown
  <2> QED
    BY <2>1, <2>2
<1>7. ASSUME NEW p, WalkSound(p, listing, topics) PROVE WalkSound(p, listing', topics)
  <2>1. ASSUME NEW d \in Categories PROVE Walked(p[d], listing'[d], topics)
    <3>1. p[d] \in Entry /\ Walked(p[d], listing[d], topics)
      BY <1>7 DEF WalkSound, Walk
    <3>2. CASE d = c
      BY <1>1, <1>3, <1>4, <1>5, <3>1, <3>2, InsertWalked
    <3>3. CASE d # c
      BY <1>4, <3>1, <3>3
    <3> QED
      BY <3>2, <3>3
  <2> QED
    BY <1>7, <2>1 DEF WalkSound
<1>8. BatchSound(batch, listing', topics)
  BY <1>7 DEF ForumInv, BatchSound
<1>9. topics \subseteq 1..n + 1
  BY <1>3 DEF ForumInv, n
<1>10. WalkSound(progress, listing', topics)
  BY <1>7 DEF ForumInv
<1> QED
  BY <1>2, <1>3, <1>4, <1>6, <1>8, <1>9, <1>10 DEF ForumInv

LEMMA LoseStep == ASSUME NEW c \in Categories PROVE ForumInv /\ Lose(c) => ForumInv'
<1> SUFFICES ASSUME ForumInv, Lose(c) PROVE ForumInv'
  OBVIOUS
<1>1. PICK i \in 1..Len(listing[c]) : listing' = [listing EXCEPT ![c] = RemoveAt(listing[c], i)]
  BY DEF Lose
<1>2. /\ DOMAIN listing' = Categories /\ listing'[c] = RemoveAt(listing[c], i)
      /\ \A d \in Categories : d # c => listing'[d] = listing[d]
  BY <1>1 DEF ForumInv
<1>3. /\ progress' = Torn(progress, c) /\ batch' = [batch EXCEPT !.copy = Torn(batch.copy, c)]
      /\ UNCHANGED <<live, topics, posts>>
  BY DEF Lose
<1>4. Newest + posts \in Nat
  BY ForumNumbers DEF ForumInv
<1>5. \A d \in Categories : Shown(listing'[d], Newest + posts)
  BY <1>1, <1>2, <1>4, DeleteShown DEF ForumInv
<1>6. \A p : WalkSound(p, listing, topics) => WalkSound(Torn(p, c), listing', topics)
  BY <1>2, TornSound
<1>7. BatchSound(batch', listing', topics)
  <2> DEFINE w == Torn(batch.copy, c)
  <2>1. batch \in Batch /\ (batch.copy = <<>> \/ WalkSound(batch.copy, listing, topics))
    BY DEF ForumInv, BatchSound
  <2>2. batch.copy = <<>> => w = <<>>
    <3>1. DOMAIN <<>> = {}
      OBVIOUS
    <3> QED
      BY <3>1 DEF Torn
  <2>3. w = <<>> \/ WalkSound(w, listing', topics)
    BY <1>6, <2>1, <2>2
  <2>4. batch.at \in {"page", "save"} => WalkSound(w, listing', topics)
    BY <1>6 DEF ForumInv, BatchSound
  <2> HIDE DEF w
  <2>5. batch' = [batch EXCEPT !.copy = w]
    BY <1>3 DEF w
  <2>6. batch' \in Batch /\ batch'.copy = w /\ batch'.at = batch.at /\ batch'.cat = batch.cat
    BY <2>1, <2>3, <2>5 DEF Batch, WalkSound
  <2> QED
    BY <2>3, <2>4, <2>6 DEF ForumInv, BatchSound
<1> QED
  BY <1>2, <1>3, <1>5, <1>6, <1>7 DEF ForumInv

LEMMA AgeStep == ASSUME NEW c \in Categories PROVE ForumInv /\ Age(c) => ForumInv'
<1> SUFFICES ASSUME ForumInv, Age(c) PROVE ForumInv'
  OBVIOUS
<1> DEFINE e == [progress[c] EXCEPT !.aged = TRUE]
<1>1. progress \in Walk /\ progress[c] \in Entry /\ Walked(progress[c], listing[c], topics)
  BY DEF ForumInv, WalkSound, Walk
<1>2. /\ progress' = [progress EXCEPT ![c] = e] /\ UNCHANGED <<listing, live, topics, batch, posts>>
  BY <1>1 DEF Age, Walk
<1>3. e \in Entry
  BY <1>1 DEF Entry
<1>4. e.streak = progress[c].streak /\ e.page = progress[c].page /\ e.seen = progress[c].seen
      /\ e.torn = progress[c].torn /\ e.done = progress[c].done
  BY <1>1 DEF Entry
<1> HIDE DEF e
<1>5. Walked(e, listing[c], topics)
  BY <1>1, <1>4 DEF Walked
<1>6. WalkSound(progress', listing, topics)
  BY <1>1, <1>2, <1>3, <1>5 DEF ForumInv, WalkSound, Walk
<1> QED
  BY <1>2, <1>6 DEF ForumInv

LEMMA BeginBatchStep == ForumInv /\ BeginBatch => ForumInv'
<1> SUFFICES ASSUME ForumInv, BeginBatch PROVE ForumInv'
  OBVIOUS
<1> DEFINE kept == [c \in Categories |-> IF c \in live THEN progress[c] ELSE Unwalked]
           b == AtCategory(kept, NextCategory(live, -1), MaxRequests)
<1>1. /\ progress' = kept /\ batch' = [b EXCEPT !.page = 0]
      /\ UNCHANGED <<listing, live, topics, posts>>
  BY DEF BeginBatch
<1>2. WalkSound(kept, listing, topics)
  BY Fresh DEF ForumInv, WalkSound, Walk
<1>3. NextCategory(live, -1) \in Categories \cup {-1} /\ MaxRequests \in 0..MaxRequests
  <2>1. live \in SUBSET Categories /\ -1 \in Int
    BY DEF ForumInv
  <2>2. NextCategory(live, -1) \in live \cup {-1}
    BY <2>1, NextCategoryIn
  <2>3. MaxRequests \in 0..MaxRequests
    BY ForumNumbers
  <2> QED
    BY <2>1, <2>2, <2>3
<1> HIDE DEF kept
<1>4. BatchSound(b, listing, topics)
  BY <1>2, <1>3, AtCategorySound DEF ForumInv
<1> HIDE DEF b
<1>5. batch' \in Batch /\ batch'.at = b.at /\ batch'.cat = b.cat /\ batch'.copy = b.copy
  BY <1>1, <1>4 DEF BatchSound, Batch
<1>6. BatchSound(batch', listing, topics)
  BY <1>4, <1>5 DEF BatchSound
<1> QED
  BY <1>1, <1>2, <1>6 DEF ForumInv

\* What is on a page is one of the topics there are.
LEMMA PageTyped ==
  ASSUME ForumInv, NEW c \in Categories, NEW n
  PROVE  PageTopics(c, n) \subseteq 1..Newest + posts
<1>1. Newest + posts \in Nat
  BY ForumNumbers DEF ForumInv
<1>2. \A i \in DOMAIN listing[c] : listing[c][i] \in 1..Newest + posts
  BY <1>1, Listings DEF ForumInv
<1> QED
  BY <1>2 DEF PageTopics

LEMMA FetchPageStep == ForumInv /\ FetchPage => ForumInv'
<1> SUFFICES ASSUME ForumInv, FetchPage PROVE ForumInv'
  OBVIOUS
<1> DEFINE c == batch.cat
           q == Begun(batch.copy[c], c)
           e == AfterPage(q, c)
           T == topics \cup PageTopics(c, q.page + 1)
<1>1. /\ batch.at = "page" /\ batch.left > 0 /\ ~q.done
      /\ batch' = [batch EXCEPT !.copy[c] = e, !.left = @ - 1] /\ topics' = T
      /\ UNCHANGED <<listing, live, progress, posts>>
  BY DEF FetchPage
<1>2. /\ batch \in Batch /\ batch.copy \in Walk /\ c \in Categories
      /\ \A d \in Categories : Walked(batch.copy[d], listing[d], topics)
  BY <1>1 DEF ForumInv, BatchSound, WalkSound
<1>3. Newest + posts \in Nat /\ Shown(listing[c], Newest + posts)
  <2>1. Newest + posts \in Nat /\ \A d \in Categories : Shown(listing[d], Newest + posts)
    BY ForumNumbers DEF ForumInv
  <2> QED
    BY <1>2, <2>1
<1>4. batch.copy[c] \in Entry /\ Walked(batch.copy[c], listing[c], topics)
  BY <1>2 DEF Walk
<1>5. ~batch.copy[c].done
  BY <1>1, <1>4 DEF Begun, Entry
<1>6. q \in Entry /\ ~q.done /\ Walked(q, listing[c], topics)
  BY <1>3, <1>4, <1>5, BegunEntry
<1> HIDE DEF q, c
<1>7. e \in Entry /\ Walked(e, listing[c], T)
  BY <1>3, <1>6, PageWalked
<1>8. topics \subseteq T /\ T \subseteq 1..Newest + posts
  BY <1>2, PageTyped DEF ForumInv
<1> HIDE DEF e, T
<1> DEFINE w == [batch.copy EXCEPT ![c] = e]
<1>9. WalkSound(w, listing, T)
  <2>1. w \in Walk /\ w[c] = e /\ \A d \in Categories : d # c => w[d] = batch.copy[d]
    BY <1>2, <1>7 DEF Walk
  <2> QED
    BY <1>2, <1>7, <1>8, <2>1, WalkedGrows DEF WalkSound
<1>10. batch' = [[batch EXCEPT !.copy = w] EXCEPT !.left = batch.left - 1]
  BY <1>1, <1>2 DEF Batch
<1> DEFINE d == [batch EXCEPT !.copy = w]
<1>11. w \in Walk
  BY <1>9 DEF WalkSound
<1> HIDE DEF w
<1>12. d \in Batch /\ d.at = "page" /\ d.cat = c /\ d.copy = w /\ d.left = batch.left
  BY <1>1, <1>2, <1>11 DEF Batch, c
<1>13. batch' = [d EXCEPT !.left = batch.left - 1]
  BY <1>10
<1>14. batch.left - 1 \in 0..MaxRequests
  BY <1>1, <1>2, ForumNumbers DEF Batch
<1> HIDE DEF d
<1>15. batch' \in Batch /\ batch'.at = "page" /\ batch'.cat = c /\ batch'.copy = w
  BY <1>12, <1>13, <1>14 DEF Batch
<1>16. BatchSound(batch', listing, T)
  BY <1>2, <1>9, <1>15 DEF BatchSound
<1>17. WalkSound(progress, listing, T)
  BY <1>8, SoundGrows DEF ForumInv
<1> QED
  BY <1>1, <1>8, <1>16, <1>17 DEF ForumInv

LEMMA LeaveCategoryStep == ForumInv /\ LeaveCategory => ForumInv'
<1> SUFFICES ASSUME ForumInv, LeaveCategory PROVE ForumInv'
  OBVIOUS
<1>1. /\ batch.at = "page"
      /\ batch' = AtCategory(batch.copy, NextCategory(live, batch.cat), batch.left)
      /\ UNCHANGED <<listing, live, topics, progress, posts>>
  BY DEF LeaveCategory
<1>2. WalkSound(batch.copy, listing, topics) /\ BatchSound(batch, listing, topics)
  BY <1>1 DEF ForumInv, BatchSound
<1>3. batch.left \in 0..MaxRequests /\ batch.cat \in Int
  BY <1>2 DEF BatchSound, Batch
<1>4. NextCategory(live, batch.cat) \in Categories \cup {-1}
  BY <1>3, NextCategoryIn DEF ForumInv
<1>5. BatchSound(batch', listing, topics)
  BY <1>1, <1>2, <1>3, <1>4, AtCategorySound
<1> QED
  BY <1>1, <1>5 DEF ForumInv

\* The batch is over, whether it is stored or not.
LEMMA AfterBatch ==
  ASSUME ForumInv
  PROVE  /\ BatchSound([NoBatch EXCEPT !.at = "refresh", !.cat = NextCategory(live, -1)],
                       listing, topics)
         /\ BatchSound(NoBatch, listing, topics)
<1>1. NextCategory(live, -1) \in Categories \cup {-1}
  BY NextCategoryIn DEF ForumInv
<1> QED
  BY <1>1, NoBatchSound

LEMMA SaveBatchStep == ForumInv /\ SaveBatch => ForumInv'
<1> SUFFICES ASSUME ForumInv, SaveBatch PROVE ForumInv'
  OBVIOUS
<1>1. WalkSound(progress', listing, topics)
  BY DEF ForumInv, BatchSound, SaveBatch, Saved
<1> QED
  BY <1>1, AfterBatch DEF ForumInv, SaveBatch

LEMMA RefreshStep == ForumInv /\ Refresh => ForumInv'
<1> SUFFICES ASSUME ForumInv, Refresh PROVE ForumInv'
  OBVIOUS
<1> DEFINE c == batch.cat
           n == batch.page + 1
           T == topics \cup PageTopics(c, n)
<1>1. /\ batch.at = "refresh" /\ c # -1 /\ topics' = T
      /\ batch' \in {[batch EXCEPT !.page = n],
                     [batch EXCEPT !.page = 0, !.cat = NextCategory(live, c)]}
      /\ UNCHANGED <<listing, live, progress, posts>>
  BY DEF Refresh
<1>2. batch \in Batch /\ c \in Categories /\ c \in Int
  BY <1>1, ForumNumbers DEF ForumInv, BatchSound
<1>3. topics \subseteq T /\ T \subseteq 1..Newest + posts
  BY <1>2, PageTyped DEF ForumInv
<1>4. n \in Nat
  BY <1>2 DEF Batch
<1>5. NextCategory(live, c) \in Categories \cup {-1} /\ NextCategory(live, c) \in Int
  <2>1. live \in SUBSET Categories /\ \A r \in Categories \cup {-1} : r \in Int
    BY ForumNumbers DEF ForumInv
  <2>2. NextCategory(live, c) \in live \cup {-1}
    BY <1>2, <2>1, NextCategoryIn
  <2> QED
    BY <2>1, <2>2
<1> HIDE DEF c, n, T
<1>6. /\ batch' \in Batch /\ batch'.at = "refresh" /\ batch'.copy = batch.copy
      /\ batch'.cat \in Categories \cup {-1}
  <2>1. CASE batch' = [batch EXCEPT !.page = n]
    <3>1. batch' \in Batch /\ batch'.at = batch.at /\ batch'.copy = batch.copy /\ batch'.cat = batch.cat
      BY <1>2, <1>4, <2>1 DEF Batch
    <3> QED
      BY <1>1, <1>2, <3>1 DEF c
  <2>2. CASE batch' = [batch EXCEPT !.page = 0, !.cat = NextCategory(live, c)]
    <3> DEFINE d == [batch EXCEPT !.page = 0]
               r == NextCategory(live, c)
    <3>1. d \in Batch /\ d.at = batch.at /\ d.copy = batch.copy
      BY <1>2 DEF Batch
    <3>2. batch' = [d EXCEPT !.cat = r]
      BY <2>2
    <3> HIDE DEF d, r
    <3>3. batch' \in Batch /\ batch'.at = d.at /\ batch'.copy = d.copy /\ batch'.cat = r
      BY <1>5, <3>1, <3>2 DEF Batch, r
    <3> QED
      BY <1>1, <1>5, <3>1, <3>3 DEF r
  <2> QED
    BY <1>1, <2>1, <2>2
<1>7. BatchSound(batch, listing, T) /\ WalkSound(progress, listing, T)
  BY <1>3, SoundGrows DEF ForumInv
<1>8. BatchSound(batch', listing, T)
  BY <1>6, <1>7 DEF BatchSound
<1> QED
  BY <1>1, <1>3, <1>7, <1>8 DEF ForumInv

LEMMA ForumSteps == ForumInv /\ [ForumNext]_forumVars => ForumInv'
<1> SUFFICES ASSUME ForumInv, [ForumNext]_forumVars PROVE ForumInv'
  OBVIOUS
<1>1. CASE UNCHANGED forumVars
  BY <1>1 DEF forumVars, ForumInv
<1>2. ASSUME NEW c \in Categories, Vanish(c) PROVE ForumInv'
  BY <1>2 DEF Vanish, ForumInv
<1>3. CASE FailBatch
  BY <1>3, AfterBatch DEF FailBatch, ForumInv
<1>4. CASE EndRefresh
  BY <1>4, AfterBatch DEF EndRefresh, ForumInv
<1> QED
  BY <1>1, <1>2, <1>3, <1>4, PostStep, LoseStep, AgeStep, BeginBatchStep, FetchPageStep,
     LeaveCategoryStep, SaveBatchStep, RefreshStep DEF ForumNext

LEMMA ForumTyped == ForumInv => ForumTypeOK
<1> SUFFICES ASSUME ForumInv PROVE ForumTypeOK
  OBVIOUS
<1>1. Newest + posts \in Nat /\ Newest + posts <= Newest + MaxPosts /\ Newest + MaxPosts \in Nat
  BY ForumNumbers DEF ForumInv
<1>2. topics \subseteq 1..Newest + MaxPosts
  BY <1>1 DEF ForumInv
<1>3. batch.at \in {"idle", "page", "save", "refresh"} /\ batch.left \in 0..MaxRequests
  BY DEF ForumInv, BatchSound, Batch
<1>4. \A c \in Categories : progress[c].streak \in 0..Streak - 1
  BY DEF ForumInv, WalkSound, Walk, Entry
<1> QED
  BY <1>2, <1>3, <1>4 DEF ForumInv, ForumTypeOK

LEMMA ForumStored == ForumInv => DoneMeansStored
BY DEF ForumInv, WalkSound, Walked, DoneMeansStored

-----------------------------------------------------------------------------
(* The sweeps of Launchpad *)

\* Bug b need not be searched from before t: the version is the one it has,
\* or it has changed since t.
Covered(version, b, t) == version = bugs[b].version \/ bugs[b].at >= t

\* No copy is ahead of its bug.
Behind ==
    /\ \A b \in Bug : copies[b].version <= bugs[b].version
    /\ \A b \in DOMAIN sweep.staged : sweep.staged[b].version <= bugs[b].version

\* A sweep has begun after the watermark, and what it need not fetch, has
\* fetched or has stored is up to date but for changes since its beginning.
SweepCovers ==
    /\ sweep.at # "idle" => mark <= sweep.began
    /\ sweep.at = "fetch" =>
          /\ \A b \in DOMAIN sweep.staged : Covered(sweep.staged[b].version, b, sweep.began)
          /\ ~slow => \A b \in Bug \ (sweep.todo \cup DOMAIN sweep.staged) :
                         Covered(copies[b].version, b, sweep.began)
    /\ sweep.at = "snapshot" /\ ~slow =>
          \A b \in Bug : Covered(copies[b].version, b, sweep.began)

LaunchpadInv == LaunchpadTypeOK /\ Behind /\ SweepCovers /\ WatermarkCovers

-----------------------------------------------------------------------------
LEMMA NoStaging == NoSweep.staged \in Staging /\ DOMAIN NoSweep.staged = {}
<1> DEFINE none == [b \in {} |-> NoCopy]
<1>1. NoSweep.staged = none
  BY DEF NoSweep
<1>2. none \in [{} -> Copy] /\ {} \in SUBSET Bug
  OBVIOUS
<1>3. none \in Staging
  BY <1>2 DEF Staging
<1> QED
  BY <1>1, <1>2, <1>3

LEMMA NoSweepRecord ==
  NoSweep = [at |-> "idle", began |-> 0, todo |-> {}, staged |-> NoSweep.staged]
<1> DEFINE none == [b \in {} |-> NoCopy]
<1>1. NoSweep = [at |-> "idle", began |-> 0, todo |-> {}, staged |-> none]
  BY DEF NoSweep
<1> HIDE DEF none
<1> QED
  BY <1>1

LEMMA LaunchpadBegins == LaunchpadInit => LaunchpadInv
<1> SUFFICES ASSUME LaunchpadInit PROVE LaunchpadInv
  OBVIOUS
<1> USE DEF LaunchpadInit
<1>1. sweep = [at |-> "idle", began |-> 0, todo |-> {}, staged |-> NoSweep.staged]
  BY NoSweepRecord
<1>2. LaunchpadTypeOK
  <2>1. sweep \in [at : {"idle", "fetch", "snapshot"}, began : 0..clock, todo : SUBSET Bug,
                   staged : Staging]
    BY <1>1, NoStaging
  <2>2. sweep.todo \cap DOMAIN sweep.staged = {}
    BY <1>1
  <2>3. bugs \in [Bug -> [at : 0..clock, version : 0..MaxEdits]] /\ copies \in [Bug -> Copy]
    BY LaunchpadAssumption DEF LaunchpadAssumption, NoBug, NoCopy, Copy
  <2>4. clock \in 0..MaxTime /\ mark \in {NoMark} \cup 0..clock
        /\ errors \in 0..MaxErrors
    BY LaunchpadAssumption DEF LaunchpadAssumption
  <2>5. slow \in BOOLEAN
    BY Zenon
  <2> QED
    BY <2>1, <2>2, <2>3, <2>4, <2>5, Zenon DEF LaunchpadTypeOK
<1>3. Behind
  BY <1>1, NoStaging DEF Behind, NoBug, NoCopy
<1>4. SweepCovers
  BY <1>1 DEF SweepCovers
<1>5. WatermarkCovers
  BY DEF WatermarkCovers, NoBug, NoCopy
<1> QED
  BY <1>2, <1>3, <1>4, <1>5 DEF LaunchpadInv

-----------------------------------------------------------------------------
(* The facts every action of a sweep needs. *)

LEMMA SweepFacts ==
  ASSUME LaunchpadTypeOK
  PROVE  /\ clock \in Nat /\ MaxTime \in Nat /\ Overlap \in Nat /\ MaxEdits \in Nat
         /\ mark \in Int /\ mark <= clock /\ mark >= NoMark
         /\ sweep.began \in Nat /\ sweep.began <= clock
         /\ \A b \in Bug : /\ bugs[b].at \in Nat /\ bugs[b].at <= clock
                           /\ bugs[b].version \in Nat
                           /\ copies[b].version \in Nat
         /\ sweep.todo \subseteq Bug
         /\ DOMAIN sweep.staged \subseteq Bug
         /\ \A b \in DOMAIN sweep.staged : sweep.staged[b] \in Copy
         /\ sweep.staged \in [DOMAIN sweep.staged -> Copy]
<1>1. /\ clock \in Nat /\ MaxTime \in Nat /\ Overlap \in Nat /\ MaxEdits \in Nat
      /\ mark \in Int /\ mark <= clock /\ mark >= NoMark
      /\ sweep.began \in Nat /\ sweep.began <= clock
      /\ sweep.todo \subseteq Bug
  BY LaunchpadAssumption DEF LaunchpadAssumption, LaunchpadTypeOK, NoMark
<1>2. \A b \in Bug : /\ bugs[b].at \in Nat /\ bugs[b].at <= clock
                     /\ bugs[b].version \in Nat
                     /\ copies[b].version \in Nat
  BY <1>1 DEF LaunchpadTypeOK, Copy
<1>3. sweep.staged \in Staging
  BY DEF LaunchpadTypeOK
<1>4. PICK B \in SUBSET Bug : sweep.staged \in [B -> Copy]
  BY <1>3 DEF Staging
<1> QED
  BY <1>1, <1>2, <1>4

-----------------------------------------------------------------------------
(* One lemma for each action of a sweep *)

LEMMA WaitStep == LaunchpadInv /\ Wait => LaunchpadInv'
<1> SUFFICES ASSUME LaunchpadInv, Wait PROVE LaunchpadInv'
  OBVIOUS
<1> USE DEF LaunchpadInv, Wait
<1>1. LaunchpadTypeOK'
  BY SweepFacts DEF LaunchpadTypeOK, NoMark, Copy
<1>2. Behind'
  BY DEF Behind
<1>3. SweepCovers' /\ WatermarkCovers'
  BY DEF SweepCovers, WatermarkCovers, Covered
<1> QED
  BY <1>1, <1>2, <1>3

LEMMA EditStep == ASSUME NEW b \in Bug PROVE LaunchpadInv /\ Edit(b) => LaunchpadInv'
<1> SUFFICES ASSUME LaunchpadInv, Edit(b) PROVE LaunchpadInv'
  OBVIOUS
<1> USE DEF LaunchpadInv, Edit
<1>0. bugs' = [bugs EXCEPT ![b] = [at |-> clock, version |-> bugs[b].version + 1]]
      /\ bugs \in [Bug -> [at : 0..clock, version : 0..MaxEdits]]
  BY DEF LaunchpadTypeOK
<1>1. \A c \in Bug : /\ c # b => bugs'[c] = bugs[c]
                     /\ bugs'[b].at = clock /\ bugs'[b].version = bugs[b].version + 1
  BY <1>0
<1>2. LaunchpadTypeOK'
  <2>1. bugs' \in [Bug -> [at : 0..clock, version : 0..MaxEdits]]
    BY <1>0, SweepFacts DEF LaunchpadTypeOK
  <2> QED
    BY <2>1 DEF LaunchpadTypeOK, NoMark, Copy
<1>3. Behind'
  BY <1>1, SweepFacts, SMTT(30) DEF Behind, Copy
<1>4. SweepCovers'
  BY <1>1, SweepFacts, SMTT(30) DEF SweepCovers, Covered
<1>5. WatermarkCovers'
  BY <1>1, SweepFacts, SMTT(30) DEF WatermarkCovers
<1> QED
  BY <1>2, <1>3, <1>4, <1>5

LEMMA BeginSweepStep == ASSUME NEW full \in BOOLEAN PROVE LaunchpadInv /\ BeginSweep(full) => LaunchpadInv'
<1> SUFFICES ASSUME LaunchpadInv, BeginSweep(full) PROVE LaunchpadInv'
  OBVIOUS
<1> USE DEF LaunchpadInv, BeginSweep
<1> DEFINE todo == {b \in Bug : Known(b) /\ bugs[b].at >= SearchedFrom(full)}
<1>1. sweep' = [at |-> "fetch", began |-> clock, todo |-> todo, staged |-> NoSweep.staged]
  OBVIOUS
<1>2. /\ sweep'.at = "fetch" /\ sweep'.began = clock /\ sweep'.todo = todo
      /\ DOMAIN sweep'.staged = {}
  BY <1>1, NoStaging
<1>3. LaunchpadTypeOK'
  <2>1. sweep' \in [at : {"idle", "fetch", "snapshot"}, began : 0..clock', todo : SUBSET Bug,
                    staged : Staging]
    BY <1>1, SweepFacts, NoStaging
  <2>2. sweep'.todo \cap DOMAIN sweep'.staged = {}
    BY <1>2
  <2> QED
    BY <2>1, <2>2 DEF LaunchpadTypeOK, NoMark
<1>4. Behind'
  BY <1>2 DEF Behind
<1>5. ASSUME NEW b \in Bug \ todo, ~slow PROVE copies[b].version = bugs[b].version
  <2>1. CASE ~Known(b)
    BY <2>1, SweepFacts DEF Known, Behind
  <2>2. CASE bugs[b].at < SearchedFrom(full)
    <3>1. SearchedFrom(full) <= mark - Overlap
      BY <2>2, SweepFacts DEF SearchedFrom, NoMark
    <3> QED
      BY <1>5, <2>2, <3>1, SweepFacts DEF WatermarkCovers, SearchedFrom, NoMark
  <2>3. SearchedFrom(full) \in Int
    BY SweepFacts DEF SearchedFrom, NoMark
  <2> QED
    BY <1>5, <2>1, <2>2, <2>3, SweepFacts
<1>6. SweepCovers'
  BY <1>2, <1>5, SweepFacts DEF SweepCovers, Covered
<1>7. WatermarkCovers'
  BY DEF WatermarkCovers
<1> QED
  BY <1>3, <1>4, <1>6, <1>7

LEMMA FetchBugStep ==
  ASSUME NEW b \in Bug, NEW comments \in BOOLEAN PROVE LaunchpadInv /\ FetchBug(b, comments) => LaunchpadInv'
<1> SUFFICES ASSUME LaunchpadInv, FetchBug(b, comments) PROVE LaunchpadInv'
  OBVIOUS
<1> USE DEF LaunchpadInv, FetchBug
<1> DEFINE new == [version |-> bugs[b].version, comments |-> comments]
           D == DOMAIN sweep.staged \cup {b}
           staged == [c \in D |-> IF c = b THEN new ELSE sweep.staged[c]]
<1>1. sweep' = [at |-> "fetch", began |-> sweep.began, todo |-> sweep.todo \ {b}, staged |-> staged]
  OBVIOUS
<1>2. /\ sweep'.at = "fetch" /\ sweep'.began = sweep.began
      /\ sweep'.todo = sweep.todo \ {b}
  BY <1>1
<1> HIDE DEF staged
<1>2a. sweep'.staged = staged
  BY <1>1
<1> USE DEF staged
<1>2b. DOMAIN sweep'.staged = D
  BY <1>2a
<1>3. new \in Copy
  BY DEF Copy, LaunchpadTypeOK
<1>4. LaunchpadTypeOK'
  <2>1. staged \in [D -> Copy] /\ D \in SUBSET Bug
    BY <1>3, SweepFacts
  <2>2. staged \in Staging
    BY <2>1 DEF Staging
  <2>3. errors' \in 0..MaxErrors
    BY LaunchpadAssumption DEF LaunchpadTypeOK, LaunchpadAssumption
  <2> HIDE DEF staged
  <2>4. sweep' \in [at : {"idle", "fetch", "snapshot"}, began : 0..clock', todo : SUBSET Bug,
                    staged : Staging]
    BY <1>1, <2>2, SweepFacts
  <2>5. sweep'.todo \cap DOMAIN sweep'.staged = {}
    BY <1>2, <1>2b DEF LaunchpadTypeOK
  <2> QED
    BY <2>3, <2>4, <2>5 DEF LaunchpadTypeOK
<1>5. Behind'
  BY <1>2, <1>2a, <1>2b, SweepFacts DEF Behind
<1>6. SweepCovers'
  BY <1>2, <1>2a, <1>2b, SweepFacts DEF SweepCovers, Covered
<1>7. WatermarkCovers'
  BY DEF WatermarkCovers
<1> QED
  BY <1>4, <1>5, <1>6, <1>7

LEMMA CommitBugsStep == LaunchpadInv /\ CommitBugs => LaunchpadInv'
<1> SUFFICES ASSUME LaunchpadInv, CommitBugs PROVE LaunchpadInv'
  OBVIOUS
<1> USE DEF LaunchpadInv, CommitBugs
<1>1. sweep' = [at |-> "snapshot", began |-> sweep.began, todo |-> sweep.todo,
                staged |-> NoSweep.staged]
  BY DEF LaunchpadTypeOK
<1>2. /\ sweep'.at = "snapshot" /\ sweep'.began = sweep.began
      /\ DOMAIN sweep'.staged = {}
  BY <1>1, NoStaging
<1>3. \A b \in Bug : copies'[b] = IF b \in DOMAIN sweep.staged THEN sweep.staged[b] ELSE copies[b]
  OBVIOUS
<1>4. LaunchpadTypeOK'
  <2>1. copies' \in [Bug -> Copy]
    BY SweepFacts DEF LaunchpadTypeOK
  <2> QED
    BY <1>1, <2>1, SweepFacts, NoStaging DEF LaunchpadTypeOK, NoMark
<1>5. Behind'
  BY <1>2, <1>3 DEF Behind
<1>6. ~slow => \A b \in Bug : Covered(copies'[b].version, b, sweep.began)
  BY <1>3 DEF SweepCovers
<1>7. SweepCovers'
  BY <1>2, <1>6 DEF SweepCovers, Covered
<1>8. WatermarkCovers'
  BY <1>6, SweepFacts DEF WatermarkCovers, SweepCovers, Covered
<1> QED
  BY <1>4, <1>5, <1>7, <1>8

LEMMA EndSweepStep == LaunchpadInv /\ EndSweep => LaunchpadInv'
<1> SUFFICES ASSUME LaunchpadInv, EndSweep PROVE LaunchpadInv'
  OBVIOUS
<1> USE DEF LaunchpadInv, EndSweep
<1>1. sweep' = [at |-> "idle", began |-> 0, todo |-> {}, staged |-> NoSweep.staged]
  BY NoSweepRecord
<1>2. LaunchpadTypeOK'
  BY <1>1, SweepFacts, NoStaging DEF LaunchpadTypeOK
<1>3. Behind'
  BY <1>1, NoStaging DEF Behind
<1>4. SweepCovers'
  BY <1>1 DEF SweepCovers
<1>5. WatermarkCovers'
  <2> SUFFICES ASSUME ~slow', NEW b \in Bug, copies[b].version # bugs[b].version
               PROVE  bugs[b].at >= clock - Overlap
    BY DEF WatermarkCovers
  <2>1. ~slow /\ ~(sweep.began < clock - Overlap)
    BY Zenon
  <2>2. bugs[b].at >= sweep.began
    BY <2>1 DEF SweepCovers, Covered
  <2> QED
    BY <2>1, <2>2, SweepFacts
<1> QED
  BY <1>2, <1>3, <1>4, <1>5

LEMMA FailSweepStep == LaunchpadInv /\ FailSweep => LaunchpadInv'
<1> SUFFICES ASSUME LaunchpadInv, FailSweep PROVE LaunchpadInv'
  OBVIOUS
<1> USE DEF LaunchpadInv, FailSweep
<1>1. sweep' = [at |-> "idle", began |-> 0, todo |-> {}, staged |-> NoSweep.staged]
  BY NoSweepRecord
<1>2. LaunchpadTypeOK'
  BY <1>1, SweepFacts, NoStaging, LaunchpadAssumption
  DEF LaunchpadTypeOK, LaunchpadAssumption
<1>3. Behind' /\ SweepCovers' /\ WatermarkCovers'
  BY <1>1, NoStaging DEF Behind, SweepCovers, WatermarkCovers
<1> QED
  BY <1>2, <1>3

LEMMA LaunchpadSteps == LaunchpadInv /\ [LaunchpadNext]_launchpadVars => LaunchpadInv'
<1>1. LaunchpadInv /\ LaunchpadNext => LaunchpadInv'
  BY WaitStep, EditStep, BeginSweepStep, FetchBugStep, CommitBugsStep, EndSweepStep,
     FailSweepStep DEF LaunchpadNext
<1>2. LaunchpadInv /\ UNCHANGED launchpadVars => LaunchpadInv'
  BY DEF LaunchpadInv, LaunchpadTypeOK, Behind, SweepCovers, WatermarkCovers, Covered, launchpadVars
<1> QED
  BY <1>1, <1>2

-----------------------------------------------------------------------------
(* The collectors together *)

IInv == CIInv /\ ForumInv /\ LaunchpadInv

LEMMA Invariance == Spec => []IInv
<1>1. Init => IInv
  BY CIBegins, ForumBegins, LaunchpadBegins DEF Init, IInv
<1>2. IInv /\ [Next]_vars => IInv'
  <2> SUFFICES ASSUME IInv, [Next]_vars PROVE IInv'
    OBVIOUS
  <2>1. [CINext]_ciVars /\ [ForumNext]_forumVars /\ [LaunchpadNext]_launchpadVars
    BY DEF Next, vars
  <2> QED
    BY <2>1, CISteps, ForumSteps, LaunchpadSteps DEF IInv
<1> QED
  BY <1>1, <1>2, PTL DEF Spec

\* Every variable of the three collectors keeps its type; a job is recorded
\* only of a run that has failed.
THEOREM TypeCorrect == Spec => []TypeOK
<1>1. IInv => TypeOK
  BY CITyped, ForumTyped DEF IInv, LaunchpadInv, TypeOK
<1> QED
  BY <1>1, Invariance, PTL

\* A pass over the CI runs of a project that ends has stored the current state
\* of every run since a day before the last pass that stored anything
\* (ci.py, _resolve_since), however many runs, reruns and torn passes there are.
THEOREM RunsNotLost == Spec => RecentRunsStored
<1>1. IInv /\ [Next]_vars =>
         [EndPass => \A r \in Pushed :
             hub[r].created >= Max({last - Margin, pass.now - Lookback})
                 => /\ rows'[Current(r)] = RowNow(r)
                    /\ hub[r].state = "failure" => jobs'[Current(r)] # "none"]_ciVars
  BY EndPassStores DEF IInv
<1> QED
  BY <1>1, Invariance, PTL DEF Spec, RecentRunsStored

\* A category of the forum that backfill_next_batch counts as done has every
\* topic in scope that it showed when the walk began, for any listing, any
\* streak larger than the number of pinned topics, and any failures.
THEOREM DoneIsStored == Spec => []DoneMeansStored
<1>1. IInv => DoneMeansStored
  BY ForumStored DEF IInv
<1> QED
  BY <1>1, Invariance, PTL

\* Whatever changes while a sweep runs and whichever sweeps fail, a bug whose
\* stored copy is behind is found by the next search from the watermark of
\* launchpad_pass.py, as long as no sweep takes longer than the overlap.
THEOREM WatermarkMissesNothing == Spec => []WatermarkCovers
<1>1. IInv => WatermarkCovers
  BY DEF IInv, LaunchpadInv
<1> QED
  BY <1>1, Invariance, PTL
=============================================================================
