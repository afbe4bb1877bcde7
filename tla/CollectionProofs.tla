-------------------------- MODULE CollectionProofs --------------------------
(***************************************************************************)
(* The watermarks of GitHub, for any number of invocations, projects and   *)
(* issues.  An inductive invariant says of every invocation what its pass  *)
(* has stored, and of what is missing that it is still to be served; it    *)
(* holds as long as runs do not overlap.  Stored is said of time stamps;   *)
(* what a stamp is worth is said of every row by itself (Truthful), and    *)
(* holds of overlapping runs, too.                                         *)
(***************************************************************************)
EXTENDS Collection, SequenceTheorems, WellFoundedInduction, TLAPS

Fixed == <<now, gh, db, wmOpen, wmFull, overlap, during>>

Places == {"idle", "guard", "create", "project", "due", "list", "fetch", "store",
           "reconcile", "answered", "close", "commit", "mark", "snapshot", "done"}
Lapses == {"none", "overtaken", "bare", "closed"}

\* What the session of an invocation k reads (View, for any k).
ViewOf(k, i) == IF k.staged[i] # NoRow THEN k.staged[i] ELSE db[i]
Stored(k, i) == ViewOf(k, i).at >= gh[i].at

\* The places of an invocation: where it has a run, a project before it, a
\* phase, something that is staged, something that is served.
Shape(k) ==
    /\ k.run = "none" <=> k.pc \in {"idle", "guard", "create"}
    /\ k.pc \notin {"idle", "done"} => k.todo # {}
    /\ k.phase = "open" => k.pc \in {"list", "fetch", "store", "reconcile", "answered",
                                     "close", "mark"}
    /\ k.phase = "full" => k.pc \in {"list", "fetch", "store", "commit", "snapshot", "mark"}
    /\ k.phase = "none" => k.pc \in {"idle", "guard", "create", "project", "due", "done"}
    /\ k.pc \notin {"list", "fetch", "store", "reconcile", "answered", "close", "commit",
                    "due"} => k.staged = Idle.staged
    /\ k.pc = "list" => k.item = {}
    /\ \A a, b \in k.item : a = b
    /\ k.pc \in {"fetch", "store"} => k.item \subseteq Of(Cur(k))
    /\ k.pc \in {"answered", "close"} => k.closing \subseteq Of(Cur(k))
    /\ k.pc = "close" => k.stamp \in Time /\ k.stamp >= k.began /\ k.stamp <= now
    /\ k.began <= now

\* What a row is worth that is not older than the last change of its issue.
Truthful(r, i) ==
    /\ r.at <= now
    /\ r.at >= gh[i].at => \/ r.version = gh[i].version
                           \/ r.lapse # "none" \/ r.at = gh[i].at

\* What an invocation has staged, and what it is about to.
Honest(k) ==
    /\ \A i \in Issue : Truthful(k.staged[i], i)
    /\ k.pc = "store" =>
          /\ k.row.at \in Time /\ k.row.at >= k.began
          /\ \A i \in k.item : /\ Truthful(k.row, i)
                               /\ k.phase = "full" /\ ~during[i] => k.row.at >= gh[i].at
DbHonest == \A i \in Issue : Truthful(db[i], i)

\* Nothing is stamped with a time that is still to come.
Clock ==
    /\ \A i \in Issue : gh[i].at <= now
    /\ \A q \in Project : wmOpen[q] <= now /\ wmFull[q] <= now

OneRun == \A p, r \in Proc : p # r => job[p].run = "none" \/ job[r].run = "none"

\* The issues of which a watermark says that they have been fetched.
Claimed(i) ==
    \/ gh[i].open /\ gh[i].at < wmOpen[Owner[i]]
    \/ gh[i].at < wmFull[Owner[i]] /\ ~during[i]

\* What a pass that is under way has to have fetched before it is marked ...
Owed(k, i) ==
    /\ Owner[i] = Cur(k)
    /\ k.phase = "open" => gh[i].open /\ gh[i].at < k.began
    /\ k.phase = "full" => ~during[i]

\* ... and what of this is still to come.
Pending(k, i) ==
    /\ k.pc \in {"list", "fetch", "store"}
    /\ gh[i].at >= k.since
    /\ i \in k.item \/ (i \notin k.seen /\ gh[i].at <= k.cursor)

Kept(k) == \A i \in Issue : Claimed(i) => Stored(k, i)
Marked(k) == k.phase # "none" => wmOpen[Cur(k)] <= k.began /\ wmFull[Cur(k)] <= k.began
Covered(k) == k.phase # "none" => \A i \in Issue : Owed(k, i) => Stored(k, i) \/ Pending(k, i)
Sound(k) == Kept(k) /\ Marked(k) /\ Covered(k)

UpToDate(i) == db[i].at >= gh[i].at
DbSound == \A i \in Issue : Claimed(i) => UpToDate(i)

Alone == OneRun /\ DbSound /\ \A p \in Proc : Sound(job[p])

IInv ==
    /\ TypeOK /\ Clock
    /\ DbHonest /\ \A p \in Proc : Honest(job[p])
    /\ \A p \in Proc : Shape(job[p])
    /\ ~overlap => Alone
-----------------------------------------------------------------------------
(* The data *)

LEMMA Numbers ==
  /\ MaxTime \in Nat /\ Attempts \in Nat \ {0} /\ Projects \in Nat \ {0}
  /\ Owner \in [Issue -> Project] /\ Never = -1 /\ Project \in SUBSET Nat /\ Project # {}
  /\ Time \in SUBSET Nat /\ 0 \in Time /\ MaxTime \in Time
  /\ Mark = Time \cup {-1} /\ Never \in Mark
BY CollectionAssumption DEF CollectionAssumption, Never, Project, Time, Mark

LEMMA States ==
  /\ None \in State /\ None.at = -1
  /\ \A s \in State : /\ s.at \in Mark /\ s.at \in Int /\ s.at >= -1
                      /\ s.open \in BOOLEAN /\ s.version \in Version /\ s.version \in Int
  /\ \A s \in State : s # None => s.at \in Time
<1>1. None \in State /\ None.at = -1 /\ None.open = FALSE /\ None.version = -1
  BY DEF State, None, Never
<1>2. ASSUME NEW s \in State
      PROVE  /\ s.at \in Mark /\ s.at \in Int /\ s.at >= -1 /\ (s # None => s.at \in Time)
             /\ s.open \in BOOLEAN /\ s.version \in Version /\ s.version \in Int
  <2>1. CASE s = None
    <3>1. s.at = -1 /\ s.open = FALSE /\ s.version = -1
      BY <1>1, <2>1
    <3>2. -1 \in Version /\ -1 \in Mark
      BY Numbers DEF Version, Never
    <3>3. s.open \in BOOLEAN
      BY <3>1, Zenon
    <3> QED
      BY <2>1, <3>1, <3>2, <3>3
  <2>2. CASE s \in [open : BOOLEAN, at : Time, version : Version]
    <3>1. s.at \in Time /\ s.open \in BOOLEAN /\ s.version \in Version
      BY <2>2
    <3>2. s.at \in Nat
      BY <3>1, Numbers
    <3>3. s.version \in Int
      BY <3>1 DEF Version, Never
    <3> QED
      BY <3>1, <3>2, <3>3, Numbers
  <2> QED
    BY <2>1, <2>2 DEF State
<1> QED
  BY <1>1, <1>2

LEMMA Rows ==
  /\ NoRow \in Row /\ NoRow.at = -1
  /\ \A r \in Row : /\ r.at \in Mark /\ r.at \in Int /\ r.at >= -1
                    /\ r.open \in BOOLEAN /\ r.version \in Version /\ r.lapse \in Lapses
  /\ \A r \in Row : \A v \in BOOLEAN : [r EXCEPT !.open = v] \in Row
  /\ \A r \in Row : \A v \in Mark : [r EXCEPT !.at = v] \in Row
  /\ \A r \in Row : \A v \in Version : [r EXCEPT !.version = v] \in Row
  /\ \A r \in Row : \A v \in Lapses : [r EXCEPT !.lapse = v] \in Row
<1>1. NoRow \in Row /\ NoRow.at = -1
  BY Numbers DEF NoRow, Row, Never, Version
<1>2. ASSUME NEW r \in Row
      PROVE  /\ r.at \in Mark /\ r.open \in BOOLEAN /\ r.version \in Version
             /\ r.lapse \in Lapses
  BY DEF Row, Lapses
<1>3. \A t \in Mark : t \in Int /\ t >= -1
  BY Numbers
<1>4. ASSUME NEW r \in Row
      PROVE  /\ \A v \in BOOLEAN : [r EXCEPT !.open = v] \in Row
             /\ \A v \in Mark : [r EXCEPT !.at = v] \in Row
             /\ \A v \in Version : [r EXCEPT !.version = v] \in Row
             /\ \A v \in Lapses : [r EXCEPT !.lapse = v] \in Row
  BY DEF Row, Lapses
<1> QED
  BY <1>1, <1>2, <1>3, <1>4

\* The rows that are made: of what was served, stamped, or marked as closed.
LEMMA ServedRow ==
  ASSUME NEW i \in Issue, gh[i] \in State
  PROVE  Served(i) \in Row
<1>1. gh[i].open \in BOOLEAN /\ gh[i].version \in Version
  BY States
<1>2. [NoRow EXCEPT !.open = gh[i].open] \in Row
  BY <1>1, Rows
<1>3. [[NoRow EXCEPT !.open = gh[i].open] EXCEPT !.version = gh[i].version] \in Row
  BY <1>1, <1>2, Rows
<1> QED
  BY <1>3 DEF Served

LEMMA MadeRow ==
  ASSUME NEW r \in Row, NEW l \in Lapses, now \in Time
  PROVE  /\ Made(r, l) \in Row /\ Made(r, l).at = now /\ Made(r, l) # NoRow
         /\ Made(r, l).lapse = l /\ Made(r, l).version = r.version
<1>1. now \in Mark /\ now \in Nat
  BY Numbers
<1>2. [r EXCEPT !.at = now] \in Row
  BY <1>1, Rows
<1>3. [[r EXCEPT !.at = now] EXCEPT !.lapse = l] \in Row
  BY <1>2, Rows
<1>4. Made(r, l) = [[r EXCEPT !.at = now] EXCEPT !.lapse = l]
  BY DEF Made, Row
<1>5. /\ Made(r, l).at = now /\ Made(r, l).lapse = l /\ Made(r, l).version = r.version
  BY DEF Made, Row
<1>6. Made(r, l) # NoRow
  BY <1>1, <1>5, Rows
<1> QED
  BY <1>3, <1>4, <1>5, <1>6

LEMMA RowClosed ==
  ASSUME NEW r \in Row, NEW t \in Time
  PROVE  /\ ClosedRow(r, t) \in Row /\ ClosedRow(r, t).at = t /\ ClosedRow(r, t) # NoRow
         /\ ClosedRow(r, t).lapse = "closed"
<1>1. t \in Mark /\ t \in Nat /\ FALSE \in BOOLEAN /\ "closed" \in Lapses
  BY Numbers DEF Lapses
<1>2. [r EXCEPT !.open = FALSE] \in Row
  BY <1>1, Rows
<1>3. [[r EXCEPT !.open = FALSE] EXCEPT !.at = t] \in Row
  BY <1>1, <1>2, Rows
<1>4. [[[r EXCEPT !.open = FALSE] EXCEPT !.at = t] EXCEPT !.lapse = "closed"] \in Row
  BY <1>1, <1>3, Rows
<1>5. ClosedRow(r, t) = [[[r EXCEPT !.open = FALSE] EXCEPT !.at = t] EXCEPT !.lapse = "closed"]
  BY DEF ClosedRow, Row
<1>6. ClosedRow(r, t).at = t /\ ClosedRow(r, t).lapse = "closed"
  BY DEF ClosedRow, Row
<1>7. ClosedRow(r, t) # NoRow
  BY <1>1, <1>6, Rows
<1> QED
  BY <1>4, <1>5, <1>6, <1>7

\* The order of numbers, in the form in which the library has it.
LEMMA NatOrder == OpToRel(<, Nat) = {ss \in Nat \X Nat : ss[1] < ss[2]}
BY DEF OpToRel

LEMMA MinIn ==
  ASSUME NEW S \in SUBSET Nat, S # {}
  PROVE  Min(S) \in S
<1> DEFINE R == {ss \in Nat \X Nat : ss[1] < ss[2]}
<1>1. PICK x \in S : \A y \in S : ~(<<y, x>> \in R)
  BY WFMin, NatLessThanWellFounded, NatOrder
<1>2. \A y \in S : x <= y
  <2> SUFFICES ASSUME NEW y \in S, ~(x <= y) PROVE FALSE
    OBVIOUS
  <2>1. x \in Nat /\ y \in Nat /\ y < x
    OBVIOUS
  <2>2. <<y, x>> \in R
    BY <2>1
  <2> QED
    BY <1>1, <2>2
<1> QED
  BY <1>2 DEF Min

\* Removing an element leaves a sequence of projects.
LEMMA Removed ==
  ASSUME NEW P, NEW s \in Seq(P), NEW q \in P
  PROVE  RemoveFirst(s, q) \in Seq(P)
<1> DEFINE I == {i \in 1..Len(s) : s[i] = q}
<1>1. CASE I = {}
  BY <1>1 DEF RemoveFirst
<1>2. CASE I # {}
  <2>1. Min(I) \in 1..Len(s)
    <3>1. I \in SUBSET Nat
      OBVIOUS
    <3> QED
      BY <1>2, <3>1, MinIn
  <2>2. RemoveFirst(s, q) = RemoveAt(s, Min(I))
    BY <1>2 DEF RemoveFirst, SelectInSeq
  <2> HIDE DEF I
  <2>3. SubSeq(s, 1, Min(I) - 1) \in Seq(P) /\ SubSeq(s, Min(I) + 1, Len(s)) \in Seq(P)
    BY <2>1, SubSeqProperties
  <2> QED
    BY <2>2, <2>3, ConcatProperties DEF RemoveAt
<1> QED
  BY <1>1, <1>2

\* The rotation takes one of the projects.
LEMMA RotationTakes ==
  ASSUME refreshed \in Seq(Project)
  PROVE  LeastRecentlyRefreshed \in Project
<1>1. CASE Due # {}
  <2>1. Due \in SUBSET Nat /\ Due \in SUBSET Project
    BY Numbers DEF Due
  <2>2. Min(Due) \in Due
    BY <1>1, <2>1, MinIn
  <2> QED
    BY <1>1, <2>1, <2>2 DEF LeastRecentlyRefreshed
<1>2. CASE Due = {}
  <2>1. refreshed # <<>>
    BY <1>2, Numbers DEF Due, ToSet
  <2>2. Head(refreshed) \in Project
    BY <2>1, HeadTailProperties
  <2> QED
    BY <1>2, <2>2 DEF LeastRecentlyRefreshed
<1> QED
  BY <1>1, <1>2

-----------------------------------------------------------------------------
(* Invocations *)

LEMMA JobTypes ==
  ASSUME NEW k \in Job
  PROVE  /\ k.pc \in Places /\ k.mode \in Mode /\ k.todo \in SUBSET Project
         /\ k.run \in {"none", "fresh", "stale"} /\ k.phase \in {"none", "open", "full"}
         /\ k.since \in Mark /\ k.began \in Mark /\ k.stamp \in Mark /\ k.cursor \in Time
         /\ k.attempt \in 1..Attempts
         /\ k.seen \in SUBSET Issue /\ k.item \in SUBSET Issue /\ k.closing \in SUBSET Issue
         /\ k.row \in Row /\ k.staged \in [Issue -> Row]
BY DEF Job, Places

\* A field can be set to what it may hold.
LEMMA JobFields ==
  ASSUME NEW k \in Job
  PROVE  /\ \A v \in Places : [k EXCEPT !.pc = v] \in Job
         /\ \A v \in Mode : [k EXCEPT !.mode = v] \in Job
         /\ \A v \in SUBSET Project : [k EXCEPT !.todo = v] \in Job
         /\ \A v \in {"none", "fresh", "stale"} : [k EXCEPT !.run = v] \in Job
         /\ \A v \in {"none", "open", "full"} : [k EXCEPT !.phase = v] \in Job
         /\ \A v \in Mark : [k EXCEPT !.since = v] \in Job
         /\ \A v \in Mark : [k EXCEPT !.began = v] \in Job
         /\ \A v \in 1..Attempts : [k EXCEPT !.attempt = v] \in Job
         /\ \A v \in Time : [k EXCEPT !.cursor = v] \in Job
         /\ \A v \in SUBSET Issue : [k EXCEPT !.seen = v] \in Job
         /\ \A v \in SUBSET Issue : [k EXCEPT !.item = v] \in Job
         /\ \A v \in Row : [k EXCEPT !.row = v] \in Job
         /\ \A v \in SUBSET Issue : [k EXCEPT !.closing = v] \in Job
         /\ \A v \in Mark : [k EXCEPT !.stamp = v] \in Job
         /\ \A v \in [Issue -> Row] : [k EXCEPT !.staged = v] \in Job
BY DEF Job, Places

LEMMA IdleJob ==
  /\ Idle \in Job
  /\ Idle.pc = "idle" /\ Idle.run = "none" /\ Idle.phase = "none" /\ Idle.todo = {}
  /\ Idle.item = {} /\ Idle.began = -1
  /\ Idle.staged = [i \in Issue |-> NoRow]
BY Numbers, Rows DEF Idle, Job, Mode

LEMMA CurIn ==
  ASSUME NEW k \in Job, k.todo # {}
  PROVE  Cur(k) \in Project
<1>1. k.todo \in SUBSET Project /\ k.todo \in SUBSET Nat
  BY JobTypes, Numbers
<1> QED
  BY <1>1, MinIn DEF Cur

\* An invocation between two projects has nothing staged and no phase.
LEMMA Left ==
  ASSUME NEW j \in Job, NEW rest \in SUBSET Project
  PROVE  /\ Leave(j, rest) \in Job
         /\ Leave(j, rest).pc = (IF rest = {} THEN "done" ELSE "project")
         /\ Leave(j, rest).run = j.run /\ Leave(j, rest).phase = "none"
         /\ Leave(j, rest).todo = rest /\ Leave(j, rest).item = {}
         /\ Leave(j, rest).began = -1 /\ Leave(j, rest).staged = Idle.staged
<1>1. Leave(j, rest) \in Job
  <2>1. "done" \in Places /\ "project" \in Places
    BY DEF Places
  <2> QED
    BY <2>1, IdleJob, JobFields, JobTypes DEF Leave
<1> QED
  BY <1>1, IdleJob DEF Leave, Idle, Never

LEMMA Called ==
  ASSUME NEW j \in Job
  PROVE  /\ Call(j) \in Job
         /\ Call(j).pc = "list" /\ Call(j).cursor = MaxTime /\ Call(j).seen = {}
         /\ Call(j).item = {}
         /\ Call(j).run = j.run /\ Call(j).staged = j.staged /\ Call(j).todo = j.todo
         /\ Call(j).phase = j.phase /\ Call(j).since = j.since /\ Call(j).began = j.began
<1>1. "list" \in Places
  BY DEF Places
<1>2. Call(j) \in Job
  BY <1>1, Numbers, Rows, JobFields DEF Call
<1> QED
  BY <1>2 DEF Call, Job
-----------------------------------------------------------------------------
(* One invocation moves *)

LEMMA NoRowTrue ==
  ASSUME IInv, NEW i \in Issue
  PROVE  Truthful(NoRow, i)
<1>1. gh[i] \in State /\ now \in Nat
  BY Numbers DEF IInv, TypeOK
<1>2. gh[i].at \in Int /\ gh[i].at >= -1 /\ NoRow.at = -1
  BY <1>1, States, Rows
<1> QED
  BY <1>1, <1>2 DEF Truthful

\* Who has staged nothing new has staged nothing false.
LEMMA HonestStill ==
  ASSUME IInv, NEW p \in Proc, NEW k \in Job, k.pc # "store",
         k.staged \in {job[p].staged, Idle.staged}
  PROVE  Honest(k)
<1>1. CASE k.staged = job[p].staged
  BY <1>1 DEF IInv, Honest
<1>2. CASE k.staged = Idle.staged
  <2>1. \A i \in Issue : k.staged[i] = NoRow
    BY <1>2, IdleJob
  <2> QED
    BY <2>1, NoRowTrue DEF Honest
<1> QED
  BY <1>1, <1>2

\* Nothing of what does not move can be lost.
LEMMA JobStep ==
  ASSUME IInv, NEW p \in Proc, NEW k \in Job, Goto(p, k), UNCHANGED Fixed,
         refreshed' \in Seq(Project), failed' \in [Project -> BOOLEAN],
         orphans' \in Nat, changes' \in Nat, faults' \in Nat,
         Shape(k), ~overlap => Sound(k),
         k.run = "none" \/ job[p].run # "none",
         (k.pc # "store" /\ k.staged \in {job[p].staged, Idle.staged}) \/ Honest(k)
  PROVE  IInv'
<1>1. /\ job' \in [Proc -> Job] /\ job'[p] = k
      /\ \A r \in Proc : r # p => job'[r] = job[r]
  BY DEF IInv, TypeOK, Goto
<1>2. UNCHANGED <<now, gh, db, wmOpen, wmFull, overlap, during>>
  BY DEF Fixed
<1>3. TypeOK'
  BY <1>1, <1>2 DEF IInv, TypeOK
<1>4. Clock'
  BY <1>2 DEF IInv, Clock
<1>5. ASSUME NEW r \in Proc PROVE Shape(job[r])'
  BY <1>1, <1>2 DEF IInv, Shape
<1>7. ASSUME NEW r \in Proc PROVE Honest(job[r])'
  <2>1. Honest(k)
    BY HonestStill
  <2>2. Honest(job'[r])
    BY <1>1, <2>1 DEF IInv
  <2> QED
    BY <1>2, <2>2 DEF Honest, Truthful
<1>8. DbHonest'
  BY <1>2 DEF IInv, DbHonest, Truthful
<1>6. ASSUME ~overlap PROVE Alone'
  <2>1. OneRun'
    BY <1>1, <1>6 DEF IInv, Alone, OneRun
  <2>2. DbSound'
    BY <1>2, <1>6 DEF IInv, Alone, DbSound, Claimed, UpToDate
  <2>3. ASSUME NEW r \in Proc PROVE Sound(job[r])'
    <3>1. Sound(job'[r])
      BY <1>1, <1>6 DEF IInv, Alone
    <3> QED
      BY <1>2, <3>1 DEF Sound, Kept, Marked, Covered, Claimed, Stored, ViewOf, Owed, Pending
  <2> QED
    BY <2>1, <2>2, <2>3 DEF Alone
<1> QED
  BY <1>2, <1>3, <1>4, <1>5, <1>6, <1>7, <1>8 DEF IInv

\* What the invariant says of one invocation.
LEMMA Facts ==
  ASSUME IInv, NEW p \in Proc
  PROVE  /\ job[p] \in Job /\ Shape(job[p]) /\ Honest(job[p])
         /\ ~overlap => Sound(job[p]) /\ DbSound
         /\ now \in Time /\ now \in Nat /\ refreshed \in Seq(Project)
         /\ failed \in [Project -> BOOLEAN]
         /\ orphans \in Nat /\ changes \in Nat /\ faults \in Nat
         /\ gh \in [Issue -> State] /\ db \in [Issue -> Row]
         /\ during \in [Issue -> BOOLEAN]
         /\ wmOpen \in [Project -> Mark] /\ wmFull \in [Project -> Mark]
         /\ job[p].todo # {} => Cur(job[p]) \in Project
<1>1. job[p] \in Job
  BY DEF IInv, TypeOK
<1> QED
  BY <1>1, CurIn, Numbers DEF IInv, TypeOK, Alone

\* A session that holds nothing back reads the table.
LEMMA RestSound ==
  ASSUME NEW k \in Job, k.staged = Idle.staged, k.phase = "none", DbSound
  PROVE  Sound(k)
<1>1. \A i \in Issue : ViewOf(k, i) = db[i]
  BY IdleJob DEF ViewOf
<1>2. \A i \in Issue : Stored(k, i) <=> UpToDate(i)
  BY <1>1 DEF Stored, UpToDate
<1> QED
  BY <1>2 DEF Sound, Kept, Marked, Covered, DbSound

\* A pass goes on: what was stored and counts remains so, and what was still
\* to come is stored or still to come.
LEMMA PassGoesOn ==
  ASSUME NEW j \in Job, NEW k \in Job, Sound(j), j.phase # "none",
         k.todo = j.todo, k.phase = j.phase, k.began = j.began,
         \A i \in Issue : (Claimed(i) \/ Owed(j, i)) /\ Stored(j, i) => Stored(k, i),
         \A i \in Issue : Owed(j, i) /\ ~Stored(j, i) /\ Pending(j, i)
                            => Stored(k, i) \/ Pending(k, i)
  PROVE  Sound(k)
<1>1. Cur(k) = Cur(j)
  BY DEF Cur
<1>2. \A i \in Issue : Owed(k, i) <=> Owed(j, i)
  BY <1>1 DEF Owed
<1>3. Kept(k)
  BY DEF Sound, Kept
<1>4. Marked(k)
  BY <1>1 DEF Sound, Marked
<1>5. Covered(k)
  BY <1>2 DEF Sound, Covered
<1> QED
  BY <1>3, <1>4, <1>5 DEF Sound

\* The same, when nothing is stored.
LEMMA SameViews ==
  ASSUME NEW j \in Job, NEW k \in Job, k.staged = j.staged
  PROVE  \A i \in Issue : ViewOf(k, i) = ViewOf(j, i) /\ (Stored(k, i) <=> Stored(j, i))
BY DEF ViewOf, Stored

\* An invocation leaves its project, or stops.
LEMMA LeaveStep ==
  ASSUME IInv, NEW p \in Proc, NEW rest \in SUBSET Project, job[p].run # "none",
         Goto(p, Leave(job[p], rest)), UNCHANGED Fixed,
         refreshed' \in Seq(Project), failed' \in [Project -> BOOLEAN],
         orphans' \in Nat, changes' \in Nat, faults' \in Nat
  PROVE  IInv'
<1> DEFINE k == Leave(job[p], rest)
<1>1. /\ k \in Job
      /\ k.pc = (IF rest = {} THEN "done" ELSE "project")
      /\ k.run = job[p].run /\ k.phase = "none" /\ k.todo = rest /\ k.item = {}
      /\ k.began = -1 /\ k.staged = Idle.staged
  BY Facts, Left
<1> HIDE DEF k
<1>2. Shape(k)
  BY <1>1, Facts DEF Shape
<1>3. ~overlap => Sound(k)
  BY <1>1, Facts, RestSound
<1>4. Goto(p, k)
  BY DEF k
<1> QED
  BY <1>1, <1>2, <1>3, <1>4, JobStep
LEMMA Calm ==
  ASSUME IInv, UNCHANGED <<now, gh, db, marks, schedule, orphans, history, bounds>>
  PROVE  /\ UNCHANGED Fixed
         /\ refreshed' \in Seq(Project) /\ failed' \in [Project -> BOOLEAN]
         /\ orphans' \in Nat /\ changes' \in Nat /\ faults' \in Nat
BY DEF IInv, TypeOK, Fixed, marks, schedule, history, bounds

LEMMA Faulty ==
  ASSUME IInv, Fault, UNCHANGED <<now, gh, db, marks, refreshed, history, changes>>
  PROVE  /\ UNCHANGED Fixed /\ refreshed' \in Seq(Project)
         /\ changes' \in Nat /\ faults' \in Nat
BY DEF IInv, TypeOK, Fixed, Fault, marks, history

-----------------------------------------------------------------------------
(* Starting and finishing *)

LEMMA StartStep ==
  ASSUME NEW p \in Proc, NEW m \in Mode PROVE IInv /\ Start(p, m) => IInv'
<1> SUFFICES ASSUME IInv, Start(p, m) PROVE IInv'
  OBVIOUS
<1> DEFINE todo == IF m = "rotation" THEN {LeastRecentlyRefreshed} ELSE Project
           k == [Idle EXCEPT !.pc = "guard", !.mode = m, !.todo = todo]
<1>1. todo \in SUBSET Project /\ todo # {}
  BY Facts, RotationTakes, Numbers
<1>2. Goto(p, k)
  BY DEF Start
<1> HIDE DEF todo
<1>3. k \in Job
  <2>1. "guard" \in Places
    BY DEF Places
  <2> QED
    BY <1>1, <2>1, IdleJob, JobFields
<1>4. /\ k.pc = "guard" /\ k.run = "none" /\ k.phase = "none" /\ k.todo = todo
      /\ k.item = {} /\ k.began = -1 /\ k.staged = Idle.staged
  BY IdleJob DEF Idle
<1> HIDE DEF k
<1>5. Shape(k)
  BY <1>1, <1>4, Facts DEF Shape
<1>6. ~overlap => Sound(k)
  BY <1>3, <1>4, Facts, RestSound
<1> QED
  BY <1>2, <1>3, <1>4, <1>5, <1>6, JobStep, Calm DEF Start

\* To be idle is always sound.
LEMMA GoneStep ==
  ASSUME IInv, NEW p \in Proc, Goto(p, Idle), UNCHANGED Fixed,
         refreshed' \in Seq(Project), failed' \in [Project -> BOOLEAN],
         orphans' \in Nat, changes' \in Nat, faults' \in Nat
  PROVE  IInv'
<1>1. Shape(Idle)
  BY IdleJob, Facts DEF Shape
<1>2. ~overlap => Sound(Idle)
  BY IdleJob, Facts, RestSound
<1> QED
  BY <1>1, <1>2, IdleJob, JobStep

LEMMA GuardAbortStep ==
  ASSUME NEW p \in Proc PROVE IInv /\ GuardAbort(p) => IInv'
BY GoneStep, Calm DEF GuardAbort

LEMMA FinishRunStep ==
  ASSUME NEW p \in Proc PROVE IInv /\ FinishRun(p) => IInv'
BY GoneStep, Calm DEF FinishRun

LEMMA GuardPassStep ==
  ASSUME NEW p \in Proc PROVE IInv /\ GuardPass(p) => IInv'
<1> SUFFICES ASSUME IInv, GuardPass(p) PROVE IInv'
  OBVIOUS
<1> DEFINE j == job[p]
           k == [j EXCEPT !.pc = "create"]
<1>1. j \in Job /\ Shape(j) /\ j.pc = "guard" /\ Goto(p, k)
  BY Facts DEF GuardPass
<1>2. k \in Job
  <2>1. "create" \in Places
    BY DEF Places
  <2> QED
    BY <1>1, <2>1, JobFields
<1>3. /\ k.pc = "create" /\ k.run = j.run /\ k.phase = j.phase /\ k.todo = j.todo
      /\ k.item = j.item /\ k.began = j.began /\ k.staged = j.staged
  BY <1>1 DEF Job
<1> HIDE DEF k, j
<1>4. j.phase = "none" /\ j.run = "none" /\ j.todo # {} /\ j.staged = Idle.staged
  BY <1>1, JobTypes DEF Shape
<1>5. Shape(k)
  BY <1>1, <1>3, <1>4 DEF Shape
<1>6. ~overlap => Sound(k)
  BY <1>2, <1>3, <1>4, Facts, RestSound
<1> QED
  BY <1>1, <1>2, <1>3, <1>4, <1>5, <1>6, JobStep, Calm DEF GuardPass

\* A run that is created beside another one is an overlap.
LEMMA CreateRunStep ==
  ASSUME NEW p \in Proc PROVE IInv /\ CreateRun(p) => IInv'
<1> SUFFICES ASSUME IInv, CreateRun(p) PROVE IInv'
  OBVIOUS
<1> DEFINE j == job[p]
           k == [j EXCEPT !.pc = "project", !.run = "fresh"]
<1>1. j \in Job /\ Shape(j) /\ j.pc = "create" /\ Goto(p, k)
  BY Facts DEF CreateRun
<1>2. k \in Job
  <2>1. "project" \in Places
    BY DEF Places
  <2> QED
    BY <1>1, <2>1, JobFields
<1>3. /\ k.pc = "project" /\ k.run = "fresh" /\ k.phase = j.phase /\ k.todo = j.todo
      /\ k.item = j.item /\ k.began = j.began /\ k.staged = j.staged
  BY <1>1 DEF Job
<1> HIDE DEF k, j
<1>4. j.phase = "none" /\ j.todo # {} /\ j.staged = Idle.staged
  BY <1>1, JobTypes DEF Shape
<1>5. Shape(k)
  BY <1>1, <1>3, <1>4 DEF Shape
<1>6. /\ job' \in [Proc -> Job] /\ job'[p] = k
      /\ \A r \in Proc : r # p => job'[r] = job[r]
  BY <1>1, <1>2 DEF IInv, TypeOK, Goto
<1>7. /\ UNCHANGED <<now, gh, db, wmOpen, wmFull, during, refreshed, failed, orphans>>
      /\ UNCHANGED <<changes, faults>>
  BY DEF CreateRun, marks, schedule, bounds
<1>8. TypeOK'
  <2>1. overlap' \in BOOLEAN
    BY DEF CreateRun
  <2> QED
    BY <1>6, <1>7, <2>1 DEF IInv, TypeOK
<1>9. Clock'
  BY <1>7 DEF IInv, Clock
<1>10. ASSUME NEW r \in Proc PROVE Shape(job[r])'
  BY <1>5, <1>6, <1>7 DEF IInv, Shape
<1>12. DbHonest' /\ \A r \in Proc : Honest(job[r])'
  <2>1. Honest(k)
    BY <1>2, <1>3, <1>4, HonestStill
  <2>2. \A r \in Proc : Honest(job'[r])
    BY <1>6, <2>1 DEF IInv
  <2> QED
    BY <1>7, <2>2 DEF IInv, DbHonest, Honest, Truthful
<1>11. ASSUME ~overlap' PROVE Alone'
  <2>1. ~overlap /\ \A r \in Proc : job[r].run = "none"
    BY <1>11 DEF CreateRun
  <2>2. OneRun'
    BY <1>6, <2>1 DEF OneRun
  <2>3. DbSound'
    BY <1>7, <2>1 DEF IInv, Alone, DbSound, Claimed, UpToDate
  <2>4. ASSUME NEW r \in Proc PROVE Sound(job[r])'
    <3>1. Sound(job'[r])
      BY <1>2, <1>3, <1>4, <1>6, <2>1, Facts, RestSound DEF IInv, Alone
    <3> QED
      BY <1>7, <3>1 DEF Sound, Kept, Marked, Covered, Claimed, Stored, ViewOf, Owed, Pending
  <2> QED
    BY <2>2, <2>3, <2>4 DEF Alone
<1> QED
  BY <1>8, <1>9, <1>10, <1>11, <1>12 DEF IInv
-----------------------------------------------------------------------------
(* The passes *)

LEMMA PassBegins ==
  ASSUME IInv, NEW p \in Proc, NEW m \in Job,
         m.todo = job[p].todo, m.todo # {}, m.staged = job[p].staged,
         m.run = job[p].run, m.run # "none", m.began = now,
         \/ m.phase = "open" /\ m.since = wmOpen[Cur(m)]
         \/ m.phase = "full" /\ m.since \in {Never, wmFull[Cur(m)]},
         Goto(p, Call(m)),
         UNCHANGED <<now, gh, db, marks, schedule, orphans, history, bounds>>
  PROVE  IInv'
<1> DEFINE k == Call(m)
<1>1. /\ k \in Job /\ k.pc = "list" /\ k.cursor = MaxTime /\ k.seen = {} /\ k.item = {}
      /\ k.run = m.run /\ k.staged = job[p].staged /\ k.todo = m.todo
      /\ k.phase = m.phase /\ k.since = m.since /\ k.began = now
  BY Called
<1>2. job[p] \in Job /\ Cur(k) = Cur(m) /\ Cur(m) \in Project
  BY <1>1, Facts, CurIn DEF Cur
<1>3. Goto(p, k)
  OBVIOUS
<1> HIDE DEF k
<1>4. Shape(k)
  <2>1. k.phase # "none" /\ k.run # "none" /\ k.todo # {} /\ k.began <= now
    BY <1>1, Facts
  <2> QED
    BY <1>1, <2>1 DEF Shape
<1>5. ASSUME ~overlap PROVE Sound(k)
  <2>1. Kept(k)
    BY <1>1, <1>2, <1>5, Facts, SameViews DEF Sound, Kept
  <2>2. Marked(k)
    BY <1>1, <1>2 DEF Marked, IInv, Clock
  <2>3. ASSUME NEW i \in Issue, Owed(k, i), ~Stored(k, i) PROVE Pending(k, i)
    <3>1. ~Claimed(i)
      BY <2>1, <2>3 DEF Kept
    <3>2. /\ gh[i].at \in Int /\ gh[i].at >= -1 /\ gh[i].at <= MaxTime
          /\ wmOpen[Owner[i]] \in Int /\ wmFull[Owner[i]] \in Int
      <4>1. gh[i] \in State /\ Owner[i] \in Project
        BY Facts, Numbers
      <4>2. gh[i].at \in Mark /\ wmOpen[Owner[i]] \in Mark /\ wmFull[Owner[i]] \in Mark
        BY <4>1, Facts, States
      <4> QED
        BY <4>2, Numbers DEF Mark, Time
    <3>3. gh[i].at >= k.since
      <4>1. CASE m.phase = "open"
        BY <1>1, <1>2, <2>3, <3>1, <3>2, <4>1 DEF Owed, Claimed
      <4>2. CASE m.phase = "full"
        BY <1>1, <1>2, <2>3, <3>1, <3>2, <4>2, Numbers DEF Owed, Claimed
      <4> QED
        BY <4>1, <4>2
    <3> QED
      BY <1>1, <3>2, <3>3 DEF Pending
  <2> QED
    BY <2>1, <2>2, <2>3 DEF Sound, Covered
<1> QED
  BY <1>1, <1>3, <1>4, <1>5, JobStep, Calm

LEMMA BeginOpenStep ==
  ASSUME NEW p \in Proc PROVE IInv /\ BeginOpen(p) => IInv'
<1> SUFFICES ASSUME IInv, BeginOpen(p) PROVE IInv'
  OBVIOUS
<1> DEFINE j == job[p]
           m == [j EXCEPT !.phase = "open", !.since = wmOpen[Cur(j)], !.began = now]
<1>1. /\ j \in Job /\ j.todo # {} /\ j.run # "none" /\ Goto(p, Call(m))
      /\ Cur(j) \in Project
  BY Facts DEF BeginOpen, Shape
<1>2. m \in Job
  <2>1. wmOpen[Cur(j)] \in Mark /\ now \in Mark
    BY <1>1, Facts DEF Mark
  <2> QED
    BY <1>1, <2>1, JobFields
<1>3. /\ m.todo = j.todo /\ m.staged = j.staged /\ m.run = j.run /\ m.began = now
      /\ m.phase = "open" /\ m.since = wmOpen[Cur(j)]
  BY <1>1 DEF Job
<1>4. Cur(m) = Cur(j)
  BY <1>3 DEF Cur
<1> HIDE DEF m
<1> QED
  BY <1>1, <1>2, <1>3, <1>4, PassBegins DEF BeginOpen

LEMMA BeginFullStep ==
  ASSUME NEW p \in Proc PROVE IInv /\ BeginFull(p) => IInv'
<1> SUFFICES ASSUME IInv, BeginFull(p) PROVE IInv'
  OBVIOUS
<1> DEFINE j == job[p]
           m == [j EXCEPT !.phase = "full", !.since = FullSince(j), !.began = now,
                          !.attempt = 1]
<1>1. /\ j \in Job /\ j.todo # {} /\ j.run # "none" /\ Goto(p, Call(m))
      /\ Cur(j) \in Project
  BY Facts DEF BeginFull, Shape
<1>2. FullSince(j) \in {Never, wmFull[Cur(j)]}
  BY DEF FullSince
<1>3. m \in Job
  <2>1. FullSince(j) \in Mark /\ now \in Mark /\ 1 \in 1..Attempts
    BY <1>1, <1>2, Facts, Numbers DEF Mark
  <2> QED
    BY <1>1, <2>1, JobFields
<1>4. /\ m.todo = j.todo /\ m.staged = j.staged /\ m.run = j.run /\ m.began = now
      /\ m.phase = "full" /\ m.since = FullSince(j)
  BY <1>1 DEF Job
<1>5. Cur(m) = Cur(j)
  BY <1>4 DEF Cur
<1> HIDE DEF m
<1> QED
  BY <1>1, <1>2, <1>3, <1>4, <1>5, PassBegins DEF BeginFull

LEMMA NotDueStep ==
  ASSUME NEW p \in Proc PROVE IInv /\ NotDue(p) => IInv'
<1> SUFFICES ASSUME IInv, NotDue(p) PROVE IInv'
  OBVIOUS
<1> DEFINE rest == job[p].todo \ {Cur(job[p])}
<1>1. rest \in SUBSET Project /\ job[p].run # "none" /\ Goto(p, Leave(job[p], rest))
  BY Facts, JobTypes DEF NotDue, Shape, NextProject
<1> QED
  BY <1>1, LeaveStep, Calm DEF NotDue

LEMMA Views ==
  ASSUME IInv, NEW p \in Proc, NEW i \in Issue
  PROVE  /\ View(p, i) = ViewOf(job[p], i)
         /\ View(p, i) \in Row /\ View(p, i).at \in Int /\ View(p, i).at >= -1
         /\ gh[i] \in State /\ gh[i].at \in Int /\ gh[i].at >= -1 /\ gh[i].at <= now
         /\ now \in Int
<1>1. job[p].staged \in [Issue -> Row] /\ db \in [Issue -> Row] /\ gh \in [Issue -> State]
  BY Facts, JobTypes
<1>2. View(p, i) = ViewOf(job[p], i) /\ View(p, i) \in Row
  BY <1>1 DEF View, ViewOf
<1> QED
  BY <1>1, <1>2, States, Rows, Facts DEF IInv, Clock

LEMMA ServeStep ==
  ASSUME NEW p \in Proc PROVE IInv /\ Serve(p) => IInv'
<1> SUFFICES ASSUME IInv, Serve(p) PROVE IInv'
  OBVIOUS
<1> DEFINE j == job[p]
<1>1. j \in Job /\ Shape(j) /\ j.pc = "list" /\ j.item = {}
  BY Facts DEF Serve, Shape
<1>2. PICK i \in Listing(j) :
         LET k == [j EXCEPT !.seen = @ \cup {i}, !.cursor = gh[i].at]
         IN  /\ \A l \in Listing(j) : gh[l].at <= gh[i].at
             /\ Goto(p, IF Unchanged(p, i) THEN k
                        ELSE [k EXCEPT !.pc = "fetch", !.item = {i}, !.row = Served(i)])
  BY DEF Serve
<1> DEFINE s == [j EXCEPT !.seen = @ \cup {i}, !.cursor = gh[i].at]
           k == IF Unchanged(p, i) THEN s
                ELSE [s EXCEPT !.pc = "fetch", !.item = {i}, !.row = Served(i)]
<1>3. i \in Issue /\ gh[i] # None /\ Owner[i] = Cur(j)
  BY DEF Listing, Of
<1>4. s \in Job
  <2>1. gh[i].at \in Time
    BY <1>3, Facts, States
  <2>2. j.seen \cup {i} \in SUBSET Issue
    BY <1>1, <1>3, JobTypes
  <2> QED
    BY <1>1, <2>1, <2>2, JobFields
<1>5. /\ s.pc = "list" /\ s.run = j.run /\ s.phase = j.phase /\ s.todo = j.todo
      /\ s.item = {} /\ s.began = j.began /\ s.staged = j.staged /\ s.since = j.since
      /\ s.seen = j.seen \cup {i} /\ s.cursor = gh[i].at
  BY <1>1 DEF Job
<1>6. k \in Job
  <2>1. "fetch" \in Places /\ Served(i) \in Row /\ {i} \in SUBSET Issue
    BY <1>3, Facts, ServedRow DEF Places
  <2>2. [s EXCEPT !.pc = "fetch", !.item = {i}, !.row = Served(i)] \in Job
    BY <1>4, <2>1, JobFields
  <2> QED
    BY <1>4, <2>2
<1>7. /\ k.run = j.run /\ k.phase = j.phase /\ k.todo = j.todo
      /\ k.began = j.began /\ k.staged = j.staged /\ k.since = j.since
      /\ k.seen = j.seen \cup {i} /\ k.cursor = gh[i].at
      /\ Unchanged(p, i) => k.pc = "list" /\ k.item = {}
      /\ ~Unchanged(p, i) => k.pc = "fetch" /\ k.item = {i}
  BY <1>4, <1>5 DEF Job
<1>8. Goto(p, k)
  BY <1>2
<1>9. \A l \in Listing(j) : gh[l].at <= gh[i].at
  BY <1>2
<1> HIDE DEF s, k
<1>10. j.phase # "none" /\ j.run # "none"
  BY <1>1 DEF Shape
<1>11. Shape(k)
  <2>1. Cur(k) = Cur(j)
    BY <1>7 DEF Cur
  <2> QED
    BY <1>1, <1>3, <1>7, <2>1 DEF Shape, Of
<1>12. ASSUME ~overlap PROVE Sound(k)
  <2>1. Sound(j)
    BY <1>12, Facts
  <2>2. \A l \in Issue : Stored(j, l) => Stored(k, l)
    BY <1>1, <1>6, <1>7, SameViews
  <2>3. ASSUME NEW l \in Issue, Owed(j, l), ~Stored(j, l), Pending(j, l)
        PROVE  Pending(k, l)
    <3>1. l \notin j.seen /\ gh[l].at <= j.cursor /\ gh[l].at >= j.since
      BY <1>1, <2>3 DEF Pending
    <3>2. gh[l] # None
      BY <2>3, Views, States DEF Stored
    <3>3. l \in Listing(j)
      BY <2>3, <3>1, <3>2 DEF Listing, Of, Owed
    <3>4. CASE l = i
      <4>1. ~Unchanged(p, i)
        BY <2>3, <3>4, Views DEF Stored, Unchanged
      <4> QED
        BY <1>7, <3>1, <3>4, <4>1 DEF Pending
    <3>5. CASE l # i
      BY <1>7, <1>9, <3>1, <3>3, <3>5 DEF Pending
    <3> QED
      BY <3>4, <3>5
  <2> QED
    BY <1>1, <1>6, <1>7, <1>10, <2>1, <2>2, <2>3, PassGoesOn
<1> QED
  BY <1>6, <1>7, <1>8, <1>10, <1>11, <1>12, JobStep, Calm DEF Serve
LEMMA StagedJob ==
  ASSUME NEW j \in Job, NEW i \in Issue, NEW v \in Row
  PROVE  /\ [j EXCEPT !.staged[i] = v] \in Job
         /\ [j EXCEPT !.staged[i] = v].staged = [j.staged EXCEPT ![i] = v]
BY DEF Job

\* A row is made, and is as good as its stamp.
LEMMA MadeStep ==
  ASSUME IInv, NEW p \in Proc, NEW l \in Lapses, job[p].pc = "fetch",
         \A i \in job[p].item : l = "none" => job[p].row.version = gh[i].version,
         Goto(p, [job[p] EXCEPT !.pc = "store", !.row = Made(job[p].row, l)]),
         UNCHANGED Fixed, refreshed' \in Seq(Project), failed' \in [Project -> BOOLEAN],
         orphans' \in Nat, changes' \in Nat, faults' \in Nat
  PROVE  IInv'
<1> DEFINE j == job[p]
           row == Made(j.row, l)
           k == [j EXCEPT !.pc = "store", !.row = row]
<1>1. /\ j \in Job /\ Shape(j) /\ Honest(j) /\ j.pc = "fetch" /\ j.phase # "none"
      /\ j.run # "none" /\ Goto(p, k) /\ now \in Time /\ now \in Nat
      /\ j.item \in SUBSET Issue
  BY Facts, JobTypes DEF Shape
<1>2. /\ row \in Row /\ row.at = now /\ row.lapse = l /\ row.version = j.row.version
  BY <1>1, JobTypes, MadeRow
<1> HIDE DEF row
<1>3. k \in Job
  <2>1. "store" \in Places
    BY DEF Places
  <2> QED
    BY <1>1, <1>2, <2>1, JobFields
<1>4. /\ k.pc = "store" /\ k.run = j.run /\ k.phase = j.phase /\ k.todo = j.todo
      /\ k.item = j.item /\ k.began = j.began /\ k.since = j.since /\ k.seen = j.seen
      /\ k.cursor = j.cursor /\ k.staged = j.staged /\ k.row = row
  BY <1>1 DEF Job
<1>5. Cur(k) = Cur(j)
  BY <1>4 DEF Cur
<1> HIDE DEF k
<1>6. Shape(k)
  BY <1>1, <1>4, <1>5 DEF Shape
<1>7. Honest(k)
  <2>2. row.at \in Time /\ row.at >= k.began /\ row.at <= now
    <3>1. j.began \in Mark /\ j.began <= now
      BY <1>1, JobTypes DEF Shape
    <3>2. j.began \in Int
      BY <3>1, Numbers
    <3> QED
      BY <1>1, <1>2, <1>4, <3>1, <3>2
  <2>3. ASSUME NEW i \in j.item PROVE Truthful(row, i) /\ row.at >= gh[i].at
    <3>1. i \in Issue
      BY <1>1
    <3>2. row.at >= gh[i].at
      BY <1>2, <3>1, Views
    <3>3. Truthful(row, i)
      BY <1>2, <2>2 DEF Truthful
    <3> QED
      BY <3>2, <3>3
  <2> QED
    BY <1>1, <1>4, <2>2, <2>3 DEF Honest
<1>8. ASSUME ~overlap PROVE Sound(k)
  <2>1. Sound(j)
    BY <1>8, Facts
  <2>2. \A x \in Issue : Stored(j, x) => Stored(k, x)
    BY <1>1, <1>3, <1>4, SameViews
  <2>3. \A x \in Issue : Pending(j, x) => Pending(k, x)
    BY <1>1, <1>4 DEF Pending
  <2> QED
    BY <1>1, <1>3, <1>4, <2>1, <2>2, <2>3, PassGoesOn
<1> QED
  BY <1>1, <1>3, <1>4, <1>6, <1>7, <1>8, JobStep

LEMMA PayloadStep ==
  ASSUME NEW p \in Proc PROVE IInv /\ Payload(p) => IInv'
<1> SUFFICES ASSUME IInv, Payload(p) PROVE IInv'
  OBVIOUS
<1> DEFINE j == job[p]
<1>1. PICK i \in j.item :
         Goto(p, [j EXCEPT !.pc = "store", !.row = Made(j.row, Lapse(i, j.row))])
  BY DEF Payload
<1> DEFINE l == Lapse(i, j.row)
<1>2. l \in Lapses /\ (l = "none" => j.row.version = gh[i].version)
  BY DEF Lapse, Lapses
<1>4. \A x \in j.item : x = i
  BY <1>1, Facts DEF Shape
<1>3. j.pc = "fetch" /\ Goto(p, [j EXCEPT !.pc = "store", !.row = Made(j.row, l)])
  BY <1>1 DEF Payload
<1> HIDE DEF l
<1> QED
  BY <1>2, <1>3, <1>4, MadeStep, Calm DEF Payload

LEMMA PayloadFailsStep ==
  ASSUME NEW p \in Proc PROVE IInv /\ PayloadFails(p) => IInv'
<1> SUFFICES ASSUME IInv, PayloadFails(p) PROVE IInv'
  OBVIOUS
<1> DEFINE j == job[p]
           row == Made(j.row, "bare")
           k == [j EXCEPT !.pc = "store", !.row = row]
<1>1. /\ UNCHANGED Fixed /\ refreshed' \in Seq(Project) /\ failed' \in [Project -> BOOLEAN]
      /\ orphans' \in Nat /\ changes' \in Nat /\ faults' \in Nat
  BY Faulty, Facts DEF PayloadFails, schedule
<1>2. "bare" \in Lapses /\ "bare" # "none" /\ j.pc = "fetch" /\ Goto(p, k)
  BY DEF PayloadFails, Lapses
<1> QED
  BY <1>1, <1>2, MadeStep

\* A row waits for a lock, and is as old then as it was made.
LEMMA StoreStep ==
  ASSUME NEW p \in Proc PROVE IInv /\ Store(p) => IInv'
<1> SUFFICES ASSUME IInv, Store(p) PROVE IInv'
  OBVIOUS
<1> DEFINE j == job[p]
<1>1. /\ j \in Job /\ Shape(j) /\ Honest(j) /\ j.pc = "store" /\ j.phase # "none"
      /\ j.run # "none" /\ j.row \in Row
  BY Facts, JobTypes DEF Store, Shape
<1>2. PICK i \in j.item :
         Goto(p, [j EXCEPT !.pc = "list", !.item = {}, !.row = NoRow, !.staged[i] = j.row])
  BY DEF Store
<1> DEFINE row == j.row
           m == [j EXCEPT !.pc = "list", !.item = {}, !.row = NoRow]
           k == [j EXCEPT !.pc = "list", !.item = {}, !.row = NoRow, !.staged[i] = j.row]
<1>3. /\ i \in Issue /\ Owner[i] = Cur(j) /\ row.at >= j.began /\ Truthful(row, i)
      /\ j.phase = "full" /\ ~during[i] => row.at >= gh[i].at
      /\ row # NoRow
  <2>1. row.at \in Time => row # NoRow
    BY Rows, Numbers
  <2>2. i \in Issue /\ Owner[i] = Cur(j)
    BY <1>1 DEF Shape, Of
  <2>3. /\ row.at \in Time /\ row.at >= j.began /\ Truthful(row, i)
        /\ j.phase = "full" /\ ~during[i] => row.at >= gh[i].at
    BY <1>1 DEF Honest
  <2> QED
    BY <2>1, <2>2, <2>3
<1>4. m \in Job
  <2>1. "list" \in Places /\ NoRow \in Row /\ {} \in SUBSET Issue
    BY Rows DEF Places
  <2> QED
    BY <1>1, <2>1, JobFields
<1>5. k = [m EXCEPT !.staged[i] = row]
  BY <1>1 DEF Job
<1>6. k \in Job
  BY <1>1, <1>3, <1>4, <1>5, StagedJob
<1>7. /\ k.pc = "list" /\ k.run = j.run /\ k.phase = j.phase /\ k.todo = j.todo
      /\ k.item = {} /\ k.began = j.began /\ k.since = j.since /\ k.seen = j.seen
      /\ k.cursor = j.cursor /\ k.staged = [j.staged EXCEPT ![i] = row]
  BY <1>1 DEF Job
<1>8. Goto(p, k)
  BY <1>2
<1> HIDE DEF m, k
<1>9. Shape(k)
  BY <1>1, <1>7 DEF Shape
<1>11. j.staged \in [Issue -> Row]
  BY <1>1, JobTypes
<1>12. Honest(k)
  BY <1>1, <1>3, <1>7, <1>11 DEF Honest
<1>10. ASSUME ~overlap PROVE Sound(k)
  <2>1. Sound(j)
    BY <1>10, Facts
  <2>3. /\ ViewOf(k, i) = row
        /\ \A l \in Issue : l # i => ViewOf(k, l) = ViewOf(j, l)
    BY <1>3, <1>7, <1>11 DEF ViewOf
  <2>4. Claimed(i) \/ Owed(j, i) => Stored(k, i)
    <3>1. /\ wmOpen[Cur(j)] <= j.began /\ wmFull[Cur(j)] <= j.began
          /\ j.began \in Int /\ row.at \in Int
          /\ wmOpen[Cur(j)] \in Int /\ wmFull[Cur(j)] \in Int
      <4>1. Cur(j) \in Project
        BY <1>3, Numbers
      <4>2. wmOpen[Cur(j)] \in Mark /\ wmFull[Cur(j)] \in Mark
            /\ j.began \in Mark /\ row.at \in Mark
        BY <1>1, <4>1, Facts, JobTypes, Rows
      <4>3. \A t \in Mark : t \in Int
        BY Numbers
      <4>4. wmOpen[Cur(j)] <= j.began /\ wmFull[Cur(j)] <= j.began
        BY <1>1, <2>1 DEF Sound, Marked
      <4> QED
        BY <4>2, <4>3, <4>4
    <3>2. gh[i].at < j.began \/ row.at >= gh[i].at => row.at >= gh[i].at
      BY <1>3, <3>1, Views
    <3>3. row.at >= gh[i].at => Stored(k, i)
      BY <2>3 DEF Stored
    <3>4. j.phase \in {"open", "full"}
      BY <1>1, JobTypes
    <3> QED
      BY <1>3, <3>1, <3>2, <3>3, <3>4, Views DEF Claimed, Owed
  <2>5. \A l \in Issue : (Claimed(l) \/ Owed(j, l)) /\ Stored(j, l) => Stored(k, l)
    BY <2>3, <2>4 DEF Stored
  <2>6. ASSUME NEW l \in Issue, Owed(j, l), ~Stored(j, l), Pending(j, l)
        PROVE  Stored(k, l) \/ Pending(k, l)
    BY <1>1, <1>2, <1>7, <2>4, <2>6 DEF Pending, Shape
  <2> QED
    BY <1>1, <1>6, <1>7, <2>1, <2>5, <2>6, PassGoesOn
<1> QED
  BY <1>1, <1>6, <1>7, <1>8, <1>9, <1>10, <1>12, JobStep, Calm DEF Store

LEMMA ListedStep ==
  ASSUME NEW p \in Proc PROVE IInv /\ Listed(p) => IInv'
<1> SUFFICES ASSUME IInv, Listed(p) PROVE IInv'
  OBVIOUS
<1> DEFINE j == job[p]
           to == IF j.phase = "open" THEN "reconcile" ELSE "commit"
           seen == IF j.phase = "open" THEN j.seen ELSE {}
           k == [j EXCEPT !.pc = to, !.cursor = MaxTime, !.since = Never, !.seen = seen]
<1>1. /\ j \in Job /\ Shape(j) /\ j.pc = "list" /\ j.item = {} /\ j.phase # "none"
      /\ j.run # "none" /\ Listing(j) = {} /\ Goto(p, k)
  BY Facts DEF Listed, Shape
<1>2. k \in Job
  <2>1. to \in Places /\ seen \in SUBSET Issue
    BY <1>1, JobTypes DEF Places
  <2>2. [j EXCEPT !.pc = to, !.cursor = MaxTime, !.since = Never] \in Job
    BY <1>1, <2>1, JobFields, Numbers
  <2> HIDE DEF to, seen
  <2>3. [[j EXCEPT !.pc = to, !.cursor = MaxTime, !.since = Never] EXCEPT !.seen = seen] \in Job
    BY <2>1, <2>2, JobFields
  <2> QED
    BY <2>3
<1>3. /\ k.pc = to /\ k.run = j.run /\ k.phase = j.phase /\ k.todo = j.todo
      /\ k.item = j.item /\ k.began = j.began /\ k.staged = j.staged
  BY <1>1 DEF Job
<1> HIDE DEF k, seen
<1>4. Shape(k)
  <2>1. j.phase \in {"open", "full"}
    BY <1>1, JobTypes
  <2> QED
    BY <1>1, <1>3, <2>1 DEF Shape
<1>5. ASSUME ~overlap PROVE Sound(k)
  <2>1. Sound(j)
    BY <1>5, Facts
  <2>2. \A l \in Issue : Stored(j, l) => Stored(k, l)
    BY <1>1, <1>2, <1>3, SameViews
  <2>3. ASSUME NEW l \in Issue, Owed(j, l), ~Stored(j, l), Pending(j, l) PROVE FALSE
    <3>1. gh[l] # None
      BY <2>3, Views, States DEF Stored
    <3>2. l \in Listing(j)
      BY <1>1, <2>3, <3>1 DEF Listing, Of, Owed, Pending
    <3> QED
      BY <1>1, <3>2
  <2> QED
    BY <1>1, <1>2, <1>3, <2>1, <2>2, <2>3, PassGoesOn
<1> QED
  BY <1>1, <1>2, <1>3, <1>4, <1>5, JobStep, Calm DEF Listed

LEMMA ReconcileStep ==
  ASSUME NEW p \in Proc PROVE IInv /\ Reconcile(p) => IInv'
<1> SUFFICES ASSUME IInv, Reconcile(p) PROVE IInv'
  OBVIOUS
<1> DEFINE j == job[p]
           k == [j EXCEPT !.pc = "answered", !.seen = {}, !.closing = ReportedClosed(p)]
<1>1. /\ j \in Job /\ Shape(j) /\ j.pc = "reconcile" /\ j.phase # "none"
      /\ j.run # "none" /\ Goto(p, k)
  BY Facts DEF Reconcile, Shape
<1>2. ReportedClosed(p) \subseteq Of(Cur(j)) /\ ReportedClosed(p) \in SUBSET Issue
  BY DEF ReportedClosed, Dropped, Of
<1>3. k \in Job
  <2>1. "answered" \in Places /\ {} \in SUBSET Issue
    BY DEF Places
  <2> QED
    BY <1>1, <1>2, <2>1, JobFields
<1>4. /\ k.pc = "answered" /\ k.run = j.run /\ k.phase = j.phase /\ k.todo = j.todo
      /\ k.item = j.item /\ k.began = j.began /\ k.staged = j.staged
      /\ k.closing = ReportedClosed(p)
  BY <1>1 DEF Job
<1>5. Cur(k) = Cur(j)
  BY <1>4 DEF Cur
<1> HIDE DEF k
<1>6. Shape(k)
  BY <1>1, <1>2, <1>4, <1>5 DEF Shape
<1>7. ASSUME ~overlap PROVE Sound(k)
  <2>1. Sound(j) /\ \A l \in Issue : ~Pending(j, l)
    BY <1>1, <1>7, Facts DEF Pending
  <2>2. \A l \in Issue : Stored(j, l) => Stored(k, l)
    BY <1>1, <1>3, <1>4, SameViews
  <2> QED
    BY <1>1, <1>3, <1>4, <2>1, <2>2, PassGoesOn
<1> QED
  BY <1>1, <1>3, <1>4, <1>6, <1>7, JobStep, Calm DEF Reconcile

LEMMA AnsweredStep ==
  ASSUME NEW p \in Proc PROVE IInv /\ Answered(p) => IInv'
<1> SUFFICES ASSUME IInv, Answered(p) PROVE IInv'
  OBVIOUS
<1> DEFINE j == job[p]
           k == [j EXCEPT !.pc = "close", !.stamp = now]
<1>1. /\ j \in Job /\ Shape(j) /\ j.pc = "answered" /\ j.phase # "none"
      /\ j.run # "none" /\ Goto(p, k)
  BY Facts DEF Answered, Shape
<1>2. k \in Job
  <2>1. "close" \in Places /\ now \in Mark
    BY Facts DEF Places, Mark
  <2> QED
    BY <1>1, <2>1, JobFields
<1>3. /\ k.pc = "close" /\ k.run = j.run /\ k.phase = j.phase /\ k.todo = j.todo
      /\ k.item = j.item /\ k.began = j.began /\ k.staged = j.staged /\ k.stamp = now
      /\ k.closing = j.closing
  BY <1>1 DEF Job
<1>4. Cur(k) = Cur(j)
  BY <1>3 DEF Cur
<1> HIDE DEF k
<1>5. Shape(k)
  <2>1. now \in Time /\ now >= j.began /\ j.began <= now /\ now <= now
    <3>1. now \in Nat /\ j.began \in Mark /\ now \in Time
      BY <1>1, Facts, JobTypes
    <3>2. j.began \in Int
      <4>1. \A t \in Mark : t \in Int
        BY Numbers
      <4> QED
        BY <3>1, <4>1, Zenon
    <3>3. j.began <= now
      BY <1>1 DEF Shape
    <3> QED
      BY <3>1, <3>2, <3>3
  <2> QED
    BY <1>1, <1>3, <1>4, <2>1 DEF Shape
<1>6. ASSUME ~overlap PROVE Sound(k)
  <2>1. Sound(j) /\ \A l \in Issue : ~Pending(j, l)
    BY <1>1, <1>6, Facts DEF Pending
  <2>2. \A l \in Issue : Stored(j, l) => Stored(k, l)
    BY <1>1, <1>2, <1>3, SameViews
  <2> QED
    BY <1>1, <1>2, <1>3, <2>1, <2>2, PassGoesOn
<1> QED
  BY <1>1, <1>2, <1>3, <1>5, <1>6, JobStep, Calm DEF Answered

\* A row is closed as of a time at which its project had no watermark yet.
LEMMA CloseStep ==
  ASSUME NEW p \in Proc PROVE IInv /\ Close(p) => IInv'
<1> SUFFICES ASSUME IInv, Close(p) PROVE IInv'
  OBVIOUS
<1> DEFINE j == job[p]
<1>1. /\ j \in Job /\ Shape(j) /\ j.pc = "close" /\ j.phase = "open" /\ j.run # "none"
      /\ j.closing \subseteq Of(Cur(j)) /\ j.stamp \in Time /\ j.stamp >= j.began
      /\ j.stamp <= now /\ Honest(j)
  BY Facts, JobTypes DEF Close, Shape
<1>2. PICK i \in j.closing :
         Goto(p, [j EXCEPT !.closing = @ \ {i},
                           !.staged[i] = ClosedRow(View(p, i), j.stamp)])
  BY DEF Close
<1> DEFINE row == ClosedRow(View(p, i), j.stamp)
           m == [j EXCEPT !.closing = @ \ {i}]
           k == [j EXCEPT !.closing = @ \ {i}, !.staged[i] = row]
<1>3. /\ i \in Issue /\ Owner[i] = Cur(j) /\ row \in Row /\ row # NoRow
      /\ row.at = j.stamp /\ row.lapse = "closed"
  <2>1. i \in Issue /\ Owner[i] = Cur(j)
    BY <1>1, <1>2 DEF Of
  <2>2. View(p, i) \in Row
    BY <2>1, Views
  <2> QED
    BY <1>1, <2>1, <2>2, RowClosed
<1>4. m \in Job
  <2>1. j.closing \ {i} \in SUBSET Issue
    BY <1>1, JobTypes
  <2> QED
    BY <1>1, <2>1, JobFields
<1>5. k = [m EXCEPT !.staged[i] = row]
  BY <1>1 DEF Job
<1> HIDE DEF row
<1>6. k \in Job
  BY <1>3, <1>4, <1>5, StagedJob
<1>7. /\ k.pc = j.pc /\ k.run = j.run /\ k.phase = j.phase /\ k.todo = j.todo
      /\ k.item = j.item /\ k.began = j.began /\ k.stamp = j.stamp
      /\ k.closing = j.closing \ {i} /\ k.staged = [j.staged EXCEPT ![i] = row]
  BY <1>1 DEF Job
<1>8. Goto(p, k)
  BY <1>2 DEF row
<1>9. Cur(k) = Cur(j)
  BY <1>7 DEF Cur
<1> HIDE DEF m, k
<1>10. Shape(k)
  BY <1>1, <1>7, <1>9 DEF Shape
<1>12. Honest(k)
  <2>1. j.staged \in [Issue -> Row] /\ Truthful(row, i)
    BY <1>1, <1>3, JobTypes DEF Truthful
  <2> QED
    BY <1>1, <1>7, <2>1 DEF Honest
<1>11. ASSUME ~overlap PROVE Sound(k)
  <2>1. Sound(j) /\ \A l \in Issue : ~Pending(j, l)
    BY <1>1, <1>11, Facts DEF Pending
  <2>2. j.staged \in [Issue -> Row]
    BY <1>1, JobTypes
  <2>3. ViewOf(k, i) = row /\ \A l \in Issue : l # i => ViewOf(k, l) = ViewOf(j, l)
    BY <1>3, <1>7, <2>2 DEF ViewOf
  <2>4. Claimed(i) \/ Owed(j, i) => Stored(k, i)
    <3>1. /\ wmOpen[Cur(j)] <= j.began /\ wmFull[Cur(j)] <= j.began
          /\ j.began \in Int /\ j.stamp \in Int
          /\ wmOpen[Cur(j)] \in Int /\ wmFull[Cur(j)] \in Int
      <4>1. Cur(j) \in Project
        BY <1>3, Numbers
      <4>2. wmOpen[Cur(j)] \in Mark /\ wmFull[Cur(j)] \in Mark
            /\ j.began \in Mark /\ j.stamp \in Mark
        BY <1>1, <4>1, Facts, JobTypes
      <4>3. \A t \in Mark : t \in Int
        BY Numbers
      <4>4. wmOpen[Cur(j)] <= j.began /\ wmFull[Cur(j)] <= j.began
        BY <1>1, <2>1 DEF Sound, Marked
      <4> QED
        BY <4>2, <4>3, <4>4
    <3>2. gh[i].at < j.began => Stored(k, i)
      BY <1>1, <1>3, <2>3, <3>1, Views DEF Stored
    <3> QED
      BY <1>1, <1>3, <3>1, <3>2, Views DEF Claimed, Owed
  <2>5. \A l \in Issue : (Claimed(l) \/ Owed(j, l)) /\ Stored(j, l) => Stored(k, l)
    BY <2>3, <2>4 DEF Stored
  <2> QED
    BY <1>1, <1>6, <1>7, <2>1, <2>5, PassGoesOn
<1> QED
  BY <1>1, <1>6, <1>7, <1>8, <1>10, <1>11, <1>12, JobStep, Calm DEF Close
-----------------------------------------------------------------------------
(* What reaches the table and the watermarks *)

\* Beside a run there is only who waits for it or is idle.
LEMMA OthersRest ==
  ASSUME IInv, ~overlap, NEW p \in Proc, job[p].run # "none", NEW r \in Proc, r # p
  PROVE  job[r].staged = Idle.staged /\ job[r].phase = "none" /\ job[r].run = "none"
<1>1. job[r].run = "none" /\ job[r] \in Job /\ Shape(job[r])
  BY Facts DEF IInv, Alone, OneRun
<1> QED
  BY <1>1, JobTypes DEF Shape

LEMMA RestSoundAfter ==
  ASSUME DbSound', NEW r, job'[r].staged = Idle.staged, job'[r].phase = "none"
  PROVE  Sound(job[r])'
<1>1. \A i \in Issue : ViewOf(job[r], i)' = db'[i]
  BY IdleJob DEF ViewOf
<1>2. Kept(job[r])'
  BY <1>1 DEF Kept, Stored, DbSound, UpToDate
<1> QED
  BY <1>2 DEF Sound, Marked, Covered

\* A run that writes rows or watermarks.
LEMMA RunStep ==
  ASSUME IInv, NEW p \in Proc, NEW k \in Job, Goto(p, k), job[p].run # "none",
         UNCHANGED <<now, gh, orphans, history, bounds>>,
         db' \in [Issue -> Row], wmOpen' \in [Project -> Mark],
         wmFull' \in [Project -> Mark], UNCHANGED schedule,
         \A q \in Project : wmOpen'[q] <= now /\ wmFull'[q] <= now,
         Shape(k), ~overlap => DbSound' /\ Sound(job[p])',
         k.pc # "store", k.staged = Idle.staged, \A i \in Issue : Truthful(db'[i], i)
  PROVE  IInv'
<1>1. /\ job' \in [Proc -> Job] /\ job'[p] = k
      /\ \A r \in Proc : r # p => job'[r] = job[r]
  BY DEF IInv, TypeOK, Goto
<1>2. /\ UNCHANGED <<now, gh, overlap, during, orphans, changes, faults, refreshed>>
      /\ UNCHANGED failed
  BY DEF history, bounds, schedule
<1>3. TypeOK'
  BY <1>1, <1>2 DEF IInv, TypeOK
<1>4. Clock'
  BY <1>2 DEF IInv, Clock
<1>5. ASSUME NEW r \in Proc PROVE Shape(job[r])'
  BY <1>1, <1>2 DEF IInv, Shape
<1>7. ASSUME NEW r \in Proc PROVE Honest(job[r])'
  <2>1. Honest(k)
    BY HonestStill
  <2>2. Honest(job'[r])
    BY <1>1, <2>1 DEF IInv
  <2> QED
    BY <1>2, <2>2 DEF Honest, Truthful
<1>8. DbHonest'
  BY <1>2 DEF DbHonest, Truthful
<1>6. ASSUME ~overlap PROVE Alone'
  <2>1. ASSUME NEW r \in Proc, r # p
        PROVE  job'[r].staged = Idle.staged /\ job'[r].phase = "none" /\ job'[r].run = "none"
    BY <1>1, <1>6, <2>1, OthersRest
  <2>2. OneRun'
    BY <2>1 DEF OneRun
  <2>3. ASSUME NEW r \in Proc PROVE Sound(job[r])'
    <3>1. CASE r = p
      BY <1>6, <3>1
    <3>2. CASE r # p
      BY <1>6, <2>1, <3>2, RestSoundAfter
    <3> QED
      BY <3>1, <3>2
  <2> QED
    BY <1>6, <2>2, <2>3 DEF Alone
<1> QED
  BY <1>2, <1>3, <1>4, <1>5, <1>6, <1>7, <1>8 DEF IInv

LEMMA CommitStep ==
  ASSUME NEW p \in Proc PROVE IInv /\ Commit(p) => IInv'
<1> SUFFICES ASSUME IInv, Commit(p) PROVE IInv'
  OBVIOUS
<1> DEFINE j == job[p]
           to == IF j.phase = "open" THEN "mark" ELSE "snapshot"
           k == [j EXCEPT !.pc = to, !.stamp = Never, !.staged = Idle.staged]
<1>1. /\ j \in Job /\ Shape(j) /\ j.pc \in {"commit", "close"} /\ j.run # "none"
      /\ j.phase \in {"open", "full"} /\ Goto(p, k)
  BY Facts, JobTypes DEF Commit, Shape
<1>2. k \in Job
  <2>1. to \in Places /\ Idle.staged \in [Issue -> Row]
    BY IdleJob, JobTypes DEF Places
  <2> QED
    BY <1>1, <2>1, JobFields, Numbers
<1>3. /\ k.pc = to /\ k.run = j.run /\ k.phase = j.phase /\ k.todo = j.todo
      /\ k.item = j.item /\ k.began = j.began /\ k.staged = Idle.staged
  BY <1>1 DEF Job
<1> HIDE DEF k
<1>4. Shape(k)
  BY <1>1, <1>3 DEF Shape
<1>5. \A i \in Issue : db'[i] = ViewOf(j, i)
  BY Views DEF Commit
<1>6. db' \in [Issue -> Row]
  BY Views DEF Commit
<1>10. \A i \in Issue : Truthful(db'[i], i)
  BY <1>5, Facts DEF ViewOf, Honest, IInv, DbHonest
<1>7. /\ UNCHANGED <<now, gh, wmOpen, wmFull, schedule, orphans, history, bounds>>
      /\ UNCHANGED <<overlap, during>>
  BY DEF Commit, marks, history
<1>8. /\ wmOpen' \in [Project -> Mark] /\ wmFull' \in [Project -> Mark]
      /\ \A q \in Project : wmOpen'[q] <= now /\ wmFull'[q] <= now
  BY <1>7 DEF IInv, TypeOK, Clock
<1>9. ASSUME ~overlap PROVE DbSound' /\ Sound(job[p])'
  <2>1. Sound(j) /\ \A i \in Issue : ~Pending(j, i)
    BY <1>1, <1>9, Facts DEF Pending
  <2>2. DbSound'
    BY <1>5, <1>7, <2>1 DEF Sound, Kept, DbSound, Claimed, UpToDate, Stored
  <2>3. job'[p] = k
    BY <1>1 DEF IInv, TypeOK, Goto
  <2>4. \A i \in Issue : ViewOf(job[p], i)' = db'[i]
    BY <1>3, <2>3, IdleJob DEF ViewOf
  <2>5. \A i \in Issue : Stored(job[p], i)' <=> Stored(j, i)
    BY <1>5, <1>7, <2>4 DEF Stored
  <2>6. Cur(job[p])' = Cur(j)
    BY <1>3, <2>3 DEF Cur
  <2>7. Kept(job[p])'
    BY <1>7, <2>1, <2>5 DEF Sound, Kept, Claimed
  <2>8. Marked(job[p])'
    BY <1>3, <1>7, <2>1, <2>3, <2>6 DEF Sound, Marked
  <2>9. Covered(job[p])'
    BY <1>1, <1>3, <1>7, <2>1, <2>3, <2>5, <2>6 DEF Sound, Covered, Owed
  <2> QED
    BY <2>2, <2>7, <2>8, <2>9 DEF Sound
<1> QED
  BY <1>1, <1>2, <1>3, <1>4, <1>6, <1>7, <1>8, <1>9, <1>10, RunStep

\* What comes after an open pass.
LEMMA Onward ==
  ASSUME NEW j \in Job, Shape(j), j.run # "none", j.todo # {}, now \in Nat,
         NEW s \in [Issue -> Row]
  PROVE  LET k == AfterOpen(j, s)
         IN  /\ k \in Job /\ Shape(k) /\ k.run = j.run /\ k.phase = "none"
             /\ k.staged \in {s, Idle.staged} /\ k.pc # "store"
<1> DEFINE k == AfterOpen(j, s)
           rest == j.todo \ {Cur(j)}
<1>1. CASE j.mode = "open"
  <2>1. rest \in SUBSET Project /\ k = Leave(j, rest)
    BY <1>1, JobTypes DEF AfterOpen, NextProject
  <2>2. /\ k \in Job /\ k.pc = (IF rest = {} THEN "done" ELSE "project")
        /\ k.run = j.run /\ k.phase = "none" /\ k.todo = rest /\ k.item = {}
        /\ k.began = -1 /\ k.staged = Idle.staged
    BY <2>1, Left
  <2> HIDE DEF k, rest
  <2>3. Shape(k)
    BY <2>2 DEF Shape
  <2> QED
    BY <2>2, <2>3 DEF k
<1>2. CASE j.mode # "open"
  <2>1. k = [Idle EXCEPT !.pc = "due", !.mode = j.mode, !.run = j.run, !.todo = j.todo,
                         !.staged = s]
    BY <1>2 DEF AfterOpen
  <2>2. k \in Job
    <3>1. "due" \in Places
      BY DEF Places
    <3>2. j.mode \in Mode /\ j.run \in {"none", "fresh", "stale"} /\ j.todo \in SUBSET Project
      BY JobTypes
    <3>3. [Idle EXCEPT !.pc = "due", !.mode = j.mode] \in Job
      BY <3>1, <3>2, IdleJob, JobFields
    <3>4. [Idle EXCEPT !.pc = "due", !.mode = j.mode, !.run = j.run] \in Job
      BY <3>2, <3>3, JobFields
    <3>5. [Idle EXCEPT !.pc = "due", !.mode = j.mode, !.run = j.run, !.todo = j.todo] \in Job
      BY <3>2, <3>4, JobFields
    <3> QED
      BY <2>1, <3>5, JobFields
  <2>3. /\ k.pc = "due" /\ k.run = j.run /\ k.phase = "none" /\ k.todo = j.todo
        /\ k.item = {} /\ k.began = -1 /\ k.staged = s
    BY <2>1, IdleJob DEF Idle, Never
  <2> HIDE DEF k
  <2>4. Shape(k)
    BY <2>3 DEF Shape
  <2> QED
    BY <2>2, <2>3, <2>4 DEF k
<1> QED
  BY <1>1, <1>2

LEMMA MarkOpenStep ==
  ASSUME NEW p \in Proc PROVE IInv /\ MarkOpen(p) => IInv'
<1> SUFFICES ASSUME IInv, MarkOpen(p) PROVE IInv'
  OBVIOUS
<1> DEFINE j == job[p]
           k == AfterOpen(j, j.staged)
<1>1. /\ j \in Job /\ Shape(j) /\ j.pc = "mark" /\ j.phase = "open" /\ j.run # "none"
      /\ j.todo # {} /\ j.staged = Idle.staged /\ Goto(p, k)
  BY Facts DEF MarkOpen, Shape
<1>2. /\ k \in Job /\ Shape(k) /\ k.run = j.run /\ k.phase = "none"
      /\ k.staged = Idle.staged /\ k.pc # "store"
  BY <1>1, Facts, JobTypes, Onward
<1> HIDE DEF k
<1>3. /\ wmOpen' = [wmOpen EXCEPT ![Cur(j)] = j.began] /\ Cur(j) \in Project
      /\ j.began \in Mark /\ j.began <= now
  BY <1>1, Facts, JobTypes DEF MarkOpen, MarkAt, Shape
<1>4. /\ UNCHANGED <<now, gh, db, wmFull, schedule, orphans, history, bounds>>
      /\ UNCHANGED <<overlap, during>>
  BY DEF MarkOpen, history
<1>5. /\ db' \in [Issue -> Row] /\ wmOpen' \in [Project -> Mark]
      /\ wmFull' \in [Project -> Mark]
      /\ \A q \in Project : wmOpen'[q] <= now /\ wmFull'[q] <= now
  BY <1>3, <1>4 DEF IInv, TypeOK, Clock
<1>7. \A i \in Issue : Truthful(db'[i], i)
  BY <1>4 DEF IInv, DbHonest
<1>6. ASSUME ~overlap PROVE DbSound' /\ Sound(job[p])'
  <2>1. Sound(j) /\ DbSound /\ \A i \in Issue : ~Pending(j, i)
    BY <1>1, <1>6, Facts DEF Pending
  <2>2. \A i \in Issue : Stored(j, i) <=> UpToDate(i)
    BY <1>1, IdleJob DEF Stored, ViewOf, UpToDate
  <2>3. ASSUME NEW i \in Issue, Claimed(i)' PROVE UpToDate(i)
    <3>1. CASE Claimed(i)
      BY <2>1, <3>1 DEF DbSound
    <3>2. CASE ~Claimed(i)
      <4>1. Owner[i] = Cur(j) /\ gh[i].open /\ gh[i].at < j.began
        BY <1>3, <1>4, <2>3, <3>2, Numbers, Facts DEF Claimed
      <4>2. Owed(j, i)
        BY <1>1, <4>1 DEF Owed
      <4> QED
        BY <1>1, <2>1, <2>2, <4>2 DEF Sound, Covered
    <3> QED
      BY <3>1, <3>2
  <2>4. DbSound'
    BY <1>4, <2>3 DEF DbSound, UpToDate
  <2>5. job'[p] = k
    BY <1>1 DEF IInv, TypeOK, Goto
  <2> QED
    BY <1>2, <2>4, <2>5, RestSoundAfter
<1> QED
  BY <1>1, <1>2, <1>4, <1>5, <1>6, <1>7, RunStep

LEMMA MarkFullStep ==
  ASSUME NEW p \in Proc PROVE IInv /\ MarkFull(p) => IInv'
<1> SUFFICES ASSUME IInv, MarkFull(p) PROVE IInv'
  OBVIOUS
<1> DEFINE j == job[p]
           rest == j.todo \ {Cur(j)}
           k == Leave(j, rest)
<1>1. /\ j \in Job /\ Shape(j) /\ j.pc = "mark" /\ j.phase = "full" /\ j.run # "none"
      /\ j.todo # {} /\ j.staged = Idle.staged /\ Goto(p, k)
  BY Facts DEF MarkFull, Shape, NextProject
<1>2. /\ k \in Job /\ k.pc = (IF rest = {} THEN "done" ELSE "project")
      /\ k.run = j.run /\ k.phase = "none" /\ k.todo = rest /\ k.item = {}
      /\ k.began = -1 /\ k.staged = Idle.staged
  <2>1. rest \in SUBSET Project
    BY <1>1, JobTypes
  <2> QED
    BY <1>1, <2>1, Left
<1> HIDE DEF k, rest
<1>3. Shape(k)
  BY <1>1, <1>2, Facts DEF Shape
<1>4. wmFull' = [wmFull EXCEPT ![Cur(j)] = now] /\ Cur(j) \in Project /\ now \in Mark
  BY <1>1, Facts DEF MarkFull, Mark
<1>5. /\ UNCHANGED <<now, gh, db, wmOpen, schedule, orphans, history, bounds>>
      /\ UNCHANGED <<overlap, during>>
  BY DEF MarkFull, history
<1>6. /\ db' \in [Issue -> Row] /\ wmOpen' \in [Project -> Mark]
      /\ wmFull' \in [Project -> Mark]
      /\ \A q \in Project : wmOpen'[q] <= now /\ wmFull'[q] <= now
  BY <1>4, <1>5, Facts DEF IInv, TypeOK, Clock
<1>8. \A i \in Issue : Truthful(db'[i], i)
  BY <1>5 DEF IInv, DbHonest
<1>7. ASSUME ~overlap PROVE DbSound' /\ Sound(job[p])'
  <2>1. Sound(j) /\ DbSound /\ \A i \in Issue : ~Pending(j, i)
    BY <1>1, <1>7, Facts DEF Pending
  <2>2. \A i \in Issue : Stored(j, i) <=> UpToDate(i)
    BY <1>1, IdleJob DEF Stored, ViewOf, UpToDate
  <2>3. ASSUME NEW i \in Issue, Claimed(i)' PROVE UpToDate(i)
    <3>1. CASE Claimed(i)
      BY <2>1, <3>1 DEF DbSound
    <3>2. CASE ~Claimed(i)
      <4>1. Owner[i] = Cur(j) /\ ~during[i]
        BY <1>4, <1>5, <2>3, <3>2, Numbers, Facts DEF Claimed
      <4>2. Owed(j, i)
        BY <1>1, <4>1 DEF Owed
      <4> QED
        BY <1>1, <2>1, <2>2, <4>2 DEF Sound, Covered
    <3> QED
      BY <3>1, <3>2
  <2>4. DbSound'
    BY <1>5, <2>3 DEF DbSound, UpToDate
  <2>5. job'[p] = k
    BY <1>1, <1>2 DEF IInv, TypeOK, Goto
  <2> QED
    BY <1>2, <2>4, <2>5, RestSoundAfter
<1> QED
  BY <1>1, <1>2, <1>3, <1>5, <1>6, <1>7, <1>8, RunStep

LEMMA UpdateScheduleStep ==
  ASSUME NEW p \in Proc PROVE IInv /\ UpdateSchedule(p) => IInv'
<1> SUFFICES ASSUME IInv, UpdateSchedule(p) PROVE IInv'
  OBVIOUS
<1> DEFINE j == job[p]
           k == [j EXCEPT !.pc = "mark"]
<1>1. /\ j \in Job /\ Shape(j) /\ j.pc = "snapshot" /\ j.phase # "none" /\ j.run # "none"
      /\ Goto(p, k) /\ Cur(j) \in Project
  BY Facts DEF UpdateSchedule, Shape
<1>2. k \in Job
  <2>1. "mark" \in Places
    BY DEF Places
  <2> QED
    BY <1>1, <2>1, JobFields
<1>3. /\ k.pc = "mark" /\ k.run = j.run /\ k.phase = j.phase /\ k.todo = j.todo
      /\ k.item = j.item /\ k.began = j.began /\ k.staged = j.staged
  BY <1>1 DEF Job
<1> HIDE DEF k
<1>4. Shape(k)
  BY <1>1, <1>3 DEF Shape
<1>5. ASSUME ~overlap PROVE Sound(k)
  <2>1. Sound(j) /\ \A l \in Issue : ~Pending(j, l)
    BY <1>1, <1>5, Facts DEF Pending
  <2>2. \A l \in Issue : Stored(j, l) => Stored(k, l)
    BY <1>1, <1>2, <1>3, SameViews
  <2> QED
    BY <1>1, <1>2, <1>3, <2>1, <2>2, PassGoesOn
<1>6. refreshed' \in Seq(Project)
  <2>1. RemoveFirst(refreshed, Cur(j)) \in Seq(Project)
    BY <1>1, Facts, Removed
  <2>2. refreshed' = Append(RemoveFirst(refreshed, Cur(j)), Cur(j))
    BY DEF UpdateSchedule
  <2> QED
    BY <1>1, <2>1, <2>2
<1>7. /\ UNCHANGED Fixed /\ failed' \in [Project -> BOOLEAN]
      /\ orphans' \in Nat /\ changes' \in Nat /\ faults' \in Nat
  BY Facts DEF UpdateSchedule, Fixed, marks, history, bounds
<1> QED
  BY <1>1, <1>2, <1>3, <1>4, <1>5, <1>6, <1>7, JobStep
-----------------------------------------------------------------------------
(* What goes wrong, the clock and the world *)

\* An open pass is over, or has failed, and its session goes on or is lost.
LEMMA OnwardStep ==
  ASSUME IInv, NEW p \in Proc, NEW s, s \in {job[p].staged, Idle.staged},
         job[p].run # "none", job[p].todo # {}, Goto(p, AfterOpen(job[p], s)),
         UNCHANGED Fixed, refreshed' \in Seq(Project), failed' \in [Project -> BOOLEAN],
         orphans' \in Nat, changes' \in Nat, faults' \in Nat
  PROVE  IInv'
<1> DEFINE k == AfterOpen(job[p], s)
<1>1. s \in [Issue -> Row]
  BY Facts, JobTypes, IdleJob
<1>2. /\ k \in Job /\ Shape(k) /\ k.run = job[p].run /\ k.phase = "none"
      /\ k.staged \in {job[p].staged, Idle.staged} /\ Goto(p, k) /\ k.pc # "store"
  BY <1>1, Facts, Onward
<1> HIDE DEF k
<1>3. ASSUME ~overlap PROVE Sound(k)
  <2>1. CASE k.staged = job[p].staged
    <3>1. Kept(job[p]) /\ job[p] \in Job
      BY <1>3, Facts DEF Sound
    <3>2. Kept(k)
      BY <1>2, <2>1, <3>1, SameViews DEF Kept
    <3> QED
      BY <1>2, <3>2 DEF Sound, Marked, Covered
  <2>2. CASE k.staged = Idle.staged
    BY <1>2, <1>3, <2>2, Facts, RestSound
  <2> QED
    BY <1>2, <2>1, <2>2
<1> QED
  BY <1>2, <1>3, JobStep

\* A pass fails, with or without its session.
LEMMA RecordStep ==
  ASSUME IInv, NEW p \in Proc, NEW s, s \in {job[p].staged, Idle.staged},
         job[p].run # "none", job[p].todo # {}, Record(p, s),
         UNCHANGED Fixed, refreshed' \in Seq(Project),
         orphans' \in Nat, changes' \in Nat, faults' \in Nat
  PROVE  IInv'
<1>1. CASE job[p].phase = "open"
  <2>1. Goto(p, AfterOpen(job[p], s)) /\ failed' \in [Project -> BOOLEAN]
    BY <1>1, Facts DEF Record
  <2> QED
    BY <2>1, OnwardStep
<1>2. CASE job[p].phase # "open"
  <2> DEFINE rest == job[p].todo \ {Cur(job[p])}
  <2>1. /\ rest \in SUBSET Project /\ Goto(p, Leave(job[p], rest))
        /\ failed' \in [Project -> BOOLEAN]
    BY <1>2, Facts, JobTypes DEF Record, NextProject
  <2> QED
    BY <2>1, LeaveStep
<1> QED
  BY <1>1, <1>2

LEMMA StopStep ==
  ASSUME IInv, NEW p \in Proc, job[p].run # "none", Goto(p, Stop(job[p])),
         UNCHANGED Fixed, refreshed' \in Seq(Project), failed' \in [Project -> BOOLEAN],
         orphans' \in Nat, changes' \in Nat, faults' \in Nat
  PROVE  IInv'
<1>1. {} \in SUBSET Project /\ Goto(p, Leave(job[p], {}))
  BY DEF Stop
<1> QED
  BY <1>1, LeaveStep

LEMMA BrokeStep ==
  ASSUME IInv, NEW p \in Proc, job[p].run # "none", job[p].todo # {}, Broke(p),
         UNCHANGED Fixed, refreshed' \in Seq(Project),
         orphans' \in Nat, changes' \in Nat, faults' \in Nat
  PROVE  IInv'
<1>1. CASE Goto(p, Stop(job[p])) /\ UNCHANGED failed
  BY <1>1, Facts, StopStep
<1>2. CASE Record(p, Idle.staged)
  BY <1>2, RecordStep
<1> QED
  BY <1>1, <1>2 DEF Broke

\* A pass that is tried again lists again from where it began; what it has
\* stored is still in its session.
LEMMA RetryStep ==
  ASSUME IInv, NEW p \in Proc, AsksGitHub(job[p]),
         job[p].attempt < Attempts, Goto(p, Call([job[p] EXCEPT !.attempt = @ + 1])),
         UNCHANGED Fixed, refreshed' \in Seq(Project), failed' \in [Project -> BOOLEAN],
         orphans' \in Nat, changes' \in Nat, faults' \in Nat
  PROVE  IInv'
<1> DEFINE j == job[p]
           m == [j EXCEPT !.attempt = @ + 1]
           k == Call(m)
<1>1. j \in Job /\ Shape(j) /\ j.phase # "none" /\ j.run # "none" /\ j.todo # {}
  BY Facts DEF Shape, AsksGitHub
<1>2. m \in Job
  <2>1. j.attempt + 1 \in 1..Attempts
    BY <1>1, JobTypes, Numbers
  <2> QED
    BY <1>1, <2>1, JobFields
<1>3. /\ m.run = j.run /\ m.staged = j.staged /\ m.todo = j.todo /\ m.phase = j.phase
      /\ m.since = j.since /\ m.began = j.began
  BY <1>1 DEF Job
<1> HIDE DEF m
<1>4. /\ k \in Job /\ k.pc = "list" /\ k.cursor = MaxTime /\ k.seen = {} /\ k.item = {}
      /\ k.run = j.run /\ k.staged = j.staged /\ k.todo = j.todo
      /\ k.phase = j.phase /\ k.since = j.since /\ k.began = j.began
  BY <1>2, <1>3, Called
<1>5. Goto(p, k)
  BY DEF m
<1> HIDE DEF k
<1>6. Shape(k)
  BY <1>1, <1>4 DEF Shape
<1>7. ASSUME ~overlap PROVE Sound(k)
  <2>1. Sound(j)
    BY <1>7, Facts
  <2>2. \A l \in Issue : Stored(j, l) => Stored(k, l)
    BY <1>1, <1>4, SameViews
  <2>3. ASSUME NEW l \in Issue, Pending(j, l) PROVE Pending(k, l)
    <3>1. gh[l].at <= MaxTime
      BY Facts, Views, Numbers DEF Time
    <3> QED
      BY <1>4, <2>3, <3>1 DEF Pending
  <2> QED
    BY <1>1, <1>4, <2>1, <2>2, <2>3, PassGoesOn
<1> QED
  BY <1>1, <1>4, <1>5, <1>6, <1>7, JobStep

LEMMA FailStep ==
  ASSUME NEW p \in Proc PROVE IInv /\ Fail(p) => IInv'
<1> SUFFICES ASSUME IInv, Fail(p) PROVE IInv'
  OBVIOUS
<1>1. /\ UNCHANGED Fixed /\ refreshed' \in Seq(Project)
      /\ orphans' \in Nat /\ changes' \in Nat /\ faults' \in Nat
  BY Faulty, Facts DEF Fail
<1>2. AsksGitHub(job[p]) /\ job[p].run # "none" /\ job[p].todo # {}
  BY Facts DEF Fail, Shape, AsksGitHub
<1>3. CASE job[p].attempt < Attempts
  <2>1. /\ Goto(p, Call([job[p] EXCEPT !.attempt = @ + 1]))
        /\ failed' \in [Project -> BOOLEAN]
    BY <1>3, Facts DEF Fail
  <2> QED
    BY <1>1, <1>2, <1>3, <2>1, RetryStep
<1>4. CASE Record(p, job[p].staged)
  BY <1>1, <1>2, <1>4, RecordStep
<1> QED
  BY <1>3, <1>4 DEF Fail

LEMMA SnapshotFailsStep ==
  ASSUME NEW p \in Proc PROVE IInv /\ SnapshotFails(p) => IInv'
<1> SUFFICES ASSUME IInv, SnapshotFails(p) PROVE IInv'
  OBVIOUS
<1>1. /\ UNCHANGED Fixed /\ refreshed' \in Seq(Project)
      /\ orphans' \in Nat /\ changes' \in Nat /\ faults' \in Nat
  BY Faulty, Facts DEF SnapshotFails
<1>2. job[p].run # "none" /\ job[p].todo # {} /\ Record(p, job[p].staged)
  BY Facts DEF SnapshotFails, Shape
<1> QED
  BY <1>1, <1>2, RecordStep

LEMMA BreakStep ==
  ASSUME NEW p \in Proc PROVE IInv /\ Break(p) => IInv'
<1> SUFFICES ASSUME IInv, Break(p) PROVE IInv'
  OBVIOUS
<1>1. /\ UNCHANGED Fixed /\ refreshed' \in Seq(Project)
      /\ orphans' \in Nat /\ changes' \in Nat /\ faults' \in Nat
  BY Faulty, Facts DEF Break
<1>2. job[p].run # "none" /\ job[p].todo # {} /\ Broke(p)
  BY Facts DEF Break, Shape
<1> QED
  BY <1>1, <1>2, BrokeStep

LEMMA DeadlockStep ==
  ASSUME NEW p \in Proc PROVE IInv /\ Deadlock(p) => IInv'
<1> SUFFICES ASSUME IInv, Deadlock(p) PROVE IInv'
  OBVIOUS
<1>1. /\ UNCHANGED Fixed /\ refreshed' \in Seq(Project)
      /\ orphans' \in Nat /\ changes' \in Nat /\ faults' \in Nat
  BY Facts DEF Deadlock, Fixed, marks, history, bounds
<1>2. job[p].pc \in {"store", "close"}
  BY DEF Deadlock, Stuck, Wants
<1>3. job[p].run # "none" /\ job[p].todo # {} /\ Broke(p)
  BY <1>2, Facts DEF Deadlock, Shape
<1> QED
  BY <1>1, <1>3, BrokeStep

LEMMA RateLimitedStep ==
  ASSUME NEW p \in Proc PROVE IInv /\ RateLimited(p) => IInv'
<1> SUFFICES ASSUME IInv, RateLimited(p) PROVE IInv'
  OBVIOUS
<1>1. /\ UNCHANGED Fixed /\ refreshed' \in Seq(Project) /\ failed' \in [Project -> BOOLEAN]
      /\ orphans' \in Nat /\ changes' \in Nat /\ faults' \in Nat
  BY Faulty, Facts DEF RateLimited, schedule
<1>2. job[p].run # "none" /\ Goto(p, Stop(job[p]))
  BY Facts DEF RateLimited, Shape, AsksGitHub
<1> QED
  BY <1>1, <1>2, StopStep

LEMMA CrashStep ==
  ASSUME NEW p \in Proc PROVE IInv /\ Crash(p) => IInv'
<1> SUFFICES ASSUME IInv, Crash(p) PROVE IInv'
  OBVIOUS
<1>1. /\ UNCHANGED Fixed /\ refreshed' \in Seq(Project) /\ failed' \in [Project -> BOOLEAN]
      /\ orphans' \in Nat /\ changes' \in Nat /\ faults' \in Nat
  BY Faulty, Facts DEF Crash, schedule
<1> QED
  BY <1>1, GoneStep DEF Crash

LEMMA RunAgesStep ==
  ASSUME NEW p \in Proc PROVE IInv /\ RunAges(p) => IInv'
<1> SUFFICES ASSUME IInv, RunAges(p) PROVE IInv'
  OBVIOUS
<1> DEFINE j == job[p]
           k == [j EXCEPT !.run = "stale"]
<1>1. /\ UNCHANGED Fixed /\ refreshed' \in Seq(Project) /\ failed' \in [Project -> BOOLEAN]
      /\ orphans' \in Nat /\ changes' \in Nat /\ faults' \in Nat
  BY Faulty, Facts DEF RunAges, schedule
<1>2. j \in Job /\ Shape(j) /\ j.run # "none" /\ Goto(p, k)
  BY Facts DEF RunAges
<1>3. k \in Job
  BY <1>2, JobFields
<1>4. k = [j EXCEPT !.run = "stale"]
  OBVIOUS
<1>5. /\ k.pc = j.pc /\ k.run = "stale" /\ k.phase = j.phase /\ k.todo = j.todo
      /\ k.item = j.item /\ k.began = j.began /\ k.staged = j.staged
      /\ k.since = j.since /\ k.seen = j.seen /\ k.cursor = j.cursor
      /\ k.stamp = j.stamp /\ k.closing = j.closing /\ k.row = j.row
  BY <1>2 DEF Job
<1> HIDE DEF k
<1>6. Cur(k) = Cur(j)
  BY <1>5 DEF Cur
<1>7. Shape(k)
  BY <1>2, <1>5, <1>6 DEF Shape
<1>8. ASSUME ~overlap PROVE Sound(k)
  <2>1. Sound(j)
    BY <1>8, Facts
  <2>2. \A l \in Issue : Stored(j, l) <=> Stored(k, l)
    BY <1>2, <1>3, <1>5, SameViews
  <2>3. \A l \in Issue : (Pending(j, l) <=> Pending(k, l)) /\ (Owed(j, l) <=> Owed(k, l))
    BY <1>5, <1>6 DEF Pending, Owed
  <2> QED
    BY <1>5, <1>6, <2>1, <2>2, <2>3 DEF Sound, Kept, Marked, Covered
<1>9. Honest(k)
  BY <1>5, Facts DEF Honest
<1> QED
  BY <1>1, <1>2, <1>3, <1>7, <1>8, <1>9, JobStep

LEMMA TickStep == IInv /\ Tick => IInv'
<1> SUFFICES ASSUME IInv, Tick PROVE IInv'
  OBVIOUS
<1>1. /\ UNCHANGED <<gh, db, wmOpen, wmFull, refreshed, failed, job, orphans, overlap>>
      /\ UNCHANGED <<during, changes, faults>>
  BY DEF Tick, marks, schedule, history, bounds
<1>2. now' \in Time /\ \A t \in Mark : t <= now => t <= now'
  BY Numbers DEF Tick, IInv, TypeOK, Time
<1>3. TypeOK'
  BY <1>1, <1>2 DEF IInv, TypeOK
<1>4. Clock'
  <2>1. /\ \A i \in Issue : gh[i].at \in Mark
        /\ \A q \in Project : wmOpen[q] \in Mark /\ wmFull[q] \in Mark
    BY States DEF IInv, TypeOK
  <2> QED
    BY <1>1, <1>2, <2>1 DEF IInv, Clock
<1>5. ASSUME NEW p \in Proc PROVE Shape(job[p])'
  <2>1. job[p].began \in Mark /\ job[p].stamp \in Mark /\ Shape(job[p])
    BY Facts, JobTypes
  <2> QED
    BY <1>1, <1>2, <2>1 DEF Shape
<1>7. \A r \in Row : \A i \in Issue : Truthful(r, i) => Truthful(r, i)'
  BY <1>1, <1>2, Rows DEF Truthful
<1>8. DbHonest'
  BY <1>1, <1>7 DEF IInv, TypeOK, DbHonest
<1>9. ASSUME NEW p \in Proc PROVE Honest(job[p])'
  <2>1. job[p].staged \in [Issue -> Row] /\ job[p].row \in Row /\ job[p].item \in SUBSET Issue
        /\ Honest(job[p]) /\ job' = job /\ during' = during /\ gh' = gh
    BY <1>1, Facts, JobTypes
  <2>2. \A i \in Issue : Truthful(job[p].staged[i], i)'
    BY <1>7, <2>1 DEF Honest
  <2>3. job[p].pc = "store" => \A i \in job[p].item : Truthful(job[p].row, i)'
    BY <1>7, <2>1 DEF Honest
  <2> QED
    BY <2>1, <2>2, <2>3 DEF Honest
<1>6. ~overlap => Alone'
  BY <1>1 DEF IInv, Alone, OneRun, DbSound, UpToDate, Sound, Kept, Marked, Covered, Claimed,
     Stored, ViewOf, Owed, Pending
<1> QED
  BY <1>1, <1>3, <1>4, <1>5, <1>6, <1>8, <1>9 DEF IInv

LEMMA OrphanAgesStep == IInv /\ OrphanAges => IInv'
<1> SUFFICES ASSUME IInv, OrphanAges PROVE IInv'
  OBVIOUS
<1>1. /\ UNCHANGED <<now, gh, db, wmOpen, wmFull, refreshed, failed, job, overlap>>
      /\ UNCHANGED <<during, changes, faults>>
  BY DEF OrphanAges, marks, schedule, history, bounds
<1>2. orphans' \in Nat
  BY DEF OrphanAges, Expire, IInv, TypeOK
<1>3. TypeOK'
  BY <1>1, <1>2 DEF IInv, TypeOK
<1>4. Clock' /\ \A p \in Proc : Shape(job[p])'
  BY <1>1 DEF IInv, Clock, Shape
<1>6. DbHonest' /\ \A p \in Proc : Honest(job[p])'
  BY <1>1 DEF IInv, DbHonest, Honest, Truthful
<1>5. ~overlap => Alone'
  BY <1>1 DEF IInv, Alone, OneRun, DbSound, UpToDate, Sound, Kept, Marked, Covered, Claimed,
     Stored, ViewOf, Owed, Pending
<1> QED
  BY <1>1, <1>3, <1>4, <1>5, <1>6 DEF IInv

\* What changes now is younger than every watermark and every pass.
LEMMA ChangeStep ==
  ASSUME NEW x \in Issue, NEW open \in BOOLEAN PROVE IInv /\ Change(x, open) => IInv'
<1> SUFFICES ASSUME IInv, Change(x, open) PROVE IInv'
  OBVIOUS
<1>1. /\ UNCHANGED <<now, db, wmOpen, wmFull, refreshed, failed, job, orphans, overlap>>
      /\ UNCHANGED faults /\ changes' \in Nat
  BY DEF Change, marks, schedule, IInv, TypeOK
<1> DEFINE row == [open |-> open, at |-> now, version |-> gh[x].version + 1]
<1>2. row \in State /\ row.at = now /\ now \in Time
  <2>1. gh[x] \in State /\ now \in Time
    BY DEF IInv, TypeOK
  <2>2. gh[x].version \in Version
    BY <2>1, States
  <2>3. gh[x].version + 1 \in Version
    BY <2>2 DEF Version, Never
  <2> QED
    BY <2>1, <2>3 DEF State
<1>3. gh' = [gh EXCEPT ![x] = row]
  BY DEF Change, IInv, TypeOK
<1> HIDE DEF row
<1>4. /\ gh' \in [Issue -> State] /\ gh'[x].at = now
      /\ \A i \in Issue : i # x => gh'[i] = gh[i] /\ during'[i] = during[i]
      /\ during' \in [Issue -> BOOLEAN]
      /\ during'[x] = (\E p \in Proc : job[p].phase = "full" /\ Cur(job[p]) = Owner[x])
  BY <1>2, <1>3 DEF Change, IInv, TypeOK
<1>5. TypeOK'
  BY <1>1, <1>4 DEF IInv, TypeOK
<1>6. now \in Int /\ now <= now
  BY <1>2, Numbers
<1>7. Clock'
  BY <1>1, <1>4, <1>6 DEF IInv, Clock
<1>8. \A p \in Proc : Shape(job[p])'
  BY <1>1 DEF IInv, Shape
<1>10. \A r \in Row : \A i \in Issue : Truthful(r, i) => Truthful(r, i)'
  <2>1. ASSUME NEW r \in Row, NEW i \in Issue, Truthful(r, i) PROVE Truthful(r, i)'
    <3>1. CASE i = x
      <4>1. r.at \in Int /\ r.at <= now
        BY <2>1, Rows DEF Truthful
      <4>2. r.at >= gh'[x].at => r.at = gh'[x].at
        BY <1>4, <1>6, <4>1
      <4> QED
        BY <1>1, <3>1, <4>1, <4>2 DEF Truthful
    <3>2. CASE i # x
      BY <1>1, <1>4, <2>1, <3>2 DEF Truthful
    <3> QED
      BY <3>1, <3>2
  <2> QED
    BY <2>1
<1>11. DbHonest'
  BY <1>1, <1>10 DEF IInv, TypeOK, DbHonest
<1>12. ASSUME NEW p \in Proc PROVE Honest(job[p])'
  <2> DEFINE j == job[p]
  <2>1. /\ j.staged \in [Issue -> Row] /\ j.row \in Row /\ j.item \in SUBSET Issue
        /\ Honest(j) /\ Shape(j) /\ job' = job
    BY <1>1, Facts, JobTypes
  <2>2. \A i \in Issue : Truthful(j.staged[i], i)'
    BY <1>1, <1>10, <2>1 DEF Honest
  <2>3. ASSUME j.pc = "store", NEW i \in j.item
        PROVE  /\ Truthful(j.row, i)'
               /\ j.phase = "full" /\ ~during'[i] => j.row.at >= gh'[i].at
    <3>4. i \in Issue /\ Truthful(j.row, i)
      BY <2>1, <2>3 DEF Honest
    <3>5. j.phase = "full" /\ ~during[i] => j.row.at >= gh[i].at
      BY <2>1, <2>3 DEF Honest
    <3>1. Truthful(j.row, i)'
      BY <1>10, <2>1, <3>4
    <3>2. CASE i = x
      <4>1. j.phase = "full" => during'[x]
        BY <1>4, <2>1, <2>3, <3>2 DEF Shape, Of
      <4> QED
        BY <3>1, <3>2, <4>1
    <3>3. CASE i # x
      BY <1>4, <3>1, <3>3, <3>4, <3>5
    <3> QED
      BY <3>2, <3>3
  <2> QED
    BY <2>1, <2>2, <2>3 DEF Honest
<1>9. ASSUME ~overlap PROVE Alone'
  <2>1. ~Claimed(x)'
    <3>1. /\ wmOpen[Owner[x]] <= now /\ wmFull[Owner[x]] <= now
          /\ wmOpen[Owner[x]] \in Int /\ wmFull[Owner[x]] \in Int
      <4>1. Owner[x] \in Project /\ \A t \in Mark : t \in Int
        BY Numbers
      <4> QED
        BY <4>1 DEF IInv, TypeOK, Clock
    <3> QED
      BY <1>1, <1>4, <1>6, <3>1 DEF Claimed
  <2>2. \A i \in Issue : i # x => (Claimed(i)' <=> Claimed(i))
    BY <1>1, <1>4 DEF Claimed
  <2>3. OneRun'
    BY <1>1, <1>9 DEF IInv, Alone, OneRun
  <2>4. DbSound'
    BY <1>1, <1>4, <1>9, <2>1, <2>2 DEF IInv, Alone, DbSound, UpToDate
  <2>5. ASSUME NEW p \in Proc PROVE Sound(job[p])'
    <3> DEFINE j == job[p]
    <3>1. j \in Job /\ Shape(j) /\ Sound(j) /\ job' = job
      BY <1>1, <1>9, Facts
    <3>2. \A i \in Issue : i # x => (Stored(j, i)' <=> Stored(j, i))
      BY <1>1, <1>4 DEF Stored, ViewOf
    <3>3. Kept(j)'
      BY <2>1, <2>2, <3>1, <3>2 DEF Sound, Kept
    <3>4. Marked(j)'
      BY <1>1, <3>1 DEF Sound, Marked, Cur
    <3>5. j.phase # "none" => ~Owed(j, x)'
      <4>1. CASE j.phase = "open"
        <5>1. j.began <= now /\ j.began \in Int
          <6>1. j.began \in Mark /\ \A t \in Mark : t \in Int
            BY <3>1, JobTypes, Numbers
          <6> QED
            BY <3>1, <6>1 DEF Shape
        <5> QED
          BY <1>1, <1>4, <1>6, <4>1, <5>1 DEF Owed
      <4>2. CASE j.phase = "full"
        BY <1>1, <1>4, <4>2 DEF Owed, Cur
      <4> QED
        BY <3>1, <4>1, <4>2, JobTypes
    <3>6. \A i \in Issue : i # x => /\ Owed(j, i)' <=> Owed(j, i)
                                    /\ Pending(j, i)' <=> Pending(j, i)
      BY <1>1, <1>4 DEF Owed, Pending, Cur
    <3>7. Covered(j)'
      BY <1>1, <3>1, <3>2, <3>5, <3>6 DEF Sound, Covered
    <3> QED
      BY <3>3, <3>4, <3>7 DEF Sound
  <2> QED
    BY <2>3, <2>4, <2>5 DEF Alone
<1> QED
  BY <1>1, <1>5, <1>7, <1>8, <1>9, <1>11, <1>12 DEF IInv
-----------------------------------------------------------------------------
(* The theorems *)

LEMMA Begins == Init => IInv
<1> SUFFICES ASSUME Init PROVE IInv
  OBVIOUS
<1>1. \A i \in Issue : gh[i] \in State /\ gh[i].at <= 0
  <2>1. ASSUME NEW s \in {None} \cup [open : BOOLEAN, at : {0}, version : {0}]
        PROVE  s \in State /\ s.at <= 0
    <3>1. CASE s = None
      BY <3>1, States
    <3>2. CASE s \in [open : BOOLEAN, at : {0}, version : {0}]
      <4>1. s.at = 0 /\ 0 \in Version
        BY <3>2 DEF Version
      <4> QED
        BY <3>2, <4>1, Numbers DEF State
    <3> QED
      BY <2>1, <3>1, <3>2
  <2> QED
    BY <2>1 DEF Init
<1>2. gh \in [Issue -> State]
  BY <1>1 DEF Init
<1>3. TypeOK
  <2>1. now \in Time /\ db \in [Issue -> Row] /\ job \in [Proc -> Job]
    BY Numbers, Rows, IdleJob DEF Init
  <2>2. wmOpen \in [Project -> Mark] /\ wmFull \in [Project -> Mark]
    BY Numbers DEF Init
  <2>3. refreshed \in Seq(Project) /\ orphans \in Nat /\ changes \in Nat /\ faults \in Nat
    BY DEF Init
  <2>4. /\ failed \in [Project -> BOOLEAN] /\ during \in [Issue -> BOOLEAN]
        /\ overlap \in BOOLEAN
    BY DEF Init
  <2> QED
    BY <1>2, <2>1, <2>2, <2>3, <2>4 DEF TypeOK
<1>4. Clock
  BY <1>1, Numbers DEF Init, Clock
<1>5. \A p \in Proc : job[p] = Idle
  BY DEF Init
<1>6. Shape(Idle)
  BY IdleJob DEF Shape, Init
<1>10. \A i \in Issue : Truthful(NoRow, i)
  <2>1. \A i \in Issue : gh[i].at \in Int /\ gh[i].at >= -1
    BY <1>1, States
  <2> QED
    BY <2>1, Rows DEF Truthful, Init
<1>11. DbHonest /\ Honest(Idle)
  BY <1>10, IdleJob DEF Init, DbHonest, Honest
<1>7. DbSound
  BY <1>1, States, Rows, Numbers DEF Init, DbSound, Claimed, UpToDate
<1>8. Sound(Idle)
  BY <1>7, IdleJob, RestSound
<1>9. OneRun
  BY <1>5, IdleJob DEF OneRun
<1> QED
  BY <1>3, <1>4, <1>5, <1>6, <1>7, <1>8, <1>9, <1>11 DEF IInv, Alone

LEMMA Proceeds ==
  ASSUME NEW p \in Proc PROVE IInv /\ Proceed(p) => IInv'
BY GuardPassStep, GuardAbortStep, CreateRunStep, FinishRunStep, BeginOpenStep, BeginFullStep,
   NotDueStep, ServeStep, PayloadStep, StoreStep, ListedStep, ReconcileStep, AnsweredStep,
   CloseStep, CommitStep, MarkOpenStep, UpdateScheduleStep, MarkFullStep, DeadlockStep DEF Proceed

LEMMA Invariance == Spec => []IInv
<1>1. IInv /\ [Next]_vars => IInv'
  <2> SUFFICES ASSUME IInv, [Next]_vars PROVE IInv'
    OBVIOUS
  <2>1. ASSUME NEW p \in Proc,
               \/ Begin(p) \/ Proceed(p) \/ Fail(p) \/ PayloadFails(p)
               \/ SnapshotFails(p) \/ Break(p) \/ RateLimited(p) \/ Crash(p) \/ RunAges(p)
        PROVE  IInv'
    <3>1. CASE Begin(p)
      BY <3>1, StartStep DEF Begin
    <3>2. CASE Proceed(p)
      BY <3>2, Proceeds
    <3> QED
      BY <2>1, <3>1, <3>2, FailStep, PayloadFailsStep, SnapshotFailsStep, BreakStep, RateLimitedStep, CrashStep,
         RunAgesStep
  <2>2. CASE Tick
    BY <2>2, TickStep
  <2>3. CASE OrphanAges
    BY <2>3, OrphanAgesStep
  <2>4. ASSUME NEW i \in Issue, NEW open \in BOOLEAN, Change(i, open) PROVE IInv'
    BY <2>4, ChangeStep
  <2>5. CASE UNCHANGED vars
    <3>1. UNCHANGED <<now, gh, db, wmOpen, wmFull, refreshed, failed, job, orphans>>
      BY <2>5 DEF vars, marks, schedule
    <3>2. UNCHANGED <<overlap, during, changes, faults>>
      BY <2>5 DEF vars, history, bounds
    <3>3. TypeOK' /\ Clock' /\ \A p \in Proc : Shape(job[p])'
      BY <3>1, <3>2 DEF IInv, TypeOK, Clock, Shape
    <3>4. DbHonest' /\ \A p \in Proc : Honest(job[p])'
      BY <3>1, <3>2 DEF IInv, DbHonest, Honest, Truthful
    <3>5. ~overlap => Alone'
      BY <3>1, <3>2 DEF IInv, Alone, OneRun, DbSound, UpToDate, Sound, Kept, Marked, Covered,
         Claimed, Stored, ViewOf, Owed, Pending
    <3> QED
      BY <3>2, <3>3, <3>4, <3>5 DEF IInv
  <2> QED
    BY <2>1, <2>2, <2>3, <2>4, <2>5 DEF Next
<1> QED
  BY <1>1, Begins, PTL DEF Spec

\* Every variable of the collection keeps its type; a call of collect_issues is
\* tried no more often than _GITHUB_RETRY_ATTEMPTS says, and the rotation goes
\* over projects that there are.
THEOREM TypeCorrect == Spec => []TypeOK
<1>1. IInv => TypeOK
  BY DEF IInv
<1> QED
  BY <1>1, Invariance, PTL

\* What a row is worth whose stamp is not older than the last change.
LEMMA Worth ==
  ASSUME IInv, NEW i \in Issue, UpToDate(i)
  PROVE  Fetched(i) \/ Skipped(i)
BY DEF IInv, DbHonest, Truthful, UpToDate, Fetched, Skipped

\* As long as runs do not overlap, the watermark of the open sweep never gets
\* ahead of what the table holds, whatever fails, is retried or rolled back:
\* an older open issue is in the table as it is on GitHub, but for those whose
\* row was stamped later than it was served (Skipped).
THEOREM OpenSweepMissesNothing == Spec => []OpenWatermarkSound
<1>1. IInv => OpenWatermarkSound
  BY Worth DEF IInv, Alone, DbSound, Claimed, OpenWatermarkSound
<1> QED
  BY <1>1, Invariance, PTL

\* As long as runs do not overlap, what the watermark of the full pass leaves
\* behind has changed while such a pass was under way, or is passed over for
\* its stamp (Skipped).
THEOREM FullPassGap == Spec => []FullWatermarkGap
<1>1. IInv => FullWatermarkGap
  BY Worth DEF IInv, Alone, DbSound, Claimed, FullWatermarkGap
<1> QED
  BY <1>1, Invariance, PTL
=============================================================================
