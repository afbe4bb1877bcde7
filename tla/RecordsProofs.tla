---------------------------- MODULE RecordsProofs ----------------------------
(***************************************************************************)
(* What MCRecords keeps of the stored evaluations, of the list of issues,  *)
(* of the tokens and of the backfill scripts, for any number of issues,    *)
(* submissions, pages, secrets and rows.  The four parts share no          *)
(* variable: each has an inductive invariant of its own, RecordsInv,       *)
(* ListInv, TokensInv and ScriptInv, and IInv is all of them.              *)
(***************************************************************************)
EXTENDS MCRecords, SequenceTheorems, NaturalsInduction, WellFoundedInduction,
        FiniteSetTheorems, TLAPS

\* The order of numbers, in the form in which the library has it.
LEMMA NatOrder == OpToRel(<, Nat) = {ss \in Nat \X Nat : ss[1] < ss[2]}
BY DEF OpToRel

LEMMA TimesOrder ==
  ASSUME NEW a \in Int, NEW b \in Int, NEW c \in Nat, a <= b
  PROVE  a * c \in Int /\ b * c \in Int /\ a * c <= b * c
OBVIOUS

LEMMA MinIn ==
  ASSUME NEW S \in SUBSET Nat, S # {}
  PROVE  /\ Min(S) \in S
         /\ \A y \in S : Min(S) <= y
<1> DEFINE R == {ss \in Nat \X Nat : ss[1] < ss[2]}
<1>1. PICK x \in S : \A y \in S : ~(<<y, x>> \in R)
  BY WFMin, NatLessThanWellFounded, NatOrder
<1>2. \A y \in S : x <= y
  <2> SUFFICES ASSUME NEW y \in S, ~(x <= y) PROVE FALSE
    OBVIOUS
  <2>1. x \in Nat /\ y \in Nat /\ y < x
    OBVIOUS
  <2>2. <<y, x>> \in R
    BY <2>1
  <2> QED
    BY <1>1, <2>2
<1> QED
  BY <1>2 DEF Min

LEMMA MaxIn ==
  ASSUME NEW n \in Nat, NEW S \in SUBSET (0..n), S # {}
  PROVE  /\ Max(S) \in S
         /\ \A y \in S : y <= Max(S)
<1> DEFINE T == {n - y : y \in S}
           x == n - Min(T)
<1>1. T \in SUBSET Nat /\ T # {}
  <2>1. \A y \in S : y \in 0..n /\ n - y \in Nat
    OBVIOUS
  <2> QED
    BY <2>1
<1>2. Min(T) \in T /\ \A y \in T : Min(T) <= y
  BY <1>1, MinIn
<1> HIDE DEF x
<1>3. x \in S
  <2>1. PICK y \in S : Min(T) = n - y
    BY <1>2
  <2>2. y \in 0..n
    OBVIOUS
  <2>3. x = y
    BY <2>1, <2>2 DEF x
  <2> QED
    BY <2>3
<1>4. ASSUME NEW y \in S PROVE y <= x
  <2>1. n - y \in T /\ Min(T) \in Nat
    BY <1>1, <1>2
  <2>2. Min(T) <= n - y
    BY <1>2, <2>1
  <2> QED
    BY <2>1, <2>2 DEF x
<1> QED
  BY <1>3, <1>4 DEF Max

LEMMA MinOfTwo ==
  ASSUME NEW a \in Int, NEW b \in Int
  PROVE  Min({a, b}) \in Int /\ Min({a, b}) <= a /\ Min({a, b}) <= b
BY DEF Min

-----------------------------------------------------------------------------
(* Links, the daily cap, retention *)

\* In the module EvalRecords: rows are known by their ids, and an issue has one
\* current row.
Row == [id : Nat, issue : Issue, day : Nat, latest : BOOLEAN, embedded : BOOLEAN,
        transcript : BOOLEAN]

RowsSound(R, n, d) ==
    /\ R \subseteq Row /\ IsFiniteSet(R)
    /\ \A r \in R : r.id <= n /\ r.day <= d
    /\ \A q, r \in R : q.id = r.id => q = r
    /\ \A q, r \in R : q.latest /\ r.latest /\ q.issue = r.issue => q = r

LinksSound(L, R) ==
    /\ L \subseteq [row : Nat, ref : Issue, to : Issue \cup {Nowhere}]
    /\ \A l \in L : /\ l.to \in {Nowhere, l.ref}
                    /\ \E r \in R : r.id = l.row /\ r.issue # l.ref

\* What gc.py has selected is superseded, and stays so.
Selection(ids, R, n) ==
    /\ ids \subseteq Nat /\ \A x \in ids : x <= n
    /\ \A r \in R : r.id \in ids => ~r.latest

Current(E, R) ==
    \A i \in E : \E r \in R : r.issue = i /\ r.latest /\ r.embedded /\ r.transcript

OfDay(R, d) == {r \in R : r.day = d}

\* A sum at the cap has been noticed, or will be by the submission that made it
\* so.
Noticed(R) ==
    ~cleared /\ Cap > 0 /\ Cardinality(OfDay(R, today)) >= Cap /\ ~tripped
        => \E s \in Server : submit[s] = "stored"

GcPhase == {"idle", "transcripts", "embeddings", "clear", "delete", "remove"}

RecordsInv ==
    /\ today \in Nat /\ stored \in Nat /\ known \subseteq Issue
    /\ submit \in [Server -> {"idle", "stored"}]
    /\ gc \in [at : GcPhase, ids : SUBSET Nat, cutoff : Int]
    /\ RowsSound(rows, stored, today) /\ LinksSound(links, rows)
    /\ Selection(gc.ids, rows, stored) /\ Current(evaluated, rows) /\ Noticed(rows)

LEMMA RecordNumbers ==
  /\ IsFiniteSet(Issue) /\ Known \subseteq Issue /\ Nowhere \notin Issue
  /\ Cap \in Nat /\ Retention \in Nat /\ TranscriptRetention \in Nat
BY RecordsAssumption DEF RecordsAssumption

\* Every row is rewritten, and none gets current by it.
LEMMA Rewritten ==
  ASSUME NEW R, NEW n \in Nat, NEW d \in Nat, RowsSound(R, n, d), NEW g \in [R -> Row],
         \A r \in R : /\ g[r].id = r.id /\ g[r].issue = r.issue /\ g[r].day = r.day
                      /\ g[r].latest => r.latest
  PROVE  LET S == {g[r] : r \in R}
         IN  /\ RowsSound(S, n, d)
             /\ \A L : LinksSound(L, R) => LinksSound(L, S)
             /\ \A X : Selection(X, R, n) => Selection(X, S, n)
             /\ Cardinality(OfDay(S, d)) \in Nat /\ Cardinality(OfDay(R, d)) \in Nat
             /\ Cardinality(OfDay(S, d)) <= Cardinality(OfDay(R, d))
<1> DEFINE S == {g[r] : r \in R}
<1>1. S \subseteq Row /\ \A q \in S : \E r \in R : q = g[r]
  OBVIOUS
<1>2. IsFiniteSet(S)
  <2>1. IsFiniteSet(R) /\ g \in Surjection(R, S)
    BY DEF RowsSound, Surjection
  <2> QED
    BY <2>1, FS_Surjection
<1>3. RowsSound(S, n, d)
  <2>1. \A q \in S : q.id <= n /\ q.day <= d
    BY DEF RowsSound
  <2>2. ASSUME NEW p \in S, NEW q \in S, p.id = q.id PROVE p = q
    BY <2>2 DEF RowsSound
  <2>3. ASSUME NEW p \in S, NEW q \in S, p.latest, q.latest, p.issue = q.issue PROVE p = q
    <3>1. PICK a \in R : p = g[a]
      OBVIOUS
    <3>2. PICK b \in R : q = g[b]
      OBVIOUS
    <3>3. a.latest /\ b.latest /\ a.issue = b.issue
      BY <2>3, <3>1, <3>2
    <3>4. a = b
      BY <3>3 DEF RowsSound
    <3> QED
      BY <3>1, <3>2, <3>4
  <2> QED
    BY <1>1, <1>2, <2>1, <2>2, <2>3 DEF RowsSound
<1>4. ASSUME NEW L, LinksSound(L, R) PROVE LinksSound(L, S)
  <2> SUFFICES ASSUME NEW l \in L PROVE \E q \in S : q.id = l.row /\ q.issue # l.ref
    BY <1>4 DEF LinksSound
  <2>1. PICK r \in R : r.id = l.row /\ r.issue # l.ref
    BY <1>4 DEF LinksSound
  <2>2. g[r] \in S /\ g[r].id = l.row /\ g[r].issue # l.ref
    BY <2>1
  <2> QED
    BY <2>2
<1>5. ASSUME NEW X, Selection(X, R, n) PROVE Selection(X, S, n)
  BY <1>5 DEF Selection
<1>6. /\ Cardinality(OfDay(S, d)) \in Nat /\ Cardinality(OfDay(R, d)) \in Nat
      /\ Cardinality(OfDay(S, d)) <= Cardinality(OfDay(R, d))
  <2> DEFINE A == OfDay(R, d)
             B == OfDay(S, d)
             f == [r \in A |-> g[r]]
  <2>1. A \in SUBSET R /\ IsFiniteSet(R)
    BY DEF RowsSound, OfDay
  <2>2. IsFiniteSet(A)
    BY <2>1, FS_Subset
  <2>3. \A r \in A : g[r] \in B
    BY DEF OfDay
  <2>4. ASSUME NEW q \in B PROVE \E r \in A : f[r] = q
    BY DEF OfDay
  <2> HIDE DEF A, B
  <2>5. f \in Surjection(A, B)
    BY <2>3, <2>4 DEF Surjection
  <2>6. IsFiniteSet(B) /\ Cardinality(B) <= Cardinality(A)
    BY <2>2, <2>5, FS_Surjection
  <2> QED
    BY <2>2, <2>6, FS_CardinalityType DEF A, B
<1> QED
  BY <1>3, <1>4, <1>5, <1>6

LEMMA CountedOnDay ==
  ASSUME NEW R, NEW n, NEW d, RowsSound(R, n, d), NEW T \in SUBSET R, NEW c
  PROVE  /\ Cardinality(OfDay(T, c)) \in Nat /\ Cardinality(OfDay(R, c)) \in Nat
         /\ Cardinality(OfDay(T, c)) <= Cardinality(OfDay(R, c))
<1>1. IsFiniteSet(R) /\ OfDay(R, c) \in SUBSET R /\ OfDay(T, c) \in SUBSET OfDay(R, c)
  BY DEF RowsSound, OfDay
<1>2. IsFiniteSet(OfDay(R, c))
  BY <1>1, FS_Subset
<1>3. IsFiniteSet(OfDay(T, c)) /\ Cardinality(OfDay(T, c)) <= Cardinality(OfDay(R, c))
  BY <1>1, <1>2, FS_Subset
<1> QED
  BY <1>2, <1>3, FS_CardinalityType

\* Rows are deleted, and with them their links.
LEMMA Deletion ==
  ASSUME NEW R, NEW n \in Nat, NEW d \in Nat, RowsSound(R, n, d), NEW X
  PROVE  LET T == {r \in R : r.id \notin X}
         IN  /\ RowsSound(T, n, d)
             /\ \A L : LinksSound(L, R) => LinksSound({l \in L : l.row \notin X}, T)
             /\ \A Y : Selection(Y, R, n) => Selection(Y, T, n)
<1> DEFINE T == {r \in R : r.id \notin X}
<1>1. IsFiniteSet(T)
  <2>1. IsFiniteSet(R) /\ T \in SUBSET R
    BY DEF RowsSound
  <2> QED
    BY <2>1, FS_Subset
<1>2. RowsSound(T, n, d)
  BY <1>1 DEF RowsSound
<1>3. ASSUME NEW L, LinksSound(L, R) PROVE LinksSound({l \in L : l.row \notin X}, T)
  <2>1. ASSUME NEW l \in L, l.row \notin X PROVE \E r \in T : r.id = l.row /\ r.issue # l.ref
    <3>1. PICK r \in R : r.id = l.row /\ r.issue # l.ref
      BY <1>3 DEF LinksSound
    <3> QED
      BY <2>1, <3>1
  <2> QED
    BY <1>3, <2>1 DEF LinksSound
<1>4. \A Y : Selection(Y, R, n) => Selection(Y, T, n)
  BY DEF Selection
<1> QED
  BY <1>2, <1>3, <1>4

\* Fewer rows of today, and the same submissions.
LEMMA StillNoticed ==
  ASSUME Noticed(rows), cleared => cleared', UNCHANGED <<today, submit, tripped>>,
         Cardinality(OfDay(rows, today)) \in Nat, Cardinality(OfDay(rows', today)) \in Nat,
         Cardinality(OfDay(rows', today)) <= Cardinality(OfDay(rows, today))
  PROVE  Noticed(rows)'
BY RecordNumbers DEF Noticed

\* A statement that rewrites every row, and otherwise no more than what gc.py
\* is about.
LEMMA RewriteStep ==
  ASSUME RecordsInv, NEW g \in [rows -> Row], rows' = {g[r] : r \in rows},
         \A r \in rows : /\ g[r].id = r.id /\ g[r].issue = r.issue /\ g[r].day = r.day
                         /\ g[r].latest = r.latest
                         /\ r.latest => g[r].embedded = r.embedded /\ g[r].transcript = r.transcript,
         UNCHANGED <<today, known, links, submit, tripped, clears, cleared, evaluated, link, stored>>,
         gc' \in [at : GcPhase, ids : SUBSET Nat, cutoff : Int], Selection(gc'.ids, rows, stored)
  PROVE  RecordsInv'
<1>1. RowsSound(rows, stored, today) /\ today \in Nat /\ stored \in Nat
  BY DEF RecordsInv
<1> DEFINE S == {g[r] : r \in rows}
<1>2. /\ RowsSound(S, stored, today)
      /\ \A L : LinksSound(L, rows) => LinksSound(L, S)
      /\ \A X : Selection(X, rows, stored) => Selection(X, S, stored)
      /\ Cardinality(OfDay(S, today)) \in Nat /\ Cardinality(OfDay(rows, today)) \in Nat
      /\ Cardinality(OfDay(S, today)) <= Cardinality(OfDay(rows, today))
  BY <1>1, Rewritten
<1>3. Current(evaluated, S)
  <2> SUFFICES ASSUME NEW i \in evaluated
               PROVE  \E q \in S : q.issue = i /\ q.latest /\ q.embedded /\ q.transcript
    BY DEF Current
  <2>1. PICK r \in rows : r.issue = i /\ r.latest /\ r.embedded /\ r.transcript
    BY DEF RecordsInv, Current
  <2> QED
    BY <2>1
<1> HIDE DEF S
<1>4. rows' = S
  BY DEF S
<1>5. Noticed(rows)'
  <2>1. Noticed(rows) /\ cleared' = cleared /\ today' = today
    BY DEF RecordsInv
  <2>2. OfDay(rows', today') = OfDay(S, today)
    BY <1>4, <2>1
  <2>3. UNCHANGED <<today, submit, tripped>> /\ (cleared => cleared')
    BY <2>1
  <2> QED
    BY <1>2, <2>1, <2>2, <2>3, StillNoticed
<1> QED
  BY <1>2, <1>3, <1>4, <1>5 DEF RecordsInv

LEMMA RecordsNextDay == RecordsInv /\ NextDay => RecordsInv'
<1> SUFFICES ASSUME RecordsInv, NextDay PROVE RecordsInv'
  OBVIOUS
<1> USE DEF RecordsInv, NextDay
<1>1. today' = today + 1 /\ today' \in Nat
  OBVIOUS
<1>2. RowsSound(rows, stored, today')
  <2>1. \A r \in rows : r.day \in Nat /\ r.day <= today + 1
    BY DEF RowsSound, Row
  <2> QED
    BY <1>1, <2>1 DEF RowsSound
<1>3. OfDay(rows, today') = {}
  <2>1. \A r \in rows : r.day \in Nat /\ r.day <= today
    BY DEF RowsSound, Row
  <2> QED
    BY <1>1, <2>1 DEF OfDay
<1>4. Noticed(rows)'
  BY <1>3, FS_EmptySet, RecordNumbers DEF Noticed
<1> QED
  BY <1>1, <1>2, <1>4

LEMMA CollectIssueStep == ASSUME NEW i \in Issue PROVE RecordsInv /\ CollectIssue(i) => RecordsInv'
BY DEF RecordsInv, CollectIssue, Noticed, LinksSound

LEMMA StoreResultStep ==
  ASSUME NEW s \in Server, NEW i \in Issue, NEW ref \in Issue
  PROVE  RecordsInv /\ StoreResult(s, i, ref) => RecordsInv'
<1> SUFFICES ASSUME RecordsInv, StoreResult(s, i, ref) PROVE RecordsInv'
  OBVIOUS
<1> DEFINE g == [r \in rows |-> [r EXCEPT !.latest = @ /\ r.issue # i]]
           new == [id |-> stored + 1, issue |-> i, day |-> today, latest |-> TRUE,
                   embedded |-> TRUE, transcript |-> TRUE]
           S == {g[r] : r \in rows}
           N == S \cup {new}
<1>1. /\ stored' = stored + 1 /\ rows' = Demoted(i) \cup {new}
      /\ links' = links \cup LinksOf(stored + 1, i, ref)
      /\ submit' = [submit EXCEPT ![s] = "stored"] /\ evaluated' = evaluated \cup {i}
      /\ UNCHANGED <<today, known, tripped, clears, cleared, gc, link>>
  BY DEF StoreResult
<1>2. RowsSound(rows, stored, today) /\ today \in Nat /\ stored \in Nat
  BY DEF RecordsInv
<1>3. /\ g \in [rows -> Row]
      /\ \A r \in rows : /\ g[r].id = r.id /\ g[r].issue = r.issue /\ g[r].day = r.day
                         /\ g[r].latest = (r.latest /\ r.issue # i)
                         /\ g[r].embedded = r.embedded /\ g[r].transcript = r.transcript
  BY <1>2 DEF RowsSound, Row
<1>4. rows' = N
  BY <1>1 DEF Demoted
<1>5. new \in Row /\ new.id = stored + 1 /\ new.issue = i /\ new.day = today /\ new.latest
      /\ new.embedded /\ new.transcript
  BY <1>2 DEF Row
<1> HIDE DEF g, new
<1>6. /\ RowsSound(S, stored, today)
      /\ \A L : LinksSound(L, rows) => LinksSound(L, S)
      /\ \A X : Selection(X, rows, stored) => Selection(X, S, stored)
  <2>1. \A r \in rows : /\ g[r].id = r.id /\ g[r].issue = r.issue /\ g[r].day = r.day
                        /\ g[r].latest => r.latest
    BY <1>3
  <2>2. g \in [rows -> Row]
    BY <1>3
  <2> HIDE DEF S
  <2>3. LET T == {g[r] : r \in rows}
        IN  /\ RowsSound(T, stored, today)
            /\ \A L : LinksSound(L, rows) => LinksSound(L, T)
            /\ \A X : Selection(X, rows, stored) => Selection(X, T, stored)
    BY <1>2, <2>1, <2>2, Rewritten
  <2> QED
    BY <2>3 DEF S
<1>7. ASSUME NEW q \in S PROVE q.issue # i \/ ~q.latest
  <2>1. PICK r \in rows : q = g[r]
    OBVIOUS
  <2> QED
    BY <1>3, <2>1
<1>8. ASSUME NEW j \in evaluated, j # i
      PROVE  \E q \in S : q.issue = j /\ q.latest /\ q.embedded /\ q.transcript
  <2>1. PICK r \in rows : r.issue = j /\ r.latest /\ r.embedded /\ r.transcript
    BY DEF RecordsInv, Current
  <2>2. g[r] \in S /\ g[r].issue = j /\ g[r].latest /\ g[r].embedded /\ g[r].transcript
    BY <1>3, <1>8, <2>1
  <2> QED
    BY <2>2
<1> HIDE DEF S
<1>9. RowsSound(N, stored + 1, today)
  <2>1. IsFiniteSet(N)
    BY <1>6, FS_AddElement DEF RowsSound
  <2>2. \A q \in S : q.id \in Nat /\ q.id <= stored
    BY <1>6 DEF RowsSound, Row
  <2>3. \A q \in N : q.id <= stored + 1 /\ q.day <= today
    BY <1>2, <1>5, <1>6, <2>2 DEF RowsSound
  <2>4. ASSUME NEW p \in N, NEW q \in N, p.id = q.id PROVE p = q
    BY <1>2, <1>5, <1>6, <2>2, <2>4 DEF RowsSound
  <2>5. ASSUME NEW p \in N, NEW q \in N, p.latest, q.latest, p.issue = q.issue PROVE p = q
    BY <1>5, <1>6, <1>7, <2>5 DEF RowsSound
  <2> QED
    BY <1>5, <1>6, <2>1, <2>3, <2>4, <2>5 DEF RowsSound
<1>10. LinksSound(links', N)
  <2>1. LinksSound(links, S)
    BY <1>6 DEF RecordsInv
  <2>2. LinksSound(links, N)
    BY <2>1 DEF LinksSound
  <2>3. CASE ref = i
    BY <1>1, <2>2, <2>3 DEF LinksOf
  <2>4. CASE ref # i
    <3> DEFINE l == [row |-> stored + 1, ref |-> ref, to |-> Resolved(ref)]
    <3>1. links' = links \cup {l}
      BY <1>1, <2>4 DEF LinksOf
    <3>2. /\ l \in [row : Nat, ref : Issue, to : Issue \cup {Nowhere}]
          /\ l.to \in {Nowhere, l.ref} /\ l.row = stored + 1 /\ l.ref = ref
      BY <1>2 DEF Resolved
    <3> HIDE DEF l
    <3>3. \E r \in N : r.id = l.row /\ r.issue # l.ref
      BY <1>5, <2>4, <3>2
    <3> QED
      BY <2>2, <3>1, <3>2, <3>3 DEF LinksSound
  <2> QED
    BY <2>3, <2>4
<1>11. Selection(gc.ids, N, stored + 1)
  <2>1. Selection(gc.ids, S, stored)
    BY <1>6 DEF RecordsInv
  <2>2. \A x \in gc.ids : x \in Nat /\ x <= stored
    BY <2>1 DEF Selection
  <2>3. new.id \notin gc.ids
    BY <1>2, <1>5, <2>2
  <2> QED
    BY <1>2, <2>1, <2>2, <2>3 DEF Selection
<1>12. Current(evaluated', N)
  BY <1>1, <1>5, <1>8 DEF Current
<1>13. submit' \in [Server -> {"idle", "stored"}] /\ submit'[s] = "stored"
  BY <1>1 DEF RecordsInv
<1>14. Noticed(rows)'
  BY <1>13 DEF Noticed
<1> HIDE DEF N
<1>15. RowsSound(rows', stored', today') /\ LinksSound(links', rows')
  BY <1>1, <1>4, <1>9, <1>10
<1>16. Selection(gc'.ids, rows', stored') /\ Current(evaluated', rows')
  BY <1>1, <1>4, <1>11, <1>12
<1>17. stored' \in Nat /\ today' \in Nat /\ known' \subseteq Issue
  BY <1>1, <1>2 DEF RecordsInv
<1>18. gc' \in [at : GcPhase, ids : SUBSET Nat, cutoff : Int]
  BY <1>1 DEF RecordsInv
<1> QED
  BY <1>13, <1>14, <1>15, <1>16, <1>17, <1>18 DEF RecordsInv

LEMMA CheckCapStep == ASSUME NEW s \in Server PROVE RecordsInv /\ CheckCap(s) => RecordsInv'
<1> SUFFICES ASSUME RecordsInv, CheckCap(s) PROVE RecordsInv'
  OBVIOUS
<1> USE DEF CheckCap
<1>1. submit' \in [Server -> {"idle", "stored"}]
  BY DEF RecordsInv
<1>2. Spent = Cardinality(OfDay(rows, today))
  BY DEF Spent, OfDay
<1>3. Noticed(rows)'
  BY <1>2 DEF Noticed
<1> QED
  BY <1>1, <1>3 DEF RecordsInv

\* Rows and their links are gone, and those of a day were not of today or are
\* no longer counted on.
LEMMA DeletionStep ==
  ASSUME RecordsInv, NEW X, Without(X),
         UNCHANGED <<today, known, submit, tripped, link, stored>>,
         cleared => cleared',
         gc' \in [at : GcPhase, ids : SUBSET Nat, cutoff : Int], Selection(gc'.ids, rows, stored),
         evaluated' \subseteq evaluated,
         \A r \in rows : r.id \in X /\ r.issue \in evaluated' => ~r.latest
  PROVE  RecordsInv'
<1>1. RowsSound(rows, stored, today) /\ today \in Nat /\ stored \in Nat
  BY DEF RecordsInv
<1> DEFINE T == {r \in rows : r.id \notin X}
<1>2. /\ RowsSound(T, stored, today)
      /\ \A L : LinksSound(L, rows) => LinksSound({l \in L : l.row \notin X}, T)
      /\ \A Y : Selection(Y, rows, stored) => Selection(Y, T, stored)
  BY <1>1, Deletion
<1>3. /\ Cardinality(OfDay(T, today)) \in Nat /\ Cardinality(OfDay(rows, today)) \in Nat
      /\ Cardinality(OfDay(T, today)) <= Cardinality(OfDay(rows, today))
  BY <1>1, CountedOnDay
<1>4. rows' = T /\ links' = {l \in links : l.row \notin X}
  BY DEF Without
<1>5. Current(evaluated', T)
  <2> SUFFICES ASSUME NEW i \in evaluated'
               PROVE  \E q \in T : q.issue = i /\ q.latest /\ q.embedded /\ q.transcript
    BY DEF Current
  <2>1. PICK r \in rows : r.issue = i /\ r.latest /\ r.embedded /\ r.transcript
    BY DEF RecordsInv, Current
  <2> QED
    BY <2>1
<1> HIDE DEF T
<1>6. Noticed(rows)'
  <2>1. Noticed(rows)
    BY DEF RecordsInv
  <2> QED
    BY <1>3, <1>4, <2>1, StillNoticed
<1>7. LinksSound(links', T)
  BY <1>2, <1>4 DEF RecordsInv
<1> QED
  BY <1>2, <1>4, <1>5, <1>6, <1>7 DEF RecordsInv

LEMMA ClearIssueStep == ASSUME NEW i \in Issue PROVE RecordsInv /\ ClearIssue(i) => RecordsInv'
<1> SUFFICES ASSUME RecordsInv, ClearIssue(i) PROVE RecordsInv'
  OBVIOUS
<1> DEFINE X == {r.id : r \in {q \in rows : q.issue = i}}
<1>1. /\ Without(X) /\ evaluated' = evaluated \ {i}
      /\ UNCHANGED <<today, known, submit, tripped, gc, link, stored>>
  BY DEF ClearIssue
<1>2. ASSUME NEW r \in rows, r.id \in X, r.issue \in evaluated' PROVE ~r.latest
  <2>1. PICK q \in rows : q.issue = i /\ q.id = r.id
    BY <1>2
  <2>2. q = r
    BY <2>1 DEF RecordsInv, RowsSound
  <2> QED
    BY <1>1, <1>2, <2>1, <2>2
<1> HIDE DEF X
<1>3. /\ gc' \in [at : GcPhase, ids : SUBSET Nat, cutoff : Int]
      /\ Selection(gc'.ids, rows, stored) /\ evaluated' \subseteq evaluated
  <2>1. gc' = gc
    BY <1>1
  <2> QED
    BY <1>1, <2>1 DEF RecordsInv
<1>4. UNCHANGED <<today, known, submit, tripped, link, stored>> /\ (cleared => cleared')
  BY <1>1 DEF ClearIssue
<1>5. \A r \in rows : r.id \in X /\ r.issue \in evaluated' => ~r.latest
  BY <1>2
<1> QED
  BY <1>1, <1>3, <1>4, <1>5, DeletionStep

\* A step of gc.py that changes no row.
LEMMA GcReads ==
  ASSUME RecordsInv,
         UNCHANGED <<today, known, rows, links, submit, tripped, clears, cleared, evaluated, link, stored>>,
         gc' \in [at : GcPhase, ids : SUBSET Nat, cutoff : Int], Selection(gc'.ids, rows, stored)
  PROVE  RecordsInv'
BY DEF RecordsInv, Noticed

LEMMA GcTyped ==
  ASSUME RecordsInv
  PROVE  /\ gc \in [at : GcPhase, ids : SUBSET Nat, cutoff : Int]
         /\ NoGc \in [at : GcPhase, ids : SUBSET Nat, cutoff : Int] /\ NoGc.ids = {}
         /\ Selection({}, rows, stored)
BY DEF RecordsInv, NoGc, GcPhase, Selection

\* What a batch is cut from is superseded.
LEMMA Selects ==
  ASSUME RecordsInv, NEW A, \A q \in A : q \in rows /\ Superseded(q),
         NEW B \in Batches({r.id : r \in A})
  PROVE  Selection(B, rows, stored)
<1>1. ASSUME NEW x \in B PROVE \E r \in rows : r.id = x /\ ~r.latest
  BY DEF Batches, Superseded
<1>2. \A r \in rows : r.id \in Nat /\ r.id <= stored
  BY DEF RecordsInv, RowsSound, Row
<1>3. \A q, r \in rows : q.id = r.id => q = r
  BY DEF RecordsInv, RowsSound
<1> QED
  BY <1>1, <1>2, <1>3 DEF Selection

LEMMA BeginGcStep == RecordsInv /\ BeginGc => RecordsInv'
<1> SUFFICES ASSUME RecordsInv, BeginGc PROVE RecordsInv'
  OBVIOUS
<1>1. gc' = [NoGc EXCEPT !.at = "transcripts"]
  BY DEF BeginGc
<1>2. gc' \in [at : GcPhase, ids : SUBSET Nat, cutoff : Int] /\ gc'.ids = {}
  BY <1>1, GcTyped DEF GcPhase, NoGc
<1> QED
  BY <1>2, GcTyped, GcReads DEF BeginGc

LEMMA DropTranscriptsStep == RecordsInv /\ DropTranscripts => RecordsInv'
<1> SUFFICES ASSUME RecordsInv, DropTranscripts PROVE RecordsInv'
  OBVIOUS
<1> DEFINE g == [r \in rows |-> [r EXCEPT !.transcript =
                      @ /\ ~(Superseded(r) /\ r.day < today - TranscriptRetention)]]
<1>1. rows \subseteq Row
  BY DEF RecordsInv, RowsSound
<1>2. /\ g \in [rows -> Row]
      /\ \A r \in rows : /\ g[r].id = r.id /\ g[r].issue = r.issue /\ g[r].day = r.day
                         /\ g[r].latest = r.latest
                         /\ r.latest => g[r].embedded = r.embedded /\ g[r].transcript = r.transcript
  BY <1>1 DEF Row, Superseded
<1>3. rows' = {g[r] : r \in rows}
  BY DEF DropTranscripts
<1> HIDE DEF g
<1>4. gc' = [gc EXCEPT !.at = "embeddings"]
  BY DEF DropTranscripts
<1>5. gc' \in [at : GcPhase, ids : SUBSET Nat, cutoff : Int] /\ gc'.ids = gc.ids
  BY <1>4, GcTyped DEF GcPhase
<1>6. Selection(gc'.ids, rows, stored)
  BY <1>5 DEF RecordsInv
<1>7. UNCHANGED <<today, known, links, submit, tripped, clears, cleared, evaluated, link, stored>>
  BY DEF DropTranscripts
<1> QED
  BY <1>2, <1>3, <1>5, <1>6, <1>7, RewriteStep

LEMMA SelectEmbeddingsStep == RecordsInv /\ SelectEmbeddings => RecordsInv'
<1> SUFFICES ASSUME RecordsInv, SelectEmbeddings PROVE RecordsInv'
  OBVIOUS
<1> DEFINE A == {q \in rows : Superseded(q) /\ q.embedded}
<1>1. PICK B \in Batches({r.id : r \in A}) :
        gc' = IF B = {} THEN [gc EXCEPT !.at = "delete", !.cutoff = today - Retention]
              ELSE [gc EXCEPT !.at = "clear", !.ids = B]
  BY DEF SelectEmbeddings
<1>2. Selection(B, rows, stored)
  <2>1. \A q \in A : q \in rows /\ Superseded(q)
    OBVIOUS
  <2> HIDE DEF A
  <2> QED
    BY <1>1, <2>1, Selects
<1>3. B \subseteq Nat /\ today - Retention \in Int
  BY <1>2, RecordNumbers DEF Selection, RecordsInv
<1>4. gc \in [at : GcPhase, ids : SUBSET Nat, cutoff : Int]
  BY GcTyped
<1>5. gc' \in [at : GcPhase, ids : SUBSET Nat, cutoff : Int] /\ gc'.ids \in {B, gc.ids}
  <2>1. CASE B = {}
    <3> DEFINE e == [gc EXCEPT !.at = "delete"]
    <3>1. e \in [at : GcPhase, ids : SUBSET Nat, cutoff : Int] /\ e.ids = gc.ids
      BY <1>4 DEF GcPhase
    <3>2. gc' = [e EXCEPT !.cutoff = today - Retention]
      BY <1>1, <2>1
    <3> HIDE DEF e
    <3> QED
      BY <1>3, <3>1, <3>2
  <2>2. CASE B # {}
    <3> DEFINE e == [gc EXCEPT !.at = "clear"]
    <3>1. e \in [at : GcPhase, ids : SUBSET Nat, cutoff : Int]
      BY <1>4 DEF GcPhase
    <3>2. gc' = [e EXCEPT !.ids = B]
      BY <1>1, <2>2
    <3> HIDE DEF e
    <3> QED
      BY <1>3, <3>1, <3>2
  <2> QED
    BY <2>1, <2>2
<1>6. Selection(gc'.ids, rows, stored)
  BY <1>2, <1>5 DEF RecordsInv
<1> QED
  BY <1>5, <1>6, GcReads DEF SelectEmbeddings

LEMMA ClearEmbeddingsStep == RecordsInv /\ ClearEmbeddings => RecordsInv'
<1> SUFFICES ASSUME RecordsInv, ClearEmbeddings PROVE RecordsInv'
  OBVIOUS
<1> DEFINE g == [r \in rows |-> [r EXCEPT !.embedded = @ /\ r.id \notin gc.ids]]
<1>1. rows \subseteq Row /\ \A r \in rows : r.id \in gc.ids => ~r.latest
  BY DEF RecordsInv, RowsSound, Selection
<1>2. /\ g \in [rows -> Row]
      /\ \A r \in rows : /\ g[r].id = r.id /\ g[r].issue = r.issue /\ g[r].day = r.day
                         /\ g[r].latest = r.latest
                         /\ r.latest => g[r].embedded = r.embedded /\ g[r].transcript = r.transcript
  BY <1>1 DEF Row
<1>3. rows' = {g[r] : r \in rows}
  BY DEF ClearEmbeddings
<1> HIDE DEF g
<1>4. gc' \in [at : GcPhase, ids : SUBSET Nat, cutoff : Int] /\ gc'.ids = {}
  <2> DEFINE e == [gc EXCEPT !.at = "embeddings"]
  <2>1. e \in [at : GcPhase, ids : SUBSET Nat, cutoff : Int]
    BY GcTyped DEF GcPhase
  <2>2. gc' = [e EXCEPT !.ids = {}]
    BY DEF ClearEmbeddings
  <2> HIDE DEF e
  <2> QED
    BY <2>1, <2>2
<1>5. Selection(gc'.ids, rows, stored)
  BY <1>4, GcTyped
<1>6. UNCHANGED <<today, known, links, submit, tripped, clears, cleared, evaluated, link, stored>>
  BY DEF ClearEmbeddings
<1> QED
  BY <1>2, <1>3, <1>4, <1>5, <1>6, RewriteStep

LEMMA SelectRowsStep == RecordsInv /\ SelectRows => RecordsInv'
<1> SUFFICES ASSUME RecordsInv, SelectRows PROVE RecordsInv'
  OBVIOUS
<1> DEFINE A == {q \in rows : Superseded(q) /\ q.day < gc.cutoff}
<1>1. PICK B \in Batches({r.id : r \in A}) :
        gc' = IF B = {} THEN NoGc ELSE [gc EXCEPT !.at = "remove", !.ids = B]
  BY DEF SelectRows
<1>2. Selection(B, rows, stored)
  <2>1. \A q \in A : q \in rows /\ Superseded(q)
    OBVIOUS
  <2> HIDE DEF A
  <2> QED
    BY <1>1, <2>1, Selects
<1>3. B \subseteq Nat
  BY <1>2 DEF Selection
<1>4. gc' \in [at : GcPhase, ids : SUBSET Nat, cutoff : Int] /\ gc'.ids \in {B, {}}
  <2>1. CASE B = {}
    BY <1>1, <2>1, GcTyped
  <2>2. CASE B # {}
    <3> DEFINE e == [gc EXCEPT !.at = "remove"]
    <3>1. e \in [at : GcPhase, ids : SUBSET Nat, cutoff : Int]
      BY GcTyped DEF GcPhase
    <3>2. gc' = [e EXCEPT !.ids = B]
      BY <1>1, <2>2
    <3> HIDE DEF e
    <3> QED
      BY <1>3, <3>1, <3>2
  <2> QED
    BY <2>1, <2>2
<1>5. Selection(gc'.ids, rows, stored)
  BY <1>2, <1>4, GcTyped
<1> QED
  BY <1>4, <1>5, GcReads DEF SelectRows

LEMMA DeleteRowsStep == RecordsInv /\ DeleteRows => RecordsInv'
<1> SUFFICES ASSUME RecordsInv, DeleteRows PROVE RecordsInv'
  OBVIOUS
<1>1. \A r \in rows : r.id \in gc.ids => ~r.latest
  BY DEF RecordsInv, Selection
<1>2. gc' \in [at : GcPhase, ids : SUBSET Nat, cutoff : Int] /\ gc'.ids = {}
  <2> DEFINE e == [gc EXCEPT !.at = "delete"]
  <2>1. e \in [at : GcPhase, ids : SUBSET Nat, cutoff : Int]
    BY GcTyped DEF GcPhase
  <2>2. gc' = [e EXCEPT !.ids = {}]
    BY DEF DeleteRows
  <2> HIDE DEF e
  <2> QED
    BY <2>1, <2>2
<1>3. Selection(gc'.ids, rows, stored)
  BY <1>2, GcTyped
<1>4. /\ Without(gc.ids) /\ UNCHANGED <<today, known, submit, tripped, link, stored>>
      /\ cleared' = cleared /\ evaluated' = evaluated
  BY DEF DeleteRows
<1>5. (cleared => cleared') /\ evaluated' \subseteq evaluated
  BY <1>4
<1> QED
  BY <1>1, <1>2, <1>3, <1>4, <1>5, DeletionStep

LEMMA WriteLinksStep == RecordsInv /\ WriteLinks => RecordsInv'
<1> SUFFICES ASSUME RecordsInv, WriteLinks PROVE RecordsInv'
  OBVIOUS
<1>1. LinksSound(links, rows)
  BY DEF RecordsInv
<1>2. ASSUME NEW l \in links
      PROVE  LET n == [l EXCEPT !.to = Resolved(l.ref)]
             IN  /\ n \in [row : Nat, ref : Issue, to : Issue \cup {Nowhere}]
                 /\ n.row = l.row /\ n.ref = l.ref /\ n.to \in {Nowhere, n.ref}
  <2>1. l \in [row : Nat, ref : Issue, to : Issue \cup {Nowhere}]
    BY <1>1 DEF LinksSound
  <2>2. Resolved(l.ref) \in {Nowhere, l.ref} /\ Resolved(l.ref) \in Issue \cup {Nowhere}
    BY <2>1 DEF Resolved
  <2> QED
    BY <2>1, <2>2
<1>3. \A k \in links' : k \in links \/ \E l \in links : k = [l EXCEPT !.to = Resolved(l.ref)]
  BY DEF WriteLinks
<1>4. LinksSound(links', rows)
  <2> SUFFICES ASSUME NEW k \in links'
               PROVE  /\ k \in [row : Nat, ref : Issue, to : Issue \cup {Nowhere}]
                      /\ k.to \in {Nowhere, k.ref}
                      /\ \E r \in rows : r.id = k.row /\ r.issue # k.ref
    BY DEF LinksSound
  <2>1. CASE k \in links
    BY <1>1, <2>1 DEF LinksSound
  <2>2. CASE k \notin links
    <3>1. PICK l \in links : k = [l EXCEPT !.to = Resolved(l.ref)]
      BY <1>3, <2>2
    <3>2. \E r \in rows : r.id = l.row /\ r.issue # l.ref
      BY <1>1 DEF LinksSound
    <3> QED
      BY <1>2, <3>1, <3>2
  <2> QED
    BY <2>1, <2>2
<1>5. UNCHANGED <<today, known, rows, submit, tripped, clears, cleared, evaluated, gc, stored>>
  BY DEF WriteLinks
<1> QED
  BY <1>4, <1>5 DEF RecordsInv, Noticed

LEMMA RecordsBegin == RecordsInit => RecordsInv
<1> SUFFICES ASSUME RecordsInit PROVE RecordsInv
  OBVIOUS
<1> USE DEF RecordsInit
<1>1. gc \in [at : GcPhase, ids : SUBSET Nat, cutoff : Int] /\ Selection(gc.ids, rows, stored)
  BY DEF NoGc, GcPhase, Selection
<1>2. RowsSound(rows, stored, today) /\ LinksSound(links, rows)
  BY FS_EmptySet DEF RowsSound, LinksSound
<1>3. OfDay(rows, today) = {}
  BY DEF OfDay
<1>4. Current(evaluated, rows) /\ Noticed(rows)
  BY <1>3, FS_EmptySet, RecordNumbers DEF Current, Noticed
<1> QED
  BY <1>1, <1>2, <1>4, RecordNumbers DEF RecordsInv

LEMMA RecordsSteps == RecordsInv /\ [RecordsNext]_recordVars => RecordsInv'
<1>1. RecordsInv /\ ReadLinks => RecordsInv'
  BY DEF RecordsInv, Noticed, ReadLinks
<1>2. RecordsInv /\ RecordsNext => RecordsInv'
  BY <1>1, RecordsNextDay, CollectIssueStep, ClearIssueStep, CheckCapStep, StoreResultStep,
     BeginGcStep, DropTranscriptsStep, SelectEmbeddingsStep, ClearEmbeddingsStep, SelectRowsStep,
     DeleteRowsStep, WriteLinksStep
  DEF RecordsNext
<1>3. RecordsInv /\ UNCHANGED recordVars => RecordsInv'
  BY DEF RecordsInv, Noticed, recordVars
<1> QED
  BY <1>2, <1>3

LEMMA RecordsSafe == RecordsInv => RecordsTypeOK /\ CurrentSurvives /\ CapTrips
<1> SUFFICES ASSUME RecordsInv PROVE RecordsTypeOK /\ CurrentSurvives /\ CapTrips
  OBVIOUS
<1>1. RecordsTypeOK
  BY DEF RecordsInv, RecordsTypeOK, RowsSound, LinksSound
<1>2. CurrentSurvives
  BY DEF RecordsInv, CurrentSurvives, Current
<1>3. CapTrips
  BY DEF RecordsInv, CapTrips, Noticed, OfDay
<1> QED
  BY <1>1, <1>2, <1>3

-----------------------------------------------------------------------------
(* The list of issues *)

\* In the module IssueList: what a page shows of an order.
\* The place of a match in every order, when no two tie.
Rank(x) == Cardinality({y \in Literal : scores[y] >= scores[x]})

Met(p, S) == \A x \in Literal : Rank(x) <= p * PerPage => x \in S

\* The first page, as it is when what was found fits on it.
OnOnePage(r) ==
    r.page = 1 /\ r.total <= PerPage =>
        /\ ToSet(r.items) = Literal \cup r.found
        /\ Len(r.items) = r.total
        /\ \A m, n \in DOMAIN r.items : r.items[m] \in Literal /\ r.items[n] \notin Literal => m < n

PageTyped(r) ==
    /\ r.page \in Nat /\ r.asked \in Nat /\ r.pages \in Nat /\ r.total \in Nat
    /\ r.items \in Seq(Item) /\ IsInjective(r.items)
    /\ r.seen \subseteq Item /\ ToSet(r.items) \subseteq r.seen
    /\ PerPage > 0 => Len(r.items) <= PerPage

Unchanged(r) ==
    ~Unbounded /\ r.page > 0 =>
        /\ PagesFor(Cardinality(Literal)) <= r.pages
        /\ r.page < r.asked => PagesFor(Cardinality(Literal)) <= r.page
        /\ NoTies => Met(r.page, r.seen)
        /\ OnOnePage(r)

ListInv ==
    /\ scores \in [Item -> Nat] /\ open \subseteq Item
    /\ PageTyped(reader)
    /\ ~changed => Unchanged(reader)

LEMMA ListNumbers ==
  /\ IsFiniteSet(Item) /\ Scores \in [Item -> Nat]
  /\ PerPage \in Nat /\ MaxItems \in Nat \ {0} /\ TopN \in Nat
BY ListAssumption DEF ListAssumption

LEMMA MatchesCounted ==
  ASSUME open \subseteq Item
  PROVE  /\ IsFiniteSet(Literal) /\ Literal \subseteq Item /\ Cardinality(Literal) \in Nat
         /\ \A S \in SUBSET Item : IsFiniteSet(S) /\ Cardinality(S) \in Nat
<1>1. Literal \in SUBSET Item
  BY DEF Literal
<1>2. \A S \in SUBSET Item : IsFiniteSet(S) /\ Cardinality(S) \in Nat
  BY ListNumbers, FS_Subset, FS_CardinalityType
<1> QED
  BY <1>1, <1>2

\* A sequence that has every element of a set once.
LEMMA Listed ==
  ASSUME NEW S \in SUBSET Item, NEW f \in SetToSeqs(S)
  PROVE  /\ f \in Seq(S) /\ f \in Seq(Item) /\ Len(f) = Cardinality(S) /\ Len(f) \in Nat
         /\ DOMAIN f = 1..Len(f) /\ \A i \in 1..Len(f) : f[i] \in S
         /\ \A i, j \in 1..Len(f) : f[i] = f[j] => i = j
         /\ \A x \in S : \E i \in 1..Len(f) : f[i] = x
         /\ ToSet(f) = S
<1> DEFINE n == Cardinality(S)
<1>1. IsFiniteSet(S) /\ n \in Nat
  BY ListNumbers, FS_Subset, FS_CardinalityType
<1>2. f \in [1..n -> S] /\ \A i, j \in 1..n : f[i] = f[j] => i = j
  BY DEF SetToSeqs
<1>3. IsFiniteSet(1..n) /\ Cardinality(1..n) = n
  BY <1>1, FS_Interval
<1>4. f \in Injection(1..n, S)
  BY <1>2 DEF Injection, IsInjective
<1>5. f \in Surjection(1..n, S)
  BY <1>1, <1>3, <1>4, FS_Injection
<1> HIDE DEF n
<1>6. f \in Seq(S) /\ f \in Seq(Item) /\ Len(f) = n
  <2>1. f \in [1..n -> Item]
    BY <1>2
  <2> QED
    BY <1>1, <1>2, <2>1
<1>7. \A x \in S : \E i \in 1..n : f[i] = x
  BY <1>5 DEF Surjection
<1>8. ToSet(f) = S
  BY <1>2, <1>7 DEF ToSet
<1> QED
  BY <1>1, <1>2, <1>6, <1>7, <1>8 DEF n

\* A part of a sequence of issues.
LEMMA Cut ==
  ASSUME NEW L \in Seq(Item), NEW a \in Nat, NEW b \in Nat, a >= 1, b <= Len(L)
  PROVE  /\ SubSeq(L, a, b) \in Seq(Item)
         /\ Len(SubSeq(L, a, b)) = IF a <= b THEN b - a + 1 ELSE 0
         /\ \A i \in 1..b - a + 1 : SubSeq(L, a, b)[i] = L[a + i - 1]
<1>1. \A i \in a..b : L[i] \in Item
  BY ElementOfSeq
<1> QED
  BY <1>1, SubSeqProperties

LEMMA CutInjective ==
  ASSUME NEW L \in Seq(Item), IsInjective(L), NEW a \in Nat, NEW b \in Nat, a >= 1, b <= Len(L)
  PROVE  /\ SubSeq(L, a, b) \in Seq(Item) /\ IsInjective(SubSeq(L, a, b))
         /\ Len(SubSeq(L, a, b)) = IF a <= b THEN b - a + 1 ELSE 0
         /\ ToSet(SubSeq(L, a, b)) \subseteq ToSet(L)
         /\ \A i \in a..b : L[i] \in ToSet(SubSeq(L, a, b))
<1> DEFINE M == SubSeq(L, a, b)
<1>1. /\ M \in Seq(Item) /\ Len(M) = IF a <= b THEN b - a + 1 ELSE 0
      /\ \A i \in 1..b - a + 1 : M[i] = L[a + i - 1]
  BY Cut
<1>2. DOMAIN L = 1..Len(L) /\ Len(L) \in Nat /\ Len(M) \in Nat /\ DOMAIN M = 1..Len(M)
  BY <1>1
<1> HIDE DEF M
<1>3. ASSUME NEW i \in DOMAIN M PROVE a + i - 1 \in DOMAIN L /\ M[i] = L[a + i - 1]
  BY <1>1, <1>2
<1>4. IsInjective(M)
  <2> SUFFICES ASSUME NEW i \in DOMAIN M, NEW j \in DOMAIN M, M[i] = M[j] PROVE i = j
    BY DEF IsInjective
  <2>1. a + i - 1 = a + j - 1
    BY <1>3 DEF IsInjective
  <2> QED
    BY <1>2, <2>1
<1>5. ToSet(M) \subseteq ToSet(L)
  BY <1>3 DEF ToSet
<1>6. ASSUME NEW i \in a..b PROVE L[i] \in ToSet(M)
  <2>1. i - a + 1 \in 1..b - a + 1 /\ a + (i - a + 1) - 1 = i
    OBVIOUS
  <2>2. i - a + 1 \in DOMAIN M /\ M[i - a + 1] = L[i]
    BY <1>1, <1>2, <2>1
  <2> QED
    BY <2>2 DEF ToSet
<1> QED
  BY <1>1, <1>4, <1>5, <1>6 DEF M

LEMMA JoinedInjective ==
  ASSUME NEW L \in Seq(Item), NEW M \in Seq(Item), IsInjective(L), IsInjective(M),
         ToSet(L) \cap ToSet(M) = {}
  PROVE  /\ L \o M \in Seq(Item) /\ Len(L \o M) = Len(L) + Len(M) /\ IsInjective(L \o M)
         /\ ToSet(L \o M) = ToSet(L) \cup ToSet(M)
         /\ \A i \in 1..Len(L) : (L \o M)[i] = L[i]
         /\ \A i \in 1..Len(M) : (L \o M)[Len(L) + i] = M[i]
<1> DEFINE N == L \o M
<1>1. N \in Seq(Item)
  BY ConcatProperties
<1>2. /\ Len(N) = Len(L) + Len(M)
      /\ \A i \in 1..Len(L) + Len(M) : N[i] = IF i <= Len(L) THEN L[i] ELSE M[i - Len(L)]
  BY ConcatProperties
<1>3. /\ Len(L) \in Nat /\ Len(M) \in Nat /\ DOMAIN L = 1..Len(L) /\ DOMAIN M = 1..Len(M)
      /\ DOMAIN N = 1..Len(N)
  BY <1>1
<1> HIDE DEF N
<1>4. \A i \in 1..Len(L) : i \in DOMAIN N /\ N[i] = L[i] /\ N[i] \in ToSet(L)
  BY <1>2, <1>3 DEF ToSet
<1>5. ASSUME NEW i \in 1..Len(M)
      PROVE  Len(L) + i \in DOMAIN N /\ N[Len(L) + i] = M[i] /\ N[Len(L) + i] \in ToSet(M)
  <2>1. Len(L) + i \in DOMAIN N /\ ~(Len(L) + i <= Len(L)) /\ (Len(L) + i) - Len(L) = i
    BY <1>2, <1>3
  <2>2. N[Len(L) + i] = M[i]
    BY <1>2, <1>3, <2>1
  <2> QED
    BY <1>3, <2>1, <2>2 DEF ToSet
<1>6. ASSUME NEW i \in DOMAIN N PROVE i \in 1..Len(L) \/ \E j \in 1..Len(M) : i = Len(L) + j
  <2>1. i \in 1..Len(L) \/ (i - Len(L) \in 1..Len(M) /\ i = Len(L) + (i - Len(L)))
    BY <1>2, <1>3
  <2> QED
    BY <2>1
<1>7. IsInjective(N)
  <2> SUFFICES ASSUME NEW i \in DOMAIN N, NEW j \in DOMAIN N, N[i] = N[j] PROVE i = j
    BY DEF IsInjective
  <2>1. CASE i \in 1..Len(L) /\ j \in 1..Len(L)
    BY <1>3, <1>4, <2>1 DEF IsInjective
  <2>2. CASE i \in 1..Len(L) /\ j \notin 1..Len(L)
    <3>1. PICK h \in 1..Len(M) : j = Len(L) + h
      BY <1>6, <2>2
    <3> QED
      BY <1>4, <1>5, <2>2, <3>1
  <2>3. CASE i \notin 1..Len(L) /\ j \in 1..Len(L)
    <3>1. PICK h \in 1..Len(M) : i = Len(L) + h
      BY <1>6, <2>3
    <3> QED
      BY <1>4, <1>5, <2>3, <3>1
  <2>4. CASE i \notin 1..Len(L) /\ j \notin 1..Len(L)
    <3>1. PICK h \in 1..Len(M) : i = Len(L) + h
      BY <1>6, <2>4
    <3>2. PICK k \in 1..Len(M) : j = Len(L) + k
      BY <1>6, <2>4
    <3>3. h = k
      BY <1>3, <1>5, <3>1, <3>2 DEF IsInjective
    <3> QED
      BY <3>1, <3>2, <3>3
  <2> QED
    BY <2>1, <2>2, <2>3, <2>4
<1>8. ToSet(N) = ToSet(L) \cup ToSet(M)
  <2>1. ASSUME NEW i \in DOMAIN N PROVE N[i] \in ToSet(L) \cup ToSet(M)
    BY <1>4, <1>5, <1>6
  <2>2. ASSUME NEW i \in DOMAIN L PROVE \E j \in DOMAIN N : N[j] = L[i]
    BY <1>3, <1>4
  <2>3. ASSUME NEW i \in DOMAIN M PROVE \E j \in DOMAIN N : N[j] = M[i]
    BY <1>3, <1>5
  <2> QED
    BY <2>1, <2>2, <2>3 DEF ToSet
<1> QED
  BY <1>1, <1>2, <1>4, <1>5, <1>7, <1>8 DEF N

LEMMA Pages ==
  ASSUME NEW n \in Nat
  PROVE  /\ PagesFor(n) \in Nat /\ PagesFor(n) >= 1
         /\ ~Unbounded => n <= PagesFor(n) * PerPage
<1>0. PerPage \in Nat
  BY ListNumbers
<1>1. CASE Unbounded
  BY <1>1 DEF PagesFor
<1>2. CASE ~Unbounded
  <2> DEFINE k == n + PerPage - 1
             d == k \div PerPage
  <2>1. PerPage \in Nat \ {0} /\ k \in Nat
    BY <1>0, <1>2 DEF Unbounded
  <2>2. d \in Nat /\ k < d * PerPage + PerPage
    BY <2>1
  <2>3. PagesFor(n) = Most(1, d)
    BY <1>2 DEF PagesFor
  <2> HIDE DEF d
  <2>4. PagesFor(n) \in Nat /\ PagesFor(n) >= 1 /\ d <= PagesFor(n)
    BY <2>2, <2>3 DEF Most
  <2> DEFINE P == d * PerPage
             Q == PagesFor(n) * PerPage
  <2>5. P \in Int /\ Q \in Int /\ P <= Q
    BY <2>1, <2>2, <2>4, TimesOrder
  <2>6. k < P + PerPage
    BY <2>2
  <2> HIDE DEF P, Q
  <2>7. n <= Q
    BY <2>1, <2>5, <2>6
  <2> QED
    BY <2>4, <2>7 DEF Q
<1> QED
  BY <1>1, <1>2

LEMMA Offsets ==
  ASSUME NEW p \in Nat \ {0}
  PROVE  /\ Offset(p) \in Nat
         /\ ~Unbounded => Offset(p) = (p - 1) * PerPage /\ Offset(p) + PerPage = p * PerPage
         /\ p = 1 => Offset(p) = 0
<1>1. PerPage \in Nat /\ p - 1 \in Nat
  BY ListNumbers
<1>2. (p - 1) * PerPage \in Nat /\ (p - 1) * PerPage + PerPage = p * PerPage
  BY <1>1
<1>3. p = 1 => (p - 1) * PerPage = 0
  BY <1>1
<1> QED
  BY <1>1, <1>2, <1>3 DEF Offset

LEMMA Matched ==
  ASSUME open \subseteq Item, NEW f \in Orders
  PROVE  /\ f \in Seq(Item) /\ Len(f) = Cardinality(Literal) /\ Len(f) \in Nat
         /\ DOMAIN f = 1..Len(f) /\ IsInjective(f) /\ ToSet(f) = Literal
         /\ \A i \in 1..Len(f) : f[i] \in Literal
         /\ \A x \in Literal : \E i \in 1..Len(f) : f[i] = x
         /\ \A m, n \in DOMAIN f : m < n => scores[f[m]] >= scores[f[n]]
<1>1. Literal \in SUBSET Item /\ f \in SetToSeqs(Literal)
  BY DEF Literal, Orders
<1> QED
  BY <1>1, Listed DEF Orders, IsInjective

\* Without ties, the place in an order is the rank.
LEMMA Ranked ==
  ASSUME open \subseteq Item, scores \in [Item -> Nat], NoTies, NEW f \in Orders, NEW k \in 1..Len(f)
  PROVE  Rank(f[k]) = k
<1> DEFINE U == {y \in Literal : scores[y] >= scores[f[k]]}
           g == [i \in 1..k |-> f[i]]
<1>1. /\ Len(f) \in Nat /\ DOMAIN f = 1..Len(f) /\ k \in Nat
      /\ \A i \in 1..Len(f) : f[i] \in Literal /\ scores[f[i]] \in Nat
      /\ \A i, j \in 1..Len(f) : f[i] = f[j] => i = j
      /\ \A x \in Literal : \E i \in 1..Len(f) : f[i] = x
      /\ \A m, n \in 1..Len(f) : m < n => scores[f[m]] >= scores[f[n]]
  <2>1. /\ Len(f) \in Nat /\ DOMAIN f = 1..Len(f) /\ IsInjective(f)
        /\ \A i \in 1..Len(f) : f[i] \in Literal
        /\ \A x \in Literal : \E i \in 1..Len(f) : f[i] = x
        /\ \A m, n \in DOMAIN f : m < n => scores[f[m]] >= scores[f[n]]
    BY Matched
  <2>2. \A x \in Literal : scores[x] \in Nat
    BY DEF Literal
  <2>3. \A i, j \in 1..Len(f) : f[i] = f[j] => i = j
    BY <2>1 DEF IsInjective
  <2>4. k \in Nat
    BY <2>1
  <2> QED
    BY <2>1, <2>2, <2>3, <2>4
<1>2. ASSUME NEW i \in 1..k PROVE f[i] \in U
  <2>1. i \in 1..Len(f) /\ (i < k \/ i = k)
    BY <1>1
  <2> QED
    BY <1>1, <2>1
<1>3. ASSUME NEW y \in U PROVE \E i \in 1..k : g[i] = y
  <2>1. PICK i \in 1..Len(f) : f[i] = y
    BY <1>1
  <2>2. CASE i <= k
    BY <2>1, <2>2
  <2>3. CASE i > k
    <3>1. scores[f[k]] >= scores[f[i]] /\ scores[f[i]] >= scores[f[k]]
      BY <1>1, <2>1, <2>3
    <3>2. scores[f[k]] = scores[f[i]]
      BY <1>1, <3>1
    <3>3. f[k] = f[i]
      BY <1>1, <3>2 DEF NoTies
    <3> QED
      BY <1>1, <2>3, <3>3
  <2> QED
    BY <1>1, <2>2, <2>3
<1> HIDE DEF U
<1>4. g \in [1..k -> U] /\ \A i, j \in 1..k : g[i] = g[j] => i = j
  BY <1>1, <1>2
<1>5. g \in Injection(1..k, U) /\ g \in Surjection(1..k, U)
  BY <1>3, <1>4 DEF Injection, IsInjective, Surjection
<1>6. IsFiniteSet(1..k) /\ Cardinality(1..k) = k
  BY <1>1, FS_Interval
<1> HIDE DEF g
<1>7. IsFiniteSet(U) /\ (Cardinality(U) = Cardinality(1..k))
  BY <1>5, <1>6, FS_Surjection
<1> QED
  BY <1>6, <1>7 DEF Rank, U

\* One page of an order.
LEMMA OfPage ==
  ASSUME open \subseteq Item, NEW f \in Orders, NEW p \in Nat \ {0}
  PROVE  LET items == LiteralItems(f, p)
         IN  /\ items \in Seq(Item) /\ Len(items) \in Nat /\ IsInjective(items)
             /\ ToSet(items) \subseteq Literal
             /\ PerPage > 0 => Len(items) <= PerPage
             /\ ~Unbounded => \A i \in 1..Len(f) :
                   (p - 1) * PerPage < i /\ i <= p * PerPage => f[i] \in ToSet(items)
             /\ ~Unbounded /\ p = 1 /\ Len(f) <= PerPage => items = f
<1> DEFINE n == Len(f)
           size == IF Unbounded THEN MaxItems ELSE PerPage
           o == Offset(p)
           b == Least(o + size, n)
           items == SubSeq(f, o + 1, b)
<1>0. n \in Nat
  BY Matched
<1>1. f \in Seq(Item) /\ IsInjective(f) /\ Len(f) = n /\ ToSet(f) = Literal
  BY Matched
<1>2. size \in Nat /\ o \in Nat /\ o + 1 \in Nat /\ o + 1 >= 1 /\ PerPage \in Nat
  BY ListNumbers, Offsets
<1>3. b \in Nat /\ b <= n /\ b <= o + size /\ (b = o + size \/ b = n)
  BY <1>0, <1>2 DEF Least
<1>4. LiteralItems(f, p) = items
  BY DEF LiteralItems
<1>5. ~Unbounded => size = PerPage
  OBVIOUS
<1>6. PerPage > 0 => ~Unbounded
  BY <1>2 DEF Unbounded
<1>7. p = 1 => o = 0
  BY Offsets
<1>8. ~Unbounded => o = (p - 1) * PerPage /\ o + PerPage = p * PerPage
  BY Offsets
<1> HIDE DEF o, b, size, n
<1>9. /\ items \in Seq(Item) /\ IsInjective(items)
      /\ Len(items) = IF o + 1 <= b THEN b - (o + 1) + 1 ELSE 0
      /\ ToSet(items) \subseteq ToSet(f) /\ \A i \in o + 1..b : f[i] \in ToSet(items)
  BY <1>1, <1>2, <1>3, CutInjective
<1>10. ASSUME ~Unbounded, p = 1, n <= PerPage PROVE items = f
  <2>1. o = 0 /\ size = PerPage
    BY <1>5, <1>7, <1>10
  <2>2. o + 1 = 1 /\ b = n
    BY <1>0, <1>2, <1>3, <1>10, <2>1
  <2>3. items = SubSeq(f, 1, n)
    BY <2>2
  <2>4. /\ SubSeq(f, 1, n) \in Seq(Item)
        /\ Len(SubSeq(f, 1, n)) = IF 1 <= n THEN n - 1 + 1 ELSE 0
        /\ \A i \in 1..n - 1 + 1 : SubSeq(f, 1, n)[i] = f[1 + i - 1]
    <3>1. 1 \in Nat /\ 1 >= 1 /\ n <= Len(f)
      BY <1>0, <1>1
    <3> QED
      BY <1>0, <1>1, <3>1, Cut
  <2>5. n - 1 + 1 = n /\ (IF 1 <= n THEN n - 1 + 1 ELSE 0) = n
    BY <1>0
  <2>6. Len(items) = n
    BY <2>3, <2>4, <2>5
  <2>7. ASSUME NEW i \in 1..n PROVE items[i] = f[i]
    <3>1. i \in 1..n - 1 + 1 /\ 1 + i - 1 = i
      BY <1>0
    <3> QED
      BY <2>3, <2>4, <3>1
  <2> HIDE DEF items
  <2> QED
    BY <1>1, <1>9, <2>6, <2>7, SeqEqual
<1> HIDE DEF items
<1>11. Len(items) \in Nat /\ (PerPage > 0 => Len(items) <= PerPage)
  <2>1. Len(items) \in Nat /\ Len(items) <= size
    BY <1>2, <1>3, <1>9
  <2> QED
    BY <1>5, <1>6, <2>1
<1>12. ASSUME ~Unbounded, NEW i \in 1..n, (p - 1) * PerPage < i, i <= p * PerPage
       PROVE  f[i] \in ToSet(items)
  <2>1. o < i /\ i <= o + size
    BY <1>5, <1>8, <1>12
  <2>2. i \in o + 1..b
    BY <1>0, <1>2, <1>3, <2>1
  <2> QED
    BY <1>9, <2>2
<1> QED
  BY <1>1, <1>4, <1>9, <1>10, <1>11, <1>12

LEMMA NearOnes ==
  ASSUME open \subseteq Item, NEW L \in Seq(Item), NEW sem \in SemanticItems(L)
  PROVE  /\ sem \in Seq(Item) /\ Len(sem) \in Nat /\ IsInjective(sem)
         /\ ToSet(sem) \subseteq Item /\ ToSet(L) \cap ToSet(sem) = {}
<1> DEFINE near == (Near \cap open) \ ToSet(L)
<1>1. CASE sem = <<>>
  <2>1. sem \in Seq(Item) /\ Len(sem) = 0 /\ DOMAIN sem = {}
    BY <1>1
  <2> QED
    BY <2>1 DEF IsInjective, ToSet
<1>2. CASE sem # <<>>
  <2>1. PICK S \in SUBSET near : sem \in SetToSeqs(S)
    BY <1>2 DEF SemanticItems
  <2>2. S \in SUBSET Item /\ S \cap ToSet(L) = {}
    OBVIOUS
  <2>3. /\ sem \in Seq(Item) /\ Len(sem) \in Nat /\ DOMAIN sem = 1..Len(sem)
        /\ \A i, j \in 1..Len(sem) : sem[i] = sem[j] => i = j
        /\ ToSet(sem) = S
    BY <2>1, <2>2, Listed
  <2> QED
    BY <2>2, <2>3 DEF IsInjective
<1> QED
  BY <1>1, <1>2

\* A page with what is near behind it.
LEMMA MergedPage ==
  ASSUME NEW L \in Seq(Item), NEW M \in Seq(Item), IsInjective(L), IsInjective(M),
         ToSet(L) \cap ToSet(M) = {}, PerPage > 0 => Len(L) <= PerPage, NEW p \in Nat
  PROVE  LET page == Merged(p, L, M)
         IN  /\ page \in Seq(Item) /\ IsInjective(page)
             /\ ToSet(L) \subseteq ToSet(page) /\ ToSet(page) \subseteq ToSet(L) \cup ToSet(M)
             /\ PerPage > 0 => Len(page) <= PerPage
             /\ p = 1 /\ Len(L) + Len(M) <= PerPage => page = L \o M
<1> DEFINE J == L \o M
           n == Len(L)
           m == Len(J)
           page == Merged(p, L, M)
<1>0. PerPage \in Nat /\ n \in Nat /\ Len(M) \in Nat
  BY ListNumbers
<1>1. /\ J \in Seq(Item) /\ m = n + Len(M) /\ IsInjective(J)
      /\ ToSet(J) = ToSet(L) \cup ToSet(M) /\ \A i \in 1..n : J[i] = L[i]
  BY JoinedInjective
<1>2. ToSet(L) = {L[i] : i \in 1..n}
  BY DEF ToSet
<1>3. Merged(p, L, M) = IF p = 1 THEN CutToPage(J) ELSE L
  BY DEF Merged
<1> HIDE DEF J, n
<1>4. CASE p # 1
  BY <1>0, <1>3, <1>4 DEF n
<1>5. CASE p = 1 /\ ~(PerPage > 0 /\ m > PerPage)
  <2>1. page = J
    BY <1>3, <1>5 DEF CutToPage
  <2>2. PerPage > 0 => m <= PerPage
    BY <1>0, <1>1, <1>5
  <2> QED
    BY <1>1, <2>1, <2>2 DEF J
<1>6. CASE p = 1 /\ PerPage > 0 /\ m > PerPage
  <2>1. page = SubSeq(J, 1, PerPage)
    BY <1>3, <1>6 DEF CutToPage
  <2>2. 1 \in Nat /\ 1 >= 1 /\ PerPage <= m /\ 1 <= PerPage /\ PerPage - 1 + 1 = PerPage
    BY <1>0, <1>1, <1>6
  <2>3. /\ page \in Seq(Item) /\ IsInjective(page) /\ Len(page) = PerPage
        /\ ToSet(page) \subseteq ToSet(J) /\ \A i \in 1..PerPage : J[i] \in ToSet(page)
    <3>1. /\ SubSeq(J, 1, PerPage) \in Seq(Item) /\ IsInjective(SubSeq(J, 1, PerPage))
          /\ Len(SubSeq(J, 1, PerPage)) = IF 1 <= PerPage THEN PerPage - 1 + 1 ELSE 0
          /\ ToSet(SubSeq(J, 1, PerPage)) \subseteq ToSet(J)
          /\ \A i \in 1..PerPage : J[i] \in ToSet(SubSeq(J, 1, PerPage))
      BY <1>0, <1>1, <2>2, CutInjective
    <3> QED
      BY <2>1, <2>2, <3>1
  <2> HIDE DEF page
  <2>4. n <= PerPage
    BY <1>6 DEF n
  <2>5. ToSet(L) \subseteq ToSet(page)
    <3>1. ASSUME NEW i \in 1..n PROVE L[i] \in ToSet(page)
      <4>1. i \in 1..PerPage
        BY <1>0, <2>4
      <4> QED
        BY <1>1, <2>3, <4>1
    <3> QED
      BY <1>2, <3>1
  <2>6. ~(n + Len(M) <= PerPage)
    BY <1>0, <1>1, <1>6
  <2> QED
    BY <1>0, <1>1, <1>6, <2>3, <2>5, <2>6 DEF page, n
<1> QED
  BY <1>4, <1>5, <1>6

LEMMA PageOfRequest ==
  ASSUME NEW asked \in Nat \ {0}, NEW n \in Nat
  PROVE  LET p == Least(asked, PagesFor(n))
         IN  /\ p \in Nat \ {0} /\ p <= asked
             /\ asked <= PagesFor(n) => p = asked
             /\ p < asked => PagesFor(n) <= p
             /\ asked = 1 => p = 1
<1>1. PagesFor(n) \in Nat /\ PagesFor(n) >= 1
  BY Pages
<1> QED
  BY <1>1 DEF Least

\* What a request shows, whichever order the database takes and whatever the
\* embedding finds.
LEMMA RequestShows ==
  ASSUME open \subseteq Item, scores \in [Item -> Nat],
         NEW asked \in Nat \ {0}, NEW S \in SUBSET Item, Request(asked, S)
  PROVE  /\ PageTyped(reader')
         /\ ~Unbounded =>
               /\ PagesFor(Cardinality(Literal)) <= reader'.pages
               /\ reader'.page < reader'.asked => PagesFor(Cardinality(Literal)) <= reader'.page
               /\ NoTies /\ Met(asked - 1, S) => Met(reader'.page, reader'.seen)
               /\ OnOnePage(reader')
<1>1. PICK f \in Orders :
        LET p == LiteralPage(asked)
            items == LiteralItems(f, p)
        IN  \E sem \in SemanticItems(items) :
              reader' = [page |-> p, asked |-> asked, items |-> Merged(p, items, sem),
                         total |-> Len(f) + Len(sem),
                         pages |-> IF sem = <<>> \/ Unbounded THEN PagesFor(Len(f))
                                   ELSE Most(PagesFor(Len(f)), PagesFor(Len(f) + Len(sem))),
                         seen |-> S \cup ToSet(Merged(p, items, sem)), found |-> ToSet(sem)]
  BY DEF Request
<1> DEFINE p == LiteralPage(asked)
           items == LiteralItems(f, p)
<1>2. PICK sem \in SemanticItems(items) :
        reader' = [page |-> p, asked |-> asked, items |-> Merged(p, items, sem),
                   total |-> Len(f) + Len(sem),
                   pages |-> IF sem = <<>> \/ Unbounded THEN PagesFor(Len(f))
                             ELSE Most(PagesFor(Len(f)), PagesFor(Len(f) + Len(sem))),
                   seen |-> S \cup ToSet(Merged(p, items, sem)), found |-> ToSet(sem)]
  BY <1>1
<1> DEFINE n == Len(f)
           page == Merged(p, items, sem)
<1>3. /\ f \in Seq(Item) /\ n \in Nat /\ n = Cardinality(Literal) /\ ToSet(f) = Literal
      /\ IsInjective(f) /\ DOMAIN f = 1..n /\ \A i \in 1..n : f[i] \in Literal
  BY Matched
<1>4. /\ p \in Nat \ {0} /\ p <= asked /\ (asked <= PagesFor(n) => p = asked)
      /\ (p < asked => PagesFor(n) <= p) /\ (asked = 1 => p = 1)
  BY <1>3, PageOfRequest DEF LiteralPage
<1> HIDE DEF p
<1>5. /\ items \in Seq(Item) /\ Len(items) \in Nat /\ IsInjective(items)
      /\ ToSet(items) \subseteq Literal
      /\ PerPage > 0 => Len(items) <= PerPage
      /\ ~Unbounded => \A i \in 1..n :
            (p - 1) * PerPage < i /\ i <= p * PerPage => f[i] \in ToSet(items)
      /\ ~Unbounded /\ p = 1 /\ n <= PerPage => items = f
  BY <1>4, OfPage
<1> HIDE DEF items
<1>6. /\ sem \in Seq(Item) /\ Len(sem) \in Nat /\ IsInjective(sem)
      /\ ToSet(sem) \subseteq Item /\ ToSet(items) \cap ToSet(sem) = {}
  BY <1>2, <1>5, NearOnes
<1>7. /\ page \in Seq(Item) /\ IsInjective(page)
      /\ ToSet(items) \subseteq ToSet(page) /\ ToSet(page) \subseteq ToSet(items) \cup ToSet(sem)
      /\ PerPage > 0 => Len(page) <= PerPage
      /\ p = 1 /\ Len(items) + Len(sem) <= PerPage => page = items \o sem
  BY <1>4, <1>5, <1>6, MergedPage
<1>8. Literal \subseteq Item
  BY DEF Literal
<1> HIDE DEF page, n
<1>9. /\ reader'.page = p /\ reader'.asked = asked /\ reader'.items = page /\ reader'.total = n + Len(sem)
      /\ reader'.seen = S \cup ToSet(page) /\ reader'.found = ToSet(sem)
      /\ reader'.pages = IF sem = <<>> \/ Unbounded THEN PagesFor(n)
                         ELSE Most(PagesFor(n), PagesFor(n + Len(sem)))
  BY <1>2 DEF n, page
<1>10. reader'.pages \in Nat /\ PagesFor(n) <= reader'.pages
  <2>1. n + Len(sem) \in Nat /\ n + Len(sem) >= n
    BY <1>3, <1>6
  <2>2. PagesFor(n) \in Nat /\ PagesFor(n + Len(sem)) \in Nat
    BY <1>3, <2>1, Pages
  <2> QED
    BY <1>9, <2>2 DEF Most
<1>11. PageTyped(reader')
  <2>1. reader'.total \in Nat
    BY <1>3, <1>6, <1>9
  <2>2. reader'.seen \subseteq Item /\ ToSet(reader'.items) \subseteq reader'.seen
    BY <1>5, <1>6, <1>7, <1>8, <1>9
  <2> QED
    BY <1>4, <1>7, <1>9, <1>10, <2>1, <2>2 DEF PageTyped
<1>12. ASSUME ~Unbounded, NoTies, Met(asked - 1, S) PROVE Met(reader'.page, reader'.seen)
  <2>0. ASSUME NEW x \in Literal, Rank(x) <= p * PerPage PROVE Rank(x) <= asked * PerPage
    <3> DEFINE a == asked * PerPage
               b == p * PerPage
    <3>1. p \in Int /\ asked \in Int /\ p <= asked /\ PerPage \in Nat
      BY <1>4, ListNumbers
    <3>2. b \in Int /\ a \in Int /\ b <= a
      BY <3>1, TimesOrder
    <3>3. Rank(x) \in Nat /\ Rank(x) <= b
      <4>1. {y \in Literal : scores[y] >= scores[x]} \in SUBSET Item
        BY <1>8
      <4> QED
        BY <2>0, <4>1, MatchesCounted DEF Rank
    <3> HIDE DEF a, b
    <3>4. Rank(x) <= a
      BY <3>2, <3>3
    <3> QED
      BY <3>4 DEF a
  <2> SUFFICES ASSUME NEW x \in Literal, Rank(x) <= asked * PerPage PROVE x \in reader'.seen
    BY <1>9, <2>0 DEF Met
  <2>1. PICK k \in 1..n : f[k] = x
    BY Matched DEF n
  <2>2. Rank(x) = k /\ k \in Nat /\ k <= n
    BY <1>3, <1>12, <2>1, Ranked DEF n
  <2>3. CASE k <= (asked - 1) * PerPage
    BY <1>9, <1>12, <2>2, <2>3 DEF Met
  <2>4. CASE ~(k <= (asked - 1) * PerPage)
    <3> DEFINE d == PagesFor(n)
    <3>1. d \in Nat /\ n <= d * PerPage /\ PerPage \in Nat
      BY <1>3, <1>12, Pages, ListNumbers
    <3> HIDE DEF d
    <3>2. asked <= d
      <4>1. SUFFICES ASSUME d <= asked - 1 PROVE FALSE
        BY <3>1
      <4> DEFINE b == asked - 1
                 P == d * PerPage
                 Q == b * PerPage
      <4>2. b \in Int /\ d \in Int /\ d <= b
        BY <3>1, <4>1
      <4> HIDE DEF b
      <4>3. P \in Int /\ Q \in Int /\ P <= Q
        BY <3>1, <4>2, TimesOrder
      <4>4. n <= P /\ ~(k <= Q) /\ k \in Nat /\ k <= n /\ n \in Nat
        BY <1>3, <2>2, <2>4, <3>1 DEF b
      <4> HIDE DEF P, Q
      <4> QED
        BY <4>3, <4>4
    <3>3. p = asked
      BY <1>4, <3>2 DEF d
    <3>4. (asked - 1) * PerPage \in Int
      BY <3>1
    <3>5. (p - 1) * PerPage < k /\ k <= p * PerPage
      BY <2>2, <2>4, <3>3, <3>4
    <3>6. x \in ToSet(items)
      BY <1>5, <1>12, <2>1, <3>5
    <3> QED
      BY <1>7, <1>9, <3>6
  <2> QED
    BY <2>3, <2>4
<1>13. ASSUME ~Unbounded PROVE OnOnePage(reader')
  <2> SUFFICES ASSUME p = 1, n + Len(sem) <= PerPage
               PROVE  /\ ToSet(page) = Literal \cup ToSet(sem)
                      /\ Len(page) = n + Len(sem)
                      /\ \A i, j \in DOMAIN page : page[i] \in Literal /\ page[j] \notin Literal => i < j
    BY <1>3, <1>4, <1>9 DEF OnOnePage
  <2>1. p = 1 /\ n <= PerPage
    BY <1>3, <1>4, <1>6, ListNumbers
  <2>2. items = f
    BY <1>5, <1>13, <2>1
  <2>3. page = f \o sem
    BY <1>7, <2>1, <2>2 DEF n
  <2>4. ToSet(f) \cap ToSet(sem) = {}
    BY <1>6, <2>2
  <2>5. /\ Len(page) = n + Len(sem) /\ ToSet(page) = Literal \cup ToSet(sem)
        /\ \A i \in 1..n : page[i] = f[i]
        /\ \A i \in 1..Len(sem) : page[n + i] = sem[i]
    <3>1. /\ Len(f \o sem) = Len(f) + Len(sem) /\ ToSet(f \o sem) = ToSet(f) \cup ToSet(sem)
          /\ \A i \in 1..Len(f) : (f \o sem)[i] = f[i]
          /\ \A i \in 1..Len(sem) : (f \o sem)[Len(f) + i] = sem[i]
      BY <1>3, <1>6, <2>4, JoinedInjective
    <3>2. Len(f) = n
      BY DEF n
    <3> QED
      BY <1>3, <2>3, <3>1, <3>2
  <2>6. DOMAIN page = 1..n + Len(sem)
    BY <1>7, <2>5
  <2>7. ASSUME NEW i \in DOMAIN page, page[i] \in Literal PROVE i <= n
    <3> SUFFICES ASSUME i > n PROVE FALSE
      BY <1>3, <2>6
    <3>1. i - n \in 1..Len(sem) /\ n + (i - n) = i
      BY <1>3, <1>6, <2>6
    <3>2. page[i] = sem[i - n]
      BY <2>5, <3>1
    <3>3. sem[i - n] \in ToSet(sem)
      BY <1>6, <3>1 DEF ToSet
    <3> QED
      BY <1>3, <2>4, <2>7, <3>2, <3>3
  <2>8. ASSUME NEW j \in DOMAIN page, page[j] \notin Literal PROVE j > n
    <3> SUFFICES ASSUME j <= n PROVE FALSE
      BY <1>3, <2>6
    <3>1. j \in 1..n
      BY <1>3, <2>6
    <3> QED
      BY <1>3, <2>5, <2>8, <3>1
  <2>9. ASSUME NEW i \in DOMAIN page, NEW j \in DOMAIN page, page[i] \in Literal, page[j] \notin Literal
        PROVE  i < j
    <3>1. i <= n /\ j > n /\ i \in Nat /\ j \in Nat
      BY <2>6, <2>7, <2>8, <2>9
    <3> QED
      BY <1>3, <3>1
  <2> QED
    BY <2>5, <2>9
<1>14. /\ PagesFor(Cardinality(Literal)) <= reader'.pages
       /\ reader'.page < reader'.asked => PagesFor(Cardinality(Literal)) <= reader'.page
  BY <1>3, <1>4, <1>9, <1>10
<1> QED
  BY <1>9, <1>11, <1>12, <1>13, <1>14

LEMMA ListBegins == ListInit => ListInv
<1> SUFFICES ASSUME ListInit PROVE ListInv
  OBVIOUS
<1>1. reader.page = 0 /\ PageTyped(reader)
  <2>1. /\ reader.page = 0 /\ reader.asked = 0 /\ reader.pages = 0 /\ reader.total = 0 /\ reader.items = <<>>
        /\ reader.seen = {}
    BY DEF ListInit, NoPage
  <2>2. reader.items \in Seq(Item) /\ Len(reader.items) = 0 /\ DOMAIN reader.items = {}
    BY <2>1
  <2> QED
    BY <2>1, <2>2, ListNumbers DEF PageTyped, IsInjective, ToSet
<1>2. Unchanged(reader)
  BY <1>1 DEF Unchanged
<1> QED
  BY <1>1, <1>2, ListNumbers DEF ListInv, ListInit

LEMMA SameList ==
  ASSUME UNCHANGED <<scores, open>>
  PROVE  /\ (Literal)' = Literal /\ (NoTies)' = NoTies
         /\ \A x : (Rank(x))' = Rank(x)
<1>1. Literal' = Literal
  BY DEF Literal
<1> QED
  BY <1>1 DEF NoTies, Rank

LEMMA Requested ==
  ASSUME ListInv, NEW asked \in Nat \ {0}, NEW S \in SUBSET Item, Request(asked, S),
         UNCHANGED <<scores, open>>,
         ~changed' /\ ~Unbounded /\ NoTies => Met(asked - 1, S)
  PROVE  ListInv'
<1>1. /\ PageTyped(reader')
      /\ ~Unbounded =>
            /\ PagesFor(Cardinality(Literal)) <= reader'.pages
            /\ reader'.page < reader'.asked => PagesFor(Cardinality(Literal)) <= reader'.page
            /\ NoTies /\ Met(asked - 1, S) => Met(reader'.page, reader'.seen)
            /\ OnOnePage(reader')
  BY RequestShows DEF ListInv
<1>2. Literal' = Literal /\ NoTies' = NoTies /\ \A x : (Rank(x))' = Rank(x)
  BY SameList
<1>3. ASSUME ~changed' PROVE Unchanged(reader)'
  <2> SUFFICES ASSUME ~Unbounded
               PROVE  /\ PagesFor(Cardinality(Literal')) <= reader'.pages
                      /\ reader'.page < reader'.asked => PagesFor(Cardinality(Literal')) <= reader'.page
                      /\ (NoTies)' => (Met(reader.page, reader.seen))'
                      /\ (OnOnePage(reader))'
    BY DEF Unchanged, Unbounded
  <2>1. /\ PagesFor(Cardinality(Literal')) <= reader'.pages
        /\ reader'.page < reader'.asked => PagesFor(Cardinality(Literal')) <= reader'.page
    BY <1>1, <1>2
  <2>2. ASSUME NoTies' PROVE (Met(reader.page, reader.seen))'
    <3>1. Met(reader'.page, reader'.seen)
      BY <1>1, <1>2, <1>3, <2>2
    <3> QED
      BY <1>1, <1>2, <3>1 DEF Met
  <2>3. (OnOnePage(reader))'
    BY <1>1, <1>2 DEF OnOnePage
  <2> QED
    BY <2>1, <2>2, <2>3
<1> QED
  BY <1>1, <1>3 DEF ListInv

LEMMA OpenListStep == ListInv /\ OpenList => ListInv'
<1> SUFFICES ASSUME ListInv, OpenList PROVE ListInv'
  OBVIOUS
<1>1. Request(1, {}) /\ UNCHANGED <<scores, open>> /\ {} \in SUBSET Item
  BY DEF OpenList
<1>2. Met(1 - 1, {})
  <2> SUFFICES ASSUME NEW x \in Literal, Rank(x) <= (1 - 1) * PerPage PROVE FALSE
    BY DEF Met
  <2> DEFINE U == {y \in Literal : scores[y] >= scores[x]}
  <2>1. x \in Item /\ scores[x] \in Nat
    BY DEF ListInv, Literal
  <2>2. x \in U /\ U \in SUBSET Item
    BY <2>1 DEF Literal, ListInv
  <2>3. IsFiniteSet(U) /\ Cardinality(U) \in Nat
    BY <2>2, MatchesCounted DEF ListInv
  <2>4. (1 - 1) * PerPage = 0
    BY ListNumbers
  <2>5. Cardinality(U) = 0
    BY <2>3, <2>4 DEF Rank
  <2> QED
    BY <2>2, <2>3, <2>5, FS_EmptySet
<1>3. 1 \in Nat \ {0}
  OBVIOUS
<1> QED
  BY <1>1, <1>2, <1>3, Requested

LEMMA TurnPageStep == ListInv /\ TurnPage => ListInv'
<1> SUFFICES ASSUME ListInv, TurnPage PROVE ListInv'
  OBVIOUS
<1> DEFINE asked == reader.page + 1
<1>1. /\ Request(reader.page + 1, reader.seen) /\ UNCHANGED <<scores, open>>
      /\ changed' = changed /\ reader.page > 0
  BY DEF TurnPage
<1>2. reader.page \in Nat /\ reader.seen \in SUBSET Item
  BY DEF ListInv, PageTyped
<1>3. asked \in Nat \ {0} /\ asked - 1 = reader.page
  BY <1>2
<1>4. ~changed' /\ ~Unbounded /\ NoTies => Met(asked - 1, reader.seen)
  BY <1>1, <1>3 DEF ListInv, Unchanged
<1> QED
  BY <1>1, <1>2, <1>3, <1>4, Requested

LEMMA EvaluatedStep == ASSUME NEW i \in Item PROVE ListInv /\ Evaluated(i) => ListInv'
<1> SUFFICES ASSUME ListInv, Evaluated(i) PROVE ListInv'
  OBVIOUS
<1>1. changed' = TRUE /\ reader' = reader /\ open' = open
  BY DEF Evaluated, Changes
<1>2. scores' \in [Item -> Nat]
  BY ListNumbers DEF Evaluated, ListInv
<1> QED
  BY <1>1, <1>2 DEF ListInv

LEMMA CloseIssueStep == ASSUME NEW i \in Item PROVE ListInv /\ CloseIssue(i) => ListInv'
<1> SUFFICES ASSUME ListInv, CloseIssue(i) PROVE ListInv'
  OBVIOUS
<1>1. changed' = TRUE /\ reader' = reader /\ open' \subseteq open /\ scores' = scores
  BY DEF CloseIssue, Changes
<1> QED
  BY <1>1 DEF ListInv

LEMMA ListSteps == ListInv /\ [ListNext]_listVars => ListInv'
<1>1. ListInv /\ ListNext => ListInv'
  BY OpenListStep, TurnPageStep, EvaluatedStep, CloseIssueStep DEF ListNext
<1>2. ListInv /\ UNCHANGED listVars => ListInv'
  <2> SUFFICES ASSUME ListInv, UNCHANGED listVars PROVE ListInv'
    OBVIOUS
  <2>1. UNCHANGED <<scores, open, reader, changed>>
    BY DEF listVars
  <2>2. Literal' = Literal /\ NoTies' = NoTies /\ \A x : (Rank(x))' = Rank(x)
    BY <2>1, SameList
  <2>3. Unchanged(reader) => Unchanged(reader)'
    BY <2>1, <2>2 DEF Unchanged, Met, OnOnePage, Unbounded
  <2> QED
    BY <2>1, <2>3 DEF ListInv
<1> QED
  BY <1>1, <1>2

LEMMA ListSafe == ListInv => ListTypeOK /\ PagesShowAll
<1> SUFFICES ASSUME ListInv PROVE ListTypeOK /\ PagesShowAll
  OBVIOUS
<1>1. ListTypeOK
  BY DEF ListInv, PageTyped, ListTypeOK
<1>2. ASSUME ~changed, ~Unbounded, NoTies, reader.page > 0,
             reader.page = reader.pages \/ reader.page < reader.asked
      PROVE  Literal \subseteq reader.seen
  <2> DEFINE n == Cardinality(Literal)
             p == reader.page
             d == PagesFor(n)
  <2>1. d <= p /\ Met(p, reader.seen)
    BY <1>2 DEF ListInv, Unchanged
  <2>2. n \in Nat /\ p \in Nat /\ PerPage \in Nat /\ IsFiniteSet(Literal)
    BY MatchesCounted, ListNumbers DEF ListInv, PageTyped
  <2>3. d \in Nat /\ n <= d * PerPage
    BY <1>2, <2>2, Pages
  <2> HIDE DEF n, p, d
  <2>4. d \in Int /\ p \in Int /\ d <= p
    BY <2>1, <2>2, <2>3
  <2>5. d * PerPage \in Int /\ p * PerPage \in Int /\ d * PerPage <= p * PerPage
    BY <2>2, <2>4, TimesOrder
  <2>6. n <= p * PerPage
    BY <2>2, <2>3, <2>5
  <2>7. ASSUME NEW x \in Literal PROVE x \in reader.seen
    <3> DEFINE U == {y \in Literal : scores[y] >= scores[x]}
    <3>1. U \in SUBSET Literal
      OBVIOUS
    <3>2. Cardinality(U) <= n /\ Cardinality(U) \in Nat
      BY <2>2, <3>1, FS_Subset, FS_CardinalityType DEF n
    <3>3. Rank(x) <= p * PerPage
      BY <2>2, <2>5, <2>6, <3>2 DEF Rank
    <3> QED
      BY <2>1, <3>3 DEF Met
  <2> QED
    BY <2>7
<1>3. ~changed /\ ~Unbounded /\ reader.page > 0 => OnOnePage(reader)
  BY DEF ListInv, Unchanged
<1>4. PageTyped(reader)
  BY DEF ListInv
<1>5. (PerPage > 0 => Len(reader.items) <= PerPage) /\ IsInjective(reader.items)
  BY <1>4 DEF PageTyped
<1>6. ASSUME ~changed, ~Unbounded, reader.page = 1, reader.total <= PerPage
      PROVE  /\ ToSet(reader.items) = Literal \cup reader.found
             /\ Len(reader.items) = reader.total
             /\ \A m, n \in DOMAIN reader.items :
                   reader.items[m] \in Literal /\ reader.items[n] \notin Literal => m < n
  BY <1>3, <1>6 DEF OnOnePage
<1> QED
  BY <1>1, <1>2, <1>5, <1>6 DEF PagesShowAll

-----------------------------------------------------------------------------
(* Tokens *)

\* In the module EvalTokens: what the cache holds of a token that is no more.
\* A secret belongs to one token.
OneOwner ==
    \A t, u \in Token : tokens[t].secret = tokens[u].secret /\ tokens[t].secret # NoSecret => t = u

\* A valid secret has not ended.
ValidNotEnded ==
    \A t \in Token : tokens[t].active => tokens[t].secret \in Secret /\ ended[tokens[t].secret] = Never

\* What the cache and the requests under way hold is no younger than the end
\* of a secret.
CacheBefore == \A s \in Secret : cache[s] # Never /\ ended[s] # Never => cache[s] <= ended[s]

LookedUpBefore ==
    \A c \in Client : LET q == requests[c] IN
        /\ q.at # "free" => q.secret \in Secret
        /\ q.at = "looking" /\ q.valid /\ ended[q.secret] # Never => q.began <= ended[q.secret]

TokensInv ==
    /\ TokensTypeOK /\ OneOwner /\ ValidNotEnded
    /\ CacheBefore /\ LookedUpBefore /\ RevocationHolds

-----------------------------------------------------------------------------
LEMMA TokensBegin == TokensInit => TokensInv
<1> SUFFICES ASSUME TokensInit PROVE TokensInv
  OBVIOUS
<1> USE DEF TokensInit
<1>1. TokensTypeOK
  BY TokenAssumption DEF TokenAssumption, TokensTypeOK, NoToken, Free, Never
<1>2. OneOwner /\ ValidNotEnded
  BY DEF OneOwner, ValidNotEnded, NoToken
<1>3. CacheBefore /\ LookedUpBefore /\ RevocationHolds
  BY DEF CacheBefore, LookedUpBefore, RevocationHolds, Free
<1> QED
  BY <1>1, <1>2, <1>3 DEF TokensInv

LEMMA TokenFacts ==
  ASSUME TokensTypeOK
  PROVE  /\ clock \in Nat /\ TTL \in Nat /\ TTL > 0 /\ NoSecret \notin Secret
         /\ \A s \in Secret : /\ cache[s] \in Int /\ cache[s] <= clock
                              /\ ended[s] \in Int /\ ended[s] <= clock
                              /\ cache[s] # Never => cache[s] \in Nat
                              /\ ended[s] # Never => ended[s] \in Nat
         /\ \A c \in Client : requests[c].began \in Nat /\ requests[c].began <= clock
  BY TokenAssumption DEF TokenAssumption, TokensTypeOK, Never

-----------------------------------------------------------------------------
(* One lemma for each action *)

LEMMA WaitStep == TokensInv /\ Wait => TokensInv'
<1> SUFFICES ASSUME TokensInv, Wait PROVE TokensInv'
  OBVIOUS
<1> USE DEF TokensInv, Wait
<1>1. TokensTypeOK'
  <2>1. clock' \in 0..MaxTime /\ clock' >= clock /\ clock' \in Nat
    BY TokenAssumption DEF TokensTypeOK, TokenAssumption
  <2>2. 0..clock \subseteq 0..clock'
    BY <2>1, TokenFacts
  <2> QED
    BY <2>1, <2>2 DEF TokensTypeOK
<1>2. OneOwner' /\ ValidNotEnded' /\ CacheBefore' /\ LookedUpBefore' /\ RevocationHolds'
  BY DEF OneOwner, ValidNotEnded, CacheBefore, LookedUpBefore, RevocationHolds
<1> QED
  BY <1>1, <1>2

\* Create and Rotate give a token a secret nobody had before.
LEMMA GivesSecret ==
  ASSUME TokensInv, NEW t \in Token, NEW s \in Secret \ Given,
         tokens' = [tokens EXCEPT ![t] = [secret |-> s, active |-> TRUE]]
  PROVE  /\ tokens' \in [Token -> [secret : Secret \cup {NoSecret}, active : BOOLEAN]]
         /\ OneOwner'
         /\ ended[s] = Never
         /\ \A u \in Token : tokens[u].secret # s
<1> USE DEF TokensInv
<1>1. ended[s] = Never /\ \A u \in Token : tokens[u].secret # s
  BY DEF Given
<1>2. tokens \in [Token -> [secret : Secret \cup {NoSecret}, active : BOOLEAN]]
  BY DEF TokensTypeOK
<1>3. tokens' \in [Token -> [secret : Secret \cup {NoSecret}, active : BOOLEAN]]
  BY <1>2
<1>4. OneOwner'
  BY <1>1, <1>2 DEF OneOwner
<1> QED
  BY <1>1, <1>3, <1>4

LEMMA CreateStep == ASSUME NEW t \in Token PROVE TokensInv /\ Create(t) => TokensInv'
<1> SUFFICES ASSUME TokensInv, Create(t) PROVE TokensInv'
  OBVIOUS
<1> USE DEF TokensInv
<1>1. PICK s \in Secret \ Given : tokens' = [tokens EXCEPT ![t] = [secret |-> s, active |-> TRUE]]
  BY DEF Create
<1>2. UNCHANGED <<clock, cache, requests, ended>>
  BY DEF Create
<1>3. TokensTypeOK' /\ OneOwner'
  BY <1>1, <1>2, GivesSecret DEF TokensTypeOK
<1>4. ValidNotEnded'
  BY <1>1, <1>2, GivesSecret DEF ValidNotEnded, TokensTypeOK
<1>5. CacheBefore' /\ LookedUpBefore' /\ RevocationHolds'
  BY <1>2 DEF CacheBefore, LookedUpBefore, RevocationHolds
<1> QED
  BY <1>3, <1>4, <1>5

\* An active token's secret ends now.
LEMMA Ends ==
  ASSUME TokensInv, NEW t \in Token, tokens[t].active,
         ended' = [ended EXCEPT ![tokens[t].secret] = clock],
         UNCHANGED <<clock, requests>>,
         \A s \in Secret : cache'[s] \in {cache[s], Never}
  PROVE  /\ ended' \in [Secret -> {Never} \cup 0..clock']
         /\ \A u \in Token : u # t /\ tokens[u].active =>
               ended'[tokens[u].secret] = Never
         /\ CacheBefore' /\ LookedUpBefore' /\ RevocationHolds'
<1> USE DEF TokensInv
<1> DEFINE s == tokens[t].secret
<1>1. s \in Secret /\ ended[s] = Never
  BY DEF ValidNotEnded
<1>2. \A x \in Secret : ended'[x] = IF x = s THEN clock ELSE ended[x]
  BY <1>1 DEF TokensTypeOK
<1>3. ended' \in [Secret -> {Never} \cup 0..clock']
  BY <1>1, TokenFacts DEF TokensTypeOK
<1>4. ASSUME NEW u \in Token, u # t, tokens[u].active
      PROVE  ended'[tokens[u].secret] = Never
  <2>1. tokens[u].secret \in Secret /\ ended[tokens[u].secret] = Never
    BY <1>4 DEF ValidNotEnded
  <2>2. tokens[u].secret # s
    BY <1>1, <1>4, <2>1, TokenFacts DEF OneOwner
  <2> QED
    BY <1>2, <2>1, <2>2
<1>5. CacheBefore'
  BY <1>2, TokenFacts DEF CacheBefore
<1>6. LookedUpBefore'
  BY <1>2, TokenFacts DEF LookedUpBefore
<1>7. RevocationHolds'
  BY <1>2, TokenFacts DEF RevocationHolds, LookedUpBefore
<1> QED
  BY <1>3, <1>4, <1>5, <1>6, <1>7

LEMMA RevokeStep ==
  ASSUME NEW t \in Token, NEW byAdmin \in BOOLEAN PROVE TokensInv /\ Revoke(t, byAdmin) => TokensInv'
<1> SUFFICES ASSUME TokensInv, Revoke(t, byAdmin) PROVE TokensInv'
  OBVIOUS
<1> USE DEF TokensInv
<1>1. /\ tokens[t].active
      /\ tokens' = [tokens EXCEPT ![t].active = FALSE]
      /\ ended' = [ended EXCEPT ![tokens[t].secret] = clock]
      /\ UNCHANGED <<clock, requests>>
  BY DEF Revoke
<1>2. cache' \in [Secret -> {Never} \cup 0..clock] /\ \A s \in Secret : cache'[s] \in {cache[s], Never}
  BY DEF Revoke, Evicted, TokensTypeOK
<1>3. /\ ended' \in [Secret -> {Never} \cup 0..clock']
      /\ \A u \in Token : u # t /\ tokens[u].active => ended'[tokens[u].secret] = Never
      /\ CacheBefore' /\ LookedUpBefore' /\ RevocationHolds'
  BY <1>1, <1>2, Ends
<1>4. /\ tokens' \in [Token -> [secret : Secret \cup {NoSecret}, active : BOOLEAN]]
      /\ \A u \in Token : /\ tokens'[u].secret = tokens[u].secret
                          /\ u # t => tokens'[u].active = tokens[u].active
                          /\ ~tokens'[t].active
  BY <1>1 DEF TokensTypeOK
<1>5. TokensTypeOK'
  BY <1>1, <1>2, <1>3, <1>4 DEF TokensTypeOK
<1>6. OneOwner' /\ ValidNotEnded'
  BY <1>3, <1>4 DEF OneOwner, ValidNotEnded
<1> QED
  BY <1>3, <1>5, <1>6

LEMMA RotateStep == ASSUME NEW t \in Token PROVE TokensInv /\ Rotate(t) => TokensInv'
<1> SUFFICES ASSUME TokensInv, Rotate(t) PROVE TokensInv'
  OBVIOUS
<1> USE DEF TokensInv
<1>1. PICK s \in Secret \ Given : tokens' = [tokens EXCEPT ![t] = [secret |-> s, active |-> TRUE]]
  BY DEF Rotate
<1>2. UNCHANGED <<clock, cache, requests>>
  BY DEF Rotate
<1>3. CASE tokens[t].active
  <2>1. ended' = [ended EXCEPT ![tokens[t].secret] = clock]
    BY <1>3 DEF Rotate
  <2>2. /\ ended' \in [Secret -> {Never} \cup 0..clock']
        /\ \A u \in Token : u # t /\ tokens[u].active => ended'[tokens[u].secret] = Never
        /\ CacheBefore' /\ LookedUpBefore' /\ RevocationHolds'
    BY <1>2, <1>3, <2>1, Ends
  <2>3. ended'[s] = Never
    BY <1>1, <2>1, GivesSecret DEF TokensTypeOK
  <2>4. TokensTypeOK' /\ OneOwner'
    BY <1>1, <1>2, <2>2, GivesSecret DEF TokensTypeOK
  <2>5. ValidNotEnded'
    BY <1>1, <2>2, <2>3 DEF ValidNotEnded, TokensTypeOK
  <2> QED
    BY <2>2, <2>4, <2>5
<1>4. CASE ~tokens[t].active
  <2>1. ended' = ended
    BY <1>4 DEF Rotate
  <2>2. TokensTypeOK' /\ OneOwner'
    BY <1>1, <1>2, <2>1, GivesSecret DEF TokensTypeOK
  <2>3. ValidNotEnded'
    BY <1>1, <2>1, GivesSecret DEF ValidNotEnded, TokensTypeOK
  <2>4. CacheBefore' /\ LookedUpBefore' /\ RevocationHolds'
    BY <1>2, <2>1 DEF CacheBefore, LookedUpBefore, RevocationHolds
  <2> QED
    BY <2>2, <2>3, <2>4
<1> QED
  BY <1>3, <1>4

-----------------------------------------------------------------------------
LEMMA CachedStep ==
  ASSUME NEW c \in Client, NEW s \in Secret PROVE TokensInv /\ Cached(c, s) => TokensInv'
<1> SUFFICES ASSUME TokensInv, Cached(c, s) PROVE TokensInv'
  OBVIOUS
<1> USE DEF TokensInv, Cached
<1> DEFINE new == [at |-> "accepted", secret |-> s, began |-> clock, valid |-> TRUE]
<1>1. \A d \in Client : requests'[d] = IF d = c THEN new ELSE requests[d]
  BY DEF TokensTypeOK
<1>2. TokensTypeOK'
  BY TokenFacts DEF TokensTypeOK
<1>3. OneOwner' /\ ValidNotEnded' /\ CacheBefore'
  BY DEF OneOwner, ValidNotEnded, CacheBefore
<1>4. LookedUpBefore'
  BY <1>1 DEF LookedUpBefore
<1>5. ended[s] # Never => clock < ended[s] + TTL
  BY TokenFacts DEF Fresh, CacheBefore
<1>6. RevocationHolds'
  BY <1>1, <1>5 DEF RevocationHolds
<1> QED
  BY <1>2, <1>3, <1>4, <1>6

LEMMA LookupStep ==
  ASSUME NEW c \in Client, NEW s \in Secret PROVE TokensInv /\ Lookup(c, s) => TokensInv'
<1> SUFFICES ASSUME TokensInv, Lookup(c, s) PROVE TokensInv'
  OBVIOUS
<1> USE DEF TokensInv, Lookup
<1> DEFINE new == [at |-> "looking", secret |-> s, began |-> clock, valid |-> Valid(s)]
<1>0. Valid(s) \in BOOLEAN
  BY DEF Valid
<1>1. \A d \in Client : requests'[d] = IF d = c THEN new ELSE requests[d]
  BY DEF TokensTypeOK
<1>2. TokensTypeOK'
  BY <1>0, TokenFacts DEF TokensTypeOK
<1>3. OneOwner' /\ ValidNotEnded' /\ CacheBefore'
  BY DEF OneOwner, ValidNotEnded, CacheBefore
<1>4. Valid(s) => ended[s] = Never
  BY DEF Valid, ValidNotEnded
<1>5. LookedUpBefore'
  BY <1>1, <1>4 DEF LookedUpBefore
<1>6. RevocationHolds'
  BY <1>1 DEF RevocationHolds
<1> QED
  BY <1>2, <1>3, <1>5, <1>6

LEMMA AnswerStep == ASSUME NEW c \in Client PROVE TokensInv /\ Answer(c) => TokensInv'
<1> SUFFICES ASSUME TokensInv, Answer(c) PROVE TokensInv'
  OBVIOUS
<1> USE DEF TokensInv
<1> DEFINE q == requests[c]
           to == IF q.valid THEN "accepted" ELSE "refused"
<1>1. /\ q.at = "looking" /\ UNCHANGED <<clock, tokens, ended>>
      /\ cache' = IF q.valid THEN [cache EXCEPT ![q.secret] = q.began] ELSE cache
      /\ requests' = [requests EXCEPT ![c].at = to]
  BY DEF Answer, Stamp
<1>2. q.secret \in Secret /\ (q.valid /\ ended[q.secret] # Never => q.began <= ended[q.secret])
  BY <1>1 DEF LookedUpBefore
<1>3. \A s \in Secret : cache'[s] = IF q.valid /\ s = q.secret THEN q.began ELSE cache[s]
  BY <1>1 DEF TokensTypeOK
<1>4. /\ \A d \in Client \ {c} : requests'[d] = requests[d]
      /\ requests'[c].at = to /\ requests'[c].secret = q.secret
      /\ requests'[c].began = q.began /\ requests'[c].valid = q.valid
  BY <1>1 DEF TokensTypeOK
<1>5. TokensTypeOK'
  <2>1. cache' \in [Secret -> {Never} \cup 0..clock]
    BY <1>1, <1>2, TokenFacts DEF TokensTypeOK
  <2>2. to \in {"accepted", "refused"}
    OBVIOUS
  <2>3. requests' \in [Client -> [at : {"free", "looking", "accepted", "refused"},
                                  secret : Secret \cup {NoSecret},
                                  began : 0..clock, valid : BOOLEAN]]
    BY <1>1, <2>2 DEF TokensTypeOK
  <2> QED
    BY <1>1, <2>1, <2>3 DEF TokensTypeOK
<1>6. OneOwner' /\ ValidNotEnded'
  BY <1>1 DEF OneOwner, ValidNotEnded
<1>7. CacheBefore'
  BY <1>1, <1>2, <1>3 DEF CacheBefore
<1>8. LookedUpBefore'
  BY <1>1, <1>2, <1>4 DEF LookedUpBefore
<1>9. RevocationHolds'
  BY <1>1, <1>2, <1>4, TokenFacts DEF RevocationHolds
<1> QED
  BY <1>5, <1>6, <1>7, <1>8, <1>9

LEMMA LeaveStep == ASSUME NEW c \in Client PROVE TokensInv /\ Leave(c) => TokensInv'
<1> SUFFICES ASSUME TokensInv, Leave(c) PROVE TokensInv'
  OBVIOUS
<1> USE DEF TokensInv, Leave
<1>1. \A d \in Client : requests'[d] = IF d = c THEN Free ELSE requests[d]
  BY DEF TokensTypeOK
<1>2. Free.at = "free"
  BY DEF Free
<1>3. TokensTypeOK'
  BY TokenFacts DEF TokensTypeOK, Free
<1>4. OneOwner' /\ ValidNotEnded' /\ CacheBefore' /\ LookedUpBefore' /\ RevocationHolds'
  BY <1>1, <1>2 DEF OneOwner, ValidNotEnded, CacheBefore, LookedUpBefore, RevocationHolds
<1> QED
  BY <1>3, <1>4

-----------------------------------------------------------------------------
LEMMA TokensSteps == TokensInv /\ [TokensNext]_tokenVars => TokensInv'
<1>1. TokensInv /\ TokensNext => TokensInv'
  BY WaitStep, CreateStep, RotateStep, RevokeStep, CachedStep, LookupStep, AnswerStep, LeaveStep
  DEF TokensNext
<1>2. TokensInv /\ UNCHANGED tokenVars => TokensInv'
  BY DEF TokensInv, TokensTypeOK, OneOwner, ValidNotEnded, CacheBefore, LookedUpBefore,
         RevocationHolds, tokenVars
<1> QED
  BY <1>1, <1>2

-----------------------------------------------------------------------------
(* The scripts *)

\* In the module Backfills: what a row and a run look like.
States == {"open", "closed"}
TableRow == [there : BOOLEAN, text : 0..MaxText, meta : 0..MaxText, state : States, opinion : BOOLEAN,
             value : Nat \cup {NoValue} \cup (Nat \X States)]
Phase == {"idle", "read", "write", "rows", "merge", "ended", "failed"}
ChunkOf(S) == [S -> TableRow]
RunType == [at : Phase, last : Nat, chunk : UNION {ChunkOf(S) : S \in SUBSET Id}, left : SUBSET Id,
            processed : Nat, limit : Nat, all : BOOLEAN, dry : BOOLEAN, skipped : SUBSET Id,
            touched : SUBSET Id]

\* What the run q has come past.
Passed(i, q) ==
    \/ q.at = "ended"
    \/ q.at = "read" /\ i <= q.last
    \/ q.at = "write" /\ i <= q.last /\ i \notin DOMAIN q.chunk
    \/ q.at \in {"rows", "merge"} /\ (i <= q.last \/ script = "closing") /\ i \notin q.left

PassedFilled ==
    ~run.dry /\ run.limit = 0 =>
        \A i \in Id \ (run.skipped \cup run.touched) : table[i].there /\ Passed(i, run) => Filled(i)

\* The chunk of a run that is to write content hashes is as it was read.
ChunkFresh ==
    Hashes /\ run.at = "write" =>
        \A i \in DOMAIN run.chunk \ raced : /\ run.chunk[i].text = table[i].text
                                            /\ run.chunk[i].state = table[i].state

\* The row that closing references are about to be merged into is as it was read.
RowFresh ==
    run.at = "merge" =>
        Min(run.left) \in raced \/ run.chunk[Min(run.left)].meta = table[Min(run.left)].meta

\* A hash that is to correct that of a row is the row's.
HealsFresh ==
    \A h \in healing : h[1] \in raced \/ h[2] = HashOf(table[h[1]].text, table[h[1]].state)

Heals == Id \X (Nat \X States)

RunSound(q) ==
    /\ q \in RunType
    /\ q.left \subseteq DOMAIN q.chunk
    /\ q.limit > 0 => Embeds /\ q.processed <= q.limit
    /\ q.at = "write" => script # "closing" /\ ~q.dry /\ q.left = DOMAIN q.chunk
    /\ q.at = "rows" => ~Hashes
    /\ q.at = "merge" => script = "closing" /\ ~q.dry /\ q.left # {}

ScriptInv ==
    /\ script \in Scripts /\ table \in [Id -> TableRow] /\ raced \subseteq Id /\ runs \in 0..MaxRuns
    /\ RunSound(run)
    /\ healing \subseteq Heals /\ (healing # {} => Hashes)
    /\ HashesHonest /\ MetadataKept /\ ChunkFresh /\ PassedFilled /\ RowFresh /\ HealsFresh

LEMMA ScriptNumbers ==
  /\ LastId \in Nat /\ Missing \subseteq Id /\ Chunk \in Nat \ {0}
  /\ Limits \subseteq Nat /\ MaxText \in Nat /\ MaxRuns \in Nat
  /\ NoValue \notin Nat /\ NoValue \notin Nat \X States
  /\ Id \subseteq Nat /\ \A i \in Id : i >= 1 /\ i <= LastId
BY BackfillAssumption DEF BackfillAssumption, Id, States

LEMMA RowTyped ==
  ASSUME NEW r \in TableRow
  PROVE  /\ r.text \in 0..MaxText /\ r.text \in Nat /\ r.meta \in 0..MaxText /\ r.state \in States
         /\ r.there \in BOOLEAN /\ r.opinion \in BOOLEAN
         /\ r.value \in Nat \cup {NoValue} \cup (Nat \X States)
BY ScriptNumbers DEF TableRow

LEMMA ChunkRows ==
  ASSUME NEW q \in RunType, NEW i \in DOMAIN q.chunk
  PROVE  q.chunk[i] \in TableRow /\ i \in Id
<1>1. q.chunk \in UNION {ChunkOf(S) : S \in SUBSET Id}
  BY DEF RunType
<1>2. PICK S \in SUBSET Id : q.chunk \in ChunkOf(S)
  BY <1>1
<1> QED
  BY <1>2 DEF ChunkOf

\* The fields of a run, one by one and together.
LEMMA AtSet ==
  ASSUME NEW q \in RunType, NEW a \in Phase
  PROVE  /\ [q EXCEPT !.at = a] \in RunType /\ [q EXCEPT !.at = a].at = a
         /\ [q EXCEPT !.at = a].last = q.last /\ [q EXCEPT !.at = a].chunk = q.chunk
         /\ [q EXCEPT !.at = a].left = q.left /\ [q EXCEPT !.at = a].processed = q.processed
         /\ [q EXCEPT !.at = a].limit = q.limit /\ [q EXCEPT !.at = a].all = q.all
         /\ [q EXCEPT !.at = a].dry = q.dry /\ [q EXCEPT !.at = a].skipped = q.skipped
         /\ [q EXCEPT !.at = a].touched = q.touched
BY DEF RunType

MovedOn(q, a, S) == [q EXCEPT !.left = S, !.at = a]

LEMMA LeftSet ==
  ASSUME NEW q \in RunType, NEW a \in Phase, NEW S \in SUBSET Id
  PROVE  LET r == MovedOn(q, a, S)
         IN  /\ r \in RunType /\ r.at = a /\ r.left = S
             /\ r.last = q.last /\ r.chunk = q.chunk /\ r.processed = q.processed
             /\ r.limit = q.limit /\ r.all = q.all /\ r.dry = q.dry /\ r.skipped = q.skipped
             /\ r.touched = q.touched
<1> DEFINE e == [q EXCEPT !.left = S]
<1>1. /\ e \in RunType /\ e.left = S
      /\ e.at = q.at /\ e.last = q.last /\ e.chunk = q.chunk /\ e.processed = q.processed
      /\ e.limit = q.limit /\ e.all = q.all /\ e.dry = q.dry /\ e.skipped = q.skipped
      /\ e.touched = q.touched
  BY DEF RunType
<1>2. MovedOn(q, a, S) = [e EXCEPT !.at = a]
  BY DEF MovedOn
<1> HIDE DEF e
<1> QED
  BY <1>1, <1>2, AtSet

WithChunk(q, a, c, S, n, p) ==
    [q EXCEPT !.at = a, !.chunk = c, !.left = S, !.last = n, !.processed = p]

LEMMA ChunkSet ==
  ASSUME NEW q \in RunType, NEW a \in Phase, NEW S \in SUBSET Id, NEW c \in ChunkOf(S),
         NEW n \in Nat, NEW p \in Nat
  PROVE  LET r == WithChunk(q, a, c, S, n, p)
         IN  /\ r \in RunType /\ r.at = a /\ r.chunk = c /\ r.left = S /\ r.last = n /\ r.processed = p
             /\ r.limit = q.limit /\ r.all = q.all /\ r.dry = q.dry /\ r.skipped = q.skipped
             /\ r.touched = q.touched
<1> DEFINE e == [q EXCEPT !.at = a]
           f == [e EXCEPT !.chunk = c]
           g == [f EXCEPT !.left = S]
           h == [g EXCEPT !.last = n]
<1>1. WithChunk(q, a, c, S, n, p) = [h EXCEPT !.processed = p]
  BY DEF WithChunk
<1>2. /\ e \in RunType /\ e.at = a
      /\ e.limit = q.limit /\ e.all = q.all /\ e.dry = q.dry /\ e.skipped = q.skipped
      /\ e.touched = q.touched
  BY AtSet
<1> HIDE DEF e
<1>3. /\ f \in RunType /\ f.at = a /\ f.chunk = c
      /\ f.limit = q.limit /\ f.all = q.all /\ f.dry = q.dry /\ f.skipped = q.skipped
      /\ f.touched = q.touched
  <2>1. c \in UNION {ChunkOf(T) : T \in SUBSET Id}
    OBVIOUS
  <2> QED
    BY <1>2, <2>1 DEF RunType
<1> HIDE DEF f
<1>4. /\ g \in RunType /\ g.at = a /\ g.chunk = c /\ g.left = S
      /\ g.limit = q.limit /\ g.all = q.all /\ g.dry = q.dry /\ g.skipped = q.skipped
      /\ g.touched = q.touched
  BY <1>3 DEF RunType
<1> HIDE DEF g
<1>5. /\ h \in RunType /\ h.at = a /\ h.chunk = c /\ h.left = S /\ h.last = n
      /\ h.limit = q.limit /\ h.all = q.all /\ h.dry = q.dry /\ h.skipped = q.skipped
      /\ h.touched = q.touched
  BY <1>4 DEF RunType
<1> HIDE DEF h
<1>6. LET r == [h EXCEPT !.processed = p]
      IN  /\ r \in RunType /\ r.at = a /\ r.chunk = c /\ r.left = S /\ r.last = n /\ r.processed = p
          /\ r.limit = q.limit /\ r.all = q.all /\ r.dry = q.dry /\ r.skipped = q.skipped
          /\ r.touched = q.touched
  BY <1>5 DEF RunType
<1> QED
  BY <1>1, <1>6

\* The rows of a chunk: the next ones that meet the conditions, without a gap.
LEMMA RowsOf ==
  ASSUME ScriptInv
  PROVE  /\ Rows \in SUBSET Id /\ IsFiniteSet(Rows) /\ Cardinality(Rows) \in Nat
         /\ \A i \in Rows : Selected(i, run.all) /\ i > run.last
         /\ run.limit > 0 => run.processed + Cardinality(Rows) <= run.limit
         /\ \A i \in Id, m \in Rows : i > run.last /\ Selected(i, run.all) /\ i <= m => i \in Rows
         /\ run.limit = 0 /\ Rows = {} => \A i \in Id : i > run.last => ~Selected(i, run.all)
         /\ script = "closing" => \A i \in Id : i > run.last /\ Selected(i, run.all) => i \in Rows
<1> DEFINE due == {i \in Id : Selected(i, run.all) /\ Ahead(i)}
           Upto(i) == {j \in due : j <= i}
<1>1. /\ run.last \in Nat /\ run.processed \in Nat /\ run.limit \in Nat
      /\ run.limit > 0 => script # "closing" /\ run.processed <= run.limit
  BY DEF ScriptInv, RunSound, RunType, Embeds
<1>2. \A i \in due : i \in Id /\ Selected(i, run.all) /\ i > run.last
  BY DEF Ahead
<1>3. \A i \in Id : i > run.last /\ Selected(i, run.all) => i \in due
  BY DEF Ahead
<1>4. Rows = IF script = "closing" THEN due ELSE {i \in due : Cardinality(Upto(i)) <= ChunkSize}
  BY DEF Rows
<1>5. due \in SUBSET Id /\ Rows \in SUBSET due /\ \A i \in Id : Upto(i) \in SUBSET due
  BY <1>4
<1>6. \A S \in SUBSET Id : IsFiniteSet(S) /\ Cardinality(S) \in Nat
  <2>1. IsFiniteSet(Id)
    BY ScriptNumbers, FS_Interval DEF Id
  <2> QED
    BY <2>1, FS_Subset, FS_CardinalityType
<1> HIDE DEF due
<1>7. ChunkSize \in Int /\ (run.limit = 0 => ChunkSize >= 1)
      /\ (run.limit > 0 => ChunkSize <= run.limit - run.processed)
  <2>1. CASE run.limit = 0
    BY <2>1, ScriptNumbers DEF ChunkSize
  <2>2. CASE run.limit # 0
    <3>1. ChunkSize = Min({Chunk, run.limit - run.processed})
      BY <2>2 DEF ChunkSize
    <3>2. run.limit - run.processed \in Int /\ Chunk \in Int
      BY <1>1, ScriptNumbers
    <3> HIDE DEF ChunkSize
    <3> QED
      BY <2>2, <3>1, <3>2, MinOfTwo
  <2> QED
    BY <2>1, <2>2
<1>8. ASSUME NEW i \in Id, NEW m \in Rows, i > run.last, Selected(i, run.all), i <= m
      PROVE  i \in Rows
  <2>1. i \in due /\ m \in due /\ m \in Id /\ i \in Nat /\ m \in Nat
    BY <1>3, <1>5, <1>8, ScriptNumbers
  <2>2. Upto(i) \in SUBSET Upto(m)
    <3>1. ASSUME NEW j \in due, j <= i PROVE j <= m
      <4>1. j \in Nat
        BY <1>5, ScriptNumbers
      <4> QED
        BY <1>8, <2>1, <3>1, <4>1
    <3> QED
      BY <3>1
  <2>3. Upto(i) \in SUBSET Id /\ Upto(m) \in SUBSET Id
    BY <1>5
  <2>4. Cardinality(Upto(i)) <= Cardinality(Upto(m)) /\ IsFiniteSet(Upto(m))
        /\ Cardinality(Upto(i)) \in Nat /\ Cardinality(Upto(m)) \in Nat
    BY <1>6, <2>2, <2>3, FS_Subset
  <2> HIDE DEF Upto
  <2>5. script # "closing" => Cardinality(Upto(m)) <= ChunkSize
    BY <1>4
  <2>6. script # "closing" => Cardinality(Upto(i)) <= ChunkSize
    BY <1>7, <2>4, <2>5
  <2> QED
    BY <1>4, <2>1, <2>6
<1>9. ASSUME run.limit = 0, Rows = {}, NEW i \in Id, i > run.last PROVE ~Selected(i, run.all)
  <2> SUFFICES ASSUME Selected(i, run.all) PROVE FALSE
    OBVIOUS
  <2> DEFINE m == Min(due)
  <2>1. due \in SUBSET Nat /\ due # {}
    BY <1>3, <1>5, <1>9, ScriptNumbers
  <2>2. m \in due /\ \A y \in due : m <= y
    BY <2>1, MinIn
  <2> HIDE DEF m
  <2>3. Upto(m) = {m}
    <3>1. ASSUME NEW j \in due, j <= m PROVE j = m
      <4>1. j \in Nat /\ m \in Nat /\ m <= j
        BY <2>1, <2>2
      <4> QED
        BY <3>1, <4>1
    <3>2. m <= m
      BY <2>1, <2>2
    <3> QED
      BY <2>2, <3>1, <3>2
  <2>4. Cardinality(Upto(m)) = 1
    BY <2>3, FS_Singleton
  <2> HIDE DEF Upto
  <2>5. m \in Rows
    BY <1>4, <1>7, <1>9, <2>2, <2>4
  <2> QED
    BY <1>9, <2>5
<1>10. ASSUME run.limit > 0 PROVE run.processed + Cardinality(Rows) <= run.limit
  <2>1. Rows \in SUBSET Id /\ Cardinality(Rows) \in Nat
    BY <1>5, <1>6
  <2>2. CASE Rows = {}
    BY <1>1, <1>10, <2>2, FS_EmptySet
  <2>3. CASE Rows # {}
    <3> DEFINE m == Max(Rows)
    <3>1. Rows \in SUBSET (0..LastId) /\ LastId \in Nat
      BY <2>1, ScriptNumbers DEF Id
    <3>2. m \in Rows /\ \A y \in Rows : y <= m
      BY <2>3, <3>1, MaxIn
    <3> HIDE DEF m
    <3>3. Rows \in SUBSET Upto(m) /\ Upto(m) \in SUBSET Id
      BY <1>5, <3>2
    <3>4. Cardinality(Rows) <= Cardinality(Upto(m)) /\ Cardinality(Upto(m)) \in Nat
      BY <1>6, <3>3, FS_Subset
    <3> HIDE DEF Upto
    <3>5. Cardinality(Upto(m)) <= ChunkSize
      BY <1>1, <1>4, <1>10, <3>2
    <3> QED
      BY <1>1, <1>7, <1>10, <2>1, <3>4, <3>5
  <2> QED
    BY <2>2, <2>3
<1> HIDE DEF Upto
<1>11. script = "closing" => \A i \in Id : i > run.last /\ Selected(i, run.all) => i \in Rows
  BY <1>3, <1>4
<1>12. Rows \in SUBSET Id /\ IsFiniteSet(Rows) /\ Cardinality(Rows) \in Nat
  BY <1>5, <1>6
<1>13. \A i \in Rows : Selected(i, run.all) /\ i > run.last
  BY <1>2, <1>5
<1> QED
  BY <1>8, <1>9, <1>10, <1>11, <1>12, <1>13

\* A row that is there and does not meet the conditions has its value.
LEMMA NotSelected ==
  ASSUME ScriptInv, NEW i \in Id, table[i].there, ~Selected(i, run.all)
  PROVE  Filled(i)
<1>1. script \in Scripts /\ table[i].state \in States /\ run.all \in BOOLEAN
  BY RowTyped DEF ScriptInv, RunSound, RunType
<1>2. CASE script = "hash"
  BY <1>2 DEF Selected, Filled
<1>3. CASE script = "opinion"
  BY <1>3 DEF Selected, Filled
<1>4. CASE script = "search"
  BY <1>4 DEF Selected, Filled
<1>5. CASE script = "summary"
  BY <1>5 DEF Selected, Filled
<1>6. CASE script = "closing"
  BY <1>1, <1>6 DEF Selected, Filled, States
<1> QED
  BY <1>1, <1>2, <1>3, <1>4, <1>5, <1>6 DEF Scripts

LEMMA SameFilled ==
  ASSUME UNCHANGED script, NEW i, table'[i] = table[i]
  PROVE  (Filled(i))' <=> Filled(i)
BY DEF Filled, Selected

\* A row that is stored anew.
RowWith(r, t, s, o, v) ==
    [r EXCEPT !.text = t, !.meta = t, !.state = s, !.opinion = o, !.value = v]

LEMMA RowSet ==
  ASSUME NEW r \in TableRow, NEW t \in 0..MaxText, NEW s \in States, NEW o \in BOOLEAN,
         NEW v \in Nat \cup {NoValue} \cup (Nat \X States)
  PROVE  LET n == RowWith(r, t, s, o, v)
         IN  /\ n \in TableRow /\ n.text = t /\ n.meta = t /\ n.state = s /\ n.value = v
             /\ n.there = r.there
<1> DEFINE e == [r EXCEPT !.text = t]
           f == [e EXCEPT !.meta = t]
           g == [f EXCEPT !.state = s]
           h == [g EXCEPT !.opinion = o]
<1>1. RowWith(r, t, s, o, v) = [h EXCEPT !.value = v]
  BY DEF RowWith
<1>2. e \in TableRow /\ e.text = t /\ e.there = r.there
  BY DEF TableRow
<1> HIDE DEF e
<1>3. f \in TableRow /\ f.text = t /\ f.meta = t /\ f.there = r.there
  BY <1>2 DEF TableRow
<1> HIDE DEF f
<1>4. g \in TableRow /\ g.text = t /\ g.meta = t /\ g.state = s /\ g.there = r.there
  BY <1>3 DEF TableRow
<1> HIDE DEF g
<1>5. h \in TableRow /\ h.text = t /\ h.meta = t /\ h.state = s /\ h.there = r.there
  BY <1>4 DEF TableRow
<1> HIDE DEF h
<1>6. LET n == [h EXCEPT !.value = v]
      IN  /\ n \in TableRow /\ n.text = t /\ n.meta = t /\ n.state = s /\ n.value = v
          /\ n.there = r.there
  BY <1>5 DEF TableRow
<1> QED
  BY <1>1, <1>6

\* A row changes, and counts as touched if it had been passed.
LEMMA PassedFilledKept ==
  ASSUME ScriptInv, UNCHANGED script, NEW i \in Id, \A j \in Id \ {i} : table'[j] = table[j],
         run'.dry = run.dry, run'.limit = run.limit,
         run.skipped \cup run.touched \subseteq run'.skipped \cup run'.touched,
         \A j \in Id \ {i} : Passed(j, run') => Passed(j, run),
         i \in run'.skipped \cup run'.touched \/ ~table'[i].there \/ (Filled(i))' \/ ~Passed(i, run')
           \/ run'.dry
  PROVE  PassedFilled'
<1> SUFFICES ASSUME ~run'.dry, run'.limit = 0, NEW j \in Id \ (run'.skipped \cup run'.touched),
                    table'[j].there, (Passed(j, run))'
             PROVE  (Filled(j))'
  BY DEF PassedFilled
<1>1. Passed(j, run') <=> (Passed(j, run))'
  BY DEF Passed
<1>2. CASE j = i
  BY <1>1, <1>2
<1>3. CASE j # i
  <2>1. Filled(j)
    BY <1>1, <1>3 DEF ScriptInv, PassedFilled
  <2> QED
    BY <1>3, <2>1, SameFilled
<1> QED
  BY <1>2, <1>3

LEMMA TouchedSet ==
  ASSUME NEW q \in RunType, NEW S \in SUBSET Id
  PROVE  LET r == [q EXCEPT !.touched = S]
         IN  /\ r \in RunType /\ r.touched = S
             /\ r.at = q.at /\ r.last = q.last /\ r.chunk = q.chunk /\ r.left = q.left
             /\ r.processed = q.processed /\ r.limit = q.limit /\ r.all = q.all /\ r.dry = q.dry
             /\ r.skipped = q.skipped
BY DEF RunType

LEMMA UpsertStep == ASSUME NEW i \in Id PROVE ScriptInv /\ Upsert(i) => ScriptInv'
<1> SUFFICES ASSUME ScriptInv, Upsert(i) PROVE ScriptInv'
  OBVIOUS
<1> DEFINE t == table[i].text + 1
           T == IF run.at = "idle" THEN {} ELSE run.touched \cup {i}
           new == table'[i]
<1>1. PICK s \in States, found \in BOOLEAN :
        table' = [table EXCEPT ![i] = IF script = "closing" /\ found /\ s = "closed"
                                      THEN [Stored(i, t, s) EXCEPT !.value = Stored(i, t, s).text]
                                      ELSE Stored(i, t, s)]
  BY DEF Upsert, States
<1>2. /\ table[i].text < MaxText /\ UNCHANGED <<script, runs>>
      /\ raced' = IF InFlight(i) THEN raced \cup {i} ELSE raced \ {i}
      /\ healing' = healing
  BY DEF Upsert
<1>3. run' = [run EXCEPT !.touched = T]
  BY DEF Upsert
<1>4. table \in [Id -> TableRow] /\ table[i] \in TableRow /\ run \in RunType /\ RunSound(run)
      /\ raced \subseteq Id
  BY DEF ScriptInv, RunSound
<1>5. t \in 0..MaxText /\ t \in Nat
  BY <1>2, <1>4, RowTyped, ScriptNumbers
<1> HIDE DEF t
<1>6. PICK v \in Nat \cup {NoValue} \cup (Nat \X States) :
        /\ Hashes => v = HashOf(t, s)
        /\ Stored(i, t, s) = [table[i] EXCEPT !.text = t, !.meta = t, !.state = s,
                                 !.opinion = @ /\ s = "closed", !.value = v]
  <2> DEFINE v == IF Hashes THEN HashOf(t, s)
                  ELSE IF script = "closing" THEN NoValue ELSE table[i].value
  <2>1. v \in Nat \cup {NoValue} \cup (Nat \X States)
    BY <1>4, <1>5, RowTyped DEF HashOf
  <2>2. Stored(i, t, s) = [table[i] EXCEPT !.text = t, !.meta = t, !.state = s,
                              !.opinion = @ /\ s = "closed", !.value = v]
    BY DEF Stored
  <2> HIDE DEF v
  <2>3. Hashes => v = HashOf(t, s)
    BY DEF v
  <2> QED
    BY <2>1, <2>2, <2>3
<1>7. /\ Stored(i, t, s) \in TableRow /\ Stored(i, t, s).text = t /\ Stored(i, t, s).meta = t
      /\ Stored(i, t, s).state = s /\ Stored(i, t, s).value = v
  <2> DEFINE o == table[i].opinion /\ s = "closed"
  <2>1. o \in BOOLEAN
    OBVIOUS
  <2>2. Stored(i, t, s) = RowWith(table[i], t, s, o, v)
    BY <1>6 DEF RowWith
  <2> HIDE DEF o
  <2> QED
    <3>1. LET n == RowWith(table[i], t, s, o, v)
          IN  n \in TableRow /\ n.text = t /\ n.meta = t /\ n.state = s /\ n.value = v
      BY <1>4, <1>5, <2>1, RowSet
    <3> QED
      BY <2>2, <3>1
<1>8. /\ new \in TableRow /\ new.text = t /\ new.meta = t /\ new.state = s
      /\ script # "closing" => new.value = v
  <2>1. CASE script = "closing" /\ found /\ s = "closed"
    <3>1. new = [Stored(i, t, s) EXCEPT !.value = Stored(i, t, s).text]
      BY <1>1, <1>4, <2>1
    <3>2. new = [Stored(i, t, s) EXCEPT !.value = t]
      BY <1>7, <3>1
    <3> HIDE DEF new
    <3> QED
      BY <1>5, <1>7, <2>1, <3>2 DEF TableRow
  <2>2. CASE ~(script = "closing" /\ found /\ s = "closed")
    <3>1. new = Stored(i, t, s)
      BY <1>1, <1>4, <2>2
    <3> QED
      BY <1>7, <3>1
  <2> QED
    BY <2>1, <2>2
<1>9. \A j \in Id \ {i} : table'[j] = table[j]
  BY <1>1, <1>4
<1>10. table' \in [Id -> TableRow]
  <2>1. DOMAIN table' = Id /\ table' = [j \in Id |-> table'[j]]
    BY <1>1, <1>4
  <2>2. \A j \in Id : table'[j] \in TableRow
    BY <1>4, <1>8, <1>9
  <2> QED
    BY <2>1, <2>2
<1> HIDE DEF new
<1>11. T \in SUBSET Id
  BY <1>4 DEF RunType
<1>12. run.at # "idle" => run.touched \cup {i} \subseteq T
  OBVIOUS
<1> HIDE DEF T
<1>13. /\ run' \in RunType /\ run'.touched = T
       /\ run'.at = run.at /\ run'.last = run.last /\ run'.chunk = run.chunk /\ run'.left = run.left
       /\ run'.processed = run.processed /\ run'.limit = run.limit /\ run'.all = run.all
       /\ run'.dry = run.dry /\ run'.skipped = run.skipped
  BY <1>3, <1>4, <1>11, TouchedSet
<1>14. RunSound(run)'
  BY <1>2, <1>4, <1>13 DEF RunSound, Embeds, Hashes
<1>15. HashesHonest'
  <2> SUFFICES ASSUME Hashes, NEW j \in Id \ raced'
               PROVE  table'[j].value \in {NoValue, HashOf(table'[j].text, table'[j].state)}
    BY <1>2 DEF HashesHonest, Hashes
  <2>1. CASE j = i
    BY <1>6, <1>8, <2>1 DEF Hashes, new
  <2>2. CASE j # i
    <3>1. j \in Id \ raced
      BY <1>2, <2>2
    <3> QED
      BY <1>9, <2>2, <3>1 DEF ScriptInv, HashesHonest
  <2> QED
    BY <2>1, <2>2
<1>16. MetadataKept'
  <2> SUFFICES ASSUME NEW j \in Id \ raced' PROVE table'[j].meta = table'[j].text
    BY DEF MetadataKept
  <2>1. j # i => j \notin raced
    BY <1>2
  <2> QED
    BY <1>8, <1>9, <2>1 DEF MetadataKept, ScriptInv, new
<1>17. ChunkFresh'
  <2> SUFFICES ASSUME Hashes, run.at = "write", NEW j \in DOMAIN run.chunk \ raced'
               PROVE  /\ run.chunk[j].text = table'[j].text
                      /\ run.chunk[j].state = table'[j].state
    BY <1>2, <1>13 DEF ChunkFresh, Hashes
  <2>1. j # i /\ j \notin raced /\ j \in Id
    BY <1>2, <1>4, ChunkRows DEF InFlight
  <2> QED
    BY <1>9, <2>1 DEF ScriptInv, ChunkFresh
<1>18. PassedFilled'
  <2>1. CASE run.at = "idle"
    BY <1>13, <2>1 DEF PassedFilled, Passed
  <2>2. CASE run.at # "idle"
    <3>1. \A j \in Id \ {i} : Passed(j, run') => Passed(j, run)
      BY <1>13 DEF Passed
    <3>2. i \in run'.touched /\ run.skipped \cup run.touched \subseteq run'.skipped \cup run'.touched
      BY <1>12, <1>13, <2>2
    <3> QED
      BY <1>2, <1>9, <1>13, <3>1, <3>2, PassedFilledKept
  <2> QED
    BY <2>1, <2>2
<1>19. /\ script' \in Scripts /\ runs' \in 0..MaxRuns /\ raced' \subseteq Id
       /\ healing' \subseteq Heals /\ (healing' # {} => Hashes')
  BY <1>2, <1>4 DEF ScriptInv, Hashes
<1>20. RowFresh'
  <2> DEFINE m == Min(run.left)
  <2> SUFFICES ASSUME run.at = "merge", m \notin raced'
               PROVE  run.chunk[m].meta = table'[m].meta
    BY <1>13 DEF RowFresh
  <2>1. m # i /\ m \notin raced
    BY <1>2 DEF InFlight
  <2>2. m \in Id
    <3>1. run.left \in SUBSET Nat /\ run.left # {} /\ run.left \subseteq Id
      BY <1>4, ScriptNumbers DEF RunSound, RunType
    <3> QED
      BY <3>1, MinIn
  <2>3. run.chunk[m].meta = table[m].meta
    BY <2>1 DEF ScriptInv, RowFresh
  <2> QED
    BY <1>9, <2>1, <2>2, <2>3
<1>21. HealsFresh'
  <2> SUFFICES ASSUME NEW h \in healing, h[1] \notin raced'
               PROVE  h[2] = HashOf(table'[h[1]].text, table'[h[1]].state)
    BY <1>2 DEF HealsFresh, HashOf
  <2>1. h[1] # i /\ h[1] \notin raced /\ h[1] \in Id
    BY <1>2 DEF InFlight, ScriptInv, Heals
  <2>2. h[2] = HashOf(table[h[1]].text, table[h[1]].state)
    BY <2>1 DEF ScriptInv, HealsFresh
  <2> QED
    BY <1>9, <2>1, <2>2
<1> QED
  BY <1>10, <1>14, <1>15, <1>16, <1>17, <1>18, <1>19, <1>20, <1>21 DEF ScriptInv

\* The value of a row is set, and with it nothing that is read of a row.
LEMMA ValueSet ==
  ASSUME NEW r \in TableRow, NEW v \in Nat \cup {NoValue} \cup (Nat \X States)
  PROVE  LET n == [r EXCEPT !.value = v]
         IN  /\ n \in TableRow /\ n.text = r.text /\ n.meta = r.meta /\ n.state = r.state
             /\ n.there = r.there /\ n.value = v
BY DEF TableRow

LEMMA SubmittedStep == ASSUME NEW i \in Id PROVE ScriptInv /\ Submitted(i) => ScriptInv'
<1> SUFFICES ASSUME ScriptInv, Submitted(i) PROVE ScriptInv'
  OBVIOUS
<1>1. /\ script = "search" /\ table \in [Id -> TableRow] /\ table[i] \in TableRow
      /\ UNCHANGED <<script, run, healing, raced, runs>>
  BY DEF ScriptInv, Submitted
<1>2. PICK v \in 0..table[i].text : table' = [table EXCEPT ![i] = [@ EXCEPT !.value = v]]
  BY DEF Submitted
<1>3. v \in Nat \cup {NoValue} \cup (Nat \X States) /\ v # NoValue
  BY <1>1, RowTyped, ScriptNumbers
<1>4. /\ table'[i] \in TableRow /\ table'[i].meta = table[i].meta /\ table'[i].text = table[i].text
      /\ table'[i].value = v
  <2>1. table'[i] = [table[i] EXCEPT !.value = v]
    BY <1>1, <1>2
  <2> QED
    BY <1>1, <1>3, <2>1, ValueSet
<1>5. /\ table' \in [Id -> TableRow] /\ \A j \in Id \ {i} : table'[j] = table[j]
  <2>1. DOMAIN table' = Id /\ table' = [j \in Id |-> table'[j]] /\ \A j \in Id \ {i} : table'[j] = table[j]
    BY <1>1, <1>2
  <2> QED
    BY <1>1, <1>4, <2>1
<1>6. ~Hashes /\ ~Hashes' /\ run.at # "merge"
  BY <1>1 DEF Hashes, ScriptInv, RunSound
<1>7. HashesHonest' /\ ChunkFresh' /\ RowFresh' /\ HealsFresh'
  <2>1. healing' = {} /\ run'.at # "merge"
    BY <1>1, <1>6 DEF ScriptInv
  <2> QED
    BY <1>6, <2>1 DEF HashesHonest, ChunkFresh, RowFresh, HealsFresh
<1>8. MetadataKept'
  BY <1>1, <1>4, <1>5 DEF MetadataKept, ScriptInv
<1>9. (Filled(i))'
  BY <1>1, <1>3, <1>4 DEF Filled
<1>10. PassedFilled'
  BY <1>1, <1>5, <1>9, PassedFilledKept
<1>11. RunSound(run)'
  BY <1>1 DEF ScriptInv, RunSound, Embeds, Hashes
<1> QED
  BY <1>1, <1>5, <1>6, <1>7, <1>8, <1>10, <1>11 DEF ScriptInv

LEMMA CollectedStep == ASSUME NEW i \in Id PROVE ScriptInv /\ Collected(i) => ScriptInv'
<1> SUFFICES ASSUME ScriptInv, Collected(i) PROVE ScriptInv'
  OBVIOUS
<1>1. /\ script = "summary" /\ table \in [Id -> TableRow] /\ table[i] \in TableRow
      /\ UNCHANGED <<script, run, healing, raced, runs>>
  BY DEF ScriptInv, Collected
<1>2. table' = [table EXCEPT ![i] = [@ EXCEPT !.there = FALSE, !.value = NoValue]]
  BY DEF Collected
<1>3. /\ table'[i] \in TableRow /\ table'[i].meta = table[i].meta /\ table'[i].text = table[i].text
      /\ ~table'[i].there
  <2> DEFINE e == [table[i] EXCEPT !.there = FALSE]
  <2>1. e \in TableRow /\ e.meta = table[i].meta /\ e.text = table[i].text /\ ~e.there
    BY <1>1 DEF TableRow
  <2>2. table'[i] = [e EXCEPT !.value = NoValue]
    BY <1>1, <1>2
  <2> HIDE DEF e
  <2> QED
    BY <2>1, <2>2, ValueSet
<1>4. /\ table' \in [Id -> TableRow] /\ \A j \in Id \ {i} : table'[j] = table[j]
  <2>1. DOMAIN table' = Id /\ table' = [j \in Id |-> table'[j]] /\ \A j \in Id \ {i} : table'[j] = table[j]
    BY <1>1, <1>2
  <2> QED
    BY <1>1, <1>3, <2>1
<1>5. ~Hashes /\ ~Hashes' /\ run.at # "merge"
  BY <1>1 DEF Hashes, ScriptInv, RunSound
<1>6. HashesHonest' /\ ChunkFresh' /\ RowFresh' /\ HealsFresh'
  <2>1. healing' = {} /\ run'.at # "merge"
    BY <1>1, <1>5 DEF ScriptInv
  <2> QED
    BY <1>5, <2>1 DEF HashesHonest, ChunkFresh, RowFresh, HealsFresh
<1>7. MetadataKept'
  BY <1>1, <1>3, <1>4 DEF MetadataKept, ScriptInv
<1>8. PassedFilled'
  BY <1>1, <1>3, <1>4, PassedFilledKept
<1>9. RunSound(run)'
  BY <1>1 DEF ScriptInv, RunSound, Embeds, Hashes
<1> QED
  BY <1>1, <1>4, <1>5, <1>6, <1>7, <1>8, <1>9 DEF ScriptInv

LEMMA PassedFilledSame ==
  ASSUME PassedFilled, UNCHANGED <<script, table, run>>
  PROVE  PassedFilled'
<1>1. script' = script /\ table' = table /\ run' = run
  OBVIOUS
<1>2. ASSUME NEW i \in Id PROVE Filled(i)' <=> Filled(i)
  <2>1. Selected(i, FALSE)' <=> Selected(i, FALSE)
    BY <1>1, Zenon DEF Selected
  <2> QED
    BY <1>1, <2>1, Zenon DEF Filled
<1>3. ASSUME NEW i \in Id PROVE Passed(i, run)' <=> Passed(i, run)
  BY <1>1, Zenon DEF Passed
<1> QED
  BY <1>1, <1>2, <1>3, Zenon DEF PassedFilled

\* What a submission does to a content hash.
LEMMA HealReadStep == ASSUME NEW i \in Id PROVE ScriptInv /\ HealRead(i) => ScriptInv'
<1> SUFFICES ASSUME ScriptInv, HealRead(i) PROVE ScriptInv'
  OBVIOUS
<1> DEFINE hash == HashOf(table[i].text, table[i].state)
<1>1. /\ Hashes /\ healing' = healing \cup {<<i, hash>>}
      /\ UNCHANGED <<script, table, run, raced, runs>>
  BY DEF HealRead
<1>2. hash \in Nat \X States
  BY RowTyped DEF ScriptInv, HashOf
<1>3. healing' \subseteq Heals /\ Hashes'
  BY <1>1, <1>2 DEF Heals, ScriptInv, Hashes
<1>4. HealsFresh'
  BY <1>1 DEF ScriptInv, HealsFresh, HashOf
<1>5. RunSound(run)' /\ HashesHonest' /\ MetadataKept' /\ ChunkFresh' /\ RowFresh'
  BY <1>1 DEF ScriptInv, RunSound, HashesHonest, MetadataKept, ChunkFresh, RowFresh, Hashes, Embeds, HashOf
<1>6. PassedFilled'
  BY <1>1, PassedFilledSame DEF ScriptInv
<1> QED
  BY <1>1, <1>3, <1>4, <1>5, <1>6 DEF ScriptInv

LEMMA HealLostStep == ASSUME NEW i \in Id PROVE ScriptInv /\ HealLost(i) => ScriptInv'
<1> SUFFICES ASSUME ScriptInv, HealLost(i) PROVE ScriptInv'
  OBVIOUS
<1>1. healing' \subseteq healing /\ UNCHANGED <<script, table, run, raced, runs>>
  BY DEF HealLost
<1>2. healing' \subseteq Heals /\ (healing' # {} => Hashes')
  BY <1>1 DEF ScriptInv, Hashes
<1>3. HealsFresh'
  BY <1>1 DEF ScriptInv, HealsFresh, HashOf
<1>4. RunSound(run)' /\ HashesHonest' /\ MetadataKept' /\ ChunkFresh' /\ RowFresh'
  BY <1>1 DEF ScriptInv, RunSound, HashesHonest, MetadataKept, ChunkFresh, RowFresh, Hashes, Embeds, HashOf
<1>5. PassedFilled'
  BY <1>1, PassedFilledSame DEF ScriptInv
<1> QED
  BY <1>1, <1>2, <1>3, <1>4, <1>5 DEF ScriptInv

LEMMA HealWriteStep == ASSUME NEW i \in Id PROVE ScriptInv /\ HealWrite(i) => ScriptInv'
<1> SUFFICES ASSUME ScriptInv, HealWrite(i) PROVE ScriptInv'
  OBVIOUS
<1>1. PICK h \in healing : /\ h[1] = i /\ table' = [table EXCEPT ![i].value = h[2]]
                          /\ healing' = healing \ {h}
  BY DEF HealWrite
<1>2. /\ UNCHANGED <<script, run, raced, runs>> /\ Hashes /\ table \in [Id -> TableRow]
      /\ table[i] \in TableRow
  BY <1>1 DEF HealWrite, ScriptInv
<1>3. h[2] \in Nat \X States /\ h[2] # NoValue
  BY <1>1, ScriptNumbers DEF ScriptInv, Heals
<1>4. /\ table'[i] \in TableRow /\ table'[i].meta = table[i].meta /\ table'[i].text = table[i].text
      /\ table'[i].state = table[i].state /\ table'[i].there = table[i].there
      /\ table'[i].value = h[2] /\ table'[i].opinion = table[i].opinion
  <2> DEFINE v == h[2]
  <2>1. table'[i] = [table[i] EXCEPT !.value = v]
    BY <1>1, <1>2
  <2>2. v \in Nat \cup {NoValue} \cup (Nat \X States)
    BY <1>3
  <2>3. [table[i] EXCEPT !.value = v].opinion = table[i].opinion
    BY <1>2 DEF TableRow
  <2> HIDE DEF v
  <2>4. LET n == [table[i] EXCEPT !.value = v]
        IN  /\ n \in TableRow /\ n.text = table[i].text /\ n.meta = table[i].meta
            /\ n.state = table[i].state /\ n.there = table[i].there /\ n.value = v
    BY <1>2, <2>2, ValueSet
  <2> QED
    BY <2>1, <2>3, <2>4 DEF v
<1>5. /\ table' \in [Id -> TableRow] /\ \A j \in Id \ {i} : table'[j] = table[j]
  <2>1. DOMAIN table' = Id /\ table' = [j \in Id |-> table'[j]] /\ \A j \in Id \ {i} : table'[j] = table[j]
    BY <1>1, <1>2
  <2> QED
    BY <1>2, <1>4, <2>1
<1>6. \A j \in Id : /\ table'[j].text = table[j].text /\ table'[j].state = table[j].state
                    /\ table'[j].meta = table[j].meta
  BY <1>4, <1>5
<1>7. HashesHonest'
  <2> SUFFICES ASSUME NEW j \in Id \ raced
               PROVE  table'[j].value \in {NoValue, HashOf(table'[j].text, table'[j].state)}
    BY <1>2 DEF HashesHonest
  <2>1. CASE j = i
    <3>1. h[2] = HashOf(table[i].text, table[i].state)
      BY <1>1, <2>1 DEF ScriptInv, HealsFresh
    <3> QED
      BY <1>4, <2>1, <3>1
  <2>2. CASE j # i
    BY <1>2, <1>5, <2>2 DEF ScriptInv, HashesHonest
  <2> QED
    BY <2>1, <2>2
<1>8. MetadataKept'
  BY <1>2, <1>6 DEF ScriptInv, MetadataKept
<1>9. ChunkFresh'
  <2> SUFFICES ASSUME run.at = "write", NEW j \in DOMAIN run.chunk \ raced
               PROVE  /\ run.chunk[j].text = table'[j].text
                      /\ run.chunk[j].state = table'[j].state
    BY <1>2 DEF ChunkFresh
  <2>1. j \in Id
    BY ChunkRows DEF ScriptInv, RunSound
  <2> QED
    BY <1>2, <1>6, <2>1 DEF ScriptInv, ChunkFresh
<1>10. run'.at # "merge" /\ RowFresh'
  BY <1>2 DEF ScriptInv, RunSound, Hashes, RowFresh
<1>11. HealsFresh'
  <2> SUFFICES ASSUME NEW g \in healing, g[1] \notin raced
               PROVE  g[2] = HashOf(table'[g[1]].text, table'[g[1]].state)
    BY <1>1, <1>2 DEF HealsFresh, HashOf
  <2>1. g[1] \in Id
    BY DEF ScriptInv, Heals
  <2> QED
    BY <1>6, <2>1 DEF ScriptInv, HealsFresh
<1>12. healing' \subseteq Heals /\ Hashes'
  BY <1>1, <1>2 DEF ScriptInv, Hashes
<1>13. script = "hash" \/ script = "opinion"
  BY <1>2 DEF Hashes
<1>14. PassedFilled'
  <2>1. CASE script = "hash"
    <3>1. (Filled(i))'
      BY <1>2, <1>3, <1>4, <2>1 DEF Filled
    <3> QED
      BY <1>2, <1>5, <3>1, PassedFilledKept
  <2>2. CASE script = "opinion"
    <3>1. Filled(i) => (Filled(i))'
      BY <1>2, <1>4, <2>2 DEF Filled, Selected
    <3>2. \/ i \in run'.skipped \cup run'.touched \/ ~table'[i].there \/ (Filled(i))'
          \/ ~Passed(i, run') \/ run'.dry \/ run'.limit # 0
      BY <1>2, <1>4, <3>1 DEF ScriptInv, PassedFilled
    <3>3. CASE run'.limit # 0
      BY <3>3 DEF PassedFilled
    <3>4. CASE run'.limit = 0
      <4>1. \/ i \in run'.skipped \cup run'.touched \/ ~table'[i].there \/ (Filled(i))'
            \/ ~Passed(i, run') \/ run'.dry
        BY <3>2, <3>4
      <4> QED
        BY <1>2, <1>5, <4>1, PassedFilledKept
    <3> QED
      BY <3>3, <3>4
  <2> QED
    BY <1>13, <2>1, <2>2
<1>15. RunSound(run)'
  BY <1>2 DEF ScriptInv, RunSound, Embeds, Hashes
<1> QED
  BY <1>2, <1>5, <1>7, <1>8, <1>9, <1>10, <1>11, <1>12, <1>14, <1>15 DEF ScriptInv

\* A step of a run that changes no row.
LEMMA RunStep ==
  ASSUME ScriptInv, UNCHANGED <<script, table, healing, raced>>, runs' \in 0..MaxRuns, RunSound(run'),
         run'.at = "write" => /\ DOMAIN run'.chunk \subseteq Id
                              /\ Hashes => \A i \in DOMAIN run'.chunk \ raced :
                                              /\ run'.chunk[i].text = table[i].text
                                              /\ run'.chunk[i].state = table[i].state,
         run'.at = "merge" => \/ Min(run'.left) \in raced
                              \/ run'.chunk[Min(run'.left)].meta = table[Min(run'.left)].meta,
         ~run'.dry /\ run'.limit = 0 =>
            \A i \in Id \ (run'.skipped \cup run'.touched) :
               table[i].there /\ Passed(i, run') => Filled(i)
  PROVE  ScriptInv'
<1>1. RunSound(run)' /\ HashesHonest' /\ MetadataKept'
  BY DEF ScriptInv, RunSound, HashesHonest, MetadataKept, Hashes, Embeds
<1>2. /\ ChunkFresh' /\ RowFresh' /\ HealsFresh'
      /\ healing' \subseteq Heals /\ (healing' # {} => Hashes')
  BY DEF ScriptInv, ChunkFresh, RowFresh, HealsFresh, Hashes, HashOf
<1>3. PassedFilled'
  <2> SUFFICES ASSUME ~run'.dry, run'.limit = 0, NEW j \in Id \ (run'.skipped \cup run'.touched),
                      table'[j].there, (Passed(j, run))'
               PROVE  (Filled(j))'
    BY DEF PassedFilled
  <2>1. Passed(j, run') <=> (Passed(j, run))'
    BY DEF Passed
  <2>2. Filled(j) <=> (Filled(j))'
    BY SameFilled
  <2> QED
    BY <2>1, <2>2
<1> QED
  BY <1>1, <1>2, <1>3 DEF ScriptInv

LEMMA NoRunTyped ==
  /\ NoRun \in RunType /\ NoRun.at = "idle" /\ NoRun.last = 0 /\ NoRun.left = {} /\ NoRun.processed = 0
  /\ NoRun.limit = 0 /\ ~NoRun.dry /\ NoRun.skipped = {} /\ NoRun.touched = {}
<1>1. << >> \in ChunkOf({}) /\ {} \in SUBSET Id
  BY DEF ChunkOf
<1>2. << >> \in UNION {ChunkOf(S) : S \in SUBSET Id}
  BY <1>1
<1> HIDE DEF ChunkOf
<1>3. NoRun \in RunType
  BY <1>2 DEF NoRun, RunType, Phase
<1> QED
  BY <1>3 DEF NoRun

LEMMA BeginRunStep ==
  ASSUME NEW all \in BOOLEAN, NEW dry \in BOOLEAN, NEW limit \in Limits
  PROVE  ScriptInv /\ BeginRun(all, dry, limit) => ScriptInv'
<1> SUFFICES ASSUME ScriptInv, BeginRun(all, dry, limit) PROVE ScriptInv'
  OBVIOUS
<1> DEFINE e == [NoRun EXCEPT !.at = "read"]
           f == [e EXCEPT !.all = all]
           g == [f EXCEPT !.dry = dry]
           h == [g EXCEPT !.limit = limit]
<1>1. run' = h /\ UNCHANGED <<script, table, healing, raced>> /\ (limit > 0 => Embeds)
  BY DEF BeginRun
<1>2. runs' \in 0..MaxRuns
  BY ScriptNumbers DEF BeginRun, ScriptInv
<1>3. limit \in Nat
  BY ScriptNumbers
<1>4. e \in RunType /\ e.at = "read" /\ e.last = 0 /\ e.left = {} /\ e.processed = 0
  BY NoRunTyped, AtSet DEF Phase
<1> HIDE DEF e
<1>5. f \in RunType /\ f.at = "read" /\ f.last = 0 /\ f.left = {} /\ f.processed = 0
  BY <1>4 DEF RunType
<1> HIDE DEF f
<1>6. g \in RunType /\ g.at = "read" /\ g.last = 0 /\ g.left = {} /\ g.processed = 0
  BY <1>5 DEF RunType
<1> HIDE DEF g
<1>7. /\ h \in RunType /\ h.at = "read" /\ h.last = 0 /\ h.left = {} /\ h.processed = 0
      /\ h.limit = limit
  BY <1>3, <1>6 DEF RunType
<1> HIDE DEF h
<1>8. RunSound(run')
  BY <1>1, <1>3, <1>7 DEF RunSound
<1>9. \A i \in Id : ~Passed(i, run')
  BY <1>1, <1>7, ScriptNumbers DEF Passed
<1>10. run'.at # "write" /\ run'.at # "merge"
  BY <1>1, <1>7
<1> QED
  BY <1>1, <1>2, <1>8, <1>9, <1>10, RunStep

LEMMA FailRunStep == ScriptInv /\ FailRun => ScriptInv'
<1> SUFFICES ASSUME ScriptInv, FailRun PROVE ScriptInv'
  OBVIOUS
<1>1. run' = [run EXCEPT !.at = "failed"] /\ UNCHANGED <<script, table, healing, raced>> /\ runs' = runs
  BY DEF FailRun
<1>2. /\ run' \in RunType /\ run'.at = "failed" /\ run'.left = run.left /\ run'.chunk = run.chunk
      /\ run'.limit = run.limit /\ run'.processed = run.processed
  BY <1>1, AtSet DEF ScriptInv, RunSound, Phase
<1>3. RunSound(run')
  BY <1>2 DEF ScriptInv, RunSound
<1>4. \A i \in Id : ~Passed(i, run')
  BY <1>2 DEF Passed
<1> QED
  BY <1>1, <1>2, <1>3, <1>4, RunStep DEF ScriptInv

LEMMA ChunkFailsStep == ScriptInv /\ ChunkFails => ScriptInv'
<1> SUFFICES ASSUME ScriptInv, ChunkFails PROVE ScriptInv'
  OBVIOUS
<1>1. /\ run' = [run EXCEPT !.at = "rows"] /\ UNCHANGED <<script, table, healing, raced>> /\ runs' = runs
      /\ run.at = "write" /\ Embeds
  BY DEF ChunkFails
<1>2. /\ run' \in RunType /\ run'.at = "rows" /\ run'.left = run.left /\ run'.chunk = run.chunk
      /\ run'.limit = run.limit /\ run'.processed = run.processed /\ run'.last = run.last
      /\ run'.dry = run.dry /\ run'.skipped = run.skipped /\ run'.touched = run.touched
  BY <1>1, AtSet DEF ScriptInv, RunSound, Phase
<1>3. RunSound(run) /\ run.left = DOMAIN run.chunk /\ script # "closing" /\ ~Hashes
  BY <1>1 DEF ScriptInv, RunSound, Hashes, Embeds
<1>4. RunSound(run')
  BY <1>1, <1>2, <1>3 DEF RunSound
<1>5. \A i \in Id : Passed(i, run') => Passed(i, run)
  BY <1>1, <1>2, <1>3 DEF Passed
<1>6. runs' \in 0..MaxRuns /\ run'.at # "write" /\ run'.at # "merge"
  BY <1>1, <1>2 DEF ScriptInv
<1>7. ~run'.dry /\ run'.limit = 0 =>
         \A i \in Id \ (run'.skipped \cup run'.touched) :
            table[i].there /\ Passed(i, run') => Filled(i)
  BY <1>2, <1>5 DEF ScriptInv, PassedFilled
<1> QED
  BY <1>1, <1>4, <1>6, <1>7, RunStep

LEMMA ReadChunkStep == ScriptInv /\ ReadChunk => ScriptInv'
<1> SUFFICES ASSUME ScriptInv, ReadChunk PROVE ScriptInv'
  OBVIOUS
<1>1. run.at = "read" /\ UNCHANGED <<script, table, healing, raced>> /\ runs' = runs
  BY DEF ReadChunk
<1>2. /\ run \in RunType /\ RunSound(run) /\ runs' \in 0..MaxRuns /\ script \in Scripts
      /\ run.last \in Nat /\ run.processed \in Nat /\ run.limit \in Nat
      /\ table \in [Id -> TableRow]
  BY <1>1 DEF ScriptInv, RunSound, RunType
<1>3. /\ Rows \in SUBSET Id /\ IsFiniteSet(Rows) /\ Cardinality(Rows) \in Nat
      /\ \A i \in Rows : Selected(i, run.all) /\ i > run.last
      /\ run.limit > 0 => run.processed + Cardinality(Rows) <= run.limit
      /\ \A i \in Id, m \in Rows : i > run.last /\ Selected(i, run.all) /\ i <= m => i \in Rows
      /\ run.limit = 0 /\ Rows = {} => \A i \in Id : i > run.last => ~Selected(i, run.all)
      /\ script = "closing" => \A i \in Id : i > run.last /\ Selected(i, run.all) => i \in Rows
  BY RowsOf
<1>4. ~run.dry /\ run.limit = 0 =>
         \A i \in Id \ (run.skipped \cup run.touched) :
            table[i].there /\ i <= run.last => Filled(i)
  BY <1>1 DEF ScriptInv, PassedFilled, Passed
<1>5. \A i \in Id : table[i].there /\ ~Selected(i, run.all) => Filled(i)
  BY NotSelected
<1>6. \A i \in Id : i \in Nat
  BY ScriptNumbers
<1>7. CASE Rows = {}
  <2>1. run' = [run EXCEPT !.at = "ended"]
    BY <1>7 DEF ReadChunk
  <2>2. /\ run' \in RunType /\ run'.at = "ended" /\ run'.left = run.left /\ run'.chunk = run.chunk
        /\ run'.limit = run.limit /\ run'.processed = run.processed
        /\ run'.dry = run.dry /\ run'.skipped = run.skipped /\ run'.touched = run.touched
    BY <1>2, <2>1, AtSet DEF Phase
  <2>3. RunSound(run')
    BY <1>2, <2>2 DEF RunSound
  <2>4. ASSUME ~run'.dry, run'.limit = 0, NEW i \in Id \ (run'.skipped \cup run'.touched), table[i].there
        PROVE  Filled(i)
    <3>1. CASE i <= run.last
      BY <1>4, <2>2, <2>4, <3>1
    <3>2. CASE i > run.last
      BY <1>3, <1>5, <1>7, <2>2, <2>4, <3>2
    <3> QED
      BY <1>2, <1>6, <3>1, <3>2
  <2> QED
    BY <1>1, <1>2, <2>2, <2>3, <2>4, RunStep
<1>8. CASE Rows # {}
  <2> DEFINE a == IF script = "closing" THEN "rows" ELSE IF run.dry THEN "read" ELSE "write"
             c == [i \in Rows |-> table[i]]
             m == Max(Rows)
             p == run.processed + Cardinality(Rows)
  <2>1. run' = WithChunk(run, a, c, Rows, m, p)
    BY <1>8 DEF ReadChunk, WithChunk
  <2>2. a \in Phase /\ (a = "write" => script # "closing" /\ ~run.dry) /\ (a = "rows" => script = "closing")
        /\ (a = "read" => run.dry) /\ a \in {"rows", "read", "write"}
    BY DEF Phase
  <2>3. c \in ChunkOf(Rows) /\ DOMAIN c = Rows /\ \A i \in Rows : c[i] = table[i]
    BY <1>2, <1>3 DEF ChunkOf
  <2>4. m \in Rows /\ m \in Nat /\ \A i \in Rows : i <= m
    <3>1. Rows \in SUBSET (0..LastId) /\ LastId \in Nat
      BY <1>3, ScriptNumbers DEF Id
    <3>2. Max(Rows) \in Rows /\ \A i \in Rows : i <= Max(Rows)
      BY <1>8, <3>1, MaxIn
    <3>3. Rows \in SUBSET Nat
      BY <1>3, ScriptNumbers
    <3> QED
      BY <3>2, <3>3
  <2>5. p \in Nat /\ (run.limit > 0 => p <= run.limit)
    BY <1>2, <1>3
  <2> HIDE DEF a, c, m, p
  <2>6. LET r == WithChunk(run, a, c, Rows, m, p)
        IN  /\ r \in RunType /\ r.at = a /\ r.chunk = c /\ r.left = Rows /\ r.last = m /\ r.processed = p
            /\ r.limit = run.limit /\ r.all = run.all /\ r.dry = run.dry /\ r.skipped = run.skipped
            /\ r.touched = run.touched
    BY <1>2, <1>3, <2>2, <2>3, <2>4, <2>5, ChunkSet
  <2>7. /\ run' \in RunType /\ run'.at = a /\ run'.chunk = c /\ run'.left = Rows /\ run'.last = m
        /\ run'.processed = p /\ run'.limit = run.limit /\ run'.dry = run.dry
        /\ run'.skipped = run.skipped /\ run'.touched = run.touched
    BY <2>1, <2>6
  <2>8. RunSound(run')
    BY <1>2, <2>2, <2>3, <2>5, <2>7 DEF RunSound, Hashes
  <2>9. run'.at = "write" => /\ DOMAIN run'.chunk \subseteq Id
                             /\ Hashes => \A i \in DOMAIN run'.chunk \ raced :
                                              /\ run'.chunk[i].text = table[i].text
                                              /\ run'.chunk[i].state = table[i].state
    BY <1>3, <2>3, <2>7
  <2>11. run'.at # "merge"
    BY <2>2, <2>7
  <2>10. ASSUME ~run'.dry, run'.limit = 0, NEW i \in Id \ (run'.skipped \cup run'.touched), table[i].there,
                Passed(i, run')
         PROVE  Filled(i)
    <3>1. i \notin Rows /\ (i <= m \/ script = "closing")
      BY <2>2, <2>3, <2>7, <2>10 DEF Passed
    <3>2. CASE i <= run.last
      BY <1>4, <2>7, <2>10, <3>2
    <3>3. CASE i > run.last
      <4>1. ~Selected(i, run.all)
        BY <1>3, <2>4, <3>1, <3>3
      <4> QED
        BY <1>5, <2>10, <4>1
    <3> QED
      BY <1>2, <1>6, <3>2, <3>3
  <2> QED
    BY <1>1, <1>2, <2>8, <2>9, <2>10, <2>11, RunStep
<1> QED
  BY <1>7, <1>8

\* What is written of a row that was read as "was".
LEMMA WrittenRow ==
  ASSUME ScriptInv, NEW i \in Id, NEW was \in TableRow
  PROVE  LET w == Written(i, was)
         IN  /\ w \in TableRow /\ w.there = table[i].there /\ w.text = table[i].text
             /\ script # "closing" => w.meta = table[i].meta
             /\ w.meta \in {table[i].meta, was.meta}
             /\ ~table[i].there => w = table[i]
             /\ table[i].there /\ script = "hash" =>
                   w.state = table[i].state /\ w.value = HashOf(was.text, was.state)
             /\ table[i].there /\ script = "opinion" =>
                   w.state = "closed" /\ w.value = HashOf(was.text, "closed")
             /\ table[i].there /\ ~Hashes => w.value = was.text
<1>1. script \in Scripts /\ table[i] \in TableRow
  BY DEF ScriptInv
<1>2. /\ was.text \in Nat /\ was.text \in 0..MaxText /\ was.meta \in 0..MaxText /\ was.state \in States
  BY RowTyped
<1>3. /\ HashOf(was.text, was.state) \in Nat \cup {NoValue} \cup (Nat \X States)
      /\ HashOf(was.text, "closed") \in Nat \cup {NoValue} \cup (Nat \X States)
      /\ was.text \in Nat \cup {NoValue} \cup (Nat \X States)
  BY <1>2 DEF HashOf, States
<1>4. CASE ~table[i].there
  BY <1>1, <1>4 DEF Written
<1>5. CASE table[i].there /\ script = "hash"
  <2> DEFINE v == HashOf(was.text, was.state)
  <2>1. NewHash(was) = v
    BY <1>5 DEF NewHash
  <2>2. v \in Nat \cup {NoValue} \cup (Nat \X States)
    BY <1>3
  <2> HIDE DEF v
  <2>3. Written(i, was) = [table[i] EXCEPT !.value = v]
    BY <1>5, <2>1 DEF Written, Embeds
  <2>4. LET n == [table[i] EXCEPT !.value = v]
        IN  /\ n \in TableRow /\ n.text = table[i].text /\ n.meta = table[i].meta
            /\ n.state = table[i].state /\ n.there = table[i].there /\ n.value = v
    BY <1>1, <2>2, ValueSet
  <2>5. Hashes /\ script # "opinion" /\ script # "closing"
    BY <1>5 DEF Hashes
  <2> QED
    BY <1>5, <2>3, <2>4, <2>5 DEF v
<1>6. CASE table[i].there /\ script = "opinion"
  <2> DEFINE v == HashOf(was.text, "closed")
             e == [table[i] EXCEPT !.value = v]
  <2>0. NewHash(was) = v
    BY <1>6 DEF NewHash
  <2>1. Written(i, was) = [e EXCEPT !.state = "closed"]
    BY <1>6, <2>0 DEF Written, Embeds
  <2>2. /\ e \in TableRow /\ e.text = table[i].text /\ e.meta = table[i].meta
        /\ e.there = table[i].there /\ e.value = HashOf(was.text, "closed")
    BY <1>1, <1>3, ValueSet
  <2> HIDE DEF e
  <2>3. LET w == [e EXCEPT !.state = "closed"]
        IN  /\ w \in TableRow /\ w.text = table[i].text /\ w.meta = table[i].meta
            /\ w.there = table[i].there /\ w.value = HashOf(was.text, "closed") /\ w.state = "closed"
    BY <2>2 DEF TableRow, States
  <2>4. Hashes /\ script # "hash" /\ script # "closing"
    BY <1>6 DEF Hashes
  <2> QED
    BY <1>6, <2>1, <2>3, <2>4
<1>7. CASE table[i].there /\ Embeds
  <2> DEFINE v == was.text
  <2>1. script # "hash" /\ script # "opinion" /\ script # "closing" /\ ~Hashes
    BY <1>7 DEF Embeds, Hashes
  <2>2. Written(i, was) = [table[i] EXCEPT !.value = v]
    BY <1>7, <2>1 DEF Written
  <2>3. v \in Nat \cup {NoValue} \cup (Nat \X States)
    BY <1>3
  <2> HIDE DEF v
  <2>4. LET n == [table[i] EXCEPT !.value = v]
        IN  /\ n \in TableRow /\ n.text = table[i].text /\ n.meta = table[i].meta
            /\ n.state = table[i].state /\ n.there = table[i].there /\ n.value = v
    BY <1>1, <2>3, ValueSet
  <2> QED
    BY <1>7, <2>1, <2>2, <2>4 DEF v
<1>8. CASE table[i].there /\ script = "closing"
  <2> DEFINE e == [table[i] EXCEPT !.value = was.text]
  <2>1. Written(i, was) = [e EXCEPT !.meta = was.meta]
    BY <1>8 DEF Written, Embeds
  <2>2. /\ e \in TableRow /\ e.text = table[i].text /\ e.there = table[i].there /\ e.value = was.text
    BY <1>1, <1>3, ValueSet
  <2> HIDE DEF e
  <2>3. LET w == [e EXCEPT !.meta = was.meta]
        IN  /\ w \in TableRow /\ w.text = table[i].text /\ w.meta = was.meta
            /\ w.there = table[i].there /\ w.value = was.text
    BY <1>2, <2>2 DEF TableRow
  <2> QED
    BY <1>8, <2>1, <2>3
<1>9. table[i].there \in BOOLEAN
  BY <1>1, RowTyped
<1> QED
  BY <1>1, <1>4, <1>5, <1>6, <1>7, <1>8, <1>9 DEF Scripts, Embeds

\* Rows are written, as they have been read.
LEMMA WriteChunkStep == ScriptInv /\ WriteChunk => ScriptInv'
<1> SUFFICES ASSUME ScriptInv, WriteChunk PROVE ScriptInv'
  OBVIOUS
<1> DEFINE held == {i \in DOMAIN run.chunk : script = "opinion" /\ \E h \in healing : h[1] = i}
<1>1. /\ run.at = "write" /\ UNCHANGED <<script, healing, runs>> /\ raced' = raced \cup held
      /\ run' = [run EXCEPT !.at = "read"]
      /\ table' = [i \in Id |-> IF i \in DOMAIN run.chunk THEN Written(i, run.chunk[i]) ELSE table[i]]
  BY DEF WriteChunk
<1>2. /\ run \in RunType /\ RunSound(run) /\ table \in [Id -> TableRow]
      /\ script # "closing" /\ ~run.dry /\ run.left = DOMAIN run.chunk
      /\ run.last \in Nat
  BY <1>1 DEF ScriptInv, RunSound, RunType
<1>3. /\ run' \in RunType /\ run'.at = "read" /\ run'.left = run.left /\ run'.chunk = run.chunk
      /\ run'.limit = run.limit /\ run'.processed = run.processed /\ run'.last = run.last
      /\ run'.dry = run.dry /\ run'.skipped = run.skipped /\ run'.touched = run.touched
  BY <1>1, <1>2, AtSet DEF Phase
<1>4. \A i \in DOMAIN run.chunk : run.chunk[i] \in TableRow /\ i \in Id
  BY <1>2, ChunkRows
<1>5. \A i \in Id \ DOMAIN run.chunk : table'[i] = table[i]
  BY <1>1
<1>6. \A i \in DOMAIN run.chunk : table'[i] = Written(i, run.chunk[i])
  BY <1>1, <1>4
<1>7. ASSUME NEW i \in DOMAIN run.chunk
      PROVE  LET w == table'[i]
                 was == run.chunk[i]
             IN  /\ w \in TableRow /\ w.there = table[i].there /\ w.text = table[i].text
                 /\ w.meta = table[i].meta
                 /\ ~table[i].there => w = table[i]
                 /\ table[i].there /\ script = "hash" =>
                       w.state = table[i].state /\ w.value = HashOf(was.text, was.state)
                 /\ table[i].there /\ script = "opinion" =>
                       w.state = "closed" /\ w.value = HashOf(was.text, "closed")
                 /\ table[i].there /\ ~Hashes => w.value = was.text
  BY <1>2, <1>4, <1>6, WrittenRow
<1>8. table' \in [Id -> TableRow]
  <2>1. \A i \in Id : table'[i] \in TableRow
    BY <1>2, <1>5, <1>7
  <2>2. DOMAIN table' = Id /\ table' = [i \in Id |-> table'[i]]
    BY <1>1
  <2> QED
    BY <2>1, <2>2
<1>9. RunSound(run)'
  BY <1>1, <1>2, <1>3 DEF RunSound, Embeds, Hashes
<1>10. HashesHonest'
  <2> SUFFICES ASSUME Hashes, NEW i \in Id \ raced'
               PROVE  table'[i].value \in {NoValue, HashOf(table'[i].text, table'[i].state)}
    BY <1>1 DEF HashesHonest, Hashes
  <2>0. i \notin raced
    BY <1>1
  <2>1. table[i].value \in {NoValue, HashOf(table[i].text, table[i].state)}
    BY <2>0 DEF ScriptInv, HashesHonest
  <2>2. CASE i \notin DOMAIN run.chunk \/ ~table[i].there
    BY <1>5, <1>7, <2>1, <2>2
  <2>3. CASE i \in DOMAIN run.chunk /\ table[i].there
    <3>1. run.chunk[i].text = table[i].text /\ run.chunk[i].state = table[i].state
      BY <1>1, <2>0, <2>3 DEF ScriptInv, ChunkFresh
    <3>2. table'[i].text = table[i].text
      BY <1>7, <2>3
    <3>3. CASE script = "hash"
      BY <1>7, <2>3, <3>1, <3>2, <3>3
    <3>4. CASE script = "opinion"
      BY <1>7, <2>3, <3>1, <3>2, <3>4
    <3> QED
      BY <3>3, <3>4 DEF Hashes
  <2> QED
    BY <2>2, <2>3
<1>11. MetadataKept'
  <2> SUFFICES ASSUME NEW i \in Id \ raced' PROVE table'[i].meta = table'[i].text
    BY DEF MetadataKept
  <2>1. table[i].meta = table[i].text
    BY <1>1 DEF ScriptInv, MetadataKept
  <2> QED
    BY <1>5, <1>7, <2>1
<1>12. ChunkFresh' /\ RowFresh'
  BY <1>3 DEF ChunkFresh, RowFresh
<1>15. HealsFresh'
  <2> SUFFICES ASSUME NEW h \in healing, h[1] \notin raced'
               PROVE  h[2] = HashOf(table'[h[1]].text, table'[h[1]].state)
    BY <1>1 DEF HealsFresh, HashOf
  <2>1. h[1] \in Id /\ h[1] \notin raced /\ h[1] \notin held /\ Hashes
    BY <1>1 DEF ScriptInv, Heals
  <2>2. h[2] = HashOf(table[h[1]].text, table[h[1]].state)
    BY <2>1 DEF ScriptInv, HealsFresh
  <2>3. CASE h[1] \notin DOMAIN run.chunk
    BY <1>5, <2>1, <2>2, <2>3
  <2>4. CASE h[1] \in DOMAIN run.chunk
    <3>1. script = "hash"
      BY <2>1, <2>4 DEF Hashes
    <3>2. table'[h[1]].text = table[h[1]].text /\ table'[h[1]].state = table[h[1]].state
      BY <1>2, <1>7, <2>1, <2>4, <3>1, RowTyped
    <3> QED
      BY <2>2, <3>2
  <2> QED
    BY <2>3, <2>4
<1>13. PassedFilled'
  <2> SUFFICES ASSUME ~run.dry, run.limit = 0, NEW i \in Id \ (run.skipped \cup run.touched),
                      table'[i].there, i <= run.last
               PROVE  (Filled(i))'
    BY <1>3 DEF PassedFilled, Passed
  <2>1. CASE i \notin DOMAIN run.chunk
    <3>1. Filled(i)
      BY <1>1, <1>5, <2>1 DEF ScriptInv, PassedFilled, Passed
    <3> QED
      BY <1>1, <1>5, <2>1, <3>1, SameFilled
  <2>2. CASE i \in DOMAIN run.chunk
    <3>1. table[i].there /\ run.chunk[i] \in TableRow
      BY <1>4, <1>7, <2>2
    <3>2. run.chunk[i].text \in Nat /\ run.chunk[i].state \in States
      BY <3>1, RowTyped
    <3>3. CASE script = "hash"
      <4>1. table'[i].value = HashOf(run.chunk[i].text, run.chunk[i].state)
        BY <1>7, <2>2, <3>1, <3>3
      <4>2. table'[i].value # NoValue
        BY <3>2, <4>1, ScriptNumbers DEF HashOf
      <4> QED
        BY <1>1, <3>3, <4>2 DEF Filled
    <3>4. CASE script = "opinion"
      <4>1. table'[i].state = "closed"
        BY <1>7, <2>2, <3>1, <3>4
      <4> QED
        BY <1>1, <3>4, <4>1 DEF Filled, Selected
    <3>5. CASE Embeds
      <4>1. table'[i].value = run.chunk[i].text
        BY <1>7, <2>2, <3>1, <3>5 DEF Embeds, Hashes
      <4>2. table'[i].value # NoValue
        BY <3>2, <4>1, ScriptNumbers
      <4> QED
        BY <1>1, <3>5, <4>2 DEF Filled, Embeds
    <3> QED
      BY <1>2, <3>3, <3>4, <3>5 DEF ScriptInv, Scripts, Embeds
  <2> QED
    BY <2>1, <2>2
<1>14. /\ script' \in Scripts /\ runs' \in 0..MaxRuns /\ raced' \subseteq Id
       /\ healing' \subseteq Heals /\ (healing' # {} => Hashes')
  BY <1>1, <1>4 DEF ScriptInv, Hashes
<1> QED
  BY <1>8, <1>9, <1>10, <1>11, <1>12, <1>13, <1>14, <1>15 DEF ScriptInv

\* The row a run has come to is the first that is left.
LEMMA AtRow ==
  ASSUME ScriptInv, run.at \in {"rows", "merge"}, NEW i \in Id, run.left # {}, i = Min(run.left)
  PROVE  /\ run \in RunType /\ RunSound(run) /\ table \in [Id -> TableRow] /\ table[i] \in TableRow
         /\ i \in run.left /\ i \in DOMAIN run.chunk /\ run.chunk[i] \in TableRow
         /\ ~Hashes /\ script \in {"search", "summary", "closing"}
<1>1. /\ run \in RunType /\ RunSound(run) /\ table \in [Id -> TableRow] /\ table[i] \in TableRow
      /\ ~Hashes /\ script \in Scripts /\ run.left \subseteq DOMAIN run.chunk /\ run.left \in SUBSET Id
  BY DEF ScriptInv, RunSound, RunType, Hashes
<1>2. i \in run.left
  BY <1>1, MinIn, ScriptNumbers
<1>3. script \in {"search", "summary", "closing"}
  BY <1>1 DEF Hashes, Scripts
<1> QED
  BY <1>1, <1>2, <1>3, ChunkRows

\* A row is done with: the run comes past it and past no other.
LEMMA AfterRowRun ==
  ASSUME ScriptInv, run.at \in {"rows", "merge"}, NEW i \in Id, run.left # {}, i = Min(run.left)
  PROVE  LET r == AfterRow(i)
         IN  /\ r \in RunType /\ RunSound(r) /\ r.at \in {"rows", "read", "ended"}
             /\ r.dry = run.dry /\ r.limit = run.limit
             /\ r.skipped = run.skipped /\ r.touched = run.touched
             /\ \A j \in Id \ {i} : Passed(j, r) => Passed(j, run)
<1>1. /\ run \in RunType /\ RunSound(run) /\ i \in run.left /\ ~Hashes
      /\ script \in {"search", "summary", "closing"} /\ run.left \in SUBSET Id
  BY AtRow DEF RunType
<1> DEFINE S == run.left \ {i}
           a == IF S # {} THEN "rows" ELSE IF script = "closing" THEN "ended" ELSE "read"
<1>2. AfterRow(i) = MovedOn(run, a, S)
  BY DEF AfterRow, MovedOn
<1>3. a \in Phase /\ a \in {"rows", "read", "ended"} /\ S \in SUBSET Id /\ S \subseteq run.left
      /\ \A j \in Id \ {i} : j \in run.left <=> j \in S
  BY <1>1 DEF Phase
<1>4. (a = "rows" \/ S = {}) /\ (a = "ended" => script = "closing" /\ S = {}) /\ (a = "read" => S = {})
  OBVIOUS
<1> HIDE DEF a, S
<1>5. LET r == MovedOn(run, a, S)
      IN  /\ r \in RunType /\ r.at = a /\ r.left = S
          /\ r.last = run.last /\ r.chunk = run.chunk /\ r.processed = run.processed
          /\ r.limit = run.limit /\ r.all = run.all /\ r.dry = run.dry /\ r.skipped = run.skipped
          /\ r.touched = run.touched
  BY <1>1, <1>3, LeftSet
<1> DEFINE r == AfterRow(i)
<1>6. /\ r \in RunType /\ r.at = a /\ r.left = S
      /\ r.last = run.last /\ r.chunk = run.chunk /\ r.processed = run.processed
      /\ r.limit = run.limit /\ r.all = run.all /\ r.dry = run.dry /\ r.skipped = run.skipped
      /\ r.touched = run.touched
  BY <1>2, <1>5
<1> HIDE DEF r
<1>7. RunSound(r)
  BY <1>1, <1>3, <1>6 DEF RunSound
<1>8. ASSUME NEW j \in Id \ {i}, Passed(j, r) PROVE Passed(j, run)
  <2>1. r.at \in {"rows", "read", "ended"}
    BY <1>3, <1>6
  <2>2. CASE r.at = "rows"
    BY <1>3, <1>6, <1>8, <2>2 DEF Passed
  <2>3. CASE r.at = "read"
    <3>1. j <= run.last /\ j \notin run.left
      BY <1>3, <1>4, <1>6, <1>8, <2>3 DEF Passed
    <3> QED
      BY <3>1 DEF Passed
  <2>4. CASE r.at = "ended"
    <3>1. script = "closing" /\ j \notin run.left
      BY <1>3, <1>4, <1>6, <2>4
    <3> QED
      BY <3>1 DEF Passed
  <2> QED
    BY <2>1, <2>2, <2>3, <2>4
<1> QED
  BY <1>3, <1>6, <1>7, <1>8 DEF r

\* The row is had again, to be merged into.
LEMMA GetRowStep == ASSUME NEW i \in Id PROVE ScriptInv /\ GetRow(i) => ScriptInv'
<1> SUFFICES ASSUME ScriptInv, GetRow(i) PROVE ScriptInv'
  OBVIOUS
<1>1. /\ run.at = "rows" /\ script = "closing" /\ ~run.dry /\ run.left # {} /\ i = Min(run.left)
      /\ run' = [run EXCEPT !.at = "merge", !.chunk[i] = Base(i)]
      /\ UNCHANGED <<script, table, healing, raced>> /\ runs' = runs
  BY DEF GetRow, Merges
<1>2. /\ run \in RunType /\ RunSound(run) /\ table[i] \in TableRow
      /\ i \in run.left /\ i \in DOMAIN run.chunk /\ runs' \in 0..MaxRuns
  BY <1>1, AtRow DEF ScriptInv
<1> DEFINE c == [run.chunk EXCEPT ![i] = table[i]]
           e == [run EXCEPT !.chunk = c]
<1>3. run' = [e EXCEPT !.at = "merge"]
  BY <1>1 DEF Base
<1>4. /\ c \in UNION {ChunkOf(S) : S \in SUBSET Id} /\ DOMAIN c = DOMAIN run.chunk
      /\ c[i] = table[i]
  <2>1. PICK S \in SUBSET Id : run.chunk \in ChunkOf(S)
    BY <1>2 DEF RunType
  <2>2. c \in ChunkOf(S) /\ DOMAIN c = DOMAIN run.chunk /\ c[i] = table[i]
    BY <1>2, <2>1 DEF ChunkOf
  <2> QED
    BY <2>1, <2>2
<1> HIDE DEF c
<1>5. /\ e \in RunType /\ e.chunk = c
      /\ e.at = run.at /\ e.last = run.last /\ e.left = run.left /\ e.processed = run.processed
      /\ e.limit = run.limit /\ e.all = run.all /\ e.dry = run.dry /\ e.skipped = run.skipped
      /\ e.touched = run.touched
  BY <1>2, <1>4 DEF RunType
<1> HIDE DEF e
<1>6. /\ run' \in RunType /\ run'.at = "merge" /\ run'.chunk = c
      /\ run'.last = run.last /\ run'.left = run.left /\ run'.processed = run.processed
      /\ run'.limit = run.limit /\ run'.dry = run.dry /\ run'.skipped = run.skipped
      /\ run'.touched = run.touched
  BY <1>3, <1>5, AtSet DEF Phase
<1>7. RunSound(run')
  BY <1>1, <1>2, <1>4, <1>6 DEF RunSound
<1>8. \A j \in Id : Passed(j, run') => Passed(j, run)
  BY <1>1, <1>6 DEF Passed
<1>9. ~run'.dry /\ run'.limit = 0 =>
         \A j \in Id \ (run'.skipped \cup run'.touched) :
            table[j].there /\ Passed(j, run') => Filled(j)
  BY <1>6, <1>8 DEF ScriptInv, PassedFilled
<1>10. run'.at # "write" /\ run'.chunk[Min(run'.left)].meta = table[Min(run'.left)].meta
  BY <1>1, <1>4, <1>6
<1> QED
  BY <1>1, <1>2, <1>7, <1>9, <1>10, RunStep

LEMMA WriteRowStep == ASSUME NEW i \in Id PROVE ScriptInv /\ WriteRow(i) => ScriptInv'
<1> SUFFICES ASSUME ScriptInv, WriteRow(i) PROVE ScriptInv'
  OBVIOUS
<1> DEFINE was == run.chunk[i]
<1>1. /\ run.at \in {"rows", "merge"} /\ run.left # {} /\ i = Min(run.left)
      /\ script = "closing" /\ ~run.dry => run.at = "merge"
      /\ table' = IF run.dry THEN table ELSE [table EXCEPT ![i] = Written(i, was)]
      /\ run' = AfterRow(i) /\ UNCHANGED <<script, healing, raced, runs>>
  BY DEF WriteRow, Merges
<1>2. /\ run \in RunType /\ table \in [Id -> TableRow] /\ table[i] \in TableRow
      /\ run.chunk[i] \in TableRow /\ ~Hashes /\ script \in {"search", "summary", "closing"}
      /\ run.dry \in BOOLEAN
  BY <1>1, AtRow DEF RunType
<1>3. LET r == AfterRow(i)
      IN  /\ r \in RunType /\ RunSound(r) /\ r.at \in {"rows", "read", "ended"}
          /\ r.dry = run.dry /\ r.limit = run.limit
          /\ r.skipped = run.skipped /\ r.touched = run.touched
          /\ \A j \in Id \ {i} : Passed(j, r) => Passed(j, run)
  BY <1>1, AfterRowRun
<1>4. /\ RunSound(run') /\ run'.at \in {"rows", "read", "ended"}
      /\ run'.dry = run.dry /\ run'.limit = run.limit
      /\ run'.skipped = run.skipped /\ run'.touched = run.touched
      /\ \A j \in Id \ {i} : Passed(j, run') => Passed(j, run)
  BY <1>1, <1>3
<1>5. was \in TableRow /\ (script = "closing" /\ ~run.dry => i \in raced \/ was.meta = table[i].meta)
  BY <1>1, <1>2 DEF ScriptInv, RowFresh
<1> HIDE DEF was
<1>6. LET w == Written(i, was)
      IN  /\ w \in TableRow /\ w.there = table[i].there /\ w.text = table[i].text
          /\ script # "closing" => w.meta = table[i].meta
          /\ w.meta \in {table[i].meta, was.meta}
          /\ table[i].there /\ ~Hashes => w.value = was.text
  BY <1>5, WrittenRow
<1>7. /\ table' \in [Id -> TableRow] /\ \A j \in Id \ {i} : table'[j] = table[j]
      /\ table'[i].text = table[i].text /\ (i \in raced \/ table'[i].meta = table[i].meta)
      /\ table'[i].there = table[i].there
      /\ ~run.dry /\ table[i].there => table'[i].value = was.text
  <2>1. CASE run.dry
    BY <1>1, <1>2, <2>1
  <2>2. CASE ~run.dry
    <3>1. table' = [table EXCEPT ![i] = Written(i, was)]
      BY <1>1, <2>2
    <3>2. table'[i] = Written(i, was) /\ \A j \in Id \ {i} : table'[j] = table[j]
      BY <1>2, <3>1
    <3>3. table' \in [Id -> TableRow]
      BY <1>2, <1>6, <3>1
    <3>4. i \in raced \/ table'[i].meta = table[i].meta
      BY <1>5, <1>6, <2>2, <3>2
    <3> QED
      BY <1>2, <1>6, <3>2, <3>3, <3>4
  <2> QED
    BY <1>2, <2>1, <2>2
<1>8. HashesHonest' /\ ChunkFresh' /\ RowFresh' /\ HealsFresh'
  <2>1. healing' = {} /\ ~Hashes' /\ run'.at # "merge"
    BY <1>1, <1>2, <1>4 DEF ScriptInv, Hashes
  <2> QED
    BY <2>1 DEF HashesHonest, ChunkFresh, RowFresh, HealsFresh
<1>9. MetadataKept'
  BY <1>1, <1>7 DEF MetadataKept, ScriptInv
<1>10. run'.dry \/ ~table'[i].there \/ (Filled(i))'
  <2> SUFFICES ASSUME ~run.dry, table[i].there PROVE (Filled(i))'
    BY <1>2, <1>4, <1>7
  <2>1. table'[i].value # NoValue
    BY <1>5, <1>7, RowTyped, ScriptNumbers
  <2> QED
    BY <1>1, <1>2, <2>1 DEF Filled
<1>11. run.skipped \cup run.touched \subseteq run'.skipped \cup run'.touched /\ UNCHANGED script
  BY <1>1, <1>4
<1>12. PassedFilled'
  BY <1>4, <1>7, <1>10, <1>11, PassedFilledKept
<1>13. RunSound(run)'
  BY <1>1, <1>4 DEF RunSound, Embeds, Hashes
<1>14. /\ script' \in Scripts /\ runs' \in 0..MaxRuns /\ raced' \subseteq Id
       /\ healing' \subseteq Heals /\ (healing' # {} => Hashes')
  BY <1>1 DEF ScriptInv, Hashes
<1> QED
  BY <1>7, <1>8, <1>9, <1>12, <1>13, <1>14 DEF ScriptInv

LEMMA SkippedSet ==
  ASSUME NEW q \in RunType, NEW S \in SUBSET Id
  PROVE  LET r == [q EXCEPT !.skipped = S]
         IN  /\ r \in RunType /\ r.skipped = S
             /\ r.at = q.at /\ r.last = q.last /\ r.chunk = q.chunk /\ r.left = q.left
             /\ r.processed = q.processed /\ r.limit = q.limit /\ r.all = q.all /\ r.dry = q.dry
             /\ r.touched = q.touched
BY DEF RunType

LEMMA SkipRowStep == ASSUME NEW i \in Id PROVE ScriptInv /\ SkipRow(i) => ScriptInv'
<1> SUFFICES ASSUME ScriptInv, SkipRow(i) PROVE ScriptInv'
  OBVIOUS
<1>1. /\ run.at = "rows" /\ run.left # {} /\ i = Min(run.left)
      /\ run' = IF script = "summary" THEN [run EXCEPT !.at = "failed"]
                ELSE [AfterRow(i) EXCEPT !.skipped = @ \cup {i}]
      /\ UNCHANGED <<script, table, healing, raced>> /\ runs' = runs
  BY DEF SkipRow
<1>2. run \in RunType /\ RunSound(run) /\ ~Hashes /\ runs' \in 0..MaxRuns
  BY <1>1, AtRow DEF ScriptInv
<1>3. CASE script = "summary"
  <2>1. run' = [run EXCEPT !.at = "failed"]
    BY <1>1, <1>3
  <2>2. /\ run' \in RunType /\ run'.at = "failed" /\ run'.left = run.left /\ run'.chunk = run.chunk
        /\ run'.limit = run.limit /\ run'.processed = run.processed
    BY <1>2, <2>1, AtSet DEF Phase
  <2>3. RunSound(run')
    BY <1>2, <2>2 DEF RunSound
  <2>4. \A j \in Id : ~Passed(j, run')
    BY <2>2 DEF Passed
  <2> QED
    BY <1>1, <1>2, <2>2, <2>3, <2>4, RunStep
<1>4. CASE script # "summary"
  <2> DEFINE r == AfterRow(i)
             S == r.skipped \cup {i}
  <2>1. run' = [r EXCEPT !.skipped = S]
    BY <1>1, <1>4
  <2>2. /\ r \in RunType /\ RunSound(r) /\ r.at \in {"rows", "read", "ended"}
        /\ r.dry = run.dry /\ r.limit = run.limit
        /\ r.skipped = run.skipped /\ r.touched = run.touched
        /\ \A j \in Id \ {i} : Passed(j, r) => Passed(j, run)
    BY <1>1, AfterRowRun
  <2> HIDE DEF r
  <2>3. S \in SUBSET Id
    BY <2>2 DEF RunType
  <2> HIDE DEF S
  <2>4. /\ run' \in RunType /\ run'.skipped = S
        /\ run'.at = r.at /\ run'.last = r.last /\ run'.chunk = r.chunk /\ run'.left = r.left
        /\ run'.processed = r.processed /\ run'.limit = r.limit /\ run'.dry = r.dry
        /\ run'.touched = r.touched
    BY <2>1, <2>2, <2>3, SkippedSet
  <2>5. RunSound(run')
    BY <2>2, <2>4 DEF RunSound
  <2>6. \A j \in Id \ {i} : Passed(j, run') => Passed(j, run)
    BY <2>2, <2>4 DEF Passed
  <2>7. run'.at # "write" /\ run'.at # "merge"
    BY <2>2, <2>4
  <2>8. run.skipped \cup {i} = run'.skipped
    BY <2>2, <2>4 DEF S
  <2>9. ASSUME ~run'.dry, run'.limit = 0, NEW j \in Id \ (run'.skipped \cup run'.touched), table[j].there,
               Passed(j, run')
        PROVE  Filled(j)
    <3>1. j # i /\ j \notin run.skipped \cup run.touched
      BY <2>2, <2>4, <2>8
    <3> QED
      BY <2>2, <2>4, <2>6, <2>9, <3>1 DEF ScriptInv, PassedFilled
  <2> QED
    BY <1>1, <1>2, <2>5, <2>7, <2>9, RunStep
<1> QED
  BY <1>3, <1>4

LEMMA ScriptBegins == BackfillInit => ScriptInv
<1> SUFFICES ASSUME BackfillInit PROVE ScriptInv
  OBVIOUS
<1>1. script \in Scripts /\ run = NoRun /\ raced = {} /\ runs = 0 /\ 0 \in 0..MaxText /\ 0 \in 0..MaxRuns
  BY ScriptNumbers DEF BackfillInit
<1> DEFINE V(s, i) == CASE Hashes /\ (i \notin Missing \/ script = "opinion") -> HashOf(0, s)
                        [] ~Hashes /\ i \notin Missing -> 0
                        [] OTHER -> NoValue
<1>2. PICK state \in [Id -> States] :
        table = [i \in Id |->
              [there |-> TRUE, text |-> 0, meta |-> 0, state |-> state[i],
               opinion |-> script = "opinion" /\ i \in Missing, value |-> V(state[i], i)]]
  BY DEF BackfillInit, States
<1>3. ASSUME NEW s \in States, NEW i \in Id
      PROVE  /\ V(s, i) \in Nat \cup {NoValue} \cup (Nat \X States)
             /\ Hashes => V(s, i) \in {NoValue, HashOf(0, s)}
  <2>1. CASE Hashes /\ (i \notin Missing \/ script = "opinion")
    BY <2>1 DEF HashOf
  <2>2. CASE ~Hashes /\ i \notin Missing
    BY <2>2
  <2>3. CASE ~(Hashes /\ (i \notin Missing \/ script = "opinion")) /\ ~(~Hashes /\ i \notin Missing)
    BY <2>3
  <2> QED
    BY <2>1, <2>2, <2>3
<1> HIDE DEF V
<1>4. ASSUME NEW i \in Id
      PROVE  /\ table[i] \in TableRow /\ table[i].text = 0 /\ table[i].meta = 0
             /\ Hashes => table[i].value \in {NoValue, HashOf(0, table[i].state)}
  <2> DEFINE v == V(state[i], i)
             o == script = "opinion" /\ i \in Missing
             s == state[i]
  <2>1. /\ s \in States /\ v \in Nat \cup {NoValue} \cup (Nat \X States)
        /\ Hashes => v \in {NoValue, HashOf(0, s)}
    BY <1>3
  <2>2. o \in BOOLEAN
    OBVIOUS
  <2>3. table[i] = [there |-> TRUE, text |-> 0, meta |-> 0, state |-> s, opinion |-> o, value |-> v]
    BY <1>2
  <2> HIDE DEF v, o, s
  <2> QED
    BY <1>1, <2>1, <2>2, <2>3 DEF TableRow
<1>5. table \in [Id -> TableRow]
  BY <1>2, <1>4
<1>6. RunSound(run)
  BY <1>1, NoRunTyped DEF RunSound
<1>7. HashesHonest
  BY <1>1, <1>4 DEF HashesHonest
<1>8. MetadataKept
  BY <1>4 DEF MetadataKept
<1>9. ChunkFresh /\ PassedFilled /\ RowFresh
  BY <1>1, NoRunTyped DEF ChunkFresh, PassedFilled, Passed, RowFresh
<1>10. healing = {} /\ healing \subseteq Heals /\ HealsFresh
  BY DEF BackfillInit, HealsFresh
<1> QED
  BY <1>1, <1>5, <1>6, <1>7, <1>8, <1>9, <1>10 DEF ScriptInv

LEMMA ScriptSteps == ScriptInv /\ [BackfillNext]_backfillVars => ScriptInv'
<1> SUFFICES ASSUME ScriptInv, [BackfillNext]_backfillVars PROVE ScriptInv'
  OBVIOUS
<1>1. CASE BackfillNext
  BY <1>1, UpsertStep, SubmittedStep, CollectedStep, HealReadStep, HealWriteStep,
     HealLostStep, GetRowStep, WriteRowStep, SkipRowStep, BeginRunStep,
     ReadChunkStep, WriteChunkStep, ChunkFailsStep, FailRunStep DEF BackfillNext
<1>2. CASE UNCHANGED backfillVars
  <2>1. UNCHANGED <<script, table, healing, raced>> /\ run' = run /\ runs' = runs
    BY <1>2 DEF backfillVars
  <2>2. RunSound(run') /\ runs' \in 0..MaxRuns
    BY <2>1 DEF ScriptInv
  <2>3. run'.at = "write" => /\ DOMAIN run'.chunk \subseteq Id
                             /\ Hashes => \A i \in DOMAIN run'.chunk \ raced :
                                             /\ run'.chunk[i].text = table[i].text
                                             /\ run'.chunk[i].state = table[i].state
    BY <2>1, ChunkRows DEF ScriptInv, RunSound, ChunkFresh
  <2>5. run'.at = "merge" => \/ Min(run'.left) \in raced
                             \/ run'.chunk[Min(run'.left)].meta = table[Min(run'.left)].meta
    BY <2>1 DEF ScriptInv, RowFresh
  <2>4. ~run'.dry /\ run'.limit = 0 =>
           \A i \in Id \ (run'.skipped \cup run'.touched) :
              table[i].there /\ Passed(i, run') => Filled(i)
    BY <2>1 DEF ScriptInv, PassedFilled
  <2> QED
    BY <2>1, <2>2, <2>3, <2>4, <2>5, RunStep
<1> QED
  BY <1>1, <1>2

LEMMA ScriptSafe == ScriptInv => BackfillTypeOK /\ BackfillsSound
<1> SUFFICES ASSUME ScriptInv PROVE BackfillTypeOK /\ BackfillsSound
  OBVIOUS
<1>1. DOMAIN run.chunk \subseteq Id
  BY ChunkRows DEF ScriptInv, RunSound
<1>2. \A i \in Id : table[i].text \in 0..MaxText
  BY RowTyped DEF ScriptInv
<1>3. BackfillTypeOK
  <2>1. healing \subseteq Id \X (Nat \X {"open", "closed"})
    BY DEF ScriptInv, Heals, States
  <2> QED
    BY <1>1, <1>2, <2>1 DEF ScriptInv, RunSound, BackfillTypeOK
<1>4. NothingLeftOut
  BY DEF ScriptInv, PassedFilled, Passed, NothingLeftOut
<1> QED
  BY <1>3, <1>4 DEF ScriptInv, BackfillsSound

-----------------------------------------------------------------------------
(* The whole *)

IInv == RecordsInv /\ ListInv /\ TokensInv /\ ScriptInv

LEMMA InitIInv == Init => IInv
BY RecordsBegin, ListBegins, TokensBegin, ScriptBegins DEF Init, IInv

LEMMA NextIInv == IInv /\ [Next]_vars => IInv'
<1> SUFFICES ASSUME IInv, [Next]_vars PROVE IInv'
  OBVIOUS
<1>1. /\ [RecordsNext]_recordVars /\ [ListNext]_listVars
      /\ [TokensNext]_tokenVars /\ [BackfillNext]_backfillVars
  BY DEF Next, vars
<1> QED
  BY <1>1, RecordsSteps, ListSteps, TokensSteps, ScriptSteps DEF IInv

LEMMA Invariance == Spec => []IInv
BY InitIInv, NextIInv, PTL DEF Spec

\* The type invariants of the records, the list, the tokens and the scripts:
\* among them, that every link is of a row that exists, and that a run of
\* _process_batches stays within its --limit.
THEOREM TypeCorrect == Spec => []TypeOK
<1>1. IInv => TypeOK
  BY RecordsSafe, ListSafe, ScriptSafe DEF IInv, TokensInv, TypeOK
<1> QED
  BY <1>1, Invariance, PTL

\* However the statements of gc.py and of submit_result mix, no current
\* evaluation loses its row, its embedding or its transcript; a day's sum at
\* the cap never stays unnoticed; and a backfill script leaves no row out, and
\* none with a hash or with metadata of another time, but for an issue that a
\* collector stored while something read of it was to be written (raced).
THEOREM RecordsSound == Spec => []RecordsKept
<1>1. IInv => RecordsKept
  BY RecordsSafe, ScriptSafe DEF IInv, RecordsKept
<1> QED
  BY <1>1, Invariance, PTL

\* A reader of list_issues who turns every page of a list nobody changes has
\* seen every issue of it, if none tie; and of a search, the exact matches come
\* first.
THEOREM PagesComplete == Spec => []PagesShowAll
<1>1. IInv => PagesShowAll
  BY ListSafe DEF IInv
<1> QED
  BY <1>1, Invariance, PTL

\* Whoever revokes or rotates a token, in whichever process and whatever is
\* being answered meanwhile, authenticate_token of eval_auth_service.py
\* accepts no request with the old secret that begins the lifetime of a cache
\* entry later.
THEOREM RevocationTakesHold == Spec => []RevocationHolds
<1>1. IInv => RevocationHolds
  BY DEF IInv, TokensInv
<1> QED
  BY <1>1, Invariance, PTL
=============================================================================
