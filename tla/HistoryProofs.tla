----------------------------- MODULE HistoryProofs -----------------------------
(***************************************************************************)
(* What MCHistory keeps of the daily snapshots and of the counts of CI     *)
(* failures, for any number of issues, days, runs and signatures.  The two *)
(* parts share no variable: SnapInv and RetentionInv are the inductive     *)
(* invariants, and IInv is both.                                           *)
(***************************************************************************)
EXTENDS MCHistory, NaturalsInduction, WellFoundedInduction, FiniteSetTheorems, TLAPS

(* Failures of CI *)

\* In the module CIRetention: what the tables of failures hold.
Kinds == LogKinds \cup {"annotation"}
Signatures == Kinds \cup {"job"}
RunRow == [outcome : {"none", "success", "failure", "cancelled"}, began : Int]
DetailRow == [at : Int, found : SUBSET Kinds]
CountRow == [day : Int, class : Classes, sign : Signatures, fails : Nat, total : Nat]

RunSound(r, t) == r \in RunRow /\ r.began <= t /\ (r.outcome = "none" <=> r = Missing)

KeysDiffer(D) == \A d, e \in D : KeyOf(d) = KeyOf(e) => d = e

RetentionInv ==
    /\ today \in 0..LastDate
    /\ runs \in [Attempts -> RunRow] /\ \A x \in Attempts : RunSound(runs[x], today)
    /\ details \in [Attempts -> DetailRow]
    /\ \A x \in Attempts : details[x] # NoDetail => runs[x].outcome \in {"failure", "cancelled"}
    /\ daily \subseteq CountRow /\ KeysDiffer(daily)
    /\ \A d \in daily : 0 < d.fails /\ d.fails <= d.total

LEMMA RetentionNumbers ==
  /\ IsFiniteSet(Attempts) /\ Retention \in Nat /\ RunRetention \in Nat /\ Delay \in Nat
  /\ LastDate \in Nat /\ \A f \in Shapes : f.log \subseteq LogKinds
BY CIRetentionAssumption DEF CIRetentionAssumption

\* What is found is what a parser or the annotations can find.
LEMMA FindingsKnown == \A found \in Findings : found \subseteq Kinds
<1> SUFFICES ASSUME NEW f \in Shapes PROVE Finds(f.hints, f.log, f.notes) \subseteq Kinds
  BY DEF Findings
<1>1. f.log \subseteq LogKinds
  BY RetentionNumbers
<1>2. ParseLog(f.hints, f.log) \subseteq LogKinds
  BY <1>1 DEF ParseLog
<1> QED
  BY <1>2 DEF Finds, Kinds

\* A job with details has a signature.
LEMMA Signed ==
  ASSUME RetentionInv, NEW x \in Attempts
  PROVE  /\ Signs(x) \subseteq Signatures
         /\ details[x] # NoDetail => Signs(x) # {}
<1>1. details[x].found \subseteq Kinds
  BY DEF RetentionInv, DetailRow
<1> QED
  BY <1>1 DEF Signs, Signatures

LEMMA CountedSets ==
  ASSUME NEW X \in SUBSET Attempts, NEW Y, Y \subseteq X
  PROVE  /\ IsFiniteSet(X) /\ IsFiniteSet(Y)
         /\ Cardinality(X) \in Nat /\ Cardinality(Y) \in Nat /\ Cardinality(Y) <= Cardinality(X)
BY RetentionNumbers, FS_Subset, FS_CardinalityType

\* What the roll-up adds: a row for each day, class and signature, that counts
\* a failure at least.
LEMMA RollupSound ==
  ASSUME RetentionInv, NEW X \in SUBSET Attempts
  PROVE  /\ Rollup(X) \subseteq CountRow
         /\ \A d \in Rollup(X) : 0 < d.fails /\ d.fails <= d.total
<1> DEFINE Alike(x) == Like(OnDay(X, runs[x].began), x[1])
           Failed(x, s) == {y \in Failures(Alike(x)) : s \in Signs(y)}
<1>1. ASSUME NEW d \in Rollup(X)
      PROVE  \E x \in Failures(X) : \E s \in Signs(x) : d = RowFor(X, x, s)
  BY DEF Rollup
<1>2. ASSUME NEW x \in Failures(X), NEW s \in Signs(x)
      PROVE  LET d == RowFor(X, x, s)
             IN  /\ d = [day |-> runs[x].began, class |-> Class(x[1]), sign |-> s,
                         fails |-> Cardinality(Failed(x, s)), total |-> Cardinality(Alike(x))]
                 /\ d \in CountRow /\ 0 < d.fails /\ d.fails <= d.total
  <2>1. x \in X /\ x \in Attempts
    BY DEF Failures
  <2>2. Alike(x) \in SUBSET Attempts /\ Failed(x, s) \subseteq Alike(x) /\ x \in Failed(x, s)
    BY <2>1 DEF Failures, Like, InClass, OnDay
  <2>3. /\ IsFiniteSet(Failed(x, s)) /\ Cardinality(Failed(x, s)) \in Nat
        /\ Cardinality(Alike(x)) \in Nat /\ Cardinality(Failed(x, s)) <= Cardinality(Alike(x))
    BY <2>2, CountedSets
  <2>4. Cardinality(Failed(x, s)) # 0
    BY <2>2, <2>3, FS_EmptySet
  <2>5. runs[x].began \in Int /\ s \in Signatures /\ Class(x[1]) \in Classes
    BY <2>1, Signed DEF RetentionInv, RunRow, Class, Classes
  <2>6. RowFor(X, x, s) = [day |-> runs[x].began, class |-> Class(x[1]), sign |-> s,
                           fails |-> Cardinality(Failed(x, s)), total |-> Cardinality(Alike(x))]
    BY DEF RowFor
  <2> HIDE DEF Alike, Failed
  <2> QED
    BY <2>3, <2>4, <2>5, <2>6 DEF CountRow
<1> HIDE DEF Alike, Failed
<1> QED
  BY <1>1, <1>2

\* Of the rows of several workflows one stays for each key.
LEMMA LastOnesSound ==
  ASSUME NEW D, NEW last \in LastOnes(D)
  PROVE  last \subseteq D /\ KeysDiffer(last) /\ \A n \in D : \E d \in last : KeyOf(d) = KeyOf(n)
BY DEF LastOnes, KeysDiffer

LEMMA UpsertedSound ==
  ASSUME NEW D, KeysDiffer(daily), KeysDiffer(D)
  PROVE  /\ KeysDiffer(Upserted(D))
         /\ D \subseteq Upserted(D) /\ Upserted(D) \subseteq daily \cup D
         /\ \A d \in daily : \E e \in Upserted(D) : KeyOf(d) = KeyOf(e)
BY DEF KeysDiffer, Upserted

-----------------------------------------------------------------------------
LEMMA NewDayStep == RetentionInv /\ NewDay => RetentionInv'
<1> SUFFICES ASSUME RetentionInv, NewDay PROVE RetentionInv'
  OBVIOUS
<1>1. today' = today + 1 /\ today' \in 0..LastDate /\ today \in Nat /\ UNCHANGED <<runs, details, daily>>
  BY RetentionNumbers DEF NewDay, RetentionInv
<1>2. \A x \in Attempts : RunSound(runs[x], today)'
  BY <1>1 DEF RetentionInv, RunSound, RunRow
<1> QED
  BY <1>1, <1>2 DEF RetentionInv

LEMMA RecordStep == ASSUME NEW x \in Attempts PROVE RetentionInv /\ Record(x) => RetentionInv'
<1> SUFFICES ASSUME RetentionInv, Record(x) PROVE RetentionInv'
  OBVIOUS
<1>1. /\ runs[x] = Missing /\ UNCHANGED <<today, daily>> /\ today \in 0..LastDate
      /\ runs \in [Attempts -> RunRow] /\ details \in [Attempts -> DetailRow]
  BY DEF Record, RetentionInv
<1>2. PICK outcome \in {"success", "failure", "cancelled"}, began \in (today - Delay)..today :
        /\ runs' = [runs EXCEPT ![x] = [outcome |-> outcome, began |-> began]]
        /\ IF outcome = "success" THEN UNCHANGED details
           ELSE \E found \in Findings :
                   details' = [details EXCEPT ![x] = [at |-> today, found |-> found]]
  BY DEF Record
<1>3. today - Delay \in Int /\ began \in Int /\ began <= today
  BY <1>1, RetentionNumbers
<1> DEFINE r == [outcome |-> outcome, began |-> began]
<1>4. r \in RunRow /\ r.outcome = outcome /\ RunSound(r, today)
  BY <1>3 DEF RunRow, RunSound, Missing
<1>5. /\ runs' \in [Attempts -> RunRow] /\ runs'[x] = r
      /\ \A y \in Attempts \ {x} : runs'[y] = runs[y]
  BY <1>1, <1>2, <1>4
<1> HIDE DEF r
<1>6. details[x] = NoDetail
  <2>1. runs[x].outcome \notin {"failure", "cancelled"}
    BY <1>1 DEF Missing
  <2> QED
    BY <2>1 DEF RetentionInv
<1>7. CASE outcome = "success"
  <2>1. details' = details
    BY <1>2, <1>7
  <2> QED
    BY <1>1, <1>4, <1>5, <1>6, <2>1 DEF RetentionInv
<1>8. CASE outcome # "success"
  <2>1. PICK found \in Findings : details' = [details EXCEPT ![x] = [at |-> today, found |-> found]]
    BY <1>2, <1>8
  <2>2. [at |-> today, found |-> found] \in DetailRow
    BY <1>1, FindingsKnown DEF DetailRow
  <2>3. details' \in [Attempts -> DetailRow] /\ \A y \in Attempts \ {x} : details'[y] = details[y]
    BY <1>1, <2>1, <2>2
  <2>4. runs'[x].outcome \in {"failure", "cancelled"}
    BY <1>4, <1>5, <1>8
  <2> QED
    BY <1>1, <1>4, <1>5, <2>3, <2>4 DEF RetentionInv
<1> QED
  BY <1>7, <1>8

LEMMA CollectGarbageStep == RetentionInv /\ CollectGarbage => RetentionInv'
<1> SUFFICES ASSUME RetentionInv, CollectGarbage PROVE RetentionInv'
  OBVIOUS
<1> DEFINE gone == Outdated(RunRetention)
<1>0. PICK last \in LastOnes(Counted) : daily' = Upserted(last)
  BY DEF CollectGarbage
<1>1. /\ details' = Pruned(gone) /\ UNCHANGED today
      /\ runs' = [x \in Attempts |-> IF x \in gone THEN Missing ELSE runs[x]]
      /\ today \in 0..LastDate
  BY DEF CollectGarbage, RetentionInv
<1> HIDE DEF gone
<1>2. Missing \in RunRow /\ RunSound(Missing, today) /\ NoDetail \in DetailRow
  BY <1>1 DEF Missing, NoDetail, RunRow, DetailRow, RunSound
<1>3. runs' \in [Attempts -> RunRow] /\ \A x \in Attempts : RunSound(runs'[x], today)
  BY <1>1, <1>2 DEF RetentionInv
<1>4. details' \in [Attempts -> DetailRow]
  BY <1>1, <1>2 DEF RetentionInv, Pruned
<1>5. \A x \in Attempts : details'[x] # NoDetail => runs'[x].outcome \in {"failure", "cancelled"}
  BY <1>1 DEF RetentionInv, Pruned
<1>6. /\ last \subseteq CountRow /\ KeysDiffer(last)
      /\ \A d \in last : 0 < d.fails /\ d.fails <= d.total
  <2>1. LatestOf(Outdated(Retention)) \in SUBSET Attempts
    BY DEF LatestOf, Outdated
  <2> QED
    BY <1>0, <2>1, RollupSound, LastOnesSound DEF Counted
<1>7. KeysDiffer(daily') /\ daily' \subseteq daily \cup last
  BY <1>0, <1>6, UpsertedSound DEF RetentionInv
<1>8. /\ daily' \subseteq CountRow /\ KeysDiffer(daily)'
      /\ \A d \in daily' : 0 < d.fails /\ d.fails <= d.total
  BY <1>6, <1>7 DEF RetentionInv
<1> QED
  BY <1>1, <1>3, <1>4, <1>5, <1>8 DEF RetentionInv

LEMMA RetentionBegins == RetentionInit => RetentionInv
<1> SUFFICES ASSUME RetentionInit PROVE RetentionInv
  OBVIOUS
<1>1. today = 0 /\ 0 \in 0..LastDate /\ daily = {}
      /\ runs = [x \in Attempts |-> Missing] /\ details = [x \in Attempts |-> NoDetail]
  BY RetentionNumbers DEF RetentionInit
<1>2. Missing \in RunRow /\ RunSound(Missing, 0) /\ NoDetail \in DetailRow
  BY DEF Missing, NoDetail, RunRow, DetailRow, RunSound
<1> QED
  BY <1>1, <1>2 DEF RetentionInv, KeysDiffer

LEMMA RetentionSteps == RetentionInv /\ [RetentionNext]_retentionVars => RetentionInv'
<1>1. RetentionInv /\ RetentionNext => RetentionInv'
  BY NewDayStep, RecordStep, CollectGarbageStep DEF RetentionNext
<1>2. RetentionInv /\ UNCHANGED retentionVars => RetentionInv'
  BY DEF RetentionInv, retentionVars, RunSound, KeysDiffer
<1> QED
  BY <1>1, <1>2

LEMMA RetentionSafe == RetentionInv => RetentionTypeOK /\ RatesAddUp
<1> SUFFICES ASSUME RetentionInv PROVE RetentionTypeOK /\ RatesAddUp
  OBVIOUS
<1>1. RetentionTypeOK
  BY DEF RetentionInv, RetentionTypeOK, RunSound, KeysDiffer
<1>2. ASSUME NEW x \in Attempts, NEW s \in LogKinds \cup {"annotation", "job"}
      PROVE  Cardinality(Occurrences(x[1], s)) <= Cardinality(RunsOf(x[1]))
  <2>1. Occurrences(x[1], s) \subseteq RunsOf(x[1]) /\ RunsOf(x[1]) \in SUBSET Attempts
    BY DEF Occurrences, RunsOf, Failures, Like, InClass, LatestOf, InWindow
  <2> QED
    BY <2>1, CountedSets
<1>3. ASSUME NEW x \in Failures(LatestOf(InWindow)), details[x] # NoDetail
      PROVE  \E s \in LogKinds \cup {"annotation", "job"} : x \in Occurrences(x[1], s)
  <2>1. x \in Attempts
    BY DEF Failures, LatestOf, InWindow
  <2>2. PICK s \in Signs(x) : s \in Signatures
    BY <1>3, <2>1, Signed
  <2> QED
    BY <1>3, <2>2 DEF Occurrences, Failures, Like, InClass, Signatures, Kinds
<1>4. RatesAddUp
  BY <1>2, <1>3 DEF RetentionInv, RatesAddUp
<1> QED
  BY <1>1, <1>4

\* What one step may not do with a failure that is counted, and with a count.
Pruning ==
    /\ \A x \in Attempts :
          x \in LatestOf(Outdated(Retention)) /\ runs[x].outcome = "failure"
                /\ details[x] # NoDetail /\ details'[x] = NoDetail
             => \A s \in Signs(x) : \E d \in daily' :
                   d.day = runs[x].began /\ d.class = Class(x[1]) /\ d.sign = s
    /\ \A d \in daily : \E e \in daily' : KeyOf(d) = KeyOf(e)

LEMMA PrunedInStep == RetentionInv /\ [RetentionNext]_retentionVars => [Pruning]_retentionVars
<1> SUFFICES ASSUME RetentionInv, RetentionNext PROVE Pruning
  OBVIOUS
<1>1. CASE NewDay
  <2>1. daily' = daily /\ details' = details
    BY <1>1 DEF NewDay
  <2> QED
    BY <2>1 DEF Pruning
<1>2. ASSUME NEW y \in Attempts, Record(y) PROVE Pruning
  <2>1. daily' = daily /\ runs[y] = Missing
    BY <1>2 DEF Record
  <2>2. \A x \in Attempts \ {y} : details'[x] = details[x]
    BY <1>2 DEF Record, RetentionInv
  <2>3. runs[y].outcome # "failure"
    BY <2>1 DEF Missing
  <2> QED
    BY <2>1, <2>2, <2>3 DEF Pruning
<1>3. CASE CollectGarbage
  <2> DEFINE X == LatestOf(Outdated(Retention))
  <2>1. X \in SUBSET Attempts
    BY DEF LatestOf, Outdated
  <2>2. PICK last \in LastOnes(Rollup(X)) : daily' = Upserted(last)
    BY <1>3 DEF CollectGarbage, Counted
  <2> HIDE DEF X
  <2>3. /\ KeysDiffer(last) /\ \A n \in Rollup(X) : \E d \in last : KeyOf(d) = KeyOf(n)
        /\ KeysDiffer(daily)
    BY LastOnesSound DEF RetentionInv
  <2>4. /\ \A n \in Rollup(X) : \E d \in daily' : KeyOf(d) = KeyOf(n)
        /\ \A d \in daily : \E e \in daily' : KeyOf(d) = KeyOf(e)
    BY <2>2, <2>3, UpsertedSound
  <2>5. ASSUME NEW x \in X, runs[x].outcome = "failure", NEW s \in Signs(x)
        PROVE  \E d \in daily' : d.day = runs[x].began /\ d.class = Class(x[1]) /\ d.sign = s
    <3> DEFINE n == RowFor(X, x, s)
    <3>1. n \in Rollup(X)
      BY <2>5 DEF Rollup, Failures
    <3>2. n.day = runs[x].began /\ n.class = Class(x[1]) /\ n.sign = s
      BY DEF RowFor
    <3> HIDE DEF n
    <3>3. PICK d \in daily' : KeyOf(d) = KeyOf(n)
      BY <2>4, <3>1
    <3> QED
      BY <3>2, <3>3 DEF KeyOf
  <2> QED
    BY <2>4, <2>5 DEF Pruning, X
<1> QED
  BY <1>1, <1>2, <1>3 DEF RetentionNext

-----------------------------------------------------------------------------
(* Medians *)

\* The smallest and the largest of numbers.
LEMMA Smallest ==
  ASSUME NEW S \in SUBSET Nat, S # {}
  PROVE  \E x \in S : \A y \in S : x <= y
<1> DEFINE R == {ss \in Nat \X Nat : ss[1] < ss[2]}
<1>0. OpToRel(<, Nat) = R
  BY DEF OpToRel
<1>1. PICK x \in S : \A y \in S : ~(<<y, x>> \in R)
  BY <1>0, WFMin, NatLessThanWellFounded
<1>2. ASSUME NEW y \in S, ~(x <= y) PROVE FALSE
  <2>1. x \in Nat /\ y \in Nat /\ y < x
    BY <1>2
  <2>2. <<y, x>> \in R
    BY <2>1
  <2> QED
    BY <1>1, <2>2
<1> QED
  BY <1>2

LEMMA Largest ==
  ASSUME NEW n \in Nat, NEW S \in SUBSET (0..n), S # {}
  PROVE  \E x \in S : \A y \in S : y <= x
<1> DEFINE T == {n - y : y \in S}
<1>1. T \in SUBSET Nat /\ T # {}
  <2>1. \A y \in S : y \in 0..n /\ n - y \in Nat
    OBVIOUS
  <2> QED
    BY <2>1
<1>2. PICK t \in T : \A u \in T : t <= u
  BY <1>1, Smallest
<1>3. PICK x \in S : t = n - x
  BY <1>2
<1>4. ASSUME NEW y \in S PROVE y <= x
  <2>1. n - y \in T /\ x \in 0..n /\ y \in 0..n
    BY <1>4
  <2>2. n - x <= n - y
    BY <1>2, <1>3, <2>1
  <2> QED
    BY <2>1, <2>2
<1> QED
  BY <1>4

\* In the module Snapshots: the k-th of the values of a finite set.
IsKth(S, value, k, v) ==
    /\ v \in {value[i] : i \in S}
    /\ Cardinality({i \in S : value[i] < v}) < k
    /\ Cardinality({i \in S : value[i] <= v}) >= k

LEMMA Counts ==
  ASSUME NEW S, IsFiniteSet(S), NEW T \in SUBSET S
  PROVE  /\ IsFiniteSet(T) /\ Cardinality(T) \in Nat /\ Cardinality(S) \in Nat
         /\ Cardinality(T) <= Cardinality(S)
         /\ Cardinality(S \ T) = Cardinality(S) - Cardinality(T)
<1>1. IsFiniteSet(T) /\ Cardinality(T) \in Nat /\ Cardinality(S) \in Nat /\ Cardinality(T) <= Cardinality(S)
  BY FS_Subset, FS_CardinalityType
<1>2. Cardinality(S \ T) = Cardinality(S) - Cardinality(S \cap T) /\ S \cap T = T
  BY FS_Difference, <1>1
<1> QED
  BY <1>1, <1>2

LEMMA KthUnique ==
  ASSUME NEW S, IsFiniteSet(S), NEW M \in Nat, NEW value \in [S -> 0..M], NEW k \in Nat,
         NEW u, NEW v, IsKth(S, value, k, u), IsKth(S, value, k, v)
  PROVE  u = v
<1>1. u \in Nat /\ v \in Nat
  BY DEF IsKth
<1>2. ASSUME NEW a \in Nat, NEW b \in Nat, IsKth(S, value, k, a), IsKth(S, value, k, b), a < b
      PROVE  FALSE
  <2> DEFINE A == {i \in S : value[i] <= a}
             B == {i \in S : value[i] < b}
  <2>1. A \in SUBSET B /\ B \in SUBSET S
    BY <1>2
  <2>2. IsFiniteSet(B) /\ Cardinality(B) \in Nat
    BY <2>1, Counts
  <2>3. Cardinality(A) <= Cardinality(B) /\ Cardinality(A) \in Nat
    BY <2>1, <2>2, Counts
  <2>4. Cardinality(B) < k /\ Cardinality(A) >= k
    BY <1>2 DEF IsKth
  <2> HIDE DEF A, B
  <2> QED
    BY <2>2, <2>3, <2>4
<1>3. ~(u < v) /\ ~(v < u)
  BY <1>1, <1>2
<1> QED
  BY <1>1, <1>3

LEMMA KthExists ==
  ASSUME NEW S, IsFiniteSet(S), NEW M \in Nat, NEW value \in [S -> 0..M],
         NEW k \in Nat, k >= 1, k <= Cardinality(S)
  PROVE  \E v : IsKth(S, value, k, v)
<1> DEFINE V == {value[i] : i \in S}
           Upto(v) == {i \in S : value[i] <= v}
           Below(v) == {i \in S : value[i] < v}
           W == {v \in V : Cardinality(Upto(v)) >= k}
<1>1. Cardinality(S) \in Nat /\ \A v : Upto(v) \in SUBSET S /\ Below(v) \in SUBSET S
  BY FS_CardinalityType
<1>2. \A v : /\ IsFiniteSet(Upto(v)) /\ Cardinality(Upto(v)) \in Nat
             /\ IsFiniteSet(Below(v)) /\ Cardinality(Below(v)) \in Nat
  BY <1>1, Counts
<1>3. S # {}
  BY FS_EmptySet
<1>4. V \in SUBSET (0..M) /\ V # {}
  BY <1>3
<1>5. PICK top \in V : \A v \in V : v <= top
  BY <1>4, Largest
<1>6. Upto(top) = S
  BY <1>5
<1>7. top \in W
  BY <1>5, <1>6
<1>8. W \in SUBSET Nat /\ W # {}
  <2>1. W \in SUBSET V
    OBVIOUS
  <2>2. \A v \in V : v \in Nat
    BY <1>4
  <2> HIDE DEF W, V
  <2> QED
    BY <1>7, <2>1, <2>2
<1>9. PICK v \in W : \A w \in W : v <= w
  BY <1>8, Smallest
<1>10. Cardinality(Below(v)) < k
  <2> SUFFICES ASSUME ~(Cardinality(Below(v)) < k) PROVE FALSE
    OBVIOUS
  <2>1. Cardinality(Below(v)) >= k /\ Below(v) # {}
    BY <1>2, FS_EmptySet
  <2> DEFINE U == {value[i] : i \in Below(v)}
  <2>2. U \in SUBSET (0..M) /\ U # {}
    BY <2>1
  <2>3. PICK u \in U : \A w \in U : w <= u
    BY <2>2, Largest
  <2>4. u \in V /\ u < v /\ u \in Nat /\ v \in Nat
    BY <1>8, <1>9, <2>2, <2>3
  <2>5. Upto(u) = Below(v)
    <3>1. ASSUME NEW i \in S, value[i] <= u PROVE value[i] < v
      BY <2>4, <3>1
    <3>2. ASSUME NEW i \in S, value[i] < v PROVE value[i] <= u
      BY <2>3, <3>2
    <3> QED
      BY <3>1, <3>2
  <2>6. u \in W
    BY <2>1, <2>4, <2>5
  <2>7. v <= u
    BY <1>9, <2>6
  <2> QED
    BY <2>4, <2>7
<1> QED
  BY <1>9, <1>10 DEF IsKth

LEMMA KthIs ==
  ASSUME NEW S, IsFiniteSet(S), NEW M \in Nat, NEW value \in [S -> 0..M],
         NEW k \in Nat, k >= 1, k <= Cardinality(S)
  PROVE  /\ IsKth(S, value, k, KthOf(S, value, k))
         /\ KthOf(S, value, k) \in Nat /\ KthOf(S, value, k) <= M
         /\ \E i \in S : KthOf(S, value, k) = value[i]
<1>0. PICK v : IsKth(S, value, k, v)
  BY KthExists
<1>1. \E u \in {value[i] : i \in S} : /\ Cardinality({i \in S : value[i] < u}) < k
                                      /\ Cardinality({i \in S : value[i] <= u}) >= k
  BY <1>0 DEF IsKth
<1>2. IsKth(S, value, k, KthOf(S, value, k))
  BY <1>1 DEF KthOf, IsKth
<1> QED
  BY <1>2 DEF IsKth

\* Days and half days.
LEMMA Days ==
  ASSUME NEW t \in Nat
  PROVE  Day(t) \in Nat /\ 2 * Day(t) <= t /\ t <= 2 * Day(t) + 1
BY DEF Day

LEMMA DaysOrdered ==
  ASSUME NEW t \in Nat, NEW u \in Nat
  PROVE  /\ t <= u => Day(t) <= Day(u)
         /\ Day(t) < Day(u) => t < u
<1>1. Day(t) \in Nat /\ 2 * Day(t) <= t /\ t <= 2 * Day(t) + 1
  BY Days
<1>2. Day(u) \in Nat /\ 2 * Day(u) <= u /\ u <= 2 * Day(u) + 1
  BY Days
<1> QED
  BY <1>1, <1>2

WholeAges(S, value, d) == [i \in S |-> d - Day(value[i])]

\* The ages at day d are sorted the other way round than the times at which
\* they began, in whole days.
LEMMA KthAge ==
  ASSUME NEW S, IsFiniteSet(S), NEW d \in Nat, NEW value \in [S -> 0..(2 * d + 1)],
         NEW k \in Nat, k >= 1, k <= Cardinality(S)
  PROVE  LET age == WholeAges(S, value, d)
             j == Cardinality(S) + 1 - k
         IN  /\ age \in [S -> 0..d]
             /\ KthOf(S, age, k) = d - Day(KthOf(S, value, j))
<1> DEFINE age == [i \in S |-> d - Day(value[i])]
           n == Cardinality(S)
           j == n + 1 - k
           M == 2 * d + 1
           v == KthOf(S, value, j)
           w == d - Day(v)
<1>1. n \in Nat /\ M \in Nat
  BY FS_CardinalityType
<1>2. \A i \in S : value[i] \in Nat /\ value[i] <= M
  OBVIOUS
<1>3. \A i \in S : Day(value[i]) \in 0..d
  <2> SUFFICES ASSUME NEW i \in S PROVE Day(value[i]) \in 0..d
    OBVIOUS
  <2>1. Day(value[i]) \in Nat /\ 2 * Day(value[i]) <= value[i]
    BY <1>2, Days
  <2> QED
    BY <1>2, <2>1
<1>4. age \in [S -> 0..d]
  BY <1>3
<1>5. j \in Nat /\ j >= 1 /\ j <= n
  BY <1>1
<1>6. IsKth(S, value, j, v) /\ v \in Nat /\ \E i \in S : v = value[i]
  <2> HIDE DEF j, n, M, v
  <2>1. value \in [S -> 0..M]
    BY DEF M
  <2> QED
    BY <1>1, <1>5, <2>1, KthIs DEF v, n
<1> HIDE DEF v
<1> DEFINE B == {i \in S : value[i] < v}
           U == {i \in S : value[i] <= v}
           AB == {i \in S : age[i] < w}
           AU == {i \in S : age[i] <= w}
<1>7. AB \in SUBSET (S \ U) /\ (S \ B) \in SUBSET AU
  <2>1. ASSUME NEW i \in S, age[i] < w PROVE ~(value[i] <= v)
    <3>1. age[i] = d - Day(value[i]) /\ Day(value[i]) \in Nat /\ Day(v) \in Nat
      BY <1>3, <1>6, Days
    <3>2. Day(v) < Day(value[i])
      BY <2>1, <3>1
    <3>3. v < value[i]
      BY <1>2, <1>6, <3>2, DaysOrdered
    <3> QED
      BY <1>2, <1>6, <3>3
  <2>2. ASSUME NEW i \in S, ~(value[i] < v) PROVE age[i] <= w
    <3>1. age[i] = d - Day(value[i]) /\ Day(value[i]) \in Nat /\ Day(v) \in Nat
      BY <1>3, <1>6, Days
    <3>2. v <= value[i]
      BY <1>2, <1>6, <2>2
    <3>3. Day(v) <= Day(value[i])
      BY <1>2, <1>6, <3>2, DaysOrdered
    <3> QED
      BY <3>1, <3>3
  <2> QED
    BY <2>1, <2>2
<1>8. B \in SUBSET S /\ U \in SUBSET S /\ AU \in SUBSET S /\ (S \ U) \in SUBSET S
  OBVIOUS
<1>9. Cardinality(B) < j /\ Cardinality(U) >= j
  BY <1>6 DEF IsKth
<1>10. w \in {age[i] : i \in S}
  BY <1>6
<1> HIDE DEF B, U, AB, AU
<1>11. /\ Cardinality(B) \in Nat /\ Cardinality(U) \in Nat
       /\ Cardinality(S \ B) = n - Cardinality(B) /\ Cardinality(S \ U) = n - Cardinality(U)
       /\ IsFiniteSet(AU) /\ IsFiniteSet(S \ U)
  BY <1>8, Counts
<1>12. /\ Cardinality(AB) \in Nat /\ Cardinality(AB) <= Cardinality(S \ U)
       /\ Cardinality(AU) \in Nat /\ Cardinality(S \ B) <= Cardinality(AU)
  BY <1>7, <1>11, Counts
<1>13. Cardinality(AB) < k /\ Cardinality(AU) >= k
  BY <1>1, <1>9, <1>11, <1>12
<1>14. IsKth(S, age, k, w)
  BY <1>10, <1>13 DEF IsKth, AB, AU
<1>15. IsKth(S, age, k, KthOf(S, age, k))
  <2> HIDE DEF age, n, j, M
  <2> QED
    BY <1>4, KthIs
<1>16. KthOf(S, age, k) = w
  <2> HIDE DEF age, n, j, M, w
  <2> QED
    BY <1>4, <1>14, <1>15, KthUnique
<1>17. WholeAges(S, value, d) = age
  BY DEF WholeAges
<1> HIDE DEF age
<1> QED
  BY <1>4, <1>16, <1>17 DEF v

\* Both medians of a day are made of the same two issues.
LEMMA TwoMiddles ==
  ASSUME NEW S, IsFiniteSet(S), S # {}, NEW d \in Nat, NEW value \in [S -> 0..(2 * d + 1)]
  PROVE  \E a, b \in 0..(2 * d + 1) :
            /\ TwiceMedian(S, value) = a + b
            /\ TwiceMedian(S, WholeAges(S, value, d)) = (d - Day(b)) + (d - Day(a))
<1> DEFINE n == Cardinality(S)
           k == (n + 1) \div 2
           l == n \div 2 + 1
           age == WholeAges(S, value, d)
           M == 2 * d + 1
           a == KthOf(S, value, k)
           b == KthOf(S, value, l)
<1>1. n \in Nat /\ n # 0 /\ M \in Nat
  BY FS_CardinalityType, FS_EmptySet
<1> HIDE DEF n
<1>2. k \in Nat /\ l \in Nat /\ k >= 1 /\ l >= 1 /\ k <= n /\ l <= n /\ n + 1 - k = l /\ n + 1 - l = k
  BY <1>1
<1> HIDE DEF k, l
<1>3. a \in 0..M /\ b \in 0..M
  <2>1. value \in [S -> 0..M]
    OBVIOUS
  <2> HIDE DEF M
  <2> QED
    BY <1>1, <1>2, <2>1, KthIs DEF n
<1>4. KthOf(S, age, k) = d - Day(KthOf(S, value, n + 1 - k))
  BY <1>2, KthAge DEF n
<1>5. KthOf(S, age, l) = d - Day(KthOf(S, value, n + 1 - l))
  BY <1>2, KthAge DEF n
<1>6. KthOf(S, age, k) = d - Day(b) /\ KthOf(S, age, l) = d - Day(a)
  BY <1>2, <1>4, <1>5
<1>7. TwiceMedian(S, value) = a + b
  BY DEF TwiceMedian, n, k, l
<1>8. TwiceMedian(S, age) = KthOf(S, age, k) + KthOf(S, age, l)
  BY DEF TwiceMedian, n, k, l
<1> HIDE DEF a, b, age
<1>9. TwiceMedian(S, age) = (d - Day(b)) + (d - Day(a))
  BY <1>6, <1>8
<1> QED
  BY <1>3, <1>7, <1>9 DEF age

LEMMA AgesClose ==
  ASSUME NEW d \in Nat, NEW a \in 0..(2 * d + 1), NEW b \in 0..(2 * d + 1)
  PROVE  LET script == ((d - Day(b)) + (d - Day(a))) \div 2
             past == (4 * d - (a + b)) \div 4
         IN  script \in Nat /\ past \in Int /\ past >= -1 /\ script - past \in {0, 1}
<1>1. /\ Day(a) \in Nat /\ 2 * Day(a) <= a /\ a <= 2 * Day(a) + 1
      /\ Day(b) \in Nat /\ 2 * Day(b) <= b /\ b <= 2 * Day(b) + 1
  BY Days
<1> DEFINE A == Day(a)
           B == Day(b)
           x == (d - B) + (d - A)
           y == 4 * d - (a + b)
           script == x \div 2
           past == y \div 4
<1>2. A \in Nat /\ B \in Nat /\ 2 * A <= a /\ a <= 2 * A + 1 /\ 2 * B <= b /\ b <= 2 * B + 1
      /\ a \in Nat /\ b \in Nat /\ a <= 2 * d + 1 /\ b <= 2 * d + 1
  BY <1>1
<1> HIDE DEF A, B
<1>3. x \in Int /\ y \in Int /\ x >= 0 /\ y >= -2 /\ 2 * x - 2 <= y /\ y <= 2 * x
  BY <1>2
<1> HIDE DEF x, y
<1>4. script \in Int /\ 2 * script <= x /\ x <= 2 * script + 1
  BY <1>3
<1>5. past \in Int /\ 4 * past <= y /\ y <= 4 * past + 3
  BY <1>3
<1> HIDE DEF script, past
<1>6. script >= 0 /\ past >= -1 /\ script - past >= 0 /\ script - past <= 1
  BY <1>3, <1>4, <1>5
<1>7. script \in Nat /\ past \in Int /\ past >= -1 /\ script - past \in {0, 1}
  BY <1>4, <1>5, <1>6
<1> QED
  BY <1>7 DEF script, past, x, y, A, B

\* The ages of a set of rows that are there since day d at the latest.
LEMMA AgesOf ==
  ASSUME NEW S, IsFiniteSet(S), NEW d \in Nat, NEW r, NEW q,
         \A i \in S : r[i].opened \in 0..(2 * d + 1) /\ q[i].opened = r[i].opened
  PROVE  /\ AgeAtMidnight(q, S, d) \in Int /\ AgeAtMidnight(q, S, d) >= -1
         /\ ScriptAge(r, S, d) \in Nat
         /\ ScriptAge(r, S, d) - AgeAtMidnight(q, S, d) \in {0, 1}
<1>1. CASE S = {}
  BY <1>1 DEF AgeAtMidnight, ScriptAge
<1>2. CASE S # {}
  <2> DEFINE value == [i \in S |-> r[i].opened]
             age == WholeAges(S, value, d)
  <2>1. value \in [S -> 0..(2 * d + 1)]
    OBVIOUS
  <2>2. [i \in S |-> q[i].opened] = value /\ [i \in S |-> d - Day(r[i].opened)] = age
    BY DEF WholeAges
  <2>3. ScriptAge(r, S, d) = TwiceMedian(S, age) \div 2
    BY <1>2, <2>2 DEF ScriptAge
  <2>4. AgeAtMidnight(q, S, d) = (2 * (2 * d) - TwiceMedian(S, value)) \div 4
    BY <1>2, <2>2 DEF AgeAtMidnight, Midnight
  <2> HIDE DEF value
  <2>5. \E a, b \in 0..(2 * d + 1) :
            /\ TwiceMedian(S, value) = a + b
            /\ TwiceMedian(S, WholeAges(S, value, d)) = (d - Day(b)) + (d - Day(a))
    BY <1>2, <2>1, TwoMiddles
  <2> HIDE DEF age
  <2>6. PICK a, b \in 0..(2 * d + 1) :
            /\ TwiceMedian(S, value) = a + b
            /\ TwiceMedian(S, age) = (d - Day(b)) + (d - Day(a))
    BY <2>5 DEF age
  <2>7. 2 * (2 * d) - (a + b) = 4 * d - (a + b)
    OBVIOUS
  <2>8. /\ ScriptAge(r, S, d) = ((d - Day(b)) + (d - Day(a))) \div 2
        /\ AgeAtMidnight(q, S, d) = (4 * d - (a + b)) \div 4
    BY <2>3, <2>4, <2>7, <2>6
  <2> HIDE DEF ScriptAge, AgeAtMidnight
  <2> QED
    BY <2>8, AgesClose
<1> QED
  BY <1>1, <1>2

-----------------------------------------------------------------------------
\* What an issue and its row can be at time t.
IssueRow == [opened : Int, closed : Int, state : {"absent", "open", "closed"}]

Sound(r, i, t) ==
    /\ r \in IssueRow
    /\ r.state = "absent" => r.opened = Never /\ r.closed = Never
    /\ r.state # "absent" => r.opened \in 0..t
    /\ r.state = "open" => r.closed = Never
    /\ r.state = "closed" => IF i \in Undated THEN r.closed = Never ELSE r.closed \in r.opened..t

\* An issue that was as a is as b now: what happened to it did so since t.
Since(a, b, t) ==
    \/ b = a
    \/ a.state = "absent" /\ b.state # "absent" /\ b.opened >= t
    \/ a.state = "open" /\ b.state = "closed" /\ b.opened = a.opened /\ b.closed >= t

IsOpen(r, d) ==
    /\ r.state # "absent" /\ Day(r.opened) <= d
    /\ r.closed = Never \/ Day(r.closed) > d
IsClosed(r, d) == r.closed # Never /\ Day(r.closed) = d

SnapTyped(s, t) ==
    /\ s.open \subseteq Issue /\ s.closed \subseteq Issue
    /\ s.age \in Int /\ s.age >= -1 /\ s.read \in Nat /\ s.read <= t

Exact(s, d) ==
    s.read >= Midnight(d + 1) =>
        \A i \in Issue \ (reopened \cup Undated) :
           /\ i \in s.open <=> IsOpen(issues[i], d)
           /\ i \in s.closed <=> IsClosed(issues[i], d)

SnapInv ==
    /\ now \in 0..(2 * LastDay) /\ readAt \in 0..now /\ run \in {"idle", "snapshot", "backfill"}
    /\ issues \in [Issue -> IssueRow] /\ rows \in [Issue -> IssueRow]
    /\ \A i \in Issue : Sound(issues[i], i, now) /\ Sound(rows[i], i, now)
    /\ \A i \in Issue \ (reopened \cup Undated) : Since(rows[i], issues[i], readAt)
    /\ DOMAIN snaps \subseteq 0..LastDay
    /\ \A d \in DOMAIN snaps : SnapTyped(snaps[d], now) /\ Exact(snaps[d], d)

LEMMA SnapNumbers ==
  IsFiniteSet(Issue) /\ Undated \subseteq Issue /\ LastDay \in Nat
BY SnapshotAssumption DEF SnapshotAssumption

LEMMA SoundLater ==
  ASSUME NEW t \in Nat, NEW u \in Nat, t <= u, NEW i, NEW r, Sound(r, i, t)
  PROVE  Sound(r, i, u)
BY DEF Sound, IssueRow

LEMMA SinceThen ==
  ASSUME NEW t \in Nat, NEW u \in Nat, t <= u, NEW i, i \notin Undated,
         NEW a, NEW b, NEW c, Sound(a, i, u), Sound(b, i, u), Sound(c, i, u),
         Since(a, b, t), Since(b, c, u)
  PROVE  Since(a, c, t)
BY DEF Since, Sound, IssueRow

\* What happened since midnight does not count for the day before.
LEMMA DayOver ==
  ASSUME NEW d \in Nat, NEW t \in Nat, t >= 2 * (d + 1)
  PROVE  Day(t) > d
<1>1. Day(t) \in Nat /\ t <= 2 * Day(t) + 1
  BY Days
<1> QED
  BY <1>1

LEMMA SameDay ==
  ASSUME NEW d \in Nat, NEW t \in Nat, t >= 2 * (d + 1), NEW u \in Nat, NEW i, i \notin Undated,
         NEW a, NEW b, Sound(a, i, u), Sound(b, i, u), Since(a, b, t)
  PROVE  (IsOpen(a, d) <=> IsOpen(b, d)) /\ (IsClosed(a, d) <=> IsClosed(b, d))
<1>1. CASE b = a
  BY <1>1
<1>2. CASE a.state = "absent" /\ b.state # "absent" /\ b.opened >= t
  <2>1. b.opened \in Nat /\ b.opened >= 2 * (d + 1) /\ a.closed = Never
    BY <1>2 DEF Sound
  <2>2. Day(b.opened) > d /\ Day(b.opened) \in Nat
    BY <2>1, DayOver, Days
  <2>3. ~IsOpen(a, d) /\ ~IsOpen(b, d) /\ ~IsClosed(a, d)
    BY <1>2, <2>1, <2>2 DEF IsOpen, IsClosed
  <2>4. CASE b.closed = Never
    BY <2>3, <2>4 DEF IsClosed
  <2>5. CASE b.closed # Never
    <3>1. b.closed \in Nat /\ b.closed >= 2 * (d + 1)
      BY <1>2, <2>1, <2>5 DEF Sound, IssueRow
    <3>2. Day(b.closed) > d /\ Day(b.closed) \in Nat
      BY <3>1, DayOver, Days
    <3> QED
      BY <2>3, <3>2 DEF IsClosed
  <2> QED
    BY <2>4, <2>5
<1>3. CASE a.state = "open" /\ b.state = "closed" /\ b.opened = a.opened /\ b.closed >= t
  <2>1. b.closed \in Nat /\ b.closed >= 2 * (d + 1) /\ a.closed = Never
    BY <1>3 DEF Sound
  <2>2. Day(b.closed) > d /\ Day(b.closed) \in Nat
    BY <2>1, DayOver, Days
  <2> QED
    BY <1>3, <2>1, <2>2 DEF IsOpen, IsClosed
<1> QED
  BY <1>1, <1>2, <1>3 DEF Since

-----------------------------------------------------------------------------
\* The rows of a day that is over are counted as they were on it.
LEMMA RowTimes ==
  ASSUME SnapInv, NEW i \in Issue
  PROVE  /\ rows[i] \in IssueRow /\ Sound(rows[i], i, now) /\ now \in Nat /\ readAt \in Nat
         /\ readAt <= now
         /\ rows[i].state # "absent" => rows[i].opened \in Nat /\ rows[i].opened <= now
         /\ rows[i].closed # Never => /\ rows[i].state = "closed" /\ i \notin Undated
                                      /\ rows[i].closed \in Nat /\ rows[i].opened <= rows[i].closed
BY DEF SnapInv, Sound, IssueRow

LEMMA OpenOnDay ==
  ASSUME SnapInv, NEW d \in Nat
  PROVE  LET S == OpenOn(rows, d)
             q == AsOf(rows, d)
         IN  /\ S \subseteq Issue /\ IsFiniteSet(S) /\ OpenNow(q) = S
             /\ \A i \in Issue : i \in S <=> IsOpen(rows[i], d)
             /\ \A i \in S : q[i].opened = rows[i].opened /\ rows[i].opened \in 0..(2 * d + 1)
<1> DEFINE S == OpenOn(rows, d)
           q == AsOf(rows, d)
           was == {i \in Issue : /\ rows[i].state # "absent" /\ Day(rows[i].opened) <= d
                                 /\ rows[i].closed = Never \/ Day(rows[i].closed) >= d}
<1>1. DOMAIN rows = Issue
  BY DEF SnapInv
<1>2. \A i \in Issue : i \in S <=> IsOpen(rows[i], d)
  BY DEF OpenOn, IsOpen
<1>3. q = [i \in was |-> IF rows[i].closed = Never \/ Day(rows[i].closed) > d
                         THEN [rows[i] EXCEPT !.state = "open"] ELSE rows[i]]
  BY <1>1 DEF AsOf
<1>4. S \subseteq Issue /\ IsFiniteSet(S)
  BY SnapNumbers, FS_Subset DEF OpenOn
<1>5. ASSUME NEW i \in Issue
      PROVE  /\ i \in S => i \in was /\ q[i].state = "open" /\ q[i].opened = rows[i].opened
             /\ i \in was /\ i \notin S => q[i] = rows[i] /\ rows[i].closed # Never
  <2>1. i \in S => /\ i \in was /\ (rows[i].closed = Never \/ Day(rows[i].closed) > d)
    <3> SUFFICES ASSUME i \in S PROVE i \in was /\ (rows[i].closed = Never \/ Day(rows[i].closed) > d)
      OBVIOUS
    <3>1. /\ rows[i].state # "absent" /\ Day(rows[i].opened) <= d
          /\ rows[i].closed = Never \/ Day(rows[i].closed) > d
      BY DEF OpenOn
    <3>2. rows[i].closed # Never => Day(rows[i].closed) \in Nat
      BY RowTimes, Days
    <3> QED
      BY <3>1, <3>2
  <2>2. i \in was /\ i \notin S => ~(rows[i].closed = Never \/ Day(rows[i].closed) > d)
    BY DEF OpenOn
  <2>3. rows[i] \in IssueRow
    BY RowTimes
  <2>4. LET e == [rows[i] EXCEPT !.state = "open"] IN e.state = "open" /\ e.opened = rows[i].opened
    BY <2>3 DEF IssueRow
  <2> HIDE DEF S, was, q
  <2> QED
    BY <1>3, <2>1, <2>2, <2>4
<1>6. OpenNow(q) = S
  <2>1. DOMAIN q = was /\ was \subseteq Issue
    BY <1>3
  <2>2. OpenNow(q) = {i \in was : q[i].state = "open"}
    BY <2>1 DEF OpenNow
  <2>3. \A i \in was : i \notin S => q[i].state # "open"
    <3> SUFFICES ASSUME NEW i \in was, i \notin S PROVE q[i].state # "open"
      OBVIOUS
    <3>1. i \in Issue /\ q[i] = rows[i] /\ rows[i].closed # Never
      BY <1>5, <2>1
    <3> QED
      BY <3>1, RowTimes
  <2> HIDE DEF S, was, q
  <2> QED
    BY <1>4, <1>5, <2>1, <2>2, <2>3
<1>7. ASSUME NEW i \in S PROVE q[i].opened = rows[i].opened /\ rows[i].opened \in 0..(2 * d + 1)
  <2>1. i \in Issue /\ rows[i].state # "absent" /\ Day(rows[i].opened) <= d
    BY DEF OpenOn
  <2>2. rows[i].opened \in Nat
    BY <2>1, RowTimes
  <2>3. Day(rows[i].opened) \in Nat /\ rows[i].opened <= 2 * Day(rows[i].opened) + 1
    BY <2>2, Days
  <2>4. rows[i].opened \in 0..(2 * d + 1)
    BY <2>1, <2>2, <2>3
  <2> QED
    BY <1>5, <2>1, <2>4
<1> HIDE DEF S, q
<1> QED
  BY <1>2, <1>4, <1>6, <1>7 DEF S, q

LEMMA ClosedOnDay ==
  ASSUME SnapInv, NEW d \in Nat
  PROVE  LET q == AsOf(rows, d)
         IN  /\ ClosedOn(q, d) \subseteq Issue /\ ScriptClosed(rows, d) \subseteq Issue
             /\ \A i \in Issue \ Undated : i \in ClosedOn(q, d) <=> IsClosed(rows[i], d)
             /\ \A i \in Issue : i \in ScriptClosed(rows, d) <=> IsClosed(rows[i], d)
<1> DEFINE q == AsOf(rows, d)
           was == {i \in Issue : /\ rows[i].state # "absent" /\ Day(rows[i].opened) <= d
                                 /\ rows[i].closed = Never \/ Day(rows[i].closed) >= d}
<1>1. DOMAIN rows = Issue
  BY DEF SnapInv
<1>2. q = [i \in was |-> IF rows[i].closed = Never \/ Day(rows[i].closed) > d
                         THEN [rows[i] EXCEPT !.state = "open"] ELSE rows[i]]
  BY <1>1 DEF AsOf
<1>3. DOMAIN q = was /\ was \subseteq Issue
  BY <1>2
<1>4. ClosedOn(q, d) = {i \in was : q[i].state = "closed" /\ (q[i].closed = Never \/ Day(q[i].closed) = d)}
  BY <1>3 DEF ClosedOn
<1>5. \A i \in Issue : i \in ScriptClosed(rows, d) <=> IsClosed(rows[i], d)
  <2> SUFFICES ASSUME NEW i \in Issue PROVE i \in ScriptClosed(rows, d) <=> IsClosed(rows[i], d)
    OBVIOUS
  <2>1. rows[i].closed # Never => rows[i].state # "absent"
    BY RowTimes
  <2> QED
    BY <2>1 DEF ScriptClosed, IsClosed
<1>6. ScriptClosed(rows, d) \subseteq Issue
  BY DEF ScriptClosed
<1>7. ASSUME NEW i \in Issue \ Undated PROVE i \in ClosedOn(q, d) <=> IsClosed(rows[i], d)
  <2>1. rows[i].state = "closed" => rows[i].closed # Never
    BY RowTimes DEF Sound, Never
  <2>2. ASSUME i \in ClosedOn(q, d) PROVE IsClosed(rows[i], d)
    <3>1. i \in was /\ q[i].state = "closed" /\ (q[i].closed = Never \/ Day(q[i].closed) = d)
      BY <1>4, <2>2
    <3>2. rows[i] \in IssueRow
      BY RowTimes
    <3>3. [rows[i] EXCEPT !.state = "open"].state = "open"
      BY <3>2 DEF IssueRow
    <3>4. ~(rows[i].closed = Never \/ Day(rows[i].closed) > d) /\ q[i] = rows[i]
      BY <1>2, <3>1, <3>3
    <3> QED
      BY <3>1, <3>4 DEF IsClosed
  <2>3. ASSUME IsClosed(rows[i], d) PROVE i \in ClosedOn(q, d)
    <3>1. rows[i].closed # Never /\ Day(rows[i].closed) = d
      BY <2>3 DEF IsClosed
    <3>2. rows[i].state = "closed" /\ rows[i].closed \in Nat /\ rows[i].opened <= rows[i].closed
          /\ rows[i].opened \in Nat
      BY <3>1, RowTimes
    <3>3. Day(rows[i].opened) <= d
      BY <3>1, <3>2, DaysOrdered
    <3>4. i \in was
      BY <3>1, <3>2, <3>3
    <3>5. q[i] = rows[i]
      BY <1>2, <3>1, <3>4
    <3> QED
      BY <1>4, <3>1, <3>2, <3>4, <3>5
  <2> QED
    BY <2>2, <2>3
<1>8. ClosedOn(q, d) \subseteq Issue
  BY <1>3, <1>4
<1> HIDE DEF q
<1> QED
  BY <1>5, <1>6, <1>7, <1>8 DEF q

\* The three ways to make a snapshot.
LEMMA RowsExact ==
  ASSUME SnapInv, NEW d \in Nat, NEW s, s.read = readAt,
         \A i \in Issue \ Undated : /\ i \in s.open <=> IsOpen(rows[i], d)
                                    /\ i \in s.closed <=> IsClosed(rows[i], d)
  PROVE  Exact(s, d)
<1> SUFFICES ASSUME readAt >= Midnight(d + 1), NEW i \in Issue \ (reopened \cup Undated)
             PROVE  /\ i \in s.open <=> IsOpen(issues[i], d)
                    /\ i \in s.closed <=> IsClosed(issues[i], d)
  BY DEF Exact
<1>1. /\ readAt \in Nat /\ now \in Nat /\ readAt >= 2 * (d + 1) /\ i \notin Undated
      /\ Sound(rows[i], i, now) /\ Sound(issues[i], i, now) /\ Since(rows[i], issues[i], readAt)
  BY DEF SnapInv, Midnight
<1>2. /\ IsOpen(rows[i], d) <=> IsOpen(issues[i], d)
      /\ IsClosed(rows[i], d) <=> IsClosed(issues[i], d)
  BY <1>1, SameDay
<1> QED
  BY <1>2

LEMMA PastSound ==
  ASSUME SnapInv, NEW d \in Nat
  PROVE  LET s == PastSnapshot(rows, d, readAt) IN SnapTyped(s, now) /\ Exact(s, d)
<1> DEFINE S == OpenOn(rows, d)
           q == AsOf(rows, d)
           s == PastSnapshot(rows, d, readAt)
<1>1. /\ S \subseteq Issue /\ IsFiniteSet(S) /\ OpenNow(q) = S
      /\ \A i \in Issue : i \in S <=> IsOpen(rows[i], d)
      /\ \A i \in S : q[i].opened = rows[i].opened /\ rows[i].opened \in 0..(2 * d + 1)
  BY OpenOnDay
<1>2. /\ ClosedOn(q, d) \subseteq Issue
      /\ \A i \in Issue \ Undated : i \in ClosedOn(q, d) <=> IsClosed(rows[i], d)
  BY ClosedOnDay
<1> HIDE DEF S, q
<1>3. s = [open |-> S, closed |-> ClosedOn(q, d), age |-> AgeAtMidnight(q, S, d), read |-> readAt]
  BY <1>1 DEF PastSnapshot, LiveSnapshot, q
<1>4. AgeAtMidnight(q, S, d) \in Int /\ AgeAtMidnight(q, S, d) >= -1
  BY <1>1, AgesOf
<1>5. readAt \in Nat /\ readAt <= now
  BY DEF SnapInv
<1> HIDE DEF s
<1>6. SnapTyped(s, now)
  BY <1>1, <1>2, <1>3, <1>4, <1>5 DEF SnapTyped
<1>7. Exact(s, d)
  BY <1>1, <1>2, <1>3, RowsExact
<1> QED
  BY <1>6, <1>7 DEF s

LEMMA ScriptSound ==
  ASSUME SnapInv, NEW d \in Nat
  PROVE  LET s == ScriptSnapshot(rows, d, readAt) IN SnapTyped(s, now) /\ Exact(s, d)
<1> DEFINE S == OpenOn(rows, d)
           q == AsOf(rows, d)
           s == ScriptSnapshot(rows, d, readAt)
<1>1. /\ S \subseteq Issue /\ IsFiniteSet(S)
      /\ \A i \in Issue : i \in S <=> IsOpen(rows[i], d)
      /\ \A i \in S : q[i].opened = rows[i].opened /\ rows[i].opened \in 0..(2 * d + 1)
  BY OpenOnDay
<1>2. /\ ScriptClosed(rows, d) \subseteq Issue
      /\ \A i \in Issue : i \in ScriptClosed(rows, d) <=> IsClosed(rows[i], d)
  BY ClosedOnDay
<1> HIDE DEF q
<1>3. s = [open |-> S, closed |-> ScriptClosed(rows, d), age |-> ScriptAge(rows, S, d), read |-> readAt]
  BY DEF ScriptSnapshot
<1> HIDE DEF S
<1>4. ScriptAge(rows, S, d) \in Nat
  BY <1>1, AgesOf
<1>5. readAt \in Nat /\ readAt <= now
  BY DEF SnapInv
<1> HIDE DEF s
<1>6. SnapTyped(s, now)
  BY <1>1, <1>2, <1>3, <1>4, <1>5 DEF SnapTyped
<1>7. Exact(s, d)
  BY <1>1, <1>2, <1>3, RowsExact
<1> QED
  BY <1>6, <1>7 DEF s

\* Today is not over.
LEMMA LiveSound ==
  ASSUME SnapInv
  PROVE  LET s == LiveSnapshot(rows, Today, readAt)
         IN  SnapTyped(s, now) /\ Exact(s, Today) /\ Today \in 0..LastDay
<1> DEFINE d == Today
           S == OpenNow(rows)
           s == LiveSnapshot(rows, d, readAt)
<1>1. now \in Nat /\ now <= 2 * LastDay /\ readAt \in Nat /\ readAt <= now /\ DOMAIN rows = Issue
  BY SnapNumbers DEF SnapInv
<1>2. d \in Nat /\ 2 * d <= now /\ now <= 2 * d + 1
  BY <1>1, Days DEF Today
<1>3. d \in 0..LastDay
  BY <1>1, <1>2, SnapNumbers
<1> HIDE DEF d
<1>4. S \subseteq Issue /\ IsFiniteSet(S) /\ ClosedOn(rows, d) \subseteq Issue
  BY <1>1, SnapNumbers, FS_Subset DEF OpenNow, ClosedOn
<1>5. \A i \in S : rows[i].opened \in 0..(2 * d + 1) /\ rows[i].opened = rows[i].opened
  <2> SUFFICES ASSUME NEW i \in S PROVE rows[i].opened \in 0..(2 * d + 1)
    OBVIOUS
  <2>1. i \in Issue /\ rows[i].state # "absent"
    BY <1>1 DEF OpenNow
  <2>2. rows[i].opened \in Nat /\ rows[i].opened <= now
    BY <2>1, RowTimes
  <2> QED
    BY <1>1, <1>2, <2>2
<1>6. s = [open |-> S, closed |-> ClosedOn(rows, d), age |-> AgeAtMidnight(rows, S, d), read |-> readAt]
  BY DEF LiveSnapshot
<1> HIDE DEF S, s
<1>7. AgeAtMidnight(rows, S, d) \in Int /\ AgeAtMidnight(rows, S, d) >= -1
  BY <1>2, <1>4, <1>5, AgesOf
<1>8. SnapTyped(s, now)
  BY <1>1, <1>4, <1>6, <1>7 DEF SnapTyped
<1>9. ~(readAt >= Midnight(d + 1))
  BY <1>1, <1>2 DEF Midnight
<1>10. Exact(s, d)
  BY <1>6, <1>9 DEF Exact
<1> QED
  BY <1>3, <1>8, <1>10 DEF s, d

-----------------------------------------------------------------------------
(* Time and the issues *)

LEMMA PassStep == SnapInv /\ Pass => SnapInv'
<1> SUFFICES ASSUME SnapInv, Pass PROVE SnapInv'
  OBVIOUS
<1>1. /\ now \in Nat /\ now' = now + 1 /\ now' \in 0..(2 * LastDay) /\ now' \in Nat /\ now <= now'
      /\ issues' = issues /\ reopened' = reopened /\ rows' = rows /\ readAt' = readAt
      /\ run' = run /\ snaps' = snaps
  BY SnapNumbers DEF SnapInv, Pass
<1>2. \A i \in Issue : Sound(issues[i], i, now') /\ Sound(rows[i], i, now')
  BY <1>1, SoundLater DEF SnapInv
<1>3. \A d \in DOMAIN snaps : SnapTyped(snaps[d], now') /\ Exact(snaps[d], d)
  BY <1>1 DEF SnapInv, SnapTyped
<1>4. \A d \in DOMAIN snaps : (Exact(snaps[d], d))'
  BY <1>1, <1>3 DEF Exact
<1>5. readAt' \in 0..now'
  BY <1>1 DEF SnapInv
<1> QED
  BY <1>1, <1>2, <1>3, <1>4, <1>5 DEF SnapInv

\* Something happens to an issue now.
LEMMA IssueStep ==
  ASSUME SnapInv, NEW i \in Issue, UNCHANGED <<now, rows, readAt, run, snaps>>,
         issues' \in [Issue -> IssueRow], \A j \in Issue \ {i} : issues'[j] = issues[j],
         Sound(issues'[i], i, now), reopened \subseteq reopened',
         i \in reopened' \/ Since(issues[i], issues'[i], now)
  PROVE  SnapInv'
<1>1. now \in Nat /\ readAt \in Nat /\ readAt <= now
  BY SnapNumbers DEF SnapInv
<1>2. \A j \in Issue : Sound(issues'[j], j, now)
  BY DEF SnapInv
<1>3. ASSUME NEW j \in Issue \ (reopened' \cup Undated)
      PROVE  Since(issues[j], issues'[j], now) /\ Since(rows[j], issues'[j], readAt)
  <2>1. Since(rows[j], issues[j], readAt) /\ Sound(rows[j], j, now) /\ Sound(issues[j], j, now)
        /\ j \notin Undated
    BY DEF SnapInv
  <2>2. Since(issues[j], issues'[j], now)
    BY DEF Since
  <2> QED
    BY <1>1, <1>2, <2>1, <2>2, SinceThen
<1>4. ASSUME NEW d \in DOMAIN snaps PROVE (Exact(snaps[d], d))'
  <2> SUFFICES ASSUME snaps[d].read >= Midnight(d + 1), NEW j \in Issue \ (reopened' \cup Undated)
               PROVE  /\ j \in snaps[d].open <=> IsOpen(issues'[j], d)
                      /\ j \in snaps[d].closed <=> IsClosed(issues'[j], d)
    BY DEF Exact
  <2>1. /\ snaps[d].read \in Nat /\ snaps[d].read <= now /\ Exact(snaps[d], d) /\ d \in Nat
    BY SnapNumbers DEF SnapInv, SnapTyped
  <2>2. now >= 2 * (d + 1)
    BY <1>1, <2>1 DEF Midnight
  <2>3. /\ j \in snaps[d].open <=> IsOpen(issues[j], d)
        /\ j \in snaps[d].closed <=> IsClosed(issues[j], d)
    BY <2>1 DEF Exact
  <2>4. j \notin Undated /\ Sound(issues[j], j, now)
    BY DEF SnapInv
  <2>5. /\ IsOpen(issues[j], d) <=> IsOpen(issues'[j], d)
        /\ IsClosed(issues[j], d) <=> IsClosed(issues'[j], d)
    BY <1>1, <1>2, <1>3, <2>1, <2>2, <2>4, SameDay
  <2> QED
    BY <2>3, <2>5
<1>5. \A d \in DOMAIN snaps : SnapTyped(snaps[d], now)
  BY DEF SnapInv
<1> QED
  BY <1>2, <1>3, <1>4, <1>5 DEF SnapInv

LEMMA OpenedStep == ASSUME NEW i \in Issue PROVE SnapInv /\ Opened(i) => SnapInv'
<1> SUFFICES ASSUME SnapInv, Opened(i) PROVE SnapInv'
  OBVIOUS
<1> DEFINE r == [opened |-> now, closed |-> Never, state |-> "open"]
<1>1. /\ issues[i].state = "absent" /\ issues' = [issues EXCEPT ![i] = r]
      /\ UNCHANGED <<now, rows, readAt, run, snaps>> /\ reopened' = reopened
      /\ issues \in [Issue -> IssueRow] /\ now \in Nat
  BY SnapNumbers DEF Opened, SnapInv
<1>2. r \in IssueRow /\ Sound(r, i, now) /\ r.state = "open" /\ r.opened = now
  BY <1>1 DEF IssueRow, Sound, Never
<1> HIDE DEF r
<1>3. /\ issues' \in [Issue -> IssueRow] /\ issues'[i] = r
      /\ \A j \in Issue \ {i} : issues'[j] = issues[j]
  BY <1>1, <1>2
<1>4. Since(issues[i], issues'[i], now)
  BY <1>1, <1>2, <1>3 DEF Since
<1> QED
  BY <1>1, <1>2, <1>3, <1>4, IssueStep

\* An issue with another state and another date of closing.
WithState(f, i, s, c) == [f EXCEPT ![i].state = s, ![i].closed = c]
LEMMA StateSet ==
  ASSUME NEW f \in [Issue -> IssueRow], NEW i \in Issue, NEW c \in Int,
         NEW s \in {"absent", "open", "closed"}
  PROVE  LET g == WithState(f, i, s, c)
         IN  /\ g \in [Issue -> IssueRow] /\ \A j \in Issue \ {i} : g[j] = f[j]
             /\ g[i].state = s /\ g[i].closed = c /\ g[i].opened = f[i].opened
<1> DEFINE e == [f EXCEPT ![i].state = s]
           g == WithState(f, i, s, c)
<1>1. g = [e EXCEPT ![i].closed = c]
  BY DEF WithState
<1>2. e[i] = [f[i] EXCEPT !.state = s] /\ \A j \in Issue \ {i} : e[j] = f[j]
  OBVIOUS
<1>3. e[i] \in IssueRow /\ e[i].state = s /\ e[i].opened = f[i].opened
  BY <1>2 DEF IssueRow
<1>4. e \in [Issue -> IssueRow]
  BY <1>3
<1> HIDE DEF e, g
<1>5. g[i] = [e[i] EXCEPT !.closed = c] /\ \A j \in Issue \ {i} : g[j] = e[j]
  BY <1>1, <1>4
<1>6. g[i] \in IssueRow /\ g[i].state = s /\ g[i].closed = c /\ g[i].opened = f[i].opened
  BY <1>3, <1>5 DEF IssueRow
<1>7. g \in [Issue -> IssueRow]
  BY <1>1, <1>4, <1>6
<1> QED
  BY <1>2, <1>5, <1>6, <1>7 DEF g

LEMMA ClosedStep == ASSUME NEW i \in Issue PROVE SnapInv /\ Closed(i) => SnapInv'
<1> SUFFICES ASSUME SnapInv, Closed(i) PROVE SnapInv'
  OBVIOUS
<1> DEFINE c == IF i \in Undated THEN Never ELSE now
<1>1. /\ issues[i].state = "open"
      /\ issues' = [issues EXCEPT ![i].state = "closed", ![i].closed = c]
      /\ UNCHANGED <<now, rows, readAt, run, snaps>> /\ reopened' = reopened
      /\ issues \in [Issue -> IssueRow] /\ now \in Nat /\ Sound(issues[i], i, now)
  BY SnapNumbers DEF Closed, SnapInv
<1>2. c \in Int /\ (i \in Undated => c = Never) /\ (i \notin Undated => c = now)
  BY <1>1 DEF Never
<1> HIDE DEF c
<1>3. /\ issues' \in [Issue -> IssueRow] /\ \A j \in Issue \ {i} : issues'[j] = issues[j]
      /\ issues'[i].state = "closed" /\ issues'[i].closed = c
      /\ issues'[i].opened = issues[i].opened
  <2>1. issues' = WithState(issues, i, "closed", c)
    BY <1>1 DEF WithState
  <2>2. LET g == WithState(issues, i, "closed", c)
        IN  /\ g \in [Issue -> IssueRow] /\ \A j \in Issue \ {i} : g[j] = issues[j]
            /\ g[i].state = "closed" /\ g[i].closed = c /\ g[i].opened = issues[i].opened
    BY <1>1, <1>2, StateSet
  <2> QED
    BY <2>1, <2>2
<1>4. issues[i].opened \in 0..now
  BY <1>1 DEF Sound
<1>5. Sound(issues'[i], i, now)
  BY <1>1, <1>2, <1>3, <1>4 DEF Sound
<1>6. CASE i \in Undated
  <2>1. ASSUME NEW j \in Issue \ (reopened \cup Undated) PROVE issues'[j] = issues[j]
    BY <1>3, <1>6
  <2>2. \A j \in Issue : Sound(issues'[j], j, now)
    BY <1>3, <1>5 DEF SnapInv
  <2>3. \A j \in Issue \ (reopened' \cup Undated) : Since(rows[j], issues'[j], readAt)
    BY <1>1, <2>1 DEF SnapInv
  <2>4. \A d \in DOMAIN snaps : (Exact(snaps[d], d))'
    BY <1>1, <2>1 DEF SnapInv, Exact
  <2>5. \A d \in DOMAIN snaps : SnapTyped(snaps[d], now)
    BY DEF SnapInv
  <2> QED
    BY <1>1, <1>3, <2>2, <2>3, <2>4, <2>5 DEF SnapInv
<1>7. CASE i \notin Undated
  <2>1. issues'[i].closed >= now
    BY <1>1, <1>2, <1>3, <1>7
  <2>2. Since(issues[i], issues'[i], now)
    BY <1>1, <1>3, <2>1 DEF Since
  <2> QED
    BY <1>1, <1>3, <1>5, <2>2, IssueStep
<1> QED
  BY <1>6, <1>7

LEMMA ReopenedStep == ASSUME NEW i \in Issue PROVE SnapInv /\ Reopened(i) => SnapInv'
<1> SUFFICES ASSUME SnapInv, Reopened(i) PROVE SnapInv'
  OBVIOUS
<1>1. /\ issues[i].state = "closed"
      /\ issues' = [issues EXCEPT ![i].state = "open", ![i].closed = Never]
      /\ UNCHANGED <<now, rows, readAt, run, snaps>> /\ reopened' = reopened \cup {i}
      /\ issues \in [Issue -> IssueRow] /\ now \in Nat /\ Sound(issues[i], i, now)
  BY SnapNumbers DEF Reopened, SnapInv
<1>2. /\ issues' \in [Issue -> IssueRow] /\ \A j \in Issue \ {i} : issues'[j] = issues[j]
      /\ issues'[i].state = "open" /\ issues'[i].closed = Never
      /\ issues'[i].opened = issues[i].opened
  <2>1. issues' = WithState(issues, i, "open", Never) /\ Never \in Int
    BY <1>1 DEF WithState, Never
  <2>2. LET g == WithState(issues, i, "open", Never)
        IN  /\ g \in [Issue -> IssueRow] /\ \A j \in Issue \ {i} : g[j] = issues[j]
            /\ g[i].state = "open" /\ g[i].closed = Never /\ g[i].opened = issues[i].opened
    BY <1>1, <2>1, StateSet
  <2> QED
    BY <2>1, <2>2
<1>3. Sound(issues'[i], i, now)
  BY <1>1, <1>2 DEF Sound
<1> QED
  BY <1>1, <1>2, <1>3, IssueStep

-----------------------------------------------------------------------------
(* The runs and the script *)

LEMMA CollectStep == SnapInv /\ Collect => SnapInv'
<1> SUFFICES ASSUME SnapInv, Collect PROVE SnapInv'
  OBVIOUS
<1>1. /\ rows' = issues /\ readAt' = now /\ run' = "snapshot"
      /\ now' = now /\ issues' = issues /\ reopened' = reopened /\ snaps' = snaps
  BY DEF Collect
<1>2. now' \in 0..(2 * LastDay) /\ readAt' \in 0..now' /\ rows' \in [Issue -> IssueRow]
  BY <1>1, SnapNumbers DEF SnapInv
<1>3. \A i \in Issue : Since(rows'[i], issues'[i], readAt')
  BY <1>1 DEF Since
<1>4. \A i \in Issue : Sound(issues'[i], i, now') /\ Sound(rows'[i], i, now')
  BY <1>1 DEF SnapInv
<1>5. \A d \in DOMAIN snaps : SnapTyped(snaps[d], now') /\ (Exact(snaps[d], d))'
  BY <1>1 DEF SnapInv, Exact
<1> QED
  BY <1>1, <1>2, <1>3, <1>4, <1>5 DEF SnapInv

\* Snapshots are added or replaced.
LEMMA SnapshotsStep ==
  ASSUME SnapInv, UNCHANGED <<now, issues, reopened, rows, readAt>>,
         run' \in {"idle", "snapshot", "backfill"}, DOMAIN snaps' \subseteq 0..LastDay,
         \A d \in DOMAIN snaps' : \/ d \in DOMAIN snaps /\ snaps'[d] = snaps[d]
                                  \/ SnapTyped(snaps'[d], now) /\ Exact(snaps'[d], d)
  PROVE  SnapInv'
<1>1. \A d \in DOMAIN snaps' : SnapTyped(snaps'[d], now) /\ Exact(snaps'[d], d)
  BY DEF SnapInv
<1>2. \A d \in DOMAIN snaps' : (Exact(snaps[d], d))'
  BY <1>1 DEF Exact
<1> QED
  BY <1>1, <1>2 DEF SnapInv

LEMMA TakeSnapshotStep == SnapInv /\ TakeSnapshot => SnapInv'
<1> SUFFICES ASSUME SnapInv, TakeSnapshot PROVE SnapInv'
  OBVIOUS
<1> DEFINE s == LiveSnapshot(rows, Today, readAt)
<1>1. /\ snaps' = [d \in DOMAIN snaps \cup {Today} |->
                     IF d = Today THEN LiveSnapshot(rows, d, readAt) ELSE snaps[d]]
      /\ run' = "backfill" /\ UNCHANGED <<now, issues, reopened, rows, readAt>>
  BY DEF TakeSnapshot
<1>2. SnapTyped(s, now) /\ Exact(s, Today) /\ Today \in 0..LastDay
  BY LiveSound
<1>3. DOMAIN snaps' = DOMAIN snaps \cup {Today}
  BY <1>1
<1>4. ASSUME NEW d \in DOMAIN snaps'
      PROVE  \/ d \in DOMAIN snaps /\ snaps'[d] = snaps[d]
             \/ SnapTyped(snaps'[d], now) /\ Exact(snaps'[d], d)
  <2>1. CASE d = Today
    <3>1. snaps'[d] = s
      BY <1>1, <1>3, <2>1
    <3> QED
      BY <1>2, <2>1, <3>1
  <2>2. CASE d # Today
    BY <1>1, <1>3, <2>2
  <2> QED
    BY <2>1, <2>2
<1>5. DOMAIN snaps' \subseteq 0..LastDay
  BY <1>2, <1>3 DEF SnapInv
<1> QED
  BY <1>1, <1>4, <1>5, SnapshotsStep

LEMMA BackfillDaysStep == SnapInv /\ BackfillDays => SnapInv'
<1> SUFFICES ASSUME SnapInv, BackfillDays PROVE SnapInv'
  OBVIOUS
<1> DEFINE before == {d \in DOMAIN snaps : d < Today}
           last == CHOOSE d \in before : \A e \in before : e <= d
           missing == IF before = {} THEN {} ELSE Between(last, Today)
<1>1. /\ snaps' = [d \in DOMAIN snaps \cup missing |->
                     IF d \in missing THEN PastSnapshot(rows, d, readAt) ELSE snaps[d]]
      /\ run' = "idle" /\ UNCHANGED <<now, issues, reopened, rows, readAt>>
  BY DEF BackfillDays
<1>2. Today \in 0..LastDay /\ Today \in Nat /\ DOMAIN snaps \subseteq 0..LastDay
  BY LiveSound, SnapNumbers DEF SnapInv
<1>3. missing \subseteq 0..LastDay
  <2>1. CASE before = {}
    BY <2>1
  <2>2. CASE before # {}
    <3>1. before \in SUBSET (0..LastDay)
      BY <1>2
    <3>2. \E d \in before : \A e \in before : e <= d
      BY <2>2, <3>1, SnapNumbers, Largest
    <3>3. last \in before
      BY <3>2
    <3>4. last \in Nat
      BY <3>1, <3>3
    <3> HIDE DEF last, before
    <3>5. missing = (last + 1)..(Today - 1)
      BY <2>2 DEF Between
    <3> QED
      BY <1>2, <3>4, <3>5, SnapNumbers
  <2> QED
    BY <2>1, <2>2
<1> HIDE DEF missing, before, last
<1>4. DOMAIN snaps' = DOMAIN snaps \cup missing
  BY <1>1
<1>5. ASSUME NEW d \in DOMAIN snaps'
      PROVE  \/ d \in DOMAIN snaps /\ snaps'[d] = snaps[d]
             \/ SnapTyped(snaps'[d], now) /\ Exact(snaps'[d], d)
  <2>1. CASE d \in missing
    <3>1. snaps'[d] = PastSnapshot(rows, d, readAt)
      BY <1>1, <1>4, <2>1
    <3>2. d \in 0..LastDay
      BY <1>3, <2>1
    <3>3. d \in Nat
      BY <3>2
    <3> QED
      BY <3>1, <3>3, PastSound
  <2>2. CASE d \notin missing
    BY <1>1, <1>4, <2>2
  <2> QED
    BY <2>1, <2>2
<1>6. DOMAIN snaps' \subseteq 0..LastDay
  BY <1>2, <1>3, <1>4
<1> QED
  BY <1>1, <1>5, <1>6, SnapshotsStep

LEMMA FailRunStep == SnapInv /\ FailRun => SnapInv'
<1> SUFFICES ASSUME SnapInv, FailRun PROVE SnapInv'
  OBVIOUS
<1>1. run' = "idle" /\ snaps' = snaps /\ UNCHANGED <<now, issues, reopened, rows, readAt>>
  BY DEF FailRun
<1>2. DOMAIN snaps' \subseteq 0..LastDay
  BY <1>1 DEF SnapInv
<1>3. \A d \in DOMAIN snaps' : d \in DOMAIN snaps /\ snaps'[d] = snaps[d]
  BY <1>1
<1> QED
  BY <1>1, <1>2, <1>3, SnapshotsStep

LEMMA RunScriptStep == SnapInv /\ RunScript => SnapInv'
<1> SUFFICES ASSUME SnapInv, RunScript PROVE SnapInv'
  OBVIOUS
<1> DEFINE stored == {i \in Issue : rows[i].state # "absent"}
<1>1. PICK i \in stored, last \in 0..Today :
        LET first == Day(rows[i].opened) IN
        /\ snaps' = [d \in DOMAIN snaps \cup first..last |->
                       IF d \in first..last THEN ScriptSnapshot(rows, d, readAt) ELSE snaps[d]]
        /\ UNCHANGED <<now, issues, reopened, rows, readAt, run>>
  BY DEF RunScript
<1> DEFINE first == Day(rows[i].opened)
           days == first..last
<1>2. /\ snaps' = [d \in DOMAIN snaps \cup days |->
                     IF d \in days THEN ScriptSnapshot(rows, d, readAt) ELSE snaps[d]]
      /\ UNCHANGED <<now, issues, reopened, rows, readAt, run>>
  BY <1>1
<1>3. Today \in 0..LastDay /\ LastDay \in Nat /\ DOMAIN snaps \subseteq 0..LastDay
      /\ run \in {"idle", "snapshot", "backfill"}
  BY LiveSound, SnapNumbers DEF SnapInv
<1>4. first \in Nat
  <2>1. rows[i].opened \in Nat
    BY RowTimes
  <2> QED
    BY <2>1, Days
<1> HIDE DEF first
<1>5. days \subseteq 0..LastDay
  BY <1>3, <1>4
<1> HIDE DEF days
<1>6. DOMAIN snaps' = DOMAIN snaps \cup days
  BY <1>2
<1>7. ASSUME NEW d \in DOMAIN snaps'
      PROVE  \/ d \in DOMAIN snaps /\ snaps'[d] = snaps[d]
             \/ SnapTyped(snaps'[d], now) /\ Exact(snaps'[d], d)
  <2>1. CASE d \in days
    <3>1. snaps'[d] = ScriptSnapshot(rows, d, readAt)
      BY <1>2, <1>6, <2>1
    <3>2. d \in 0..LastDay
      BY <1>5, <2>1
    <3>3. d \in Nat
      BY <3>2
    <3> QED
      BY <3>1, <3>3, ScriptSound
  <2>2. CASE d \notin days
    BY <1>2, <1>6, <2>2
  <2> QED
    BY <2>1, <2>2
<1>8. DOMAIN snaps' \subseteq 0..LastDay
  BY <1>3, <1>5, <1>6
<1>9. run' \in {"idle", "snapshot", "backfill"}
  BY <1>2, <1>3
<1> QED
  BY <1>2, <1>7, <1>8, <1>9, SnapshotsStep

LEMMA SnapBegins == SnapshotInit => SnapInv
<1> SUFFICES ASSUME SnapshotInit PROVE SnapInv
  OBVIOUS
<1>1. /\ now = 0 /\ readAt = 0 /\ run = "idle" /\ snaps = << >> /\ reopened = {}
      /\ issues = [i \in Issue |-> Absent] /\ rows = issues
  BY DEF SnapshotInit
<1>2. Absent \in IssueRow /\ \A i \in Issue : Sound(Absent, i, 0)
  BY DEF Absent, IssueRow, Sound, Never
<1>3. 0 \in 0..(2 * LastDay) /\ 0 \in 0..0
  BY SnapNumbers
<1>4. DOMAIN snaps = {}
  BY <1>1
<1> QED
  BY <1>1, <1>2, <1>3, <1>4 DEF SnapInv, Since

LEMMA SnapSteps == SnapInv /\ [SnapshotNext]_snapshotVars => SnapInv'
<1>1. SnapInv /\ SnapshotNext => SnapInv'
  BY PassStep, OpenedStep, ClosedStep, ReopenedStep, CollectStep, TakeSnapshotStep,
     BackfillDaysStep, FailRunStep, RunScriptStep DEF SnapshotNext
<1>2. SnapInv /\ UNCHANGED snapshotVars => SnapInv'
  BY DEF SnapInv, snapshotVars, Exact
<1> QED
  BY <1>1, <1>2

LEMMA SnapSafe == SnapInv => SnapshotTypeOK /\ HistoryExact /\ SameAge
<1> SUFFICES ASSUME SnapInv PROVE SnapshotTypeOK /\ HistoryExact /\ SameAge
  OBVIOUS
<1>1. SnapshotTypeOK
  BY DEF SnapInv, SnapTyped, SnapshotTypeOK
<1>2. HistoryExact
  BY DEF SnapInv, Exact, IsOpen, IsClosed, HistoryExact
<1>3. ASSUME NEW d \in DOMAIN snaps
      PROVE  ScriptSnapshot(rows, d, readAt).age - PastSnapshot(rows, d, readAt).age \in {0, 1}
  <2> DEFINE S == OpenOn(rows, d)
             q == AsOf(rows, d)
  <2>1. d \in Nat
    BY SnapNumbers DEF SnapInv
  <2>2. /\ IsFiniteSet(S) /\ OpenNow(q) = S
        /\ \A i \in S : q[i].opened = rows[i].opened /\ rows[i].opened \in 0..(2 * d + 1)
    BY <2>1, OpenOnDay
  <2>3. ScriptSnapshot(rows, d, readAt).age = ScriptAge(rows, S, d)
    BY DEF ScriptSnapshot
  <2>4. PastSnapshot(rows, d, readAt).age = AgeAtMidnight(q, OpenNow(q), d)
    BY DEF PastSnapshot, LiveSnapshot
  <2> HIDE DEF S, q
  <2> QED
    BY <2>1, <2>2, <2>3, <2>4, AgesOf
<1>4. SameAge
  BY <1>3 DEF SameAge
<1> QED
  BY <1>1, <1>2, <1>4

-----------------------------------------------------------------------------
(* The whole *)

IInv == SnapInv /\ RetentionInv

LEMMA InitIInv == Init => IInv
BY SnapBegins, RetentionBegins DEF Init, IInv

LEMMA NextIInv == IInv /\ [Next]_vars => IInv'
<1> SUFFICES ASSUME IInv, [Next]_vars PROVE IInv'
  OBVIOUS
<1>1. [SnapshotNext]_snapshotVars /\ [RetentionNext]_retentionVars
  BY DEF Next, vars
<1> QED
  BY <1>1, SnapSteps, RetentionSteps DEF IInv

LEMMA Invariance == Spec => []IInv
BY InitIInv, NextIInv, PTL DEF Spec

\* The type invariants of the snapshots and of the CI failures: no age is less
\* than the one day by which _get_median_age may be early, only runs that
\* failed or were cancelled have details, and a day has one count for each
\* class and signature.
THEOREM TypeCorrect == Spec => []TypeOK
<1>1. IInv => TypeOK
  BY SnapSafe, RetentionSafe DEF IInv, TypeOK
<1> QED
  BY <1>1, Invariance, PTL

\* A snapshot of a day that was over when its rows were read has the issues
\* that were open and those that were closed on it, whether generate_snapshot,
\* backfill_missing_snapshots or backfill_snapshots.py made it; the medians of
\* the last two differ by a day at most; and the rates of CIRepository.search
\* and of the daily counts are rates.
THEOREM HistoryCorrect == Spec => []HistorySound
<1>1. IInv => HistorySound
  BY SnapSafe, RetentionSafe DEF IInv, HistorySound
<1> QED
  BY <1>1, Invariance, PTL

\* run_ci_gc deletes no detail of a failure the catalogue would count unless a
\* daily count has it, and no daily count is ever lost.
THEOREM PruningCounts == Spec => PrunedIsCounted
<1>1. IInv /\ [Next]_vars => [Pruning]_retentionVars
  <2> SUFFICES ASSUME IInv, [Next]_vars PROVE [Pruning]_retentionVars
    OBVIOUS
  <2>1. [RetentionNext]_retentionVars
    BY DEF Next, vars
  <2> QED
    BY <2>1, PrunedInStep DEF IInv
<1>2. Spec => [][Pruning]_retentionVars
  BY <1>1, Invariance, PTL DEF Spec
<1> QED
  BY <1>2 DEF PrunedIsCounted, Pruning
=============================================================================
