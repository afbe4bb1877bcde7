-------------------------- MODULE EvalQueueProofs --------------------------
(***************************************************************************)
(* What TLC checks of EvalQueue on small instances, for every number of    *)
(* workers, issues, attempts and ticks.                                    *)
(*                                                                         *)
(* TypeOK is inductive once it is known which program counters and         *)
(* phases come with an issue (Bound).  Stored says what the hash columns   *)
(* mean, Leased whose claim a lease is.  The last part shows that          *)
(* EvalQueue implements EvaluationStore.                                   *)
(***************************************************************************)
EXTENDS EvalQueue, TLAPS

\* A worker past its /next, and a request in the server, have an issue.
Bound ==
    /\ \A w \in Worker : pc[w] \notin {"idle", "selecting"} => work[w].issue \in Issue
    /\ \A w \in Worker, k \in Attempt :
          sub[w][k].phase # "none" => sub[w][k].issue \in Issue

\* A stored hash is the hash of what was evaluated: the server's test comes
\* between the hash it reads and the row it writes.
Stored ==
    /\ \A i \in Issue : row[i].kind = "result" => row[i].saw.hash = row[i].hash
    /\ \A w \in Worker, k \in Attempt :
          sub[w][k].phase \in {"embedding", "demoted"} =>
              sub[w][k].saw.hash = sub[w][k].hash

\* Only a row that is there can be claimed, and key 0 stands for none.
WellFormed(r) ==
    /\ r.kind = "none" <=> r.id = 0
    /\ r.kind = "none" => r.lease = NoLease

RowsWellFormed ==
    /\ \A i \in Issue : WellFormed(row[i])
    /\ \A w \in Worker : WellFormed(held[w])
    /\ \A w \in Worker : \A c \in snap[w] : WellFormed(c.row)

\* The request a worker waits for is about the worker's own issue.
OwnRequest ==
    \A w \in Worker, k \in Attempt :
        pc[w] = "submitting" /\ attempt[w] = k /\ sub[w][k].phase # "none"
            => sub[w][k].issue = work[w].issue

\* A worker whose /release has loaded the row still stands for its lease as
\* long as that UPDATE will clear it.
Holds(w, i) ==
    /\ work[w].issue = i
    /\ \/ pc[w] \in {"evaluating", "submitting", "releasing"}
       \/ pc[w] = "freeing" /\ held[w].id = row[i].id /\ held[w].lease # NoLease

Leased ==
    crashes = 0 =>
        \A i \in Issue : row[i].lease # NoLease => \E w \in Worker : Holds(w, i)

TypeInv == TypeOK /\ Bound
LeaseInv == RowsWellFormed /\ OwnRequest /\ Leased

-----------------------------------------------------------------------------
(* The records the actions write *)

\* The constant records have their types.
LEMMA ConstantRecords ==
    /\ NoHash \in Hashes /\ NothingSeen \in Seen
    /\ NoRow \in Row /\ NoWork \in Work /\ NoSub \in Submission
    /\ 0 \in NoLease..TTL /\ TTL \in NoLease..TTL /\ NoLease \in NoLease..TTL
<1>1. /\ 0 \in NoLease..TTL /\ TTL \in NoLease..TTL /\ NoLease \in NoLease..TTL
  BY ConstantsAssumption DEF NoLease
<1>2. NoHash \in Hashes /\ NothingSeen \in Seen
  BY DEF NoHash, Hashes, NothingSeen, Seen
<1>3. 0 \in 0..NewVersion
  BY DEF NewVersion
<1>4. NoRow \in Row
  BY <1>1, <1>2, <1>3 DEF NoRow, Row
<1>5. NoWork \in Work
  BY <1>1, <1>2 DEF NoWork, Work
<1>6. NoSub \in Submission
  BY <1>2 DEF NoSub, Submission
<1>7. QED  BY <1>1, <1>2, <1>4, <1>5, <1>6

\* An issue's hash is a hash.
LEMMA HashTypes ==
    ASSUME NEW iss \in IssueRecord
    PROVE  HashOf(iss) \in Hashes
BY DEF IssueRecord, HashOf, Hashes

\* A fresh key is a key: /next and /result insert only where there is one.
LEMMA FreshKey ==
    ASSUME FreshIds # {}
    PROVE  NewId \in RowId
BY DEF FreshIds, NewId

\* The initial rows are rows.
LEMMA InitialRowTypes ==
    ASSUME NEW i \in Issue, issue[i] \in IssueRecord, NEW r \in InitialRows(i)
    PROVE  r \in Row
<1>1. CASE r = NoRow
  BY <1>1, ConstantRecords
<1>2. ASSUME NEW t \in Text, NEW v \in 0..NewVersion, r = Evaluated(issue[i], i, t, v)
      PROVE  r \in Row
  <2>1. i \in RowId
    BY ConstantsAssumption
  <2>2. [text |-> t, open |-> issue[i].open] \in Hashes
    BY DEF IssueRecord, Hashes
  <2>3. [hash |-> [text |-> t, open |-> issue[i].open], gen |-> issue[i].gen] \in Seen
    BY <2>2 DEF Seen, IssueRecord
  <2>4. issue[i].open \in BOOLEAN /\ issue[i].gen \in Nat
    BY DEF IssueRecord
  <2>5. QED
    BY <1>2, <2>1, <2>2, <2>3, <2>4, ConstantRecords DEF Evaluated, Row, NoRow
<1>3. QED  BY <1>1, <1>2 DEF InitialRows

\* A snapshot holds candidates.
LEMMA CandidateTypes ==
    ASSUME row \in [Issue -> Row]
    PROVE  Candidates \in SUBSET Candidate
<1>1. ASSUME NEW i \in Issue
      PROVE  [issue |-> i, row |-> row[i], rank |-> Rank(issue[i], row[i])] \in Candidate
  <2>1. Rank(issue[i], row[i]) \in 1..6
    BY DEF Rank
  <2>2. QED  BY <2>1 DEF Candidate
<1>2. QED  BY <1>1 DEF Candidates

\* What a worker posts is a submission about its issue.
LEMMA RequestTypes ==
    ASSUME NEW w \in Worker, work[w] \in Work, work[w].issue \in Issue
    PROVE  /\ Request(w) \in Submission
           /\ Request(w).issue = work[w].issue
           /\ Request(w).phase = "sent"
<1>1. work[w].saw \in Seen
  BY DEF Work
<1>2. QED  BY <1>1, ConstantRecords DEF Request, Submission, NoSub

\* What /result stores is a row that says what was read and what was sent.
LEMMA ResultTypes ==
    ASSUME NEW id \in RowId, NEW s \in Submission
    PROVE  /\ Result(id, s) \in Row
           /\ Result(id, s).id = id /\ Result(id, s).kind = "result"
           /\ Result(id, s).hash = s.hash /\ Result(id, s).saw = s.saw
           /\ Result(id, s).gen = s.gen /\ Result(id, s).open = s.open
           /\ Result(id, s).lease = NoLease
<1>1. /\ s.hash \in Hashes /\ s.saw \in Seen
      /\ s.open \in BOOLEAN /\ s.gen \in Nat
  BY DEF Submission
<1>2. NewVersion \in 0..NewVersion
  BY DEF NewVersion
<1>3. QED  BY <1>1, <1>2, ConstantRecords DEF Row, Result, StampedGeneration

-----------------------------------------------------------------------------
(* Type correctness *)

\* The initial states are typed.
LEMMA InitTyped == Init => TypeInv
<1> SUFFICES ASSUME Init PROVE TypeInv
  OBVIOUS
<1>1. issue \in [Issue -> IssueRecord]
  BY DEF Init, IssueRecord
<1>2. row \in [Issue -> Row]
  <2>1. \A i \in Issue : row[i] \in Row
    BY <1>1, InitialRowTypes DEF Init
  <2>2. QED  BY <2>1 DEF Init
<1>3. attempt \in [Worker -> 0..MaxAttempts]
  BY ConstantsAssumption DEF Init
<1>4. sub \in [Worker -> [Attempt -> Submission]]
  BY ConstantRecords DEF Init
<1>5. work \in [Worker -> Work] /\ held \in [Worker -> Row]
  BY ConstantRecords DEF Init
<1>6. TypeOK
  BY <1>1, <1>2, <1>3, <1>4, <1>5 DEF Init, TypeOK
<1>7. Bound
  BY DEF Init, Bound, NoSub
<1>8. QED  BY <1>6, <1>7 DEF TypeInv

\* What a worker does with the answer it gets, whatever the answer is.
LEMMA AnswerTyped ==
    ASSUME TypeInv, NEW w \in Worker, pc[w] = "submitting",
           \/ Accepted(w) \/ Refused(w) \/ RetryOrRefuse(w)
    PROVE  /\ pc' \in [Worker -> {"idle", "selecting", "claiming", "evaluating",
                                  "submitting", "releasing", "freeing"}]
           /\ work' \in [Worker -> Work]
           /\ attempt' \in [Worker -> 0..MaxAttempts]
           /\ \A v \in Worker :
                 pc'[v] \notin {"idle", "selecting"} => work'[v].issue \in Issue
<1>1. CASE Accepted(w)
  BY <1>1, ConstantRecords, ConstantsAssumption DEF TypeInv, TypeOK, Bound, Accepted
<1>2. CASE Refused(w)
  BY <1>2, ConstantsAssumption DEF TypeInv, TypeOK, Bound, Refused
<1>3. CASE RetryOrRefuse(w) /\ ~Refused(w)
  BY <1>3, ConstantsAssumption DEF TypeInv, TypeOK, Bound, RetryOrRefuse
<1>4. QED  BY <1>1, <1>2, <1>3

\* A failed request goes, and the next attempt may come.
LEMMA Fail500Typed ==
    ASSUME TypeInv, NEW w \in Worker, NEW k \in Attempt, Fail500(w, k)
    PROVE  /\ pc' \in [Worker -> {"idle", "selecting", "claiming", "evaluating",
                                  "submitting", "releasing", "freeing"}]
           /\ work' \in [Worker -> Work]
           /\ attempt' \in [Worker -> 0..MaxAttempts]
           /\ sub' \in [Worker -> [Attempt -> Submission]]
           /\ Bound'
<1>1. Resend(w, k) \in [Attempt -> Submission]
  <2>1. CASE Awaited(w, k) /\ k < MaxAttempts
    <3>1. Request(w) \in Submission
      BY <2>1, RequestTypes DEF TypeInv, TypeOK, Bound, Awaited
    <3>2. QED  BY <2>1, <3>1, ConstantRecords DEF Resend, TypeInv, TypeOK
  <2>2. CASE ~(Awaited(w, k) /\ k < MaxAttempts)
    BY <2>2, ConstantRecords DEF Resend, TypeInv, TypeOK
  <2>3. QED  BY <2>1, <2>2
<1>2. \A j \in Attempt : Resend(w, k)[j].phase # "none" => Resend(w, k)[j].issue \in Issue
  <2>1. CASE Awaited(w, k) /\ k < MaxAttempts
    <3>1. Request(w).issue \in Issue
      BY <2>1, RequestTypes DEF TypeInv, TypeOK, Bound, Awaited
    <3>2. QED  BY <2>1, <3>1 DEF Resend, TypeInv, TypeOK, Bound, NoSub
  <2>2. CASE ~(Awaited(w, k) /\ k < MaxAttempts)
    BY <2>2 DEF Resend, TypeInv, TypeOK, Bound, NoSub
  <2>3. QED  BY <2>1, <2>2
<1>3. /\ pc' \in [Worker -> {"idle", "selecting", "claiming", "evaluating",
                             "submitting", "releasing", "freeing"}]
      /\ work' \in [Worker -> Work]
      /\ attempt' \in [Worker -> 0..MaxAttempts]
      /\ \A v \in Worker :
            pc'[v] \notin {"idle", "selecting"} => work'[v].issue \in Issue
  <2>1. CASE Awaited(w, k)
    BY <2>1, AnswerTyped DEF Fail500, Awaited
  <2>2. CASE ~Awaited(w, k)
    BY <2>2 DEF Fail500, TypeInv, TypeOK, Bound
  <2>3. QED  BY <2>1, <2>2
<1>4. sub' \in [Worker -> [Attempt -> Submission]]
  BY <1>1 DEF Fail500, TypeInv, TypeOK
<1>5. \A v \in Worker, j \in Attempt :
         sub'[v][j].phase # "none" => sub'[v][j].issue \in Issue
  BY <1>2 DEF Fail500, TypeInv, TypeOK, Bound
<1>6. QED  BY <1>3, <1>4, <1>5 DEF Bound

\* No step leaves the types.
LEMMA StepTyped == TypeInv /\ [Next]_vars => TypeInv'
<1> SUFFICES ASSUME TypeInv, [Next]_vars PROVE TypeInv'
  OBVIOUS
<1> USE DEF TypeInv, env
<1>1. ASSUME NEW w \in Worker, NextSelect(w) PROVE TypeInv'
  <2>1. snap' \in [Worker -> SUBSET Candidate]
    BY <1>1, CandidateTypes DEF NextSelect, TypeOK
  <2>2. QED  BY <1>1, <2>1 DEF NextSelect, TypeOK, Bound
<1>2. ASSUME NEW w \in Worker, NextLock(w) PROVE TypeInv'
  <2>1. snap' \in [Worker -> SUBSET Candidate]
    BY <1>2 DEF NextLock, TypeOK
  <2>2. CASE Lockable(w) = {}
    BY <1>2, <2>1, <2>2 DEF NextLock, TypeOK, Bound
  <2>3. CASE Lockable(w) # {}
    <3>1. PICK c \in Lockable(w) :
             /\ pc' = [pc EXCEPT ![w] = "claiming"]
             /\ work' = [work EXCEPT ![w] =
                   [issue |-> c.issue, lease |-> NoLease,
                    saw |-> [hash |-> HashOf(issue[c.issue]), gen |-> issue[c.issue].gen]]]
             /\ held' = [held EXCEPT ![w] = c.row]
      BY <1>2, <2>3 DEF NextLock
    <3>2. c \in Candidate
      BY <3>1 DEF Lockable, TypeOK
    <3>3. c.issue \in Issue /\ c.row \in Row
      BY <3>2 DEF Candidate
    <3>4. HashOf(issue[c.issue]) \in Hashes /\ issue[c.issue].gen \in Nat
      BY <3>3, HashTypes DEF TypeOK, IssueRecord
    <3>5. work'[w] \in Work /\ work'[w].issue \in Issue
      BY <3>1, <3>3, <3>4, ConstantRecords DEF Work, Seen, TypeOK
    <3>6. work' \in [Worker -> Work] /\ held' \in [Worker -> Row]
      BY <3>1, <3>3, <3>5 DEF TypeOK
    <3>7. QED  BY <1>2, <2>1, <3>1, <3>5, <3>6 DEF NextLock, TypeOK, Bound
  <2>4. QED  BY <2>2, <2>3
<1>3. ASSUME NEW w \in Worker, Claimed(w) \/ NotClaimed(w), pc[w] = "claiming" \/ NotClaimed(w),
             row' \in [Issue -> Row],
             UNCHANGED <<issue, snap, attempt, sub, env>>
      PROVE  TypeInv'
  <2>1. CASE Claimed(w)
    BY <1>3, <2>1, ConstantRecords DEF Claimed, NotClaimed, TypeOK, Bound, Work
  <2>2. CASE NotClaimed(w)
    BY <1>3, <2>2, ConstantRecords DEF NotClaimed, TypeOK, Bound
  <2>3. QED  BY <1>3, <2>1, <2>2
<1>4. ASSUME NEW w \in Worker, ClaimByInsert(w) PROVE TypeInv'
  <2>1. ASSUME FreshIds # {} PROVE Pending(NewId) \in Row
    BY <2>1, FreshKey, ConstantRecords DEF Pending, Row
  <2>2. row' \in [Issue -> Row]
    BY <1>4, <2>1 DEF ClaimByInsert, TypeOK
  <2>3. QED  BY <1>3, <1>4, <2>2 DEF ClaimByInsert
<1>5. ASSUME NEW w \in Worker, ClaimByUpdate(w) PROVE TypeInv'
  <2>1. \A i \in Issue : [row[i] EXCEPT !.lease = TTL] \in Row
    BY ConstantRecords DEF TypeOK, Row
  <2>2. row' \in [Issue -> Row]
    BY <1>5, <2>1 DEF ClaimByUpdate, TypeOK
  <2>3. QED  BY <1>3, <1>5, <2>2 DEF ClaimByUpdate
<1>6. ASSUME NEW w \in Worker, NEW k \in Attempt, Request(w) \in Submission,
             Request(w).issue \in Issue, Send(w, k)
      PROVE  /\ sub' \in [Worker -> [Attempt -> Submission]]
             /\ \A v \in Worker, j \in Attempt :
                   sub'[v][j].phase # "none" => sub'[v][j].issue \in Issue
  BY <1>6 DEF Send, TypeOK, Bound
<1>7. ASSUME NEW w \in Worker, Finish(w) PROVE TypeInv'
  <2>1. 1 \in Attempt
    BY ConstantsAssumption DEF Attempt
  <2>2. Request(w) \in Submission /\ Request(w).issue \in Issue
    BY <1>7, RequestTypes DEF Finish, TypeOK, Bound
  <2>3. /\ sub' \in [Worker -> [Attempt -> Submission]]
        /\ \A v \in Worker, j \in Attempt :
              sub'[v][j].phase # "none" => sub'[v][j].issue \in Issue
    BY <1>6, <1>7, <2>1, <2>2 DEF Finish
  <2>4. attempt' \in [Worker -> 0..MaxAttempts]
    BY <1>7, ConstantsAssumption DEF Finish, TypeOK
  <2>5. QED  BY <1>7, <2>3, <2>4 DEF Finish, TypeOK, Bound
<1>8. ASSUME NEW w \in Worker, GiveUp(w) PROVE TypeInv'
  BY <1>8, ConstantsAssumption DEF GiveUp, Fault, TypeOK, Bound
<1>9. ASSUME NEW w \in Worker, SubmitTimeout(w) PROVE TypeInv'
  <2>1. /\ sub' \in [Worker -> [Attempt -> Submission]]
        /\ \A v \in Worker, j \in Attempt :
              sub'[v][j].phase # "none" => sub'[v][j].issue \in Issue
    <3>1. CASE attempt[w] < MaxAttempts /\ Send(w, attempt[w] + 1)
      <4>1. attempt[w] + 1 \in Attempt
        BY <3>1, ConstantsAssumption DEF Attempt, TypeOK
      <4>2. Request(w) \in Submission /\ Request(w).issue \in Issue
        BY <1>9, RequestTypes DEF SubmitTimeout, TypeOK, Bound
      <4>3. QED  BY <1>6, <3>1, <4>1, <4>2
    <3>2. CASE UNCHANGED sub
      BY <3>2 DEF TypeOK, Bound
    <3>3. QED  BY <1>9, <3>1, <3>2 DEF SubmitTimeout
  <2>2. QED
    BY <1>9, <2>1, AnswerTyped, ConstantsAssumption DEF SubmitTimeout, Fault, TypeOK, Bound
<1>10. ASSUME NEW w \in Worker, NEW k \in Attempt, SubmitRead(w, k) PROVE TypeInv'
  <2> DEFINE s == sub[w][k]
             iss == issue[s.issue]
  <2>1. s \in Submission /\ s.issue \in Issue
    BY <1>10 DEF SubmitRead, TypeOK, Bound
  <2>2. HashOf(iss) \in Hashes /\ iss.gen \in Nat /\ iss.open \in BOOLEAN
    BY <2>1, HashTypes DEF TypeOK, IssueRecord
  <2>3. CASE SameContent(s)
    <3> DEFINE t == [s EXCEPT !.phase = "embedding", !.hash = HashOf(iss),
                              !.gen = iss.gen, !.open = iss.open]
    <3>1. t \in Submission /\ t.issue \in Issue
      BY <2>1, <2>2 DEF Submission
    <3>2. sub' = [sub EXCEPT ![w][k] = t] /\ UNCHANGED <<pc, work, attempt>>
      BY <1>10, <2>3 DEF SubmitRead
    <3>3. UNCHANGED <<issue, row, snap, held, env>>
      BY <1>10 DEF SubmitRead
    <3> HIDE DEF t
    <3>4. QED  BY <3>1, <3>2, <3>3 DEF TypeOK, Bound
  <2>4. CASE ~SameContent(s)
    <3>1. sub' = [sub EXCEPT ![w][k] = NoSub]
      BY <1>10, <2>4 DEF SubmitRead
    <3>2. CASE Awaited(w, k)
      BY <1>10, <2>4, <3>1, <3>2, AnswerTyped, ConstantRecords
         DEF SubmitRead, Awaited, TypeOK, Bound, NoSub
    <3>3. CASE ~Awaited(w, k)
      BY <1>10, <2>4, <3>1, <3>3, ConstantRecords DEF SubmitRead, TypeOK, Bound, NoSub
    <3>4. QED  BY <3>2, <3>3
  <2>5. QED  BY <2>3, <2>4
<1>11. ASSUME NEW w \in Worker, NEW k \in Attempt, SubmitFail(w, k) PROVE TypeInv'
  BY <1>11, Fail500Typed DEF SubmitFail, Fault, TypeOK
<1>12. ASSUME NEW w \in Worker, NEW k \in Attempt, SubmitDemote(w, k) PROVE TypeInv'
  <2> DEFINE s == sub[w][k]
  <2>1. s \in Submission /\ s.issue \in Issue
    BY <1>12 DEF SubmitDemote, TypeOK, Bound
  <2>2. row[s.issue].id \in RowId \cup {0}
    BY <2>1 DEF TypeOK, Row
  <2>3. [s EXCEPT !.phase = "demoted", !.target = row[s.issue].id] \in Submission
    BY <2>1, <2>2 DEF Submission
  <2>4. QED  BY <1>12, <2>1, <2>3 DEF SubmitDemote, TypeOK, Bound
<1>13. ASSUME NEW w \in Worker, NEW k \in Attempt, SubmitCommit(w, k) PROVE TypeInv'
  <2> DEFINE s == sub[w][k]
  <2>1. s \in Submission
    BY DEF TypeOK
  <2>2. CASE /\ row[s.issue].id \in {0, s.target}
             /\ FreshIds # {}
             /\ row' = [row EXCEPT ![s.issue] = Result(NewId, s)]
             /\ sub' = [sub EXCEPT ![w][k] = NoSub]
             /\ IF Awaited(w, k) THEN Accepted(w) ELSE UNCHANGED <<pc, work, attempt>>
    <3>1. Result(NewId, s) \in Row
      BY <2>1, <2>2, FreshKey, ResultTypes
    <3>2. row' \in [Issue -> Row] /\ sub' \in [Worker -> [Attempt -> Submission]]
      BY <2>2, <3>1, ConstantRecords DEF TypeOK
    <3>3. \A v \in Worker, j \in Attempt :
             sub'[v][j].phase # "none" => sub'[v][j].issue \in Issue
      BY <2>2 DEF TypeOK, Bound, NoSub
    <3>4. CASE Awaited(w, k)
      BY <1>13, <2>2, <3>2, <3>3, <3>4, AnswerTyped DEF SubmitCommit, Awaited, TypeOK, Bound
    <3>5. CASE ~Awaited(w, k)
      BY <1>13, <2>2, <3>2, <3>3, <3>5 DEF SubmitCommit, TypeOK, Bound
    <3>6. QED  BY <3>4, <3>5
  <2>3. CASE Fail500(w, k) /\ UNCHANGED row
    BY <1>13, <2>3, Fail500Typed DEF SubmitCommit, TypeOK
  <2>4. QED  BY <1>13, <2>2, <2>3 DEF SubmitCommit
<1>14. ASSUME NEW v \in Worker, NEW w \in Worker, NEW k \in Attempt, AbortNext(v, w, k)
       PROVE  TypeInv'
  BY <1>3, <1>14 DEF AbortNext, TypeOK
<1>15. ASSUME NEW v \in Worker, NEW w \in Worker, NEW k \in Attempt, AbortResult(v, w, k)
       PROVE  TypeInv'
  BY <1>15, Fail500Typed DEF AbortResult, Fault, TypeOK
<1>16. ASSUME NEW w \in Worker, ReleaseRead(w) PROVE TypeInv'
  <2>1. row[work[w].issue] \in Row
    BY <1>16 DEF ReleaseRead, TypeOK, Bound
  <2>2. CASE row[work[w].issue].kind = "none"
    BY <1>3, <1>16, <2>2 DEF ReleaseRead, TypeOK
  <2>3. CASE row[work[w].issue].kind # "none"
    BY <1>16, <2>1, <2>3 DEF ReleaseRead, TypeOK, Bound
  <2>4. QED  BY <2>2, <2>3
<1>17. ASSUME NEW w \in Worker, ReleaseCommit(w) PROVE TypeInv'
  <2>1. \A i \in Issue : Freed(row[i]) \in Row
    BY ConstantRecords DEF Freed, TypeOK, Row
  <2>2. row' \in [Issue -> Row]
    BY <1>17, <2>1 DEF ReleaseCommit, TypeOK
  <2>3. QED  BY <1>3, <1>17, <2>2 DEF ReleaseCommit
<1>18. ASSUME NEW i \in Issue, ChangeIssue(i) PROVE TypeInv'
  <2>1. issue' \in [Issue -> IssueRecord]
    <3>1. PICK t \in Text, o \in BOOLEAN :
             issue' = [issue EXCEPT ![i] = [@ EXCEPT !.text = t, !.open = o]]
      BY <1>18 DEF ChangeIssue
    <3>2. [issue[i] EXCEPT !.text = t, !.open = o] \in IssueRecord
      BY DEF TypeOK, IssueRecord
    <3>3. QED  BY <3>1, <3>2 DEF TypeOK
  <2>2. QED  BY <1>18, <2>1 DEF ChangeIssue, TypeOK, Bound
<1>19. ASSUME NEW i \in Issue, BumpGeneration(i) PROVE TypeInv'
  <2>1. issue' \in [Issue -> IssueRecord]
    BY <1>19 DEF BumpGeneration, TypeOK, IssueRecord
  <2>2. QED  BY <1>19, <2>1 DEF BumpGeneration, TypeOK, Bound
<1>20. ASSUME NEW i \in Issue, Clear(i) PROVE TypeInv'
  BY <1>20, ConstantRecords DEF Clear, TypeOK, Bound
<1>21. ASSUME NEW w \in Worker, Crash(w) PROVE TypeInv'
  <2>1. crashes' \in Nat
    BY <1>21 DEF Crash, TypeOK
  <2>2. QED
    BY <1>21, <2>1, ConstantRecords, ConstantsAssumption DEF Crash, Accepted, TypeOK, Bound
<1>22. ASSUME Tick PROVE TypeInv'
  <2>1. \A l \in NoLease..TTL : TickDown(l) \in NoLease..TTL
    BY ConstantsAssumption DEF TickDown, NoLease
  <2>2. \A r \in Row : [r EXCEPT !.lease = TickDown(@)] \in Row
    BY <2>1 DEF Row
  <2>3. \A k \in Work : /\ [k EXCEPT !.lease = TickDown(@)] \in Work
                        /\ [k EXCEPT !.lease = TickDown(@)].issue = k.issue
    BY <2>1 DEF Work
  <2>4. QED  BY <1>22, <2>2, <2>3 DEF Tick, TypeOK, Bound
<1>23. CASE UNCHANGED vars
  BY <1>23 DEF vars, TypeOK, Bound
<1>24. QED
  BY <1>1, <1>2, <1>4, <1>5, <1>7, <1>8, <1>9, <1>10, <1>11, <1>12, <1>13, <1>14,
     <1>15, <1>16, <1>17, <1>18, <1>19, <1>20, <1>21, <1>22, <1>23 DEF Next

\* Every variable keeps its type.
THEOREM TypeCorrect == Spec => []TypeOK
<1>1. TypeInv => TypeOK
  BY DEF TypeInv
<1>2. QED  BY InitTyped, StepTyped, <1>1, PTL DEF Spec

-----------------------------------------------------------------------------
(* What claims, releases and time do to a row *)

\* Two rows that differ in their lease at most.
SameButLease(q, r) ==
    /\ q.id = r.id /\ q.kind = r.kind /\ q.hash = r.hash /\ q.saw = r.saw
    /\ q.open = r.open /\ q.gen = r.gen /\ q.ver = r.ver

\* A new lease does not change anything else of a row.
LEMMA LeaseOnly ==
    ASSUME NEW r \in Row, NEW l
    PROVE  /\ SameButLease([r EXCEPT !.lease = l], r)
           /\ [r EXCEPT !.lease = l].lease = l
BY DEF Row, SameButLease

\* What /release leaves of a row has no lease; a result keeps everything else.
LEMMA FreedFacts ==
    ASSUME NEW r \in Row
    PROVE  /\ Freed(r).lease = NoLease
           /\ Freed(r) = NoRow \/ SameButLease(Freed(r), r)
           /\ r.kind # "pending" => SameButLease(Freed(r), r)
<1>1. CASE r.kind = "pending"
  BY <1>1 DEF Freed, NoRow
<1>2. CASE r.kind # "pending"
  <2>1. Freed(r) = [r EXCEPT !.lease = NoLease]
    BY <1>2 DEF Freed
  <2>2. QED  BY <1>2, <2>1, LeaseOnly
<1>3. QED  BY <1>1, <1>2

\* /next by primary key: the row it read gets the lease, if it is the latest.
LEMMA ClaimRows ==
    ASSUME TypeInv, NEW w \in Worker, ClaimByUpdate(w), NEW j \in Issue
    PROVE  /\ SameButLease(row'[j], row[j])
           /\ row'[j] = row[j] \/ (row'[j].lease = TTL /\ row[j].id = held[w].id)
<1>1. row[j] \in Row
  BY DEF TypeInv, TypeOK
<1>2. \/ row'[j] = row[j]
      \/ row'[j] = [row[j] EXCEPT !.lease = TTL] /\ row[j].id = held[w].id
  BY DEF ClaimByUpdate, TypeInv, TypeOK
<1>3. CASE row'[j] = row[j]
  BY <1>3 DEF SameButLease
<1>4. CASE row'[j] = [row[j] EXCEPT !.lease = TTL] /\ row[j].id = held[w].id
  BY <1>1, <1>4, LeaseOnly
<1>5. QED  BY <1>2, <1>3, <1>4

\* A release touches the row it has loaded and no other.
LEMMA ReleaseRows ==
    ASSUME TypeInv, NEW w \in Worker, ReleaseCommit(w), NEW j \in Issue
    PROVE  /\ row'[j] = NoRow \/ SameButLease(row'[j], row[j])
           /\ row[j].kind # "pending" => SameButLease(row'[j], row[j])
           /\ row'[j] = row[j] \/ row'[j].lease = NoLease
<1>1. row[j] \in Row
  BY DEF TypeInv, TypeOK
<1>2. row'[j] = row[j] \/ row'[j] = Freed(row[j])
  BY DEF ReleaseCommit, TypeInv, TypeOK
<1>3. CASE row'[j] = row[j]
  BY <1>3 DEF SameButLease
<1>4. CASE row'[j] = Freed(row[j])
  BY <1>1, <1>4, FreedFacts
<1>5. QED  BY <1>2, <1>3, <1>4

\* Time touches nothing but leases, and NULL stays NULL.
LEMMA TickRows ==
    ASSUME TypeInv, Tick, NEW j \in Issue
    PROVE  /\ SameButLease(row'[j], row[j])
           /\ row'[j].lease = TickDown(row[j].lease)
<1>1. row[j] \in Row
  BY DEF TypeInv, TypeOK
<1>2. row'[j] = [row[j] EXCEPT !.lease = TickDown(row[j].lease)]
  BY DEF Tick, TypeInv, TypeOK
<1>3. QED  BY <1>1, <1>2, LeaseOnly

-----------------------------------------------------------------------------
(* The content of a current evaluation *)

\* No request is under way in an initial state, and every result is genuine.
LEMMA InitStored == Init => Stored
<1> SUFFICES ASSUME Init PROVE Stored
  OBVIOUS
<1>1. ASSUME NEW i \in Issue, row[i].kind = "result" PROVE row[i].saw.hash = row[i].hash
  <2>1. row[i] \in InitialRows(i) /\ row[i] # NoRow
    BY <1>1 DEF Init, NoRow
  <2>2. PICK t \in Text, v \in 0..NewVersion : row[i] = Evaluated(issue[i], i, t, v)
    BY <2>1 DEF InitialRows
  <2>3. QED  BY <2>2 DEF Evaluated, NoRow
<1>2. QED  BY <1>1 DEF Init, Stored, NoSub

\* A failed request leaves no phase past the hash test behind.
LEMMA Fail500Stored ==
    ASSUME TypeInv, Stored, NEW w \in Worker, NEW k \in Attempt, Fail500(w, k),
           UNCHANGED row
    PROVE  Stored'
<1>1. ASSUME NEW j \in Attempt, Resend(w, k)[j].phase \in {"embedding", "demoted"}
      PROVE  Resend(w, k)[j].saw.hash = Resend(w, k)[j].hash
  <2>1. CASE Awaited(w, k) /\ k < MaxAttempts
    <3>1. Request(w).phase = "sent"
      BY <2>1, RequestTypes DEF TypeInv, TypeOK, Bound, Awaited
    <3>2. QED  BY <1>1, <2>1, <3>1 DEF Resend, TypeInv, TypeOK, Stored, NoSub
  <2>2. CASE ~(Awaited(w, k) /\ k < MaxAttempts)
    BY <1>1, <2>2 DEF Resend, TypeInv, TypeOK, Stored, NoSub
  <2>3. QED  BY <2>1, <2>2
<1>2. \A v \in Worker, j \in Attempt :
         sub'[v][j].phase \in {"embedding", "demoted"} => sub'[v][j].saw.hash = sub'[v][j].hash
  BY <1>1 DEF Fail500, TypeInv, TypeOK, Stored
<1>3. QED  BY <1>2 DEF Stored

\* No step stores a hash that is not the hash of what was evaluated.
LEMMA StepStored == TypeInv /\ Stored /\ [Next]_vars => Stored'
<1> SUFFICES ASSUME TypeInv, Stored, [Next]_vars PROVE Stored'
  OBVIOUS
<1> USE DEF TypeInv, env
<1>1. CASE UNCHANGED <<row, sub>>
  BY <1>1 DEF Stored
<1>2. ASSUME NEW w \in Worker, ClaimByInsert(w) PROVE Stored'
  BY <1>2 DEF ClaimByInsert, Pending, NoRow, TypeOK, Stored
<1>3. ASSUME NEW w \in Worker, ClaimByUpdate(w) PROVE Stored'
  <2>1. \A j \in Issue : row'[j].kind = row[j].kind /\ row'[j].hash = row[j].hash
                          /\ row'[j].saw = row[j].saw
    BY <1>3, ClaimRows DEF SameButLease
  <2>2. UNCHANGED sub
    BY <1>3 DEF ClaimByUpdate
  <2>3. QED  BY <2>1, <2>2 DEF Stored
<1>4. ASSUME NEW w \in Worker, NEW k, Send(w, k), UNCHANGED row,
             pc[w] \in {"evaluating", "submitting"}
      PROVE  Stored'
  <2>1. Request(w).phase = "sent"
    BY <1>4, RequestTypes DEF TypeOK, Bound
  <2>2. QED  BY <1>4, <2>1 DEF Send, TypeOK, Stored
<1>5. ASSUME NEW w \in Worker, Finish(w) PROVE Stored'
  BY <1>4, <1>5 DEF Finish
<1>6. ASSUME NEW w \in Worker, SubmitTimeout(w) PROVE Stored'
  BY <1>1, <1>4, <1>6 DEF SubmitTimeout
<1>7. ASSUME NEW w \in Worker, NEW k \in Attempt, SubmitRead(w, k) PROVE Stored'
  <2> DEFINE s == sub[w][k]
             iss == issue[s.issue]
             t == [s EXCEPT !.phase = "embedding", !.hash = HashOf(iss),
                            !.gen = iss.gen, !.open = iss.open]
  <2>1. s \in Submission
    BY DEF TypeOK
  <2>2. CASE SameContent(s)
    <3>1. t.saw.hash = t.hash
      BY <2>1, <2>2 DEF SameContent, Submission
    <3>2. sub' = [sub EXCEPT ![w][k] = t] /\ UNCHANGED row
      BY <1>7, <2>2 DEF SubmitRead
    <3> HIDE DEF t
    <3>3. QED  BY <3>1, <3>2 DEF TypeOK, Stored
  <2>3. CASE ~SameContent(s)
    <3>1. sub' = [sub EXCEPT ![w][k] = NoSub] /\ UNCHANGED row
      BY <1>7, <2>3 DEF SubmitRead
    <3>2. QED  BY <3>1 DEF TypeOK, Stored, NoSub
  <2>4. QED  BY <2>2, <2>3
<1>8. ASSUME NEW w \in Worker, NEW k \in Attempt, SubmitFail(w, k) PROVE Stored'
  BY <1>8, Fail500Stored DEF SubmitFail
<1>9. ASSUME NEW w \in Worker, NEW k \in Attempt, SubmitDemote(w, k) PROVE Stored'
  BY <1>9 DEF SubmitDemote, TypeOK, Submission, Stored
<1>10. ASSUME NEW w \in Worker, NEW k \in Attempt, SubmitCommit(w, k) PROVE Stored'
  <2> DEFINE s == sub[w][k]
  <2>1. s \in Submission /\ s.phase = "demoted"
    BY <1>10 DEF SubmitCommit, TypeOK
  <2>2. CASE /\ FreshIds # {}
             /\ row' = [row EXCEPT ![s.issue] = Result(NewId, s)]
             /\ sub' = [sub EXCEPT ![w][k] = NoSub]
    <3>1. Result(NewId, s).saw.hash = Result(NewId, s).hash
      BY <2>1, <2>2, FreshKey, ResultTypes DEF Stored
    <3>2. QED  BY <2>2, <3>1 DEF TypeOK, Stored, NoSub
  <2>3. CASE Fail500(w, k) /\ UNCHANGED row
    BY <2>3, Fail500Stored
  <2>4. QED  BY <1>10, <2>2, <2>3 DEF SubmitCommit
<1>11. ASSUME NEW v \in Worker, NEW w \in Worker, NEW k \in Attempt, AbortResult(v, w, k)
       PROVE  Stored'
  BY <1>11, Fail500Stored DEF AbortResult
<1>12. ASSUME NEW w \in Worker, ReleaseCommit(w) PROVE Stored'
  <2>1. ASSUME NEW j \in Issue, row'[j].kind = "result"
        PROVE  row'[j].saw.hash = row'[j].hash
    <3>1. row'[j] # NoRow
      BY <2>1 DEF NoRow
    <3>2. SameButLease(row'[j], row[j])
      BY <1>12, <3>1, ReleaseRows
    <3>3. QED  BY <2>1, <3>2 DEF SameButLease, Stored
  <2>2. UNCHANGED sub
    BY <1>12 DEF ReleaseCommit
  <2>3. QED  BY <2>1, <2>2 DEF Stored
<1>13. ASSUME NEW i \in Issue, Clear(i) PROVE Stored'
  BY <1>13 DEF Clear, NoRow, TypeOK, Stored
<1>14. CASE Tick
  <2>1. \A j \in Issue : row'[j].kind = row[j].kind /\ row'[j].hash = row[j].hash
                          /\ row'[j].saw = row[j].saw
    BY <1>14, TickRows DEF SameButLease
  <2>2. UNCHANGED sub
    BY <1>14 DEF Tick
  <2>3. QED  BY <2>1, <2>2 DEF Stored
<1>15. QED
  BY <1>1, <1>2, <1>3, <1>5, <1>6, <1>7, <1>8, <1>9, <1>10, <1>11, <1>12, <1>13, <1>14
     DEF Next, vars, NextSelect, NextLock, GiveUp, Crash, ReleaseRead, AbortNext,
         ChangeIssue, BumpGeneration

\* A current evaluation was computed from the content the issue has.
THEOREM ContentCorrect == Spec => []CurrentMeansSameContent
<1>1. Stored => CurrentMeansSameContent
  BY DEF Stored, CurrentMeansSameContent, UpToDate
<1>2. QED  BY InitTyped, StepTyped, InitStored, StepStored, <1>1, PTL DEF Spec

-----------------------------------------------------------------------------
(* What a step may do to a stored evaluation *)

\* Only /clear takes a stored evaluation away.
THEOREM ResultsKept == Spec => ResultsSurvive
<1>1. ASSUME TypeInv, [Next]_vars,
             NEW i \in Issue, row[i].kind = "result", row'[i].kind # "result"
      PROVE  Clear(i)
  <2> USE DEF TypeInv, env
  <2>1. CASE UNCHANGED row
    BY <1>1, <2>1
  <2>2. ASSUME NEW w \in Worker, ClaimByInsert(w) PROVE FALSE
    BY <1>1, <2>2 DEF ClaimByInsert, TypeOK
  <2>3. ASSUME NEW w \in Worker, ClaimByUpdate(w) PROVE FALSE
    BY <1>1, <2>3, ClaimRows DEF SameButLease
  <2>4. ASSUME NEW w \in Worker, NEW k \in Attempt, SubmitCommit(w, k) PROVE FALSE
    BY <1>1, <2>4 DEF SubmitCommit, Result, TypeOK
  <2>5. ASSUME NEW w \in Worker, ReleaseCommit(w) PROVE FALSE
    BY <1>1, <2>5, ReleaseRows DEF SameButLease
  <2>6. ASSUME NEW j \in Issue, Clear(j) PROVE Clear(i)
    BY <1>1, <2>6 DEF Clear, TypeOK
  <2>7. CASE Tick
    BY <1>1, <2>7, TickRows DEF SameButLease
  <2>8. QED
    BY <1>1, <2>1, <2>2, <2>3, <2>4, <2>5, <2>6, <2>7
       DEF Next, vars, NextSelect, NextLock, Finish, GiveUp, SubmitTimeout, Crash,
           ReleaseRead, SubmitRead, SubmitFail, SubmitDemote, AbortNext, AbortResult,
           ChangeIssue, BumpGeneration
<1>2. TypeInv /\ [Next]_vars =>
        [\A i \in Issue :
            row[i].kind = "result" => row'[i].kind = "result" \/ Clear(i)]_vars
  BY <1>1
<1>3. QED  BY InitTyped, StepTyped, <1>2, PTL DEF Spec, ResultsSurvive

\* Nothing that lands while a result is being stored is swallowed.
THEOREM LateChangesKept == Spec => LateChangesSurvive
<1>1. ASSUME TypeInv, [Next]_vars, NEW i \in Issue,
             UpToDate(issue'[i], row'[i]), row'[i].id # row[i].id
      PROVE  \E w \in Worker, k \in Attempt :
                /\ sub[w][k].phase = "demoted" /\ sub[w][k].issue = i
                /\ sub[w][k].hash = HashOf(issue[i])
                /\ issue[i].open => sub[w][k].gen = issue[i].gen
  <2> USE DEF TypeInv, env
  <2>1. row'[i].kind = "result"
    BY <1>1 DEF UpToDate
  <2>2. CASE UNCHANGED row
    BY <1>1, <2>2
  <2>3. ASSUME NEW w \in Worker, ClaimByInsert(w) PROVE FALSE
    BY <1>1, <2>1, <2>3 DEF ClaimByInsert, Pending, NoRow, TypeOK
  <2>4. ASSUME NEW w \in Worker, ClaimByUpdate(w) PROVE FALSE
    BY <1>1, <2>4, ClaimRows DEF SameButLease
  <2>5. ASSUME NEW w \in Worker, NEW k \in Attempt, SubmitCommit(w, k)
        PROVE  /\ sub[w][k].phase = "demoted" /\ sub[w][k].issue = i
               /\ sub[w][k].hash = HashOf(issue[i])
               /\ issue[i].open => sub[w][k].gen = issue[i].gen
    <3> DEFINE s == sub[w][k]
    <3>1. s \in Submission /\ s.phase = "demoted" /\ UNCHANGED issue
      BY <1>1, <2>5 DEF SubmitCommit, TypeOK
    <3>2. /\ s.issue = i /\ FreshIds # {}
          /\ row'[i] = Result(NewId, s)
      <4>1. row' # row
        BY <1>1
      <4>2. FreshIds # {} /\ row' = [row EXCEPT ![s.issue] = Result(NewId, s)]
        BY <2>5, <4>1 DEF SubmitCommit
      <4> HIDE DEF s
      <4>3. QED  BY <1>1, <4>2 DEF TypeOK
    <3>3. row'[i].hash = s.hash /\ row'[i].gen = s.gen
      BY <3>1, <3>2, FreshKey, ResultTypes
    <3>4. s.hash = HashOf(issue[i]) /\ (issue[i].open => s.gen = issue[i].gen)
      BY <1>1, <3>1, <3>3 DEF UpToDate
    <3>5. QED  BY <3>1, <3>2, <3>4
  <2>6. ASSUME NEW w \in Worker, ReleaseCommit(w) PROVE FALSE
    BY <1>1, <2>1, <2>6, ReleaseRows DEF SameButLease, NoRow
  <2>7. ASSUME NEW j \in Issue, Clear(j) PROVE FALSE
    BY <1>1, <2>1, <2>7 DEF Clear, NoRow, TypeOK
  <2>8. CASE Tick
    BY <1>1, <2>8, TickRows DEF SameButLease
  <2>9. QED
    BY <1>1, <2>2, <2>3, <2>4, <2>5, <2>6, <2>7, <2>8
       DEF Next, vars, NextSelect, NextLock, Finish, GiveUp, SubmitTimeout, Crash,
           ReleaseRead, SubmitRead, SubmitFail, SubmitDemote, AbortNext, AbortResult,
           ChangeIssue, BumpGeneration
<1>2. TypeInv /\ [Next]_vars =>
        [\A i \in Issue :
            (/\ ~UpToDate(issue[i], row[i]) /\ UpToDate(issue'[i], row'[i])
             /\ row'[i].id # row[i].id)
            => \E w \in Worker, k \in Attempt :
                  /\ sub[w][k].phase = "demoted" /\ sub[w][k].issue = i
                  /\ sub[w][k].hash = HashOf(issue[i])
                  /\ issue[i].open => sub[w][k].gen = issue[i].gen]_vars
  BY <1>1
<1>3. QED  BY InitTyped, StepTyped, <1>2, PTL DEF Spec, LateChangesSurvive

-----------------------------------------------------------------------------
(* Whose claim a lease is *)

\* Nothing is claimed in an initial state.
LEMMA InitLeased == Init => LeaseInv
<1> SUFFICES ASSUME Init PROVE LeaseInv
  OBVIOUS
<1>1. ASSUME NEW i \in Issue PROVE WellFormed(row[i]) /\ row[i].lease = NoLease
  <2>1. CASE row[i] = NoRow
    BY <2>1 DEF WellFormed, NoRow
  <2>2. ASSUME NEW t \in Text, NEW v \in 0..NewVersion, row[i] = Evaluated(issue[i], i, t, v)
        PROVE  WellFormed(row[i]) /\ row[i].lease = NoLease
    <3>1. i # 0
      BY ConstantsAssumption
    <3>2. QED  BY <2>2, <3>1 DEF Evaluated, NoRow, WellFormed
  <2>3. row[i] \in InitialRows(i)
    BY DEF Init
  <2>4. QED  BY <2>1, <2>2, <2>3 DEF InitialRows
<1>2. WellFormed(NoRow)
  BY DEF WellFormed, NoRow
<1>3. RowsWellFormed
  BY <1>1, <1>2 DEF Init, RowsWellFormed
<1>4. OwnRequest
  BY DEF Init, OwnRequest
<1>5. Leased
  BY <1>1 DEF Leased
<1>6. QED  BY <1>3, <1>4, <1>5 DEF LeaseInv

\* Only a row that is there is ever claimed: /next writes by a key it read.
LEMMA StepWellFormed == TypeInv /\ RowsWellFormed /\ [Next]_vars => RowsWellFormed'
<1> SUFFICES ASSUME TypeInv, RowsWellFormed, [Next]_vars PROVE RowsWellFormed'
  OBVIOUS
<1> USE DEF TypeInv, env
<1>1. WellFormed(NoRow)
  BY DEF WellFormed, NoRow
<1>2. ASSUME FreshIds # {} PROVE NewId # 0
  BY <1>2, FreshKey, ConstantsAssumption
<1>3. CASE UNCHANGED <<row, held, snap>>
  BY <1>3 DEF RowsWellFormed
<1>4. ASSUME NEW w \in Worker, UNCHANGED <<row, snap>>, held' = [held EXCEPT ![w] = NoRow]
      PROVE  RowsWellFormed'
  BY <1>1, <1>4 DEF RowsWellFormed, TypeOK
<1>5. ASSUME NEW w \in Worker, UNCHANGED snap, held' = [held EXCEPT ![w] = NoRow],
             \A j \in Issue : WellFormed(row'[j])
      PROVE  RowsWellFormed'
  BY <1>1, <1>5 DEF RowsWellFormed, TypeOK
<1>6. ASSUME UNCHANGED <<snap, held>>, \A j \in Issue : WellFormed(row'[j])
      PROVE  RowsWellFormed'
  BY <1>6 DEF RowsWellFormed
<1>7. ASSUME NEW w \in Worker, NextSelect(w) PROVE RowsWellFormed'
  <2>1. \A c \in Candidates : WellFormed(c.row)
    BY DEF Candidates, RowsWellFormed
  <2>2. QED  BY <1>7, <2>1 DEF NextSelect, RowsWellFormed, TypeOK
<1>8. ASSUME NEW w \in Worker, NextLock(w) PROVE RowsWellFormed'
  <2>1. \A c \in Lockable(w) : WellFormed(c.row)
    BY DEF Lockable, RowsWellFormed
  <2>2. \A v \in Worker : WellFormed(held'[v])
    BY <1>8, <2>1 DEF NextLock, RowsWellFormed, TypeOK
  <2>3. \A v \in Worker : snap'[v] \subseteq snap[v]
    BY <1>8 DEF NextLock, TypeOK
  <2>4. UNCHANGED row
    BY <1>8 DEF NextLock
  <2>5. QED  BY <2>2, <2>3, <2>4 DEF RowsWellFormed
<1>9. ASSUME NEW w \in Worker, ClaimByInsert(w) PROVE RowsWellFormed'
  <2>1. ASSUME FreshIds # {} PROVE WellFormed(Pending(NewId))
    BY <1>2, <2>1 DEF WellFormed, Pending, NoRow
  <2>2. \A j \in Issue : WellFormed(row'[j])
    BY <1>9, <2>1 DEF ClaimByInsert, RowsWellFormed, TypeOK
  <2>3. QED  BY <1>5, <1>9, <2>2 DEF ClaimByInsert, Claimed, NotClaimed
<1>10. ASSUME NEW w \in Worker, ClaimByUpdate(w) PROVE RowsWellFormed'
  <2>1. held[w].id # 0
    BY <1>10 DEF ClaimByUpdate, RowsWellFormed, WellFormed
  <2>2. \A j \in Issue : WellFormed(row'[j])
    BY <1>10, <2>1, ClaimRows DEF RowsWellFormed, WellFormed, SameButLease
  <2>3. QED  BY <1>5, <1>10, <2>2 DEF ClaimByUpdate, Claimed, NotClaimed
<1>11. ASSUME NEW w \in Worker, NEW k \in Attempt, SubmitCommit(w, k) PROVE RowsWellFormed'
  <2>1. ASSUME FreshIds # {} PROVE WellFormed(Result(NewId, sub[w][k]))
    BY <1>2, <2>1 DEF WellFormed, Result
  <2>2. \A j \in Issue : WellFormed(row'[j])
    BY <1>11, <2>1 DEF SubmitCommit, RowsWellFormed, TypeOK
  <2>3. QED  BY <1>6, <1>11, <2>2 DEF SubmitCommit
<1>12. ASSUME NEW w \in Worker, ReleaseRead(w) PROVE RowsWellFormed'
  BY <1>4, <1>12 DEF ReleaseRead, NotClaimed, RowsWellFormed, TypeOK, Bound
<1>13. ASSUME NEW w \in Worker, ReleaseCommit(w) PROVE RowsWellFormed'
  <2>1. \A j \in Issue : WellFormed(row'[j])
    BY <1>1, <1>13, ReleaseRows DEF RowsWellFormed, WellFormed, SameButLease
  <2>2. QED  BY <1>5, <1>13, <2>1 DEF ReleaseCommit, NotClaimed
<1>14. ASSUME NEW i \in Issue, Clear(i) PROVE RowsWellFormed'
  <2>1. \A j \in Issue : WellFormed(row'[j])
    BY <1>1, <1>14 DEF Clear, RowsWellFormed, TypeOK
  <2>2. QED  BY <1>6, <1>14, <2>1 DEF Clear
<1>15. CASE Tick
  <2>1. \A j \in Issue : WellFormed(row'[j])
    BY <1>15, TickRows DEF RowsWellFormed, WellFormed, SameButLease, TickDown, NoLease
  <2>2. QED  BY <1>6, <1>15, <2>1 DEF Tick
<1>16. ASSUME NEW w \in Worker, Finish(w) \/ GiveUp(w) \/ SubmitTimeout(w) \/ Crash(w)
       PROVE  RowsWellFormed'
  BY <1>3, <1>4, <1>16 DEF Finish, GiveUp, SubmitTimeout, Crash
<1>17. ASSUME NEW w \in Worker, NEW k \in Attempt,
              SubmitRead(w, k) \/ SubmitFail(w, k) \/ SubmitDemote(w, k)
       PROVE  RowsWellFormed'
  BY <1>3, <1>17 DEF SubmitRead, SubmitFail, SubmitDemote
<1>18. ASSUME NEW v \in Worker, NEW w \in Worker, NEW k \in Attempt,
              AbortNext(v, w, k) \/ AbortResult(v, w, k)
       PROVE  RowsWellFormed'
  BY <1>3, <1>4, <1>18 DEF AbortNext, AbortResult, NotClaimed
<1>19. ASSUME NEW i \in Issue, ChangeIssue(i) \/ BumpGeneration(i) PROVE RowsWellFormed'
  BY <1>3, <1>19 DEF ChangeIssue, BumpGeneration
<1>20. CASE UNCHANGED vars
  BY <1>3, <1>20 DEF vars
<1>21. QED
  BY <1>7, <1>8, <1>9, <1>10, <1>11, <1>12, <1>13, <1>14, <1>15, <1>16, <1>17, <1>18,
     <1>19, <1>20 DEF Next

\* The answer a worker gets is the answer to what it asked.
LEMMA StepOwnRequest == TypeInv /\ OwnRequest /\ [Next]_vars => OwnRequest'
<1> SUFFICES ASSUME TypeInv, OwnRequest, [Next]_vars PROVE OwnRequest'
  OBVIOUS
<1> USE DEF TypeInv, env
<1>1. CASE UNCHANGED <<pc, work, attempt, sub>>
  BY <1>1 DEF OwnRequest
<1>2. ASSUME NEW w \in Worker, UNCHANGED <<attempt, sub>>,
             NEW x, x # "submitting", pc' = [pc EXCEPT ![w] = x],
             \A v \in Worker \ {w} : work'[v] = work[v]
      PROVE  OwnRequest'
  BY <1>2 DEF OwnRequest, TypeOK
<1>3. ASSUME NEW w \in Worker,
             \A v \in Worker \ {w} : /\ pc'[v] = pc[v] /\ work'[v] = work[v]
                                     /\ attempt'[v] = attempt[v] /\ sub'[v] = sub[v],
             pc'[w] = "submitting" /\ sub'[w][attempt'[w]].phase # "none"
                => sub'[w][attempt'[w]].issue = work'[w].issue
      PROVE  OwnRequest'
  BY <1>3 DEF OwnRequest
<1>4. ASSUME NEW w \in Worker, NextSelect(w) PROVE OwnRequest'
  BY <1>2, <1>4 DEF NextSelect
<1>5. ASSUME NEW w \in Worker, NextLock(w) PROVE OwnRequest'
  <2>1. \A v \in Worker \ {w} : work'[v] = work[v]
    BY <1>5 DEF NextLock, TypeOK
  <2>2. QED  BY <1>2, <1>5, <2>1 DEF NextLock
<1>6. ASSUME NEW w \in Worker, Claimed(w) \/ NotClaimed(w), UNCHANGED <<attempt, sub>>
      PROVE  OwnRequest'
  <2>1. \A v \in Worker \ {w} : work'[v] = work[v]
    BY <1>6 DEF Claimed, NotClaimed, TypeOK
  <2>2. QED  BY <1>2, <1>6, <2>1 DEF Claimed, NotClaimed
<1>7. ASSUME NEW w \in Worker, Finish(w) PROVE OwnRequest'
  <2>1. /\ attempt'[w] = 1 /\ sub'[w][1] = Request(w) /\ UNCHANGED work
        /\ \A v \in Worker \ {w} : /\ pc'[v] = pc[v] /\ attempt'[v] = attempt[v]
                                   /\ sub'[v] = sub[v]
    BY <1>7, ConstantsAssumption DEF Finish, Send, Attempt, TypeOK
  <2>2. Request(w).issue = work[w].issue
    BY <1>7, RequestTypes DEF Finish, TypeOK, Bound
  <2>3. QED  BY <1>3, <2>1, <2>2
<1>8. ASSUME NEW w \in Worker, SubmitTimeout(w) PROVE OwnRequest'
  <2>1. CASE attempt[w] < MaxAttempts /\ Send(w, attempt[w] + 1) /\ RetryOrRefuse(w)
    <3>1. attempt[w] + 1 \in Attempt
      BY <2>1, ConstantsAssumption DEF Attempt, TypeOK
    <3>2. /\ attempt'[w] = attempt[w] + 1 /\ sub'[w][attempt[w] + 1] = Request(w)
          /\ UNCHANGED <<pc, work>>
          /\ \A v \in Worker \ {w} : attempt'[v] = attempt[v] /\ sub'[v] = sub[v]
      BY <2>1, <3>1 DEF RetryOrRefuse, Send, TypeOK
    <3>3. Request(w).issue = work[w].issue
      BY <1>8, RequestTypes DEF SubmitTimeout, TypeOK, Bound
    <3>4. QED  BY <1>3, <3>2, <3>3
  <2>2. CASE Refused(w) /\ UNCHANGED sub
    BY <1>3, <2>2 DEF Refused, TypeOK
  <2>3. QED  BY <1>8, <2>1, <2>2 DEF SubmitTimeout
<1>9. ASSUME NEW w \in Worker, NEW k \in Attempt, Fail500(w, k) PROVE OwnRequest'
  <2>1. \A v \in Worker \ {w} : /\ pc'[v] = pc[v] /\ work'[v] = work[v]
                                /\ attempt'[v] = attempt[v] /\ sub'[v] = sub[v]
    BY <1>9 DEF Fail500, RetryOrRefuse, Refused, TypeOK
  <2>2. sub'[w] = Resend(w, k)
    BY <1>9 DEF Fail500, TypeOK
  <2>3. CASE Awaited(w, k) /\ k < MaxAttempts
    <3>1. k + 1 \in Attempt
      BY <2>3, ConstantsAssumption DEF Attempt
    <3>2. /\ attempt'[w] = k + 1 /\ work'[w] = work[w]
          /\ Resend(w, k)[k + 1] = Request(w)
      BY <1>9, <2>3, <3>1 DEF Fail500, RetryOrRefuse, Awaited, Resend, TypeOK
    <3>3. Request(w).issue = work[w].issue
      BY <2>3, RequestTypes DEF Awaited, TypeOK, Bound
    <3>4. QED  BY <1>3, <2>1, <2>2, <3>2, <3>3
  <2>4. CASE Awaited(w, k) /\ ~(k < MaxAttempts)
    <3>1. pc'[w] = "releasing"
      BY <1>9, <2>4 DEF Fail500, RetryOrRefuse, Refused, Awaited, TypeOK
    <3>2. QED  BY <1>3, <2>1, <3>1
  <2>5. CASE ~Awaited(w, k)
    <3>1. /\ UNCHANGED <<pc, work, attempt>>
          /\ \A j \in Attempt : Resend(w, k)[j] \in {NoSub, sub[w][j]}
      BY <1>9, <2>5 DEF Fail500, Resend, TypeOK
    <3>2. ASSUME NEW j \in Attempt, pc[w] = "submitting", attempt[w] = j,
                 sub'[w][j].phase # "none"
          PROVE  sub'[w][j].issue = work[w].issue
      BY <2>2, <3>1, <3>2 DEF OwnRequest, NoSub
    <3>3. QED  BY <2>1, <3>1, <3>2 DEF OwnRequest
  <2>6. QED  BY <2>3, <2>4, <2>5
<1>10. ASSUME NEW w \in Worker, NEW k \in Attempt, SubmitRead(w, k) PROVE OwnRequest'
  <2> DEFINE s == sub[w][k]
             iss == issue[s.issue]
             t == [s EXCEPT !.phase = "embedding", !.hash = HashOf(iss),
                            !.gen = iss.gen, !.open = iss.open]
  <2>1. s \in Submission /\ s.phase = "sent"
    BY <1>10 DEF SubmitRead, TypeOK
  <2>2. CASE SameContent(s)
    <3>1. t.issue = s.issue
      BY <2>1 DEF Submission
    <3>2. sub' = [sub EXCEPT ![w][k] = t] /\ UNCHANGED <<pc, work, attempt>>
      BY <1>10, <2>2 DEF SubmitRead
    <3> HIDE DEF t
    <3>3. QED  BY <2>1, <3>1, <3>2 DEF TypeOK, OwnRequest
  <2>3. CASE ~SameContent(s)
    <3>1. sub' = [sub EXCEPT ![w][k] = NoSub]
      BY <1>10, <2>3 DEF SubmitRead
    <3>2. CASE Awaited(w, k)
      <4>1. Refused(w)
        BY <1>10, <2>3, <3>2 DEF SubmitRead
      <4>2. QED  BY <1>3, <3>1, <4>1 DEF Refused, TypeOK
    <3>3. CASE ~Awaited(w, k)
      <4>1. UNCHANGED <<pc, work, attempt>>
        BY <1>10, <2>3, <3>3 DEF SubmitRead
      <4>2. QED  BY <3>1, <4>1 DEF TypeOK, OwnRequest, NoSub
    <3>4. QED  BY <3>2, <3>3
  <2>4. QED  BY <2>2, <2>3
<1>11. ASSUME NEW w \in Worker, NEW k \in Attempt, SubmitDemote(w, k) PROVE OwnRequest'
  <2> DEFINE s == sub[w][k]
             t == [s EXCEPT !.phase = "demoted", !.target = row[s.issue].id]
  <2>1. s.phase = "embedding" /\ t.issue = s.issue
    BY <1>11 DEF SubmitDemote, TypeOK, Submission
  <2>2. sub' = [sub EXCEPT ![w][k] = t] /\ UNCHANGED <<pc, work, attempt>>
    BY <1>11 DEF SubmitDemote
  <2> HIDE DEF t
  <2>3. QED  BY <2>1, <2>2 DEF TypeOK, OwnRequest
<1>12. ASSUME NEW w \in Worker, NEW k \in Attempt, SubmitCommit(w, k) PROVE OwnRequest'
  <2>1. CASE Fail500(w, k)
    BY <1>9, <2>1
  <2>2. CASE /\ sub' = [sub EXCEPT ![w][k] = NoSub]
             /\ IF Awaited(w, k) THEN Accepted(w) ELSE UNCHANGED <<pc, work, attempt>>
    <3>1. CASE Awaited(w, k)
      BY <1>3, <2>2, <3>1 DEF Accepted, TypeOK
    <3>2. CASE ~Awaited(w, k)
      BY <2>2, <3>2 DEF TypeOK, OwnRequest, NoSub
    <3>3. QED  BY <3>1, <3>2
  <2>3. QED  BY <1>12, <2>1, <2>2 DEF SubmitCommit
<1>13. ASSUME NEW w \in Worker, Crash(w) PROVE OwnRequest'
  BY <1>3, <1>13 DEF Crash, Accepted, TypeOK
<1>14. CASE Tick
  <2>1. \A w \in Worker : work'[w].issue = work[w].issue
    BY <1>14 DEF Tick, TypeOK, Work
  <2>2. QED  BY <1>14, <2>1 DEF Tick, OwnRequest
<1>15. ASSUME NEW w \in Worker, GiveUp(w) PROVE OwnRequest'
  BY <1>2, <1>15 DEF GiveUp
<1>16. ASSUME NEW w \in Worker, ReleaseRead(w) PROVE OwnRequest'
  BY <1>2, <1>6, <1>16 DEF ReleaseRead
<1>17. QED
  BY <1>1, <1>4, <1>5, <1>6, <1>7, <1>8, <1>9, <1>10, <1>11, <1>12, <1>13, <1>14,
     <1>15, <1>16
     DEF Next, vars, ClaimByInsert, ClaimByUpdate, SubmitFail, AbortNext,
         AbortResult, ReleaseCommit, ChangeIssue, BumpGeneration, Clear

\* Whoever stops working on an issue leaves it without a lease, or leaves
\* the lease of somebody else.
LEMMA StepLeased == TypeInv /\ LeaseInv /\ [Next]_vars => Leased'
<1> SUFFICES ASSUME TypeInv, LeaseInv, [Next]_vars PROVE Leased'
  OBVIOUS
<1> USE DEF TypeInv, env
<1>1. ASSUME NEW w \in Worker, crashes' = crashes,
             \A v \in Worker \ {w} : /\ pc'[v] = pc[v] /\ work'[v] = work[v]
                                     /\ held'[v] = held[v],
             \A i \in Issue : row'[i].lease # NoLease =>
                 \/ Holds(w, i)'
                 \/ /\ row[i].lease # NoLease /\ row'[i].id = row[i].id
                    /\ ~Holds(w, i)
      PROVE  Leased'
  <2> SUFFICES ASSUME crashes = 0, NEW i \in Issue, row'[i].lease # NoLease, ~Holds(w, i)'
               PROVE  \E u \in Worker : Holds(u, i)'
    BY <1>1 DEF Leased
  <2>1. row[i].lease # NoLease /\ row'[i].id = row[i].id /\ ~Holds(w, i)
    BY <1>1
  <2>2. PICK u \in Worker : Holds(u, i)
    BY <2>1 DEF LeaseInv, Leased
  <2>3. u # w
    BY <2>1, <2>2
  <2>4. QED  BY <1>1, <2>1, <2>2, <2>3 DEF Holds
<1>2. ASSUME crashes' = crashes, UNCHANGED <<pc, held>>,
             \A v \in Worker : work'[v].issue = work[v].issue,
             \A i \in Issue : row'[i].lease # NoLease =>
                 row[i].lease # NoLease /\ row'[i].id = row[i].id
      PROVE  Leased'
  BY <1>2 DEF LeaseInv, Leased, Holds
<1>3. ASSUME NEW w \in Worker, pc[w] \in {"idle", "selecting"}, UNCHANGED <<row, crashes>>,
             \A v \in Worker \ {w} : /\ pc'[v] = pc[v] /\ work'[v] = work[v]
                                     /\ held'[v] = held[v]
      PROVE  Leased'
  BY <1>1, <1>3 DEF Holds
<1>4. ASSUME NEW w \in Worker, NextSelect(w) PROVE Leased'
  BY <1>3, <1>4 DEF NextSelect, TypeOK
<1>5. ASSUME NEW w \in Worker, NextLock(w) PROVE Leased'
  BY <1>3, <1>5 DEF NextLock, TypeOK
<1>6. ASSUME NEW w \in Worker, NotClaimed(w), UNCHANGED <<row, env>>, pc[w] = "claiming"
      PROVE  Leased'
  <2>1. \A i \in Issue : ~Holds(w, i)
    BY <1>6 DEF Holds
  <2>2. QED  BY <1>1, <1>6, <2>1 DEF NotClaimed, TypeOK
<1>7. ASSUME NEW w \in Worker, Claimed(w), UNCHANGED env, pc[w] = "claiming",
             \A j \in Issue : row'[j] = row[j] \/ j = work[w].issue
                                \/ row'[j].lease = NoLease
      PROVE  Leased'
  <2>1. \A i \in Issue : ~Holds(w, i)
    BY <1>7 DEF Holds
  <2>2. work'[w].issue = work[w].issue /\ pc'[w] = "evaluating"
    BY <1>7 DEF Claimed, TypeOK, Work
  <2>3. Holds(w, work[w].issue)'
    BY <2>2 DEF Holds
  <2>4. QED  BY <1>1, <1>7, <2>1, <2>3 DEF Claimed, TypeOK
<1>8. ASSUME NEW w \in Worker, ClaimByInsert(w) PROVE Leased'
  <2>1. \A j \in Issue : row'[j] = row[j] \/ j = work[w].issue
    BY <1>8 DEF ClaimByInsert, TypeOK
  <2>2. QED  BY <1>6, <1>7, <1>8, <2>1 DEF ClaimByInsert
<1>9. ASSUME NEW w \in Worker, ClaimByUpdate(w) PROVE Leased'
  <2>1. \A j \in Issue : row'[j] = row[j] \/ j = work[w].issue
    BY <1>9 DEF ClaimByUpdate, TypeOK
  <2>2. QED  BY <1>6, <1>7, <1>9, <2>1 DEF ClaimByUpdate
<1>10. ASSUME NEW w \in Worker, UNCHANGED <<row, crashes, held>>,
              pc[w] \in {"evaluating", "submitting"},
              pc'[w] \in {"evaluating", "submitting", "releasing"}, UNCHANGED work,
              \A v \in Worker \ {w} : pc'[v] = pc[v]
       PROVE  Leased'
  BY <1>1, <1>10 DEF Holds
<1>11. ASSUME NEW w \in Worker, Finish(w) PROVE Leased'
  BY <1>10, <1>11 DEF Finish, TypeOK
<1>12. ASSUME NEW w \in Worker, GiveUp(w) PROVE Leased'
  BY <1>10, <1>12 DEF GiveUp, TypeOK
<1>13. ASSUME NEW w \in Worker, pc[w] = "submitting", RetryOrRefuse(w) \/ Refused(w),
              UNCHANGED <<row, crashes, held>>
       PROVE  Leased'
  <2>1. UNCHANGED work /\ pc' \in {pc, [pc EXCEPT ![w] = "releasing"]}
    BY <1>13 DEF RetryOrRefuse, Refused
  <2>2. QED  BY <1>10, <1>13, <2>1 DEF TypeOK
<1>14. ASSUME NEW w \in Worker, SubmitTimeout(w) PROVE Leased'
  BY <1>13, <1>14 DEF SubmitTimeout
<1>15. ASSUME NEW w \in Worker, NEW k \in Attempt, Fail500(w, k),
              UNCHANGED <<row, crashes, held>>
       PROVE  Leased'
  <2>1. CASE Awaited(w, k)
    BY <1>13, <1>15, <2>1 DEF Fail500, Awaited
  <2>2. CASE ~Awaited(w, k)
    BY <1>2, <1>15, <2>2 DEF Fail500
  <2>3. QED  BY <2>1, <2>2
<1>16. ASSUME NEW w \in Worker, NEW k \in Attempt, SubmitRead(w, k) PROVE Leased'
  <2>1. \/ UNCHANGED <<pc, work, attempt>>
        \/ Awaited(w, k) /\ Refused(w)
    BY <1>16 DEF SubmitRead
  <2>2. UNCHANGED <<row, crashes, held>>
    BY <1>16 DEF SubmitRead
  <2>3. QED  BY <1>2, <1>13, <2>1, <2>2 DEF Awaited
<1>17. ASSUME NEW w \in Worker, NEW k \in Attempt, SubmitCommit(w, k) PROVE Leased'
  <2> DEFINE s == sub[w][k]
  <2>1. CASE Fail500(w, k) /\ UNCHANGED row
    BY <1>15, <1>17, <2>1 DEF SubmitCommit
  <2>2. CASE /\ row' = [row EXCEPT ![s.issue] = Result(NewId, s)]
             /\ IF Awaited(w, k) THEN Accepted(w) ELSE UNCHANGED <<pc, work, attempt>>
    <3>1. s.issue \in Issue /\ s.phase # "none" /\ UNCHANGED <<held, crashes>>
      BY <1>17 DEF SubmitCommit, Bound
    <3>2. /\ row'[s.issue].lease = NoLease
          /\ \A j \in Issue \ {s.issue} : row'[j] = row[j]
      BY <2>2, <3>1 DEF TypeOK, Result
    <3> HIDE DEF s
    <3>3. CASE Awaited(w, k)
      <4>1. work[w].issue = s.issue
        BY <3>1, <3>3 DEF s, Awaited, LeaseInv, OwnRequest
      <4>2. \A j \in Issue \ {s.issue} : ~Holds(w, j)
        BY <4>1 DEF Holds
      <4>3. \A v \in Worker \ {w} : pc'[v] = pc[v] /\ work'[v] = work[v]
        BY <2>2, <3>3 DEF Accepted, TypeOK
      <4>4. QED  BY <1>1, <3>1, <3>2, <4>2, <4>3
    <3>4. CASE ~Awaited(w, k)
      BY <1>2, <2>2, <3>1, <3>2, <3>4
    <3>5. QED  BY <3>3, <3>4
  <2>3. QED  BY <1>17, <2>1, <2>2 DEF SubmitCommit
<1>18. ASSUME NEW w \in Worker, ReleaseRead(w) PROVE Leased'
  <2> DEFINE i == work[w].issue
  <2>1. i \in Issue /\ pc[w] = "releasing" /\ UNCHANGED <<row, crashes>>
    BY <1>18 DEF ReleaseRead, Bound
  <2>2. \A j \in Issue \ {i} : ~Holds(w, j)
    BY DEF Holds
  <2>3. CASE row[i].kind = "none"
    <3>1. row[i].lease = NoLease
      BY <2>1, <2>3 DEF LeaseInv, RowsWellFormed, WellFormed
    <3>2. NotClaimed(w)
      BY <1>18, <2>3 DEF ReleaseRead
    <3>3. QED  BY <1>1, <2>1, <2>2, <3>1, <3>2 DEF NotClaimed, TypeOK
  <2>4. CASE row[i].kind # "none"
    <3>1. /\ held' = [held EXCEPT ![w] = row[i]] /\ pc' = [pc EXCEPT ![w] = "freeing"]
          /\ UNCHANGED work
      BY <1>18, <2>4 DEF ReleaseRead
    <3>2. row[i].lease # NoLease => Holds(w, i)'
      BY <2>1, <3>1 DEF Holds, TypeOK
    <3>3. QED  BY <1>1, <2>1, <2>2, <3>1, <3>2 DEF TypeOK
  <2>5. QED  BY <2>3, <2>4
<1>19. ASSUME NEW w \in Worker, ReleaseCommit(w) PROVE Leased'
  <2> DEFINE i == work[w].issue
  <2>1. NotClaimed(w) /\ crashes' = crashes /\ pc[w] = "freeing" /\ i \in Issue
    BY <1>19 DEF ReleaseCommit, Bound
  <2>2. \A j \in Issue \ {i} : row'[j] = row[j] /\ ~Holds(w, j)
    BY <1>19 DEF ReleaseCommit, Holds, TypeOK
  <2>3. CASE row[i].id = held[w].id /\ held[w].lease # NoLease
    <3>1. row'[i] = Freed(row[i])
      BY <1>19, <2>1, <2>3 DEF ReleaseCommit, TypeOK
    <3>2. row'[i].lease = NoLease
      BY <2>1, <3>1, FreedFacts DEF TypeOK
    <3>3. QED  BY <1>1, <2>1, <2>2, <3>2 DEF NotClaimed, TypeOK
  <2>4. CASE ~(row[i].id = held[w].id /\ held[w].lease # NoLease)
    <3>1. UNCHANGED row
      BY <1>19, <2>4 DEF ReleaseCommit
    <3>2. ~Holds(w, i)
      BY <2>1, <2>4 DEF Holds
    <3>3. QED  BY <1>1, <2>1, <2>2, <3>1, <3>2 DEF NotClaimed, TypeOK
  <2>5. QED  BY <2>3, <2>4
<1>20. ASSUME NEW i \in Issue, Clear(i) PROVE Leased'
  <2>1. \A j \in Issue : row'[j].lease # NoLease => row'[j] = row[j]
    BY <1>20 DEF Clear, TypeOK, NoRow
  <2>2. QED  BY <1>2, <1>20, <2>1 DEF Clear
<1>21. ASSUME NEW w \in Worker, Crash(w) PROVE Leased'
  BY <1>21 DEF Crash, Leased, TypeOK
<1>22. CASE Tick
  <2>1. \A w \in Worker : work'[w].issue = work[w].issue
    BY <1>22 DEF Tick, TypeOK, Work
  <2>2. \A j \in Issue : row'[j].lease # NoLease =>
           row[j].lease # NoLease /\ row'[j].id = row[j].id
    BY <1>22, TickRows DEF SameButLease, TickDown, NoLease
  <2>3. QED  BY <1>2, <1>22, <2>1, <2>2 DEF Tick
<1>23. CASE UNCHANGED <<row, pc, work, held, crashes>>
  BY <1>2, <1>23
<1>24. ASSUME NEW v \in Worker, NEW w \in Worker, NEW k \in Attempt,
              AbortNext(v, w, k) \/ AbortResult(v, w, k)
       PROVE  Leased'
  BY <1>6, <1>15, <1>24 DEF AbortNext, AbortResult, Deadlocked
<1>25. QED
  BY <1>4, <1>5, <1>8, <1>9, <1>11, <1>12, <1>14, <1>15, <1>16, <1>17, <1>18, <1>19,
     <1>20, <1>21, <1>22, <1>23, <1>24
     DEF Next, vars, SubmitFail, SubmitDemote, ChangeIssue, BumpGeneration

\* The three parts of LeaseInv are inductive together.
LEMMA StepLeaseInv == TypeInv /\ LeaseInv /\ [Next]_vars => LeaseInv'
BY StepWellFormed, StepOwnRequest, StepLeased DEF LeaseInv

\* Without crashes, a lease is always the claim of a worker still at it.
THEOREM ClaimsKept == Spec => []NoLeakedClaim
<1>1. LeaseInv => NoLeakedClaim
  BY DEF LeaseInv, Leased, NoLeakedClaim, Holds, Active
<1>2. QED  BY InitTyped, StepTyped, InitLeased, StepLeaseInv, <1>1, PTL DEF Spec

-----------------------------------------------------------------------------
(* The refinement: every step of the queue is a step of EvaluationStore or *)
(* changes nothing the store shows.                                        *)

\* Rows and requests that show the same to the store leave it as it is.
LEMMA StoredSame ==
    ASSUME \A i \in Issue : StoredVersions(row'[i]) = StoredVersions(row[i])
    PROVE  StoreStored' = StoreStored
BY DEF StoreStored

LEMMA AcceptedSame ==
    ASSUME \A w \in Worker, k \in Attempt :
              AcceptedEvaluations(sub'[w][k]) = AcceptedEvaluations(sub[w][k])
    PROVE  StoreAccepted' = StoreAccepted
BY DEF StoreAccepted, Slots

LEMMA ContentSame ==
    ASSUME UNCHANGED issue
    PROVE  StoreContent' = StoreContent
BY DEF StoreContent, HashOf

\* A lease is not part of a stored version.
LEMMA LeaseInvisible ==
    ASSUME NEW r, NEW s, SameButLease(r, s)
    PROVE  StoredVersions(r) = StoredVersions(s)
BY DEF SameButLease, StoredVersions

\* One request that shows something new is one slot that changes.
LEMMA SlotChanged ==
    ASSUME NEW w \in Worker, NEW k \in Attempt, NEW x,
           \A v \in Worker, j \in Attempt :
              AcceptedEvaluations(sub'[v][j]) =
                 IF v = w /\ j = k THEN x ELSE AcceptedEvaluations(sub[v][j])
    PROVE  StoreAccepted' = [StoreAccepted EXCEPT ![<<w, k>>] = x]
<1>1. ASSUME NEW r \in Slots
      PROVE  AcceptedEvaluations(sub'[r[1]][r[2]]) =
                [StoreAccepted EXCEPT ![<<w, k>>] = x][r]
  <2>1. PICK v \in Worker, j \in Attempt : r = <<v, j>>
    BY DEF Slots
  <2>2. r[1] = v /\ r[2] = j
    BY <2>1
  <2>3. CASE v = w /\ j = k
    BY <2>1, <2>2, <2>3 DEF StoreAccepted
  <2>4. CASE ~(v = w /\ j = k)
    <3>1. r # <<w, k>>
      BY <2>1, <2>4
    <3>2. [StoreAccepted EXCEPT ![<<w, k>>] = x][r] = StoreAccepted[r]
      BY <3>1 DEF StoreAccepted
    <3>3. QED  BY <2>2, <2>4, <3>2 DEF StoreAccepted
  <2>5. QED  BY <2>3, <2>4
<1>2. StoreAccepted' = [r \in Slots |-> AcceptedEvaluations(sub'[r[1]][r[2]])]
  BY DEF StoreAccepted, Slots
<1>3. QED  BY <1>1, <1>2 DEF StoreAccepted

\* The request that answers 5xx, and the one sent in its place, show nothing.
LEMMA FailDrops ==
    ASSUME TypeInv, NEW w \in Worker, NEW k \in Attempt, Fail500(w, k),
           Awaited(w, k) /\ k < MaxAttempts => sub[w][k + 1].phase = "none",
           UNCHANGED <<issue, row>>
    PROVE  Abstract!Drop(<<w, k>>)
<1>1. sub \in [Worker -> [Attempt -> Submission]]
  BY DEF TypeInv, TypeOK
<1>2. sub' = [sub EXCEPT ![w] = Resend(w, k)]
  BY DEF Fail500
<1>3. ASSUME NEW v \in Worker, NEW j \in Attempt
      PROVE  AcceptedEvaluations(sub'[v][j]) =
                IF v = w /\ j = k THEN {} ELSE AcceptedEvaluations(sub[v][j])
  <2>1. CASE v # w
    BY <1>1, <1>2, <2>1
  <2>2. CASE v = w /\ j = k
    <3>1. sub'[v][j] = NoSub
      BY <1>1, <1>2, <2>2, ConstantsAssumption DEF Resend, Attempt
    <3>2. QED  BY <2>2, <3>1 DEF AcceptedEvaluations, NoSub
  <2>3. CASE v = w /\ j # k
    <3>1. CASE Awaited(w, k) /\ k < MaxAttempts /\ j = k + 1
      <4>1. sub'[v][j] = Request(w)
        BY <1>1, <1>2, <2>3, <3>1, ConstantsAssumption DEF Resend, Attempt
      <4>2. QED  BY <2>3, <3>1, <4>1 DEF AcceptedEvaluations, Request, NoSub
    <3>2. CASE ~(Awaited(w, k) /\ k < MaxAttempts /\ j = k + 1)
      <4>1. sub'[v][j] = sub[v][j]
        BY <1>1, <1>2, <2>3, <3>2, ConstantsAssumption DEF Resend, Attempt
      <4>2. QED  BY <2>3, <4>1
    <3>3. QED  BY <3>1, <3>2
  <2>4. QED  BY <2>1, <2>2, <2>3
<1>4. StoreAccepted' = [StoreAccepted EXCEPT ![<<w, k>>] = {}]
  BY <1>3, SlotChanged
<1>5. StoreContent' = StoreContent /\ StoreStored' = StoreStored
  BY ContentSame, StoredSame
<1>6. QED  BY <1>4, <1>5 DEF Abstract!Drop
\* A queue starts as a store with nothing accepted.
LEMMA InitRefines == Init => Abstract!StoreInit
<1> SUFFICES ASSUME Init PROVE Abstract!StoreInit
  OBVIOUS
<1>1. TypeInv
  BY InitTyped
<1>2. StoreContent \in [Issue -> Abstract!Version]
  <2>1. ASSUME NEW i \in Issue
        PROVE  [hash |-> HashOf(issue[i]), gen |-> issue[i].gen] \in Abstract!Version
    BY <1>1, HashTypes DEF TypeInv, TypeOK, IssueRecord, Abstract!Version
  <2>2. QED  BY <2>1 DEF StoreContent
<1>3. StoreStored \in [Issue -> SUBSET Abstract!Version]
  <2>1. ASSUME NEW i \in Issue
        PROVE  StoredVersions(row[i]) \subseteq Abstract!Version
    BY <1>1 DEF TypeInv, TypeOK, StoredVersions, Row, Seen, Hashes, Abstract!Version
  <2>2. QED  BY <2>1 DEF StoreStored
<1>4. \A i \in Issue : \A u, v \in StoreStored[i] : u = v
  BY DEF StoreStored, StoredVersions
<1>5. StoreAccepted = [r \in Slots |-> {}]
  <2>1. ASSUME NEW r \in Slots PROVE AcceptedEvaluations(sub[r[1]][r[2]]) = {}
    BY DEF Init, Slots, AcceptedEvaluations, NoSub
  <2>2. QED  BY <2>1 DEF StoreAccepted
<1>6. QED  BY <1>2, <1>3, <1>4, <1>5 DEF Abstract!StoreInit

\* Steps of /next, of the worker, of /release and of time are invisible.
LEMMA Invisible ==
    ASSUME UNCHANGED issue,
           \A i \in Issue : StoredVersions(row'[i]) = StoredVersions(row[i]),
           \A w \in Worker, k \in Attempt :
              AcceptedEvaluations(sub'[w][k]) = AcceptedEvaluations(sub[w][k])
    PROVE  UNCHANGED Abstract!storeVars
BY ContentSame, StoredSame, AcceptedSame DEF Abstract!storeVars

\* A request is accepted as an evaluation of what the issue contains.
LEMMA ReadAccepts ==
    ASSUME TypeInv, NEW w \in Worker, NEW k \in Attempt, SubmitRead(w, k)
    PROVE  \/ Abstract!Accept(<<w, k>>, sub[w][k].issue)
           \/ UNCHANGED Abstract!storeVars
<1> DEFINE s == sub[w][k]
<1>1. s \in Submission /\ s.issue \in Issue /\ s.phase = "sent"
  BY DEF TypeInv, TypeOK, Bound, SubmitRead
<1>2. UNCHANGED <<issue, row>>
  BY DEF SubmitRead
<1>3. CASE SameContent(s)
  <2> DEFINE t == [s EXCEPT !.phase = "embedding", !.hash = HashOf(issue[s.issue]),
                            !.gen = issue[s.issue].gen, !.open = issue[s.issue].open]
             e == [issue |-> s.issue, of |-> StoreContent[s.issue]]
  <2>1. sub' = [sub EXCEPT ![w][k] = t]
    BY <1>3 DEF SubmitRead
  <2>2. AcceptedEvaluations(t) = {e}
    BY <1>1, <1>3 DEF SameContent, AcceptedEvaluations, StoreContent, Submission
  <2>3. AcceptedEvaluations(s) = {}
    BY <1>1 DEF AcceptedEvaluations
  <2>4. ASSUME NEW v \in Worker, NEW j \in Attempt
        PROVE  AcceptedEvaluations(sub'[v][j]) =
                  IF v = w /\ j = k THEN {e} ELSE AcceptedEvaluations(sub[v][j])
    <3>1. CASE v = w /\ j = k
      <4>1. sub'[v][j] = t
        BY <2>1, <3>1 DEF TypeInv, TypeOK
      <4>2. QED  BY <2>2, <3>1, <4>1
    <3>2. CASE ~(v = w /\ j = k)
      <4>1. sub'[v][j] = sub[v][j]
        BY <2>1, <3>2 DEF TypeInv, TypeOK
      <4>2. QED  BY <3>2, <4>1
    <3>3. QED  BY <3>1, <3>2
  <2>5. StoreAccepted' = [StoreAccepted EXCEPT ![<<w, k>>] = {e}]
    BY <2>4, SlotChanged
  <2>6. StoreAccepted[<<w, k>>] = {}
    BY <2>3 DEF StoreAccepted, Slots
  <2>7. StoreContent' = StoreContent /\ StoreStored' = StoreStored
    BY <1>2, ContentSame, StoredSame
  <2>8. QED  BY <2>5, <2>6, <2>7 DEF Abstract!Accept
<1>4. CASE ~SameContent(s)
  <2>1. sub' = [sub EXCEPT ![w][k] = NoSub]
    BY <1>4 DEF SubmitRead
  <2>2. ASSUME NEW v \in Worker, NEW j \in Attempt
        PROVE  AcceptedEvaluations(sub'[v][j]) = AcceptedEvaluations(sub[v][j])
    BY <1>1, <2>1 DEF TypeInv, TypeOK, AcceptedEvaluations, NoSub
  <2>3. QED  BY <1>2, <2>2, Invisible
<1>5. QED  BY <1>3, <1>4

\* The commit of a result stores what was accepted, or drops it.
LEMMA CommitStores ==
    ASSUME TypeInv, Stored, NEW w \in Worker, NEW k \in Attempt, SubmitCommit(w, k)
    PROVE  Abstract!Store(<<w, k>>) \/ Abstract!Drop(<<w, k>>)
<1> DEFINE s == sub[w][k]
           i == s.issue
<1>1. s \in Submission /\ i \in Issue /\ s.phase = "demoted" /\ UNCHANGED issue
  BY DEF TypeInv, TypeOK, Bound, SubmitCommit
<1>2. CASE Fail500(w, k) /\ UNCHANGED row
            /\ (Awaited(w, k) /\ k < MaxAttempts => sub[w][k + 1].phase = "none")
  BY <1>1, <1>2, FailDrops
<1>3. CASE /\ FreshIds # {}
           /\ row' = [row EXCEPT ![i] = Result(NewId, s)]
           /\ sub' = [sub EXCEPT ![w][k] = NoSub]
  <2> DEFINE e == [issue |-> i, of |-> [hash |-> s.saw.hash, gen |-> s.gen]]
  <2>1. AcceptedEvaluations(s) = {e}
    BY <1>1 DEF AcceptedEvaluations
  <2>2. StoredVersions(Result(NewId, s)) = {e.of}
    BY <1>1 DEF StoredVersions, Result, StampedGeneration
  <2>3. StoreStored' = [StoreStored EXCEPT ![i] = {e.of}]
    BY <1>1, <1>3, <2>2 DEF StoreStored, TypeInv, TypeOK
  <2>4. ASSUME NEW v \in Worker, NEW j \in Attempt
        PROVE  AcceptedEvaluations(sub'[v][j]) =
                  IF v = w /\ j = k THEN {} ELSE AcceptedEvaluations(sub[v][j])
    BY <1>3 DEF TypeInv, TypeOK, AcceptedEvaluations, NoSub
  <2>5. StoreAccepted' = [StoreAccepted EXCEPT ![<<w, k>>] = {}]
    BY <2>4, SlotChanged
  <2>6. e \in StoreAccepted[<<w, k>>]
    BY <2>1 DEF StoreAccepted, Slots
  <2>7. StoreContent' = StoreContent
    BY <1>1, ContentSame
  <2>8. QED  BY <2>3, <2>5, <2>6, <2>7 DEF Abstract!Store
<1>4. QED  BY <1>2, <1>3 DEF SubmitCommit

\* Collectors and scanner change the content, /clear deletes.
LEMMA WorldRefines ==
    ASSUME TypeInv, NEW i \in Issue, ChangeIssue(i) \/ BumpGeneration(i) \/ Clear(i)
    PROVE  Abstract!Change(i) \/ Abstract!Delete(i)
<1>1. TypeInv'
  BY StepTyped DEF Next
<1>2. CASE ChangeIssue(i) \/ BumpGeneration(i)
  <2>1. /\ StoreStored' = StoreStored /\ StoreAccepted' = StoreAccepted
        /\ \A j \in Issue : j # i => issue'[j] = issue[j]
    BY <1>2 DEF ChangeIssue, BumpGeneration, env, StoreStored, StoreAccepted,
                TypeInv, TypeOK
  <2>2. issue'[i] \in IssueRecord
    BY <1>1 DEF TypeInv, TypeOK
  <2>3. StoreContent'[i] \in Abstract!Version
    BY <2>2 DEF StoreContent, Abstract!Version, IssueRecord, HashOf, Hashes
  <2>4. StoreContent' = [StoreContent EXCEPT ![i] = StoreContent'[i]]
    BY <2>1 DEF StoreContent, HashOf
  <2>5. QED  BY <2>1, <2>3, <2>4 DEF Abstract!Change
<1>3. CASE Clear(i)
  <2>1. StoreContent' = StoreContent /\ StoreAccepted' = StoreAccepted
    BY <1>3 DEF Clear, StoreContent, StoreAccepted, HashOf
  <2>2. StoreStored' = [StoreStored EXCEPT ![i] = {}]
    BY <1>3 DEF Clear, StoreStored, StoredVersions, NoRow, TypeInv, TypeOK
  <2>3. QED  BY <2>1, <2>2 DEF Abstract!Delete
<1>4. QED  BY <1>2, <1>3

\* Every step of the queue is one of the store, or invisible.
LEMMA StepRefines ==
    TypeInv /\ Stored /\ [Next]_vars => [Abstract!StoreNext]_Abstract!storeVars
<1> SUFFICES ASSUME TypeInv, Stored, [Next]_vars
             PROVE  Abstract!StoreNext \/ UNCHANGED Abstract!storeVars
  OBVIOUS
<1>1. \A w \in Worker, k \in Attempt : <<w, k>> \in Slots
  BY DEF Slots
<1>2. CASE UNCHANGED vars
  BY <1>2, Invisible DEF vars
<1>3. ASSUME NEW w \in Worker,
             \/ NextSelect(w) \/ NextLock(w) \/ GiveUp(w) \/ Crash(w) \/ ReleaseRead(w)
      PROVE  UNCHANGED Abstract!storeVars
  BY <1>3, Invisible DEF NextSelect, NextLock, GiveUp, Crash, ReleaseRead
<1>4. ASSUME NEW w \in Worker, ClaimByInsert(w) PROVE UNCHANGED Abstract!storeVars
  <2>1. ASSUME NEW i \in Issue PROVE StoredVersions(row'[i]) = StoredVersions(row[i])
    BY <1>4 DEF ClaimByInsert, StoredVersions, Pending, NoRow, TypeInv, TypeOK
  <2>2. QED  BY <1>4, <2>1, Invisible DEF ClaimByInsert
<1>5. ASSUME NEW w \in Worker, ClaimByUpdate(w) PROVE UNCHANGED Abstract!storeVars
  BY <1>5, ClaimRows, LeaseInvisible, Invisible DEF ClaimByUpdate
<1>6. ASSUME NEW w \in Worker, ReleaseCommit(w) PROVE UNCHANGED Abstract!storeVars
  <2>1. ASSUME NEW i \in Issue PROVE StoredVersions(row'[i]) = StoredVersions(row[i])
    BY <1>6, ReleaseRows DEF SameButLease, StoredVersions, NoRow
  <2>2. QED  BY <1>6, <2>1, Invisible DEF ReleaseCommit
<1>7. ASSUME NEW w \in Worker, Finish(w) \/ SubmitTimeout(w)
      PROVE  UNCHANGED Abstract!storeVars
  <2>1. ASSUME NEW v \in Worker, NEW j \in Attempt
        PROVE  AcceptedEvaluations(sub'[v][j]) = AcceptedEvaluations(sub[v][j])
    <3>1. \/ sub'[v][j] = sub[v][j]
          \/ sub[v][j].phase = "none" /\ sub'[v][j] = Request(w)
      BY <1>7 DEF Finish, SubmitTimeout, Send, TypeInv, TypeOK
    <3>2. Request(w).phase = "sent"
      BY DEF Request, NoSub
    <3>3. QED  BY <3>1, <3>2 DEF AcceptedEvaluations
  <2>2. QED  BY <1>7, <2>1, Invisible DEF Finish, SubmitTimeout
<1>8. ASSUME NEW w \in Worker, NEW k \in Attempt, SubmitDemote(w, k)
      PROVE  UNCHANGED Abstract!storeVars
  <2>1. ASSUME NEW v \in Worker, NEW j \in Attempt
        PROVE  AcceptedEvaluations(sub'[v][j]) = AcceptedEvaluations(sub[v][j])
    <3> DEFINE d == [sub[w][k] EXCEPT !.phase = "demoted",
                                      !.target = row[sub[w][k].issue].id]
    <3>1. sub[w][k] \in Submission /\ sub[w][k].phase = "embedding"
      BY <1>8 DEF SubmitDemote, TypeInv, TypeOK
    <3>2. AcceptedEvaluations(d) = AcceptedEvaluations(sub[w][k])
      BY <3>1 DEF AcceptedEvaluations, Submission
    <3>3. sub'[v][j] = sub[v][j] \/ (v = w /\ j = k /\ sub'[v][j] = d)
      BY <1>8 DEF SubmitDemote, TypeInv, TypeOK
    <3>4. QED  BY <3>2, <3>3
  <2>2. QED  BY <1>8, <2>1, Invisible DEF SubmitDemote
<1>9. ASSUME NEW v \in Worker, NEW w \in Worker, NEW k \in Attempt, AbortNext(v, w, k)
      PROVE  UNCHANGED Abstract!storeVars
  BY <1>9, Invisible DEF AbortNext
<1>10. ASSUME NEW v \in Worker, NEW w \in Worker, NEW k \in Attempt,
              SubmitFail(w, k) \/ AbortResult(v, w, k)
       PROVE  Abstract!Drop(<<w, k>>)
  BY <1>10, FailDrops DEF SubmitFail, AbortResult
<1>11. CASE Tick
  BY <1>11, TickRows, LeaseInvisible, Invisible DEF Tick
<1>12. ASSUME NEW w \in Worker, NEW k \in Attempt, SubmitRead(w, k)
       PROVE  Abstract!StoreNext \/ UNCHANGED Abstract!storeVars
  BY <1>1, <1>12, ReadAccepts DEF Abstract!StoreNext, TypeInv, Bound, SubmitRead
<1>13. QED
  BY <1>1, <1>2, <1>3, <1>4, <1>5, <1>6, <1>7, <1>8, <1>9, <1>10, <1>11, <1>12,
     CommitStores, WorldRefines DEF Next, Abstract!StoreNext

\* The queue implements the store of evaluations, with any number of workers,
\* issues, attempts and ticks.
THEOREM QueueImplementsStore == Spec => ImplementsStore
<1>1. QED
  BY InitRefines, InitTyped, InitStored, StepTyped, StepStored, StepRefines,
     PTL DEF Spec, ImplementsStore, Abstract!StoreSpec
=============================================================================
