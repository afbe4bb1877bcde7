--------------------------- MODULE EvaluationProofs ---------------------------
(***************************************************************************)
(* What an evaluation goes through, for any number of coroutines, issues,  *)
(* callers, reads and syncs: the tool context, the token budget, the       *)
(* handshake, the bounds of a read, and the care for a good mirror.  Each  *)
(* part has its inductive invariant; they share no state.                  *)
(***************************************************************************)
EXTENDS MCEvaluation, FiniteSetTheorems, TLAPS

(* The mirror of a project *)

Sync == [at : {"out", "configure", "fetch", "check", "remove", "clone", "configureClone"},
         saw : Nat, late : BOOLEAN]

\* What a sync is about to remove is no good mirror, unless the check timed
\* out or a clone has been born since: clones are numbered.
MirrorInv ==
    /\ dir \in {"absent", "broken", "bare"} /\ birth \in Nat /\ reflogs \in BOOLEAN
    /\ sync \in [Syncer -> Sync]
    /\ status \in [Syncer -> {"none", "fetched", "cloned", "skipped", "raised"}]
    /\ reflogs => dir # "absent"
    /\ \A s \in Syncer :
          sync[s].at = "remove" =>
             /\ sync[s].saw <= birth
             /\ dir = "bare" => sync[s].late \/ sync[s].saw # birth

LEMMA MirrorBegins == MirrorInit => MirrorInv
<1> SUFFICES ASSUME MirrorInit PROVE MirrorInv
  OBVIOUS
<1>1. Away \in Sync
  BY DEF Away, Sync
<1>2. \A s \in Syncer : sync[s].at = "out"
  BY DEF MirrorInit, Away
<1> QED
  BY <1>1, <1>2 DEF MirrorInit, MirrorInv

LEMMA SyncGoes ==
  ASSUME NEW s \in Syncer, sync \in [Syncer -> Sync],
         NEW where \in {"out", "configure", "fetch", "check", "clone", "configureClone"},
         Goes(s, where)
  PROVE  /\ sync' \in [Syncer -> Sync]
         /\ \A r \in Syncer : sync'[r].at = "remove" => sync'[r] = sync[r]
BY DEF Goes, Sync

LEMMA SyncReturns ==
  ASSUME NEW s \in Syncer, sync \in [Syncer -> Sync], NEW outcome, Returns(s, outcome),
         status \in [Syncer -> {"none", "fetched", "cloned", "skipped", "raised"}],
         outcome \in {"none", "fetched", "cloned", "skipped", "raised"}
  PROVE  /\ sync' \in [Syncer -> Sync]
         /\ status' \in [Syncer -> {"none", "fetched", "cloned", "skipped", "raised"}]
         /\ \A r \in Syncer : sync'[r].at = "remove" => sync'[r] = sync[r]
<1>1. Away \in Sync /\ Away.at = "out"
  BY DEF Away, Sync
<1> QED
  BY <1>1 DEF Returns

LEMMA MirrorSteps == MirrorInv /\ [MirrorNext]_mirrorVars => MirrorInv'
<1> SUFFICES ASSUME MirrorInv, [MirrorNext]_mirrorVars PROVE MirrorInv'
  OBVIOUS
<1> USE DEF MirrorInv
<1>1. ASSUME NEW s \in Syncer, Enter(s) PROVE MirrorInv'
  BY <1>1, SyncGoes DEF Enter
<1>2. ASSUME NEW s \in Syncer, Configure(s) PROVE MirrorInv'
  <2>1. CASE dir = "bare" /\ reflogs' = TRUE /\ Goes(s, "fetch")
    BY <1>2, <2>1, SyncGoes DEF Configure
  <2>2. CASE Goes(s, "check") /\ UNCHANGED reflogs
    BY <1>2, <2>2, SyncGoes DEF Configure
  <2> QED
    BY <1>2, <2>1, <2>2 DEF Configure
<1>3. ASSUME NEW s \in Syncer, Fetch(s) PROVE MirrorInv'
  BY <1>3, SyncGoes, SyncReturns DEF Fetch
<1>4. ASSUME NEW s \in Syncer, Check(s) PROVE MirrorInv'
  <2>1. CASE Returns(s, "skipped") /\ UNCHANGED <<dir, birth, reflogs>>
    BY <2>1, SyncReturns
  <2>2. ASSUME NEW late \in BOOLEAN, ~late => dir # "bare",
               sync' = [sync EXCEPT ![s] = [at |-> "remove", saw |-> birth, late |-> late]],
               UNCHANGED <<dir, birth, reflogs, status>>
        PROVE  MirrorInv'
    BY <2>2 DEF Sync
  <2> QED
    BY <1>4, <2>1, <2>2 DEF Check, Invalid
<1>5. ASSUME NEW s \in Syncer, Remove(s) PROVE MirrorInv'
  <2>1. CASE dir' = "absent" /\ reflogs' = FALSE /\ Goes(s, "clone") /\ UNCHANGED status
    BY <1>5, <2>1, SyncGoes DEF Remove
  <2>2. CASE Returns(s, "raised") /\ UNCHANGED <<dir, reflogs>>
    BY <1>5, <2>2, SyncReturns DEF Remove
  <2> QED
    BY <1>5, <2>1, <2>2 DEF Remove, Removed
<1>6. ASSUME NEW s \in Syncer, Clone(s) PROVE MirrorInv'
  <2>1. ASSUME dir' \in {"broken", "bare"}, birth' = birth + 1, reflogs' = FALSE,
               /\ sync' \in [Syncer -> Sync]
               /\ status' \in [Syncer -> {"none", "fetched", "cloned", "skipped", "raised"}]
               /\ \A r \in Syncer : sync'[r].at = "remove" => sync'[r] = sync[r]
        PROVE  MirrorInv'
    <3>1. \A r \in Syncer : sync[r].saw \in Nat
      BY DEF Sync
    <3>2. ASSUME NEW r \in Syncer, sync'[r].at = "remove"
          PROVE  sync'[r].saw <= birth' /\ sync'[r].saw # birth'
      <4>1. sync'[r] = sync[r] /\ sync[r].saw <= birth
        BY <2>1, <3>2
      <4> QED
        BY <2>1, <3>1, <4>1
    <3>3. dir' \in {"absent", "broken", "bare"} /\ birth' \in Nat
      BY <2>1
    <3>4. reflogs' \in BOOLEAN /\ (reflogs' => dir' # "absent")
      BY <2>1, Zenon
    <3> QED
      BY <2>1, <3>2, <3>3, <3>4, Zenon
  <2>2. CASE dir' \in {"broken", "bare"} /\ birth' = birth + 1 /\ reflogs' = FALSE
    <3>1. CASE Goes(s, "configureClone") /\ UNCHANGED status
      BY <2>1, <2>2, <3>1, SyncGoes
    <3>2. CASE Returns(s, "skipped")
      BY <2>1, <2>2, <3>2, SyncReturns
    <3> QED
      BY <1>6, <2>2, <3>1, <3>2 DEF Clone
  <2>3. CASE Returns(s, "skipped") /\ UNCHANGED <<dir, birth, reflogs>>
    BY <2>3, SyncReturns
  <2> QED
    BY <1>6, <2>2, <2>3 DEF Clone
<1>7. ASSUME NEW s \in Syncer, ConfigureClone(s) PROVE MirrorInv'
  <2>1. reflogs' = reflogs \/ (reflogs' = TRUE /\ dir = "bare")
    BY <1>7 DEF ConfigureClone
  <2>2. PICK outcome \in {"cloned", "skipped"} : Returns(s, outcome)
    BY <1>7 DEF ConfigureClone
  <2>3. reflogs' \in BOOLEAN /\ (reflogs' => dir # "absent") /\ UNCHANGED <<dir, birth>>
    <3>1. CASE reflogs' = TRUE /\ dir = "bare"
      BY <1>7, <3>1 DEF ConfigureClone
    <3>2. CASE reflogs' = reflogs
      BY <1>7, <3>2 DEF ConfigureClone
    <3> QED
      BY <2>1, <3>1, <3>2
  <2>4. /\ sync' \in [Syncer -> Sync]
        /\ status' \in [Syncer -> {"none", "fetched", "cloned", "skipped", "raised"}]
        /\ \A r \in Syncer : sync'[r].at = "remove" => sync'[r] = sync[r]
    BY <2>2, SyncReturns
  <2> QED
    BY <2>3, <2>4
<1>8. CASE Damage
  BY <1>8 DEF Damage
<1>9. CASE UNCHANGED mirrorVars
  BY <1>9 DEF mirrorVars
<1> QED
  BY <1>1, <1>2, <1>3, <1>4, <1>5, <1>6, <1>7, <1>8, <1>9 DEF MirrorNext

LEMMA MirrorTyped == MirrorInv => MirrorTypeOK
BY DEF MirrorInv, MirrorTypeOK, Sync

-----------------------------------------------------------------------------
(* A read of a mirror *)

Read == [at : {"idle", "draining", "over"}, kept : [Streams -> Nat], open : SUBSET Streams,
         truncated : BOOLEAN, result : {"none", "text", "error", "timeout"}]

Git == [alive : BOOLEAN, left : [Streams -> Nat], pipe : [Streams -> 0..PipeSize],
        wants : Streams, failed : BOOLEAN]

\* The reads that hold a permit.
Draining == {t \in Task : read[t].at = "draining"}

\* Every permit that is gone belongs to a read under way, and only such a
\* read has a git process; its result is decided when it is over.
ReaderInv ==
    /\ read \in [Task -> Read] /\ git \in [Task -> Git]
    /\ permits \in Nat
    /\ IsFiniteSet(Draining) /\ permits + Cardinality(Draining) = Concurrency
    /\ \A t \in Task :
          /\ git[t].alive => read[t].at = "draining"
          /\ read[t].at = "draining" => read[t].result = "none"
          /\ read[t].truncated => read[t].result \in {"none", "text", "timeout"}
          /\ \A s \in Streams : read[t].kept[s] <= Cap(s)

LEMMA Caps == \A s \in Streams : Cap(s) \in Nat \ {0}
BY GitReaderAssumption DEF GitReaderAssumption, Cap

LEMMA EmptyRecords == NoRead \in Read /\ NoGit \in Git
<1>1. Nothing \in [Streams -> Nat] /\ Nothing \in [Streams -> 0..PipeSize]
  BY GitReaderAssumption DEF GitReaderAssumption, Nothing
<1>2. NoRead \in Read
  BY <1>1 DEF NoRead, Read
<1>3. NoGit \in Git
  BY <1>1 DEF NoGit, Git, Streams
<1> QED
  BY <1>2, <1>3

LEMMA ReaderBegins == ReaderInit => ReaderInv
<1> SUFFICES ASSUME ReaderInit PROVE ReaderInv
  OBVIOUS
<1> USE DEF ReaderInit
<1>1. Draining = {}
  BY DEF Draining, NoRead
<1>2. IsFiniteSet(Draining) /\ Cardinality(Draining) = 0
  BY <1>1, FS_EmptySet
<1>3. permits \in Nat /\ permits + Cardinality(Draining) = Concurrency
  BY <1>2, GitReaderAssumption DEF GitReaderAssumption
<1>4. read \in [Task -> Read] /\ git \in [Task -> Git]
  BY EmptyRecords
<1>5. \A t \in Task : ~git[t].alive /\ read[t].at = "idle" /\ ~read[t].truncated
                      /\ \A s \in Streams : read[t].kept[s] = 0
  BY DEF NoRead, NoGit, Nothing
<1>6. \A s \in Streams : 0 <= Cap(s)
  BY Caps
<1> QED
  BY <1>2, <1>3, <1>4, <1>5, <1>6 DEF ReaderInv

\* A step that leaves every read where it stands moves no permit.
LEMMA SamePermits ==
  ASSUME ReaderInv, UNCHANGED permits, \A t \in Task : read'[t].at = read[t].at
  PROVE  /\ permits' \in Nat
         /\ IsFiniteSet(Draining') /\ permits' + Cardinality(Draining') = Concurrency
<1>1. Draining' = Draining
  BY DEF Draining
<1> QED
  BY <1>1 DEF ReaderInv

\* A read that is over gives its permit back.
LEMMA PermitBack ==
  ASSUME ReaderInv, NEW t \in Task, read[t].at = "draining", read'[t].at # "draining",
         \A u \in Task \ {t} : read'[u].at = read[u].at, permits' = permits + 1
  PROVE  /\ permits' \in Nat
         /\ IsFiniteSet(Draining') /\ permits' + Cardinality(Draining') = Concurrency
<1>1. Draining' = Draining \ {t} /\ t \in Draining
  BY DEF Draining
<1>2. IsFiniteSet(Draining) /\ permits \in Nat /\ permits + Cardinality(Draining) = Concurrency
  BY DEF ReaderInv
<1>3. IsFiniteSet(Draining') /\ Cardinality(Draining') = Cardinality(Draining) - 1
  BY <1>1, <1>2, FS_RemoveElement
<1>4. Cardinality(Draining) \in Nat
  BY <1>2, FS_CardinalityType
<1> QED
  BY <1>2, <1>3, <1>4

LEMMA StartStep == ASSUME NEW t \in Task PROVE ReaderInv /\ Start(t) => ReaderInv'
<1> SUFFICES ASSUME ReaderInv, Start(t) PROVE ReaderInv'
  OBVIOUS
<1>1. /\ read' \in [Task -> Read] /\ read'[t].at = "draining" /\ read'[t].result = "none"
      /\ ~read'[t].truncated
      /\ \A s \in Streams : read'[t].kept[s] = 0
      /\ \A u \in Task \ {t} : read'[u] = read[u]
  BY EmptyRecords DEF Start, ReaderInv, Read, NoRead, Nothing
<1>2. git' \in [Task -> Git] /\ \A u \in Task \ {t} : git'[u] = git[u]
  <2>1. PICK o \in 0..MaxOut, e \in 0..MaxErr, w \in Streams, f \in BOOLEAN :
           git' = [git EXCEPT ![t] =
             [NoGit EXCEPT !.alive = TRUE, !.left = [s \in Streams |-> IF s = "out" THEN o ELSE e],
                           !.wants = w, !.failed = f]]
    BY DEF Start
  <2>2. [s \in Streams |-> IF s = "out" THEN o ELSE e] \in [Streams -> Nat]
    BY GitReaderAssumption DEF GitReaderAssumption
  <2>3. [NoGit EXCEPT !.alive = TRUE, !.left = [s \in Streams |-> IF s = "out" THEN o ELSE e],
                      !.wants = w, !.failed = f] \in Git
    BY <2>2, EmptyRecords DEF Git
  <2> QED
    BY <2>1, <2>3 DEF ReaderInv
<1>3. /\ permits' \in Nat
      /\ IsFiniteSet(Draining') /\ permits' + Cardinality(Draining') = Concurrency
  <2>1. Draining' = Draining \cup {t} /\ t \notin Draining
    BY <1>1 DEF Start, Draining
  <2>2. IsFiniteSet(Draining) /\ permits \in Nat /\ permits > 0 /\ permits' = permits - 1
        /\ permits + Cardinality(Draining) = Concurrency
    BY DEF ReaderInv, Start
  <2>3. IsFiniteSet(Draining') /\ Cardinality(Draining') = Cardinality(Draining) + 1
    BY <2>1, <2>2, FS_AddElement
  <2>4. Cardinality(Draining) \in Nat
    BY <2>2, FS_CardinalityType
  <2> QED
    BY <2>2, <2>3, <2>4
<1>4. \A s \in Streams : read'[t].kept[s] <= Cap(s)
  BY <1>1, Caps
<1>5. ASSUME NEW u \in Task
      PROVE  /\ git'[u].alive => read'[u].at = "draining"
             /\ read'[u].at = "draining" => read'[u].result = "none"
             /\ read'[u].truncated => read'[u].result \in {"none", "text", "timeout"}
             /\ \A s \in Streams : read'[u].kept[s] <= Cap(s)
  <2>1. CASE u = t
    BY <1>1, <1>4, <2>1, Zenon
  <2>2. CASE u # t
    <3>1. read'[u] = read[u] /\ git'[u] = git[u]
      BY <1>1, <1>2, <2>2
    <3> QED
      BY <3>1 DEF ReaderInv
  <2> QED
    BY <2>1, <2>2
<1> QED
  BY <1>1, <1>2, <1>3, <1>5 DEF ReaderInv

\* What git does by itself leaves its reader alone.
LEMMA GitSteps == ASSUME NEW t \in Task PROVE ReaderInv /\ GitStep(t) => ReaderInv'
<1> SUFFICES ASSUME ReaderInv, GitStep(t) PROVE ReaderInv'
  OBVIOUS
<1>1. UNCHANGED <<permits, read>> /\ git[t] \in Git
  BY DEF GitStep, Writes, TurnsTo, Exits, ReaderInv
<1>2. git' \in [Task -> Git] /\ (git'[t].alive => git[t].alive)
      /\ \A u \in Task \ {t} : git'[u] = git[u]
  <2>1. CASE Writes(t)
    <3>1. PICK next \in Streams :
             git' = [git EXCEPT ![t].left[git[t].wants] = @ - 1,
                                ![t].pipe[git[t].wants] = @ + 1, ![t].wants = next]
      BY <2>1 DEF Writes
    <3>2. git[t].wants \in Streams /\ git[t].left[git[t].wants] - 1 \in Nat
          /\ git[t].pipe[git[t].wants] + 1 \in 0..PipeSize
      BY <2>1, <1>1, GitReaderAssumption DEF Writes, Git, GitReaderAssumption
    <3> DEFINE g == [git[t] EXCEPT !.left[git[t].wants] = @ - 1,
                                   !.pipe[git[t].wants] = @ + 1, !.wants = next]
    <3>3. g \in Git /\ g.alive = git[t].alive
      BY <3>2, <1>1 DEF Git
    <3>4. git' = [git EXCEPT ![t] = g]
      BY <3>1 DEF ReaderInv
    <3> HIDE DEF g
    <3> QED
      BY <3>3, <3>4 DEF ReaderInv
  <2>2. CASE TurnsTo(t)
    <3> DEFINE n == CHOOSE s \in Streams : git[t].left[s] > 0
    <3>1. n \in Streams
      BY <2>2, <1>1 DEF TurnsTo, Nothing, Git
    <3>2. git' = [git EXCEPT ![t].wants = n]
      BY <2>2 DEF TurnsTo
    <3> HIDE DEF n
    <3> QED
      BY <3>1, <3>2 DEF ReaderInv, Git
  <2>3. CASE Exits(t)
    BY <2>3 DEF Exits, ReaderInv, Git
  <2> QED
    BY <2>1, <2>2, <2>3 DEF GitStep
<1>3. /\ permits' \in Nat
      /\ IsFiniteSet(Draining') /\ permits' + Cardinality(Draining') = Concurrency
  BY <1>1, SamePermits
<1> QED
  BY <1>1, <1>2, <1>3 DEF ReaderInv

LEMMA DrainStepKeeps ==
  ASSUME NEW t \in Task, NEW s \in Streams PROVE ReaderInv /\ Drain(t, s) => ReaderInv'
<1> SUFFICES ASSUME ReaderInv, Drain(t, s) PROVE ReaderInv'
  OBVIOUS
<1> DEFINE full == s = "out" /\ Keep(t, s) >= OutCap /\ ~read[t].truncated
<1>1. /\ read[t] \in Read /\ git[t] \in Git
      /\ read[t].at = "draining" /\ read[t].result = "none"
      /\ git[t].pipe[s] > 0
      /\ UNCHANGED permits
  BY DEF ReaderInv, Drain
<1>2. Keep(t, s) \in Nat /\ Keep(t, s) <= Cap(s)
  BY <1>1, Caps DEF Keep, Read, ReaderInv
<1> DEFINE r == [read[t] EXCEPT !.kept[s] = Keep(t, s), !.truncated = @ \/ full]
           g == [git[t] EXCEPT !.pipe[s] = @ - 1, !.left = IF full THEN Nothing ELSE @,
                               !.failed = @ \/ (full /\ git[t].alive)]
<1>3. read' = [read EXCEPT ![t] = r] /\ git' = [git EXCEPT ![t] = g]
  BY DEF Drain, ReaderInv
<1>4. full \in BOOLEAN
  OBVIOUS
<1>5. /\ r \in Read /\ r.at = "draining" /\ r.result = "none"
      /\ \A z \in Streams : r.kept[z] <= Cap(z)
  <2>1. \A z \in Streams : read[t].kept[z] <= Cap(z)
    BY DEF ReaderInv
  <2>2. r.at = "draining" /\ r.result = "none"
    BY <1>1 DEF Read
  <2>3. r.kept = [read[t].kept EXCEPT ![s] = Keep(t, s)] /\ r.kept \in [Streams -> Nat]
    BY <1>1, <1>2 DEF Read
  <2>4. \A z \in Streams : r.kept[z] <= Cap(z)
    BY <1>1, <1>2, <2>1, <2>3 DEF Read
  <2>5. r \in Read
    <3> HIDE DEF full
    <3> QED
      BY <1>1, <1>2, <1>4 DEF Read
  <2> QED
    BY <2>2, <2>4, <2>5
<1>6. g \in Git /\ (g.alive => git[t].alive)
  <2>1. git[t].pipe[s] - 1 \in 0..PipeSize /\ Nothing \in [Streams -> Nat]
    BY <1>1, GitReaderAssumption DEF Git, Nothing, GitReaderAssumption
  <2> HIDE DEF full
  <2> QED
    BY <1>1, <1>4, <2>1 DEF Git
<1> HIDE DEF r, g
<1>7. read' \in [Task -> Read] /\ git' \in [Task -> Git] /\ read'[t] = r /\ git'[t] = g
  BY <1>3, <1>5, <1>6 DEF ReaderInv
<1>8. \A u \in Task \ {t} : read'[u] = read[u] /\ git'[u] = git[u]
  BY <1>3 DEF ReaderInv
<1>9. /\ permits' \in Nat
      /\ IsFiniteSet(Draining') /\ permits' + Cardinality(Draining') = Concurrency
  BY <1>1, <1>5, <1>7, <1>8, SamePermits
<1> QED
  BY <1>1, <1>5, <1>6, <1>7, <1>8, <1>9 DEF ReaderInv

LEMMA EndOfFileKeeps ==
  ASSUME NEW t \in Task, NEW s \in Streams PROVE ReaderInv /\ EndOfFile(t, s) => ReaderInv'
<1> SUFFICES ASSUME ReaderInv, EndOfFile(t, s) PROVE ReaderInv'
  OBVIOUS
<1>1. read' \in [Task -> Read] /\ UNCHANGED <<permits, git>>
  BY DEF EndOfFile, ReaderInv, Read
<1>2. \A u \in Task : /\ read'[u].at = read[u].at /\ read'[u].result = read[u].result
                      /\ read'[u].truncated = read[u].truncated
                      /\ read'[u].kept = read[u].kept
  BY DEF EndOfFile, ReaderInv, Read
<1>3. /\ permits' \in Nat
      /\ IsFiniteSet(Draining') /\ permits' + Cardinality(Draining') = Concurrency
  BY <1>1, <1>2, SamePermits
<1> QED
  BY <1>1, <1>2, <1>3 DEF ReaderInv

LEMMA FinishStep == ASSUME NEW t \in Task PROVE ReaderInv /\ Finish(t) => ReaderInv'
<1> SUFFICES ASSUME ReaderInv, Finish(t) PROVE ReaderInv'
  OBVIOUS
<1>1. /\ read' \in [Task -> Read] /\ UNCHANGED git /\ permits' = permits + 1
      /\ read[t].at = "draining" /\ ~git[t].alive
      /\ read'[t].at = "over" /\ read'[t].truncated = read[t].truncated
      /\ read'[t].kept = read[t].kept
      /\ read[t].truncated => read'[t].result = "text"
  BY DEF Finish, CodeCounts, ReaderInv, Read
<1>2. \A u \in Task \ {t} : read'[u] = read[u]
  BY DEF Finish, ReaderInv
<1>3. /\ permits' \in Nat
      /\ IsFiniteSet(Draining') /\ permits' + Cardinality(Draining') = Concurrency
  BY <1>1, <1>2, PermitBack
<1> QED
  BY <1>1, <1>2, <1>3 DEF ReaderInv

LEMMA DeadlineStep == ASSUME NEW t \in Task PROVE ReaderInv /\ Deadline(t) => ReaderInv'
<1> SUFFICES ASSUME ReaderInv, Deadline(t) PROVE ReaderInv'
  OBVIOUS
<1>1. /\ read' \in [Task -> Read] /\ permits' = permits + 1
      /\ read[t].at = "draining"
      /\ read'[t].at = "over" /\ read'[t].result = "timeout"
      /\ read'[t].kept = read[t].kept
  BY DEF Deadline, ReaderInv, Read
<1>2. git' \in [Task -> Git] /\ ~git'[t].alive
  BY EmptyRecords DEF Deadline, ReaderInv, NoGit
<1>3. \A u \in Task \ {t} : read'[u] = read[u] /\ git'[u] = git[u]
  BY DEF Deadline, ReaderInv
<1>4. /\ permits' \in Nat
      /\ IsFiniteSet(Draining') /\ permits' + Cardinality(Draining') = Concurrency
  BY <1>1, <1>3, PermitBack
<1> QED
  BY <1>1, <1>2, <1>3, <1>4 DEF ReaderInv

LEMMA ReaderSteps == ReaderInv /\ [ReaderNext]_readerVars => ReaderInv'
<1> SUFFICES ASSUME ReaderInv, [ReaderNext]_readerVars PROVE ReaderInv'
  OBVIOUS
<1>1. CASE UNCHANGED readerVars
  BY <1>1 DEF readerVars, ReaderInv, Draining
<1> QED
  BY <1>1, StartStep, GitSteps, DrainStepKeeps, EndOfFileKeeps, FinishStep, DeadlineStep
     DEF ReaderNext, GitStep

LEMMA ReadsBounded == ReaderInv => ReaderTypeOK /\ BoundedReads
<1> SUFFICES ASSUME ReaderInv PROVE ReaderTypeOK /\ BoundedReads
  OBVIOUS
<1>1. IsFiniteSet(Draining) /\ Cardinality(Draining) \in Nat /\ permits \in Nat
      /\ permits + Cardinality(Draining) = Concurrency
  BY FS_CardinalityType DEF ReaderInv
<1>2. ReaderTypeOK
  BY <1>1 DEF ReaderTypeOK, ReaderInv, Read, Git
<1> DEFINE Alive == {t \in Task : git[t].alive}
<1>3. Alive \subseteq Draining
  BY DEF ReaderInv, Draining
<1>4. Cardinality(Alive) <= Concurrency
  <2>1. Cardinality(Alive) <= Cardinality(Draining) /\ Cardinality(Alive) \in Nat
    BY <1>1, <1>3, FS_Subset, FS_CardinalityType
  <2> QED
    BY <1>1, <2>1
<1>5. \A t \in Task : /\ \A s \in Streams : read[t].kept[s] <= Cap(s)
                      /\ read[t].at = "over" => ~git[t].alive
                      /\ read[t].truncated => read[t].result \in {"none", "text", "timeout"}
  BY DEF ReaderInv
<1> QED
  BY <1>2, <1>4, <1>5 DEF BoundedReads

-----------------------------------------------------------------------------
(* The ACP client *)

CallState == [at : {"out", "ensure", "handshake", "sending", "waiting", "selfClose"},
              request : 0..4, of : 0..MaxProcs]

\* A free lock beside a running subprocess means that its handshake is over:
\* requests are written under the lock, so only to such a subprocess.
AcpInv ==
    /\ AcpTypeOK
    /\ proc = "running" /\ lock = Nobody => greeted \/ mute
    /\ \A c \in Caller : call[c].at = "waiting" => call[c].of <= procs
    /\ HandshakeFirst

LEMMA AcpBegins == AcpInit => AcpInv
<1> SUFFICES ASSUME AcpInit PROVE AcpInv
  OBVIOUS
<1>1. Out \in CallState /\ Out.at = "out"
  BY AcpAssumption DEF Out, CallState, AcpAssumption
<1>2. AcpTypeOK
  <2>1. /\ procs \in 0..MaxProcs /\ calls \in [Caller -> 0..MaxCallsEach]
        /\ call \in [Caller -> CallState]
    BY <1>1, AcpAssumption DEF AcpInit, AcpAssumption
  <2>2. greeted \in BOOLEAN /\ refused \in BOOLEAN /\ mute \in BOOLEAN
    BY Zenon DEF AcpInit
  <2> QED
    BY <2>1, <2>2, Zenon DEF AcpInit, AcpTypeOK, CallState
<1> QED
  BY <1>1, <1>2 DEF AcpInit, AcpInv, HandshakeFirst

\* The states a call can be put into.
LEMMA CallStates ==
  ASSUME AcpTypeOK
  PROVE  /\ Out \in CallState /\ Out.at = "out"
         /\ At("ensure") \in CallState /\ At("ensure").at = "ensure"
         /\ At("selfClose") \in CallState /\ At("selfClose").at = "selfClose"
         /\ \A k \in 0..4 : Sending(k) \in CallState /\ Sending(k).at = "sending"
         /\ \A k \in 0..4 : [at |-> "waiting", request |-> k, of |-> procs] \in CallState
<1>1. MaxProcs \in Nat /\ procs \in 0..MaxProcs /\ 0 \in 0..MaxProcs
  BY AcpAssumption DEF AcpAssumption, AcpTypeOK
<1>2. Out \in CallState /\ Out.at = "out"
  BY <1>1 DEF Out, CallState
<1>3. /\ At("ensure") \in CallState /\ At("ensure").at = "ensure"
      /\ At("selfClose") \in CallState /\ At("selfClose").at = "selfClose"
  BY <1>2 DEF At, CallState
<1>4. ASSUME NEW k \in 0..4
      PROVE  Sending(k) \in CallState /\ Sending(k).at = "sending"
  <2>1. At("sending") \in CallState /\ At("sending").at = "sending"
    BY <1>2 DEF At, CallState
  <2> QED
    BY <2>1 DEF Sending, CallState
<1>5. \A k \in 0..4 : [at |-> "waiting", request |-> k, of |-> procs] \in CallState
  BY <1>1 DEF CallState
<1> QED
  BY <1>2, <1>3, <1>4, <1>5

\* A caller that moves without being left to wait disturbs nothing.
LEMMA CallMoves ==
  ASSUME AcpInv, NEW c \in Caller, NEW to \in CallState, to.at # "waiting",
         call' = [call EXCEPT ![c] = to],
         UNCHANGED <<lock, proc, procs, greeted, closing, refused, mute>>,
         calls' \in [Caller -> 0..MaxCallsEach]
  PROVE  AcpInv'
<1>1. AcpTypeOK'
  BY DEF AcpInv, AcpTypeOK, CallState
<1>2. \A d \in Caller : call'[d].at = "waiting" => call'[d] = call[d]
  BY DEF AcpInv, AcpTypeOK
<1> QED
  BY <1>1, <1>2 DEF AcpInv, HandshakeFirst

LEMMA AcpSteps == AcpInv /\ [AcpNext]_acpVars => AcpInv'
<1> SUFFICES ASSUME AcpInv, [AcpNext]_acpVars PROVE AcpInv'
  OBVIOUS
<1>t. AcpTypeOK /\ call \in [Caller -> CallState] /\ calls \in [Caller -> 0..MaxCallsEach]
  BY DEF AcpInv, AcpTypeOK, CallState
<1>1. ASSUME NEW c \in Caller, Call(c) PROVE AcpInv'
  <2>1. calls[c] + 1 \in 0..MaxCallsEach
    BY <1>1, <1>t, AcpAssumption DEF Call, AcpAssumption
  <2>2. calls' \in [Caller -> 0..MaxCallsEach]
    BY <1>1, <1>t, <2>1 DEF Call
  <2> QED
    BY <1>1, <1>t, <2>2, CallStates, CallMoves DEF Call
<1>2. ASSUME NEW c \in Caller, EnsureRunning(c) PROVE AcpInv'
  <2>1. Sending(1) \in CallState /\ Sending(1).at # "waiting"
    BY <1>t, CallStates
  <2> QED
    BY <1>2, <1>t, <2>1, CallMoves DEF EnsureRunning
<1>3. ASSUME NEW c \in Caller, Spawn(c) PROVE AcpInv'
  <2>1. CASE call' = [call EXCEPT ![c] = Out] /\ UNCHANGED <<lock, proc, procs, greeted, mute>>
    BY <1>3, <1>t, <2>1, CallStates, CallMoves DEF Spawn
  <2>2. CASE /\ procs < MaxProcs
             /\ proc' = "running" /\ procs' = procs + 1 /\ greeted' = FALSE
             /\ lock' = c /\ mute' = FALSE
             /\ call' = [call EXCEPT ![c] = [At("handshake") EXCEPT !.of = procs + 1]]
    <3> DEFINE to == [At("handshake") EXCEPT !.of = procs + 1]
    <3>1. procs + 1 \in 0..MaxProcs /\ procs \in Nat
      BY <1>t, <2>2, AcpAssumption DEF AcpTypeOK, AcpAssumption
    <3>2. to \in CallState /\ to.at = "handshake"
      <4>1. Out \in CallState
        BY <1>t, CallStates
      <4> QED
        BY <3>1, <4>1 DEF At, CallState
    <3> HIDE DEF to
    <3>3. call' \in [Caller -> CallState]
      BY <1>t, <2>2, <3>2 DEF to
    <3>4. AcpTypeOK'
      BY <1>3, <1>t, <2>2, <3>1, <3>3 DEF Spawn, AcpTypeOK, CallState
    <3>5. lock' # Nobody
      BY <2>2, AcpAssumption DEF AcpAssumption
    <3>6. \A d \in Caller : call'[d].at = "waiting" => call'[d] = call[d]
      BY <1>t, <2>2, <3>2 DEF to
    <3>7. \A d \in Caller : call'[d].at = "waiting" => /\ call'[d].of <= procs'
                                                      /\ call'[d].of # procs'
      <4>1. \A d \in Caller : call[d].of \in Nat
        BY <1>t DEF CallState
      <4>2. \A d \in Caller : call[d].at = "waiting" => call[d].of <= procs
        BY DEF AcpInv
      <4>3. procs' = procs + 1
        BY <2>2
      <4> QED
        BY <3>1, <3>6, <4>1, <4>2, <4>3
    <3> QED
      BY <3>4, <3>5, <3>7 DEF AcpInv, HandshakeFirst
  <2> QED
    BY <1>3, <2>1, <2>2 DEF Spawn
<1>4. ASSUME NEW c \in Caller, Greeted(c) \/ HandshakeTimeout(c) PROVE AcpInv'
  <2>1. PICK to \in CallState : call' = [call EXCEPT ![c] = to] /\ to.at # "waiting"
    BY <1>4, <1>t, CallStates DEF Greeted, HandshakeTimeout
  <2>2. call' \in [Caller -> CallState]
        /\ \A d \in Caller : call'[d].at = "waiting" => call'[d] = call[d]
    BY <1>t, <2>1
  <2>3. /\ lock' = Nobody /\ UNCHANGED <<proc, procs, calls, closing, refused>>
        /\ \/ greeted' = TRUE /\ mute' = mute
           \/ mute' = TRUE /\ greeted' = greeted
    BY <1>4 DEF Greeted, HandshakeTimeout, LockBack
  <2>4. AcpTypeOK'
    BY <1>t, <2>2, <2>3 DEF AcpTypeOK, CallState
  <2> QED
    BY <2>2, <2>3, <2>4 DEF AcpInv, HandshakeFirst
<1>5. ASSUME NEW c \in Caller, Refused(c) PROVE AcpInv'
  <2>1. CallState # {} /\ At("selfClose") \in CallState /\ At("selfClose").at = "selfClose"
    BY <1>t, CallStates
  <2>2. call' \in [Caller -> CallState]
        /\ \A d \in Caller : call'[d].at = "waiting" => call'[d] = call[d]
    BY <1>5, <1>t, <2>1 DEF Refused
  <2>3. AcpTypeOK'
    BY <1>5, <1>t, <2>2 DEF Refused, AcpTypeOK, CallState
  <2> QED
    BY <1>5, <2>2, <2>3 DEF Refused, AcpInv, HandshakeFirst
<1>6. ASSUME NEW c \in Caller, NextRequest(c) PROVE AcpInv'
  <2>1. call[c].request \in 0..4
    BY <1>t DEF CallState
  <2>2. CASE proc = "none"
    BY <1>6, <1>t, <2>2, CallStates, CallMoves DEF NextRequest, Written
  <2>3. CASE proc # "none"
    <3> DEFINE to == [at |-> "waiting", request |-> call[c].request, of |-> procs]
    <3>1. to \in CallState
      BY <1>t, <2>1, CallStates
    <3>2. call' = [call EXCEPT ![c] = to]
      BY <1>6, <1>t, <2>3 DEF NextRequest, Written
    <3>3. lock = Nobody /\ UNCHANGED <<lock, proc, procs, greeted, calls, closing, refused, mute>>
      BY <1>6 DEF NextRequest, MayWrite
    <3>4. AcpTypeOK'
      BY <1>t, <3>1, <3>2, <3>3 DEF AcpTypeOK, CallState
    <3>5. procs \in Nat /\ proc \in {"none", "running", "dead"}
      BY <1>t DEF AcpTypeOK
    <3>6. \A d \in Caller : call'[d] = IF d = c THEN to ELSE call[d]
      BY <1>t, <3>2
    <3> QED
      BY <3>3, <3>4, <3>5, <3>6 DEF AcpInv, HandshakeFirst
  <2> QED
    BY <2>2, <2>3
<1>7. ASSUME NEW c \in Caller, Answered(c) PROVE AcpInv'
  <2>1. call[c].request \in 0..4 /\ (call[c].request < 4 => call[c].request + 1 \in 0..4)
    BY <1>t DEF CallState
  <2> QED
    BY <1>7, <1>t, <2>1, CallStates, CallMoves DEF Answered
<1>8. ASSUME NEW c \in Caller, RequestTimeout(c) PROVE AcpInv'
  BY <1>8, <1>t, CallStates, CallMoves DEF RequestTimeout
<1>9. CASE Die \/ EndRun
  BY <1>9, <1>t DEF Die, EndRun, AcpInv, AcpTypeOK, HandshakeFirst
<1>10. CASE Close
  <2>1. call' \in [Caller -> CallState] /\ \A d \in Caller : call'[d].at # "waiting"
    BY <1>10, <1>t, CallStates DEF Close
  <2>2. AcpTypeOK'
    BY <1>10, <1>t, <2>1 DEF Close, AcpTypeOK, CallState
  <2> QED
    BY <1>10, <2>1, <2>2 DEF Close, AcpInv, HandshakeFirst
<1>11. CASE UNCHANGED acpVars
  BY <1>11 DEF acpVars, AcpInv, AcpTypeOK, HandshakeFirst
<1> QED
  BY <1>1, <1>2, <1>3, <1>4, <1>5, <1>6, <1>7, <1>8, <1>9, <1>10, <1>11 DEF AcpNext

-----------------------------------------------------------------------------
(* The tool loop *)

Places == {"idle", "single", "baseline", "request", "tool", "pause", "lastPause", "final"}
Eval == [at : Places, issue : Issue \cup {None}, round : Nat, spent : Nat,
         left : 0..MaxCalls, through : Issue \cup {None}, tries : 0..HttpAttempts]
Results == [end : {None, "unchanged", "discarded", "unavailable", "quota", "stored"}, tokens : Nat]

\* The evaluations that have begun.
Begun == {i \in Issue : begun[i] > 0}

\* What is true of the coroutine whose state is e: its context, and the one of
\* its tool call, are of an evaluation that is not older; what it has spent is
\* its bill, and within the budget as long as it may go on asking for tools.
SoundEval(e) ==
    /\ e.round \in 0..Rounds(e.issue)
    /\ e.at # "idle" =>
          /\ e.issue \in Issue /\ begun[e.issue] > 0
          /\ result[e.issue].end = None
          /\ billed[e.issue] = e.spent
    /\ e.at \notin {"idle", "single"} => ctx \in Issue /\ begun[ctx] >= begun[e.issue]
    /\ e.at = "tool" => e.through \in Issue /\ begun[e.through] >= begun[e.issue]
    /\ e.at \in {"single", "baseline"} => e.spent = 0
    /\ e.at \in {"request", "pause"} => e.spent < TokenLimit
    /\ e.at \in {"tool", "lastPause", "final"} => e.spent < TokenLimit + MaxTokens

LoopTypes ==
    /\ ctx \in Issue \cup {None}
    /\ eval \in [Coroutine -> Eval]
    /\ result \in [Issue -> Results]
    /\ billed \in [Issue -> Nat]
    /\ via \in [Issue -> SUBSET Issue]
    /\ begun \in [Issue -> Nat]

\* Evaluations are numbered in the order in which they begin.
Numbered ==
    /\ \A i \in Issue : begun[i] <= Cardinality(Begun)
    /\ \A i \in Issue : begun[i] = 0 => via[i] = {} /\ billed[i] = 0 /\ result[i].end = None

\* No two coroutines evaluate the same issue.
OneEach ==
    \A c, d \in Coroutine :
        c # d /\ eval[c].at # "idle" /\ eval[d].at # "idle" => eval[c].issue # eval[d].issue

LoopInv ==
    /\ LoopTypes /\ Numbered /\ OneEach
    /\ \A c \in Coroutine : SoundEval(eval[c])
    /\ NeverAnOlderContext /\ BudgetAndBill

LEMMA LoopNumbers ==
  /\ RoundsOpen \in Nat \ {0} /\ RoundsClosed \in Nat \ {0}
  /\ TokenLimit \in Nat \ {0} /\ HttpAttempts \in Nat \ {0}
  /\ MaxTokens \in Nat \ {0} /\ MaxCalls \in Nat \ {0}
  /\ \A i : Rounds(i) \in Nat \ {0}
BY ToolLoopAssumption DEF ToolLoopAssumption, Rounds

LEMMA IdleEval == Idle \in Eval /\ Idle.at = "idle" /\ Idle.round = 0 /\ Idle.spent = 0
BY LoopNumbers DEF Idle, Eval, Places

LEMMA LoopBegins == LoopInit => LoopInv
<1> SUFFICES ASSUME LoopInit PROVE LoopInv
  OBVIOUS
<1>1. LoopTypes
  BY IdleEval DEF LoopInit, LoopTypes, Results
<1>2. Begun = {}
  BY DEF Begun, LoopInit
<1>3. Cardinality(Begun) = 0
  BY <1>2, FS_EmptySet
<1>4. Numbered
  BY <1>3 DEF Numbered, LoopInit
<1>5. \A c \in Coroutine : eval[c] = Idle
  BY DEF LoopInit
<1>6. OneEach
  BY <1>5, IdleEval DEF OneEach
<1>7. \A c \in Coroutine : SoundEval(eval[c])
  BY <1>5, IdleEval, LoopNumbers DEF SoundEval
<1>8. NeverAnOlderContext
  BY DEF NeverAnOlderContext, LoopInit
<1>9. BudgetAndBill
  BY LoopNumbers DEF BudgetAndBill, LoopInit, None
<1> QED
  BY <1>1, <1>4, <1>6, <1>7, <1>8, <1>9 DEF LoopInv

\* A coroutine that goes on: what it spends is billed at once, and its tool
\* calls went through contexts that are not older.
LEMMA GoesOn ==
  ASSUME LoopInv, NEW c \in Coroutine, NEW e \in Eval, NEW X \in SUBSET Issue,
         eval[c].at # "idle", e.at # "idle", e.issue = eval[c].issue,
         eval' = [eval EXCEPT ![c] = e],
         billed' = [billed EXCEPT ![e.issue] = e.spent],
         via' = [via EXCEPT ![e.issue] = @ \cup X],
         \A j \in X : begun[j] >= begun[e.issue],
         UNCHANGED <<ctx, result, begun>>,
         e.round \in 0..Rounds(e.issue),
         e.at # "single" => eval[c].at # "single",
         e.at = "tool" => e.through \in Issue /\ begun[e.through] >= begun[e.issue],
         e.at \in {"single", "baseline"} => e.spent = 0,
         e.at \in {"request", "pause"} => e.spent < TokenLimit,
         e.spent < TokenLimit + MaxTokens
  PROVE  LoopInv'
<1>1. LoopTypes /\ SoundEval(eval[c]) /\ e.issue \in Issue /\ e.spent \in Nat
  BY DEF LoopInv, SoundEval, Eval
<1>2. LoopTypes'
  BY <1>1 DEF LoopTypes
<1>3. Numbered'
  <2>1. Begun' = Begun /\ begun[e.issue] > 0
    BY <1>1 DEF Begun, SoundEval
  <2> QED
    BY <1>1, <2>1 DEF LoopInv, LoopTypes, Numbered
<1>4. OneEach'
  BY <1>1 DEF LoopInv, LoopTypes, OneEach
<1>5. SoundEval(e)'
  BY <1>1, LoopNumbers DEF SoundEval, LoopTypes
<1>6. ASSUME NEW d \in Coroutine, d # c PROVE SoundEval(eval[d])'
  <2>1. SoundEval(eval[d]) /\ eval'[d] = eval[d]
    BY <1>1, <1>6 DEF LoopInv, LoopTypes
  <2>2. eval[d].at # "idle" => eval[d].issue # e.issue
    BY <1>6 DEF LoopInv, OneEach
  <2>3. eval[d].at # "idle" => billed'[eval[d].issue] = billed[eval[d].issue]
    BY <1>1, <2>1, <2>2 DEF LoopTypes, SoundEval
  <2> QED
    BY <2>1, <2>3 DEF SoundEval
<1>7. NeverAnOlderContext'
  BY <1>1 DEF LoopInv, LoopTypes, NeverAnOlderContext
<1>8. BudgetAndBill'
  <2>1. ASSUME NEW i \in Issue, i # e.issue
        PROVE  billed'[i] = billed[i] /\ result'[i] = result[i]
    BY <1>1, <2>1 DEF LoopTypes
  <2>2. billed'[e.issue] = e.spent /\ result'[e.issue].end # "stored"
    BY <1>1 DEF LoopTypes, SoundEval, None
  <2>3. e.spent < TokenLimit + 2 * MaxTokens
    BY <1>1, LoopNumbers
  <2> QED
    BY <2>1, <2>2, <2>3 DEF LoopInv, BudgetAndBill
<1>9. \A d \in Coroutine : SoundEval(eval[d])'
  BY <1>1, <1>5, <1>6 DEF LoopTypes
<1> QED
  BY <1>2, <1>3, <1>4, <1>7, <1>8, <1>9 DEF LoopInv

\* A coroutine whose evaluation ends, with its last bill.
LEMMA Ends ==
  ASSUME LoopInv, NEW c \in Coroutine, eval[c].at # "idle",
         NEW how \in {"discarded", "unavailable", "quota", "stored"}, NEW tokens \in Nat,
         NEW bill \in Nat, bill < TokenLimit + 2 * MaxTokens, how = "stored" => tokens = bill,
         End(c, how, tokens),
         billed' = [billed EXCEPT ![eval[c].issue] = bill],
         UNCHANGED <<ctx, via, begun>>
  PROVE  LoopInv'
<1> DEFINE k == eval[c].issue
<1>1. LoopTypes /\ SoundEval(eval[c]) /\ k \in Issue /\ begun[k] > 0
  BY DEF LoopInv, SoundEval
<1>2. /\ eval' \in [Coroutine -> Eval] /\ eval'[c] = Idle
      /\ \A d \in Coroutine : d # c => eval'[d] = eval[d]
  BY <1>1, IdleEval DEF End, LoopTypes
<1>3. /\ result' \in [Issue -> Results] /\ result'[k] = [end |-> how, tokens |-> tokens]
      /\ billed' \in [Issue -> Nat] /\ billed'[k] = bill
      /\ \A i \in Issue : i # k => result'[i] = result[i] /\ billed'[i] = billed[i]
  BY <1>1 DEF End, LoopTypes, Results
<1>4. LoopTypes'
  BY <1>1, <1>2, <1>3 DEF LoopTypes
<1>5. Numbered'
  <2>1. Begun' = Begun
    BY DEF Begun
  <2> QED
    BY <1>1, <1>3, <2>1 DEF LoopInv, Numbered
<1>6. OneEach'
  BY <1>2, IdleEval DEF LoopInv, OneEach
<1>7. ASSUME NEW d \in Coroutine PROVE SoundEval(eval[d])'
  <2>1. CASE d = c
    BY <1>2, <2>1, IdleEval, LoopNumbers DEF SoundEval
  <2>2. CASE d # c
    <3>1. SoundEval(eval[d]) /\ eval'[d] = eval[d]
      BY <1>2, <2>2 DEF LoopInv
    <3>2. eval[d].at # "idle" => eval[d].issue # k
      BY <2>2 DEF LoopInv, OneEach
    <3> QED
      BY <1>3, <3>1, <3>2 DEF SoundEval
  <2> QED
    BY <2>1, <2>2
<1>8. NeverAnOlderContext'
  BY DEF LoopInv, NeverAnOlderContext
<1>9. BudgetAndBill'
  BY <1>3 DEF LoopInv, BudgetAndBill
<1> QED
  BY <1>4, <1>5, <1>6, <1>7, <1>8, <1>9 DEF LoopInv

\* A fresh state of a coroutine.
LEMMA FreshEval ==
  ASSUME NEW at \in Places, NEW i \in Issue, NEW n \in Nat
  PROVE  /\ [Idle EXCEPT !.at = at, !.issue = i, !.tries = 1] \in Eval
         /\ [Idle EXCEPT !.at = at, !.issue = i, !.round = n, !.tries = 1] \in Eval
<1>1. [Idle EXCEPT !.at = at, !.issue = i] \in Eval
  BY IdleEval DEF Eval
<1>2. [Idle EXCEPT !.at = at, !.issue = i, !.tries = 1] \in Eval
  <2> DEFINE f == [Idle EXCEPT !.at = at, !.issue = i]
  <2>1. f \in Eval
    BY <1>1
  <2> HIDE DEF f
  <2>2. [f EXCEPT !.tries = 1] \in Eval
    BY <2>1, LoopNumbers DEF Eval
  <2> QED
    BY <2>2 DEF f
<1>3. [Idle EXCEPT !.at = at, !.issue = i, !.round = n, !.tries = 1] \in Eval
  <2> DEFINE g == [Idle EXCEPT !.at = at, !.issue = i]
             f == [g EXCEPT !.round = n]
  <2>1. g \in Eval
    BY <1>1
  <2> HIDE DEF g
  <2>2. f \in Eval
    BY <2>1 DEF Eval
  <2> HIDE DEF f
  <2>3. [f EXCEPT !.tries = 1] \in Eval
    BY <2>2, LoopNumbers DEF Eval
  <2> QED
    BY <2>3 DEF f, g
<1> QED
  BY <1>2, <1>3

\* An evaluation that begins is younger than all others.
LEMMA BeginStep ==
  ASSUME NEW c \in Coroutine, NEW i \in Issue PROVE LoopInv /\ Begin(c, i) => LoopInv'
<1> SUFFICES ASSUME LoopInv, Begin(c, i) PROVE LoopInv'
  OBVIOUS
<1>1. LoopTypes /\ Numbered /\ NeverAnOlderContext
      /\ eval[c].at = "idle" /\ begun[i] = 0
      /\ begun' = [begun EXCEPT ![i] = Cardinality(Begun) + 1] /\ UNCHANGED <<billed, via>>
  BY DEF LoopInv, Begin, Started, Begun
<1>2. /\ IsFiniteSet(Begun) /\ Cardinality(Begun) \in Nat
      /\ Begun' = Begun \cup {i} /\ Cardinality(Begun') = Cardinality(Begun) + 1
  <2>1. IsFiniteSet(Begun) /\ Cardinality(Begun) \in Nat
    BY FS_Subset, FS_CardinalityType, ToolLoopAssumption DEF ToolLoopAssumption, Begun
  <2>2. Begun' = Begun \cup {i} /\ i \notin Begun
    BY <1>1, <2>1 DEF Begun, LoopTypes
  <2> QED
    BY <2>1, <2>2, FS_AddElement
<1>3. /\ begun' \in [Issue -> Nat] /\ begun'[i] = Cardinality(Begun')
      /\ \A j \in Issue : begun'[j] <= begun'[i] /\ (j # i => begun'[j] = begun[j])
  BY <1>1, <1>2 DEF LoopTypes, Numbered
<1>4. \A d \in Coroutine : SoundEval(eval[d]) /\ eval[d] \in Eval
  BY DEF LoopInv, LoopTypes
<1>5. NeverAnOlderContext'
  BY <1>1, <1>3 DEF NeverAnOlderContext, LoopTypes, Numbered
<1>6. \A d \in Coroutine : eval[d].at # "idle" => eval[d].issue # i
  BY <1>1, <1>4 DEF SoundEval
<1>7. ASSUME /\ ctx' \in {ctx, i} /\ result' \in [Issue -> Results]
             /\ \A j \in Issue : j # i => result'[j] = result[j]
             /\ BudgetAndBill'
             /\ eval' \in [Coroutine -> Eval]
             /\ \A d \in Coroutine : d # c => eval'[d] = eval[d]
             /\ SoundEval(eval[c])'
             /\ eval'[c].at # "idle" => eval'[c].issue = i
      PROVE  LoopInv'
  <2>1. LoopTypes'
    BY <1>1, <1>3, <1>7 DEF LoopTypes
  <2>2. Numbered'
    BY <1>1, <1>2, <1>3, <1>7 DEF Numbered, LoopTypes
  <2>3. OneEach'
    BY <1>6, <1>7 DEF LoopInv, OneEach
  <2>4. ASSUME NEW d \in Coroutine, d # c PROVE SoundEval(eval[d])'
    <3>1. eval'[d] = eval[d] /\ SoundEval(eval[d])
      BY <1>4, <1>7, <2>4
    <3>2. eval[d].at # "idle" => /\ result'[eval[d].issue] = result[eval[d].issue]
                                 /\ begun'[eval[d].issue] = begun[eval[d].issue]
      BY <1>3, <1>6, <1>7, <3>1 DEF SoundEval
    <3>3. \A j \in Issue : begun'[j] >= begun[j]
      BY <1>1, <1>3 DEF LoopTypes
    <3>4. eval[d].at \notin {"idle", "single"} =>
             ctx' \in Issue /\ begun'[ctx'] >= begun'[eval[d].issue]
      BY <1>3, <1>7, <3>1, <3>2, <3>3 DEF SoundEval
    <3>5. eval[d].at = "tool" =>
             eval[d].through \in Issue /\ begun'[eval[d].through] >= begun'[eval[d].issue]
      BY <1>1, <1>3, <3>1, <3>2, <3>3 DEF SoundEval, LoopTypes
    <3> QED
      BY <1>1, <3>1, <3>2, <3>4, <3>5 DEF SoundEval
  <2> QED
    BY <1>5, <1>7, <2>1, <2>2, <2>3, <2>4 DEF LoopInv
<1>8. result[i].end = None /\ result[i].tokens \in Nat /\ billed[i] = 0
  BY <1>1 DEF Numbered, LoopTypes, Results
<1>9. CASE Skip(c, i)
  <2>1. /\ UNCHANGED <<ctx, eval>> /\ result' \in [Issue -> Results]
        /\ \A j \in Issue : j # i => result'[j] = result[j]
        /\ result'[i].end = "unchanged"
    BY <1>1, <1>9 DEF Skip, LoopTypes, Results
  <2>2. BudgetAndBill'
    BY <1>1, <2>1 DEF LoopInv, BudgetAndBill
  <2>3. SoundEval(eval[c])'
    BY <1>1, <1>4, <2>1 DEF SoundEval
  <2> QED
    BY <1>1, <1>7, <2>1, <2>2, <2>3 DEF LoopTypes
<1>10. ASSUME NEW e \in Eval, e.issue = i, e.at \in {"single", "baseline", "request"},
              e.spent = 0, e.round \in 0..Rounds(i), eval' = [eval EXCEPT ![c] = e],
              e.at # "single" => ctx' = i, ctx' \in {ctx, i}, UNCHANGED result
       PROVE  LoopInv'
  <2>1. BudgetAndBill'
    BY <1>1, <1>10 DEF LoopInv, BudgetAndBill
  <2>2. SoundEval(e)'
    BY <1>1, <1>2, <1>3, <1>8, <1>10, LoopNumbers DEF SoundEval
  <2> QED
    BY <1>1, <1>7, <1>10, <2>1, <2>2 DEF LoopTypes
<1>11. CASE Single(c, i)
  <2> DEFINE e == [Idle EXCEPT !.at = "single", !.issue = i, !.tries = 1]
  <2>1. /\ e \in Eval /\ e.at = "single" /\ e.issue = i
        /\ e.spent = 0 /\ e.round = 0
    <3>1. e \in Eval
      BY FreshEval DEF Places
    <3> QED
      BY <3>1, IdleEval DEF Eval
  <2>2. eval' = [eval EXCEPT ![c] = e] /\ UNCHANGED <<ctx, result>>
    BY <1>11 DEF Single
  <2> HIDE DEF e
  <2>3. e.round \in 0..Rounds(i)
    BY <2>1, LoopNumbers
  <2> QED
    BY <1>10, <2>1, <2>2, <2>3
<1>12. CASE WithTools(c, i)
  <2> DEFINE e == [Idle EXCEPT !.at = IF i \in Open THEN "baseline" ELSE "request",
                               !.issue = i, !.round = 1, !.tries = 1]
  <2>1. /\ e \in Eval /\ e.at \in {"baseline", "request"} /\ e.issue = i
        /\ e.spent = 0 /\ e.round = 1
    <3>1. e \in Eval
      BY FreshEval DEF Places
    <3> QED
      BY <3>1, IdleEval DEF Eval
  <2>2. eval' = [eval EXCEPT ![c] = e] /\ ctx' = i /\ UNCHANGED result
    BY <1>12 DEF WithTools
  <2> HIDE DEF e
  <2>3. e.round \in 0..Rounds(i)
    BY <2>1, LoopNumbers
  <2> QED
    BY <1>10, <2>1, <2>2, <2>3
<1> QED
  BY <1>9, <1>11, <1>12 DEF Begin

\* What is known of a coroutine that runs.
LEMMA RunningEval ==
  ASSUME LoopInv, NEW c \in Coroutine, eval[c].at # "idle"
  PROVE  /\ LoopTypes /\ eval[c] \in Eval /\ SoundEval(eval[c])
         /\ eval[c].issue \in Issue /\ billed[eval[c].issue] = eval[c].spent
         /\ eval[c].spent \in Nat /\ eval[c].round \in 0..Rounds(eval[c].issue)
         /\ billed = [billed EXCEPT ![eval[c].issue] = eval[c].spent]
         /\ via = [via EXCEPT ![eval[c].issue] = @ \cup {}]
BY DEF LoopInv, LoopTypes, SoundEval, Eval

\* An evaluation without a result: what it has spent stays on the bill.
LEMMA EndsUnpaid ==
  ASSUME LoopInv, NEW c \in Coroutine, eval[c].at # "idle",
         NEW how \in {"discarded", "unavailable", "quota"}, End(c, how, 0),
         UNCHANGED <<ctx, billed, via, begun>>
  PROVE  LoopInv'
<1>1. PICK bill \in Nat : /\ bill < TokenLimit + 2 * MaxTokens
                         /\ billed' = [billed EXCEPT ![eval[c].issue] = bill]
  <2>1. /\ eval[c].spent \in Nat /\ SoundEval(eval[c]) /\ eval[c].at \in Places
        /\ billed' = [billed EXCEPT ![eval[c].issue] = eval[c].spent]
    BY RunningEval DEF Eval
  <2>2. eval[c].spent < TokenLimit + 2 * MaxTokens
    BY <2>1, LoopNumbers DEF SoundEval, Places
  <2> QED
    BY <2>1, <2>2
<1>2. how \in {"discarded", "unavailable", "quota", "stored"} /\ how # "stored" /\ 0 \in Nat
  OBVIOUS
<1> QED
  BY <1>1, <1>2, Ends

\* A coroutine that only moves on, with nothing spent.
LEMMA JustMoves ==
  ASSUME LoopInv, NEW c \in Coroutine, NEW e \in Eval, eval[c].at # "idle",
         e.at \in {"single", "request", "final"}, e.at = "single" => eval[c].at = "single",
         e.at # "single" => eval[c].at # "single",
         e.at = "request" => eval[c].at \in {"baseline", "request", "pause"},
         e.issue = eval[c].issue, e.spent = eval[c].spent, e.round = eval[c].round,
         eval' = [eval EXCEPT ![c] = e],
         UNCHANGED <<ctx, result, billed, via, begun>>
  PROVE  LoopInv'
<1>1. /\ billed' = [billed EXCEPT ![e.issue] = e.spent]
      /\ via' = [via EXCEPT ![e.issue] = @ \cup {}]
      /\ e.round \in 0..Rounds(e.issue)
  BY RunningEval
<1>2. /\ e.at \in {"single", "baseline"} => e.spent = 0
      /\ e.at \in {"request", "pause"} => e.spent < TokenLimit
      /\ e.spent < TokenLimit + MaxTokens
  BY RunningEval, LoopNumbers DEF SoundEval, Eval, Places
<1>3. {} \in SUBSET Issue /\ \A j \in {} : begun[j] >= begun[e.issue]
  OBVIOUS
<1>4. e.at # "tool" /\ e.at # "idle"
  OBVIOUS
<1> QED
  BY <1>1, <1>2, <1>3, <1>4, GoesOn

LEMMA BaselineStep == ASSUME NEW c \in Coroutine PROVE LoopInv /\ Baseline(c) => LoopInv'
<1> SUFFICES ASSUME LoopInv, Baseline(c) PROVE LoopInv'
  OBVIOUS
<1>1. eval[c].at = "baseline" /\ UNCHANGED <<ctx, billed, via, begun>>
  BY DEF Baseline, BaselineContext
<1>2. CASE eval' = [eval EXCEPT ![c].at = "request"] /\ UNCHANGED result
  <2> DEFINE e == [eval[c] EXCEPT !.at = "request"]
  <2>1. /\ e \in Eval /\ e.at = "request" /\ e.issue = eval[c].issue
        /\ e.spent = eval[c].spent /\ e.round = eval[c].round
    BY <1>1, RunningEval DEF Eval, Places
  <2>2. eval' = [eval EXCEPT ![c] = e]
    BY <1>2
  <2> HIDE DEF e
  <2> QED
    BY <1>1, <1>2, <2>1, <2>2, JustMoves
<1>3. CASE End(c, "discarded", 0)
  BY <1>1, <1>3, EndsUnpaid
<1> QED
  BY <1>2, <1>3 DEF Baseline

LEMMA RequestFailsStep ==
  ASSUME NEW c \in Coroutine PROVE LoopInv /\ RequestFails(c) => LoopInv'
<1> SUFFICES ASSUME LoopInv, RequestFails(c) PROVE LoopInv'
  OBVIOUS
<1>1. /\ eval[c].at \in {"single", "request", "final"}
      /\ UNCHANGED <<ctx, billed, via, begun>>
  BY DEF RequestFails, Waiting
<1>2. CASE Retried(c)
  <2> DEFINE e == [eval[c] EXCEPT !.tries = @ + 1]
  <2>1. eval[c].tries + 1 \in 0..HttpAttempts /\ UNCHANGED result
    BY <1>1, <1>2, RunningEval, LoopNumbers DEF Retried, Eval
  <2>2. /\ e \in Eval /\ e.at = eval[c].at /\ e.issue = eval[c].issue
        /\ e.spent = eval[c].spent /\ e.round = eval[c].round
    BY <1>1, <2>1, RunningEval DEF Eval
  <2>3. eval' = [eval EXCEPT ![c] = e]
    BY <1>2 DEF Retried
  <2> HIDE DEF e
  <2> QED
    BY <1>1, <2>1, <2>2, <2>3, JustMoves
<1>3. ASSUME NEW how \in {"unavailable", "quota"}, End(c, how, 0) PROVE LoopInv'
  BY <1>1, <1>3, EndsUnpaid
<1> QED
  BY <1>2, <1>3 DEF RequestFails

LEMMA FinalAnswerStep ==
  ASSUME NEW c \in Coroutine PROVE LoopInv /\ FinalAnswer(c) => LoopInv'
<1> SUFFICES ASSUME LoopInv, FinalAnswer(c) PROVE LoopInv'
  OBVIOUS
<1>1. eval[c].at \in {"single", "request", "final"} /\ UNCHANGED <<ctx, via, begun>>
  BY DEF FinalAnswer, Waiting
<1>2. PICK n \in 1..MaxTokens :
         /\ billed' = [billed EXCEPT ![eval[c].issue] = @ + n]
         /\ End(c, "stored", Total(c, n)) \/ End(c, "discarded", 0)
  BY DEF FinalAnswer
<1> DEFINE bill == eval[c].spent + n
<1>3. bill \in Nat /\ bill < TokenLimit + 2 * MaxTokens
  BY <1>1, RunningEval, LoopNumbers DEF SoundEval
<1>4. billed' = [billed EXCEPT ![eval[c].issue] = bill] /\ Total(c, n) = bill
  BY <1>1, <1>2, RunningEval DEF Total
<1> HIDE DEF bill
<1> QED
  BY <1>1, <1>2, <1>3, <1>4, Ends

LEMMA ToolRequestStep ==
  ASSUME NEW c \in Coroutine PROVE LoopInv /\ ToolRequest(c) => LoopInv'
<1> SUFFICES ASSUME LoopInv, ToolRequest(c) PROVE LoopInv'
  OBVIOUS
<1>1. eval[c].at = "request" /\ UNCHANGED <<ctx, result, via, begun>>
  BY DEF ToolRequest
<1>2. PICK n \in 1..MaxTokens, k \in 1..MaxCalls :
         /\ billed' = [billed EXCEPT ![eval[c].issue] = @ + n]
         /\ eval' = [eval EXCEPT ![c] =
               [@ EXCEPT !.at = "tool", !.spent = Total(c, n), !.left = k, !.through = ctx]]
  BY DEF ToolRequest
<1>3. eval[c].spent + n \in Nat /\ eval[c].spent + n < TokenLimit + MaxTokens
  BY <1>1, RunningEval, LoopNumbers DEF SoundEval
<1>4. ctx \in Issue /\ begun[ctx] >= begun[eval[c].issue]
  BY <1>1, RunningEval DEF SoundEval
<1> DEFINE e == [eval[c] EXCEPT !.at = "tool", !.spent = Total(c, n), !.left = k,
                                !.through = ctx]
           f == [eval[c] EXCEPT !.at = "tool", !.spent = Total(c, n)]
<1>5. /\ e \in Eval /\ e.at = "tool" /\ e.issue = eval[c].issue
      /\ e.spent = eval[c].spent + n /\ e.round = eval[c].round /\ e.through = ctx
  <2>1. f \in Eval
    BY <1>1, <1>3, RunningEval DEF Eval, Places, Total
  <2>2. k \in 0..MaxCalls
    BY LoopNumbers
  <2> HIDE DEF f
  <2>3. [f EXCEPT !.left = k, !.through = ctx] \in Eval
    BY <1>4, <2>1, <2>2 DEF Eval
  <2>4. e \in Eval
    BY <2>3 DEF f
  <2>5. eval[c] \in Eval
    BY <1>1, RunningEval
  <2> QED
    BY <2>4, <2>5 DEF Eval, Total
<1>6. eval' = [eval EXCEPT ![c] = e]
  BY <1>2
<1> HIDE DEF e, f
<1>7. /\ billed' = [billed EXCEPT ![e.issue] = e.spent]
      /\ via' = [via EXCEPT ![e.issue] = @ \cup {}]
      /\ e.round \in 0..Rounds(e.issue)
  BY <1>1, <1>2, <1>5, RunningEval
<1>8. {} \in SUBSET Issue /\ \A j \in {} : begun[j] >= begun[e.issue]
  OBVIOUS
<1>9. UNCHANGED <<ctx, result, begun>> /\ e.at # "idle" /\ eval[c].at # "idle"
  BY <1>1, <1>5
<1>10. /\ e.at = "tool" => e.through \in Issue /\ begun[e.through] >= begun[e.issue]
       /\ e.at # "single" => eval[c].at # "single"
       /\ e.at \in {"single", "baseline"} => e.spent = 0
       /\ e.at \in {"request", "pause"} => e.spent < TokenLimit
       /\ e.spent < TokenLimit + MaxTokens
  BY <1>1, <1>3, <1>4, <1>5
<1> QED
  BY <1>5, <1>6, <1>7, <1>8, <1>9, <1>10, GoesOn

\* The state in which a round of tool calls leaves its coroutine.
LEMMA RoundEnds ==
  ASSUME LoopInv, NEW c \in Coroutine, eval[c].at = "tool"
  PROVE  LET e == AfterRound(c)
         IN  /\ e \in Eval /\ e.at \in {"request", "pause", "final", "lastPause"}
             /\ e.issue = eval[c].issue /\ e.spent = eval[c].spent
             /\ e.round \in 0..Rounds(e.issue)
             /\ e.at \in {"request", "pause"} => e.spent < TokenLimit
<1>1. /\ eval[c] \in Eval /\ eval[c].round \in 0..Rounds(eval[c].issue)
      /\ eval[c].spent \in Nat /\ eval[c].round \in Nat
  BY RunningEval DEF Eval
<1>0. 0 \in 0..MaxCalls /\ 1 \in 0..HttpAttempts /\ None \in Issue \cup {None}
  BY LoopNumbers
<1> DEFINE f(at) == [eval[c] EXCEPT !.at = at, !.left = 0]
           g(at) == [f(at) EXCEPT !.through = None]
           h(at) == [g(at) EXCEPT !.tries = 1]
<1>2. ASSUME NEW at \in Places
      PROVE  /\ h(at) \in Eval /\ h(at).at = at /\ h(at).issue = eval[c].issue
             /\ h(at).spent = eval[c].spent /\ h(at).round = eval[c].round
  <2>1. f(at) \in Eval /\ f(at).at = at /\ f(at).issue = eval[c].issue
        /\ f(at).spent = eval[c].spent /\ f(at).round = eval[c].round
    BY <1>0, <1>1 DEF Eval
  <2> HIDE DEF f
  <2>2. g(at) \in Eval /\ g(at).at = at /\ g(at).issue = eval[c].issue
        /\ g(at).spent = eval[c].spent /\ g(at).round = eval[c].round
    BY <1>0, <2>1 DEF Eval
  <2> HIDE DEF g
  <2> QED
    BY <1>0, <2>2 DEF Eval
<1>3. CASE LimitReached(c)
  <2>1. PICK at \in {"lastPause", "final"} : AfterRound(c) = h(at)
    BY <1>3 DEF AfterRound
  <2> HIDE DEF h
  <2> QED
    BY <1>1, <1>2, <2>1 DEF Places
<1>4. CASE ~LimitReached(c)
  <2>1. PICK at \in {"pause", "request"} : AfterRound(c) = [h(at) EXCEPT !.round = @ + 1]
    BY <1>4 DEF AfterRound
  <2>2. eval[c].spent < TokenLimit /\ eval[c].round + 1 \in 0..Rounds(eval[c].issue)
    BY <1>1, <1>4, LoopNumbers DEF LimitReached
  <2>3. at \in Places
    BY DEF Places
  <2> HIDE DEF h
  <2>4. [h(at) EXCEPT !.round = @ + 1] \in Eval
    BY <1>1, <1>2, <2>3 DEF Eval
  <2>5. /\ AfterRound(c) \in Eval /\ AfterRound(c).at = at
        /\ AfterRound(c).issue = eval[c].issue /\ AfterRound(c).spent = eval[c].spent
        /\ AfterRound(c).round = eval[c].round + 1
    BY <1>2, <2>1, <2>3, <2>4 DEF Eval
  <2> QED
    BY <1>1, <2>2, <2>5
<1> QED
  BY <1>3, <1>4

LEMMA ToolAnswersStep ==
  ASSUME NEW c \in Coroutine PROVE LoopInv /\ ToolAnswers(c) => LoopInv'
<1> SUFFICES ASSUME LoopInv, ToolAnswers(c) PROVE LoopInv'
  OBVIOUS
<1>1. /\ eval[c].at = "tool" /\ UNCHANGED <<ctx, result, billed, begun>>
      /\ via' = [via EXCEPT ![eval[c].issue] = @ \cup {eval[c].through}]
  BY DEF ToolAnswers, Dispatched
<1>2. /\ {eval[c].through} \in SUBSET Issue
      /\ \A j \in {eval[c].through} : begun[j] >= begun[eval[c].issue]
      /\ ctx \in Issue /\ begun[ctx] >= begun[eval[c].issue]
      /\ eval[c].spent < TokenLimit + MaxTokens
  BY <1>1, RunningEval DEF SoundEval
<1>3. ASSUME NEW e \in Eval, e.issue = eval[c].issue, e.spent = eval[c].spent,
             e.at \in {"tool", "request", "pause", "final", "lastPause"},
             e.at = "tool" => e.through = ctx,
             e.at \in {"request", "pause"} => e.spent < TokenLimit,
             e.round \in 0..Rounds(e.issue), eval' = [eval EXCEPT ![c] = e]
      PROVE  LoopInv'
  <2>1. billed' = [billed EXCEPT ![e.issue] = e.spent]
    BY <1>1, <1>3, RunningEval
  <2>2. /\ via' = [via EXCEPT ![e.issue] = @ \cup {eval[c].through}]
        /\ \A j \in {eval[c].through} : begun[j] >= begun[e.issue]
    BY <1>1, <1>2, <1>3
  <2>3. /\ e.at = "tool" => e.through \in Issue /\ begun[e.through] >= begun[e.issue]
        /\ e.at # "single" => eval[c].at # "single"
        /\ e.at \in {"single", "baseline"} => e.spent = 0
        /\ e.spent < TokenLimit + MaxTokens
        /\ eval[c].at # "idle" /\ e.at # "idle"
        /\ UNCHANGED <<ctx, result, begun>>
    BY <1>1, <1>2, <1>3
  <2> QED
    BY <1>2, <1>3, <2>1, <2>2, <2>3, GoesOn
<1>4. CASE eval[c].left > 1
  <2> DEFINE e == [eval[c] EXCEPT !.left = @ - 1, !.through = ctx]
  <2>1. eval[c] \in Eval /\ eval[c].left - 1 \in 0..MaxCalls
        /\ eval[c].round \in 0..Rounds(eval[c].issue)
    BY <1>1, <1>4, RunningEval, LoopNumbers DEF Eval
  <2>2. /\ e \in Eval /\ e.at = "tool" /\ e.issue = eval[c].issue
        /\ e.spent = eval[c].spent /\ e.round = eval[c].round /\ e.through = ctx
    BY <1>1, <1>2, <2>1 DEF Eval
  <2>3. eval' = [eval EXCEPT ![c] = e]
    BY <1>4 DEF ToolAnswers
  <2> HIDE DEF e
  <2> QED
    BY <1>3, <2>1, <2>2, <2>3
<1>5. CASE ~(eval[c].left > 1)
  <2> DEFINE e == AfterRound(c)
  <2>1. /\ e \in Eval /\ e.at \in {"request", "pause", "final", "lastPause"}
        /\ e.issue = eval[c].issue /\ e.spent = eval[c].spent
        /\ e.round \in 0..Rounds(e.issue)
        /\ e.at \in {"request", "pause"} => e.spent < TokenLimit
    BY <1>1, RoundEnds
  <2>2. eval' = [eval EXCEPT ![c] = e]
    BY <1>5 DEF ToolAnswers
  <2> HIDE DEF e
  <2> QED
    BY <1>3, <2>1, <2>2
<1> QED
  BY <1>4, <1>5

LEMMA ResumeStep == ASSUME NEW c \in Coroutine PROVE LoopInv /\ Resume(c) => LoopInv'
<1> SUFFICES ASSUME LoopInv, Resume(c) PROVE LoopInv'
  OBVIOUS
<1>1. /\ eval[c].at \in {"pause", "lastPause"}
      /\ UNCHANGED <<ctx, result, billed, via, begun>>
  BY DEF Resume
<1> DEFINE e == [eval[c] EXCEPT !.at = IF @ = "pause" THEN "request" ELSE "final"]
<1>2. /\ e \in Eval /\ e.at = IF eval[c].at = "pause" THEN "request" ELSE "final"
      /\ e.issue = eval[c].issue /\ e.spent = eval[c].spent /\ e.round = eval[c].round
  BY <1>1, RunningEval DEF Eval, Places
<1>3. eval' = [eval EXCEPT ![c] = e]
  BY DEF Resume
<1> HIDE DEF e
<1> QED
  BY <1>1, <1>2, <1>3, JustMoves

LEMMA LoopSteps == LoopInv /\ [LoopNext]_loopVars => LoopInv'
<1> SUFFICES ASSUME LoopInv, [LoopNext]_loopVars PROVE LoopInv'
  OBVIOUS
<1>1. CASE UNCHANGED loopVars
  <2>1. Begun' = Begun
    BY <1>1 DEF loopVars, Begun
  <2> QED
    BY <1>1, <2>1 DEF loopVars, LoopInv, LoopTypes, Numbered, OneEach, SoundEval,
       NeverAnOlderContext, BudgetAndBill
<1> QED
  BY <1>1, BeginStep, BaselineStep, RequestFailsStep, FinalAnswerStep, ToolRequestStep,
     ToolAnswersStep, ResumeStep DEF LoopNext

LEMMA LoopTyped == LoopInv => LoopTypeOK
<1> SUFFICES ASSUME LoopInv PROVE LoopTypeOK
  OBVIOUS
<1>1. \A i \in Issue : begun[i] \in 0..Cardinality(Issue)
  <2>1. Cardinality(Begun) \in Nat /\ Cardinality(Issue) \in Nat
        /\ Cardinality(Begun) <= Cardinality(Issue)
    BY FS_Subset, FS_CardinalityType, ToolLoopAssumption DEF ToolLoopAssumption, Begun
  <2> QED
    BY <2>1 DEF LoopInv, LoopTypes, Numbered
<1>2. ASSUME NEW c \in Coroutine
      PROVE  /\ eval[c].at \in {"idle", "baseline", "tool", "pause", "lastPause"} \cup Waiting
             /\ eval[c].issue \in Issue \cup {None}
             /\ eval[c].round \in 0..Rounds(eval[c].issue)
             /\ eval[c].tries \in 0..HttpAttempts
             /\ eval[c].left \in 0..MaxCalls
  BY DEF LoopInv, LoopTypes, SoundEval, Eval, Places, Waiting
<1> QED
  BY <1>1, <1>2 DEF LoopInv, LoopTypes, LoopTypeOK

-----------------------------------------------------------------------------
(* The parts together *)

IInv == LoopInv /\ AcpInv /\ ReaderInv /\ MirrorInv

LEMMA Invariance == Spec => []IInv
<1>1. Init => IInv
  BY LoopBegins, AcpBegins, ReaderBegins, MirrorBegins DEF Init, IInv
<1>2. IInv /\ [Next]_vars => IInv'
  <2> SUFFICES ASSUME IInv, [Next]_vars PROVE IInv'
    OBVIOUS
  <2>1. /\ [LoopNext]_loopVars /\ [AcpNext]_acpVars
        /\ [ReaderNext]_readerVars /\ [MirrorNext]_mirrorVars
    BY DEF Next, vars
  <2> QED
    BY <2>1, LoopSteps, AcpSteps, ReaderSteps, MirrorSteps DEF IInv
<1> QED
  BY <1>1, <1>2, PTL DEF Spec

\* Every variable of the evaluator's tool loop, of the ACP client, of the
\* reader and of the mirror keeps its type.
THEOREM TypeCorrect == Spec => []TypeOK
<1>1. IInv => TypeOK
  BY LoopTyped, MirrorTyped, ReadsBounded DEF IInv, AcpInv, TypeOK
<1> QED
  BY <1>1, Invariance, PTL

\* However many coroutines share one evaluator, a tool call goes through the
\* context of its own evaluation or of one that began later.
THEOREM ContextsNeverOlder == Spec => []NeverAnOlderContext
<1>1. IInv => NeverAnOlderContext
  BY DEF IInv, LoopInv
<1> QED
  BY <1>1, Invariance, PTL

\* The budget and the bill of an evaluation, the handshake before the first
\* request, and the bounds of a read, for every limit, number of callers and
\* concurrency.
THEOREM EvaluationSafe == Spec => []SafeEvaluation
<1>1. IInv => SafeEvaluation
  BY ReadsBounded DEF IInv, LoopInv, AcpInv, SafeEvaluation
<1> QED
  BY <1>1, Invariance, PTL

\* A sync removes a repository in good order only after a check that timed
\* out, or if it has been cloned since the check.
THEOREM GoodMirrorsKept == Spec => OnlySuspectsRemoved
<1>1. IInv /\ [Next]_vars =>
         [\A s \in Syncer :
             Remove(s) /\ dir = "bare" /\ dir' = "absent"
                => sync[s].late \/ sync[s].saw # birth]_mirrorVars
  BY DEF IInv, MirrorInv, Remove
<1> QED
  BY <1>1, Invariance, PTL DEF Spec, OnlySuspectsRemoved
=============================================================================
