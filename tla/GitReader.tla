----------------------------- MODULE GitReader -----------------------------
(***************************************************************************)
(* craft_dashboard/git_mirrors/reader.py: every read of a mirror runs one  *)
(* git subprocess under a semaphore.  _exec_git_capped drains both of its  *)
(* pipes, keeps at most a ceiling of each, terminates git when stdout has  *)
(* reached its ceiling and kills it at a deadline.                         *)
(*                                                                         *)
(* git writes its two streams in an order of its own and blocks on a pipe  *)
(* that is full; sizes are in chunks.                                      *)
(***************************************************************************)
EXTENDS Integers, FiniteSets

CONSTANTS
    Task,        \* coroutines that want to read
    Concurrency, \* set_git_concurrency
    OutCap,      \* _MAX_OUTPUT_BYTES
    ErrCap,      \* _MAX_STDERR_BYTES
    PipeSize,    \* what a pipe holds before its writer blocks
    MaxOut,      \* bound: what a git command writes to stdout
    MaxErr       \* bound: what it writes to stderr

ASSUME GitReaderAssumption ==
    /\ Concurrency \in Nat \ {0} /\ PipeSize \in Nat \ {0}
    /\ OutCap \in Nat \ {0} /\ ErrCap \in Nat \ {0}
    /\ MaxOut \in Nat /\ MaxErr \in Nat

VARIABLES
    permits,  \* _git_semaphore
    read,     \* read[t]: the state of t's _exec_git_capped
    git       \* git[t]: the subprocess

readerVars == <<permits, read, git>>

Streams == {"out", "err"}
Cap(s) == IF s = "out" THEN OutCap ELSE ErrCap
Nothing == [s \in Streams |-> 0]
NoRead == [at |-> "idle", kept |-> Nothing, open |-> {}, truncated |-> FALSE, result |-> "none"]

\* "left": still to be written; "wants": the stream of the next write.
NoGit == [alive |-> FALSE, left |-> Nothing, pipe |-> Nothing, wants |-> "out", failed |-> FALSE]

ReaderInit ==
    /\ permits = Concurrency
    /\ read = [t \in Task |-> NoRead]
    /\ git = [t \in Task |-> NoGit]

-----------------------------------------------------------------------------
Start(t) ==
    /\ read[t].at = "idle" /\ permits > 0
    /\ permits' = permits - 1
    /\ read' = [read EXCEPT ![t] = [NoRead EXCEPT !.at = "draining", !.open = Streams]]
    /\ \E o \in 0..MaxOut, e \in 0..MaxErr, w \in Streams, f \in BOOLEAN :
          git' = [git EXCEPT ![t] =
             [NoGit EXCEPT !.alive = TRUE, !.left = [s \in Streams |-> IF s = "out" THEN o ELSE e],
                           !.wants = w, !.failed = f]]

\* The subprocess writes where it wants to, then wants any other thing.
Writes(t) ==
    LET w == git[t].wants
    IN  /\ git[t].alive /\ git[t].left[w] > 0 /\ git[t].pipe[w] < PipeSize
        /\ \E next \in Streams :
              git' = [git EXCEPT ![t].left[w] = @ - 1, ![t].pipe[w] = @ + 1, ![t].wants = next]
        /\ UNCHANGED <<permits, read>>

TurnsTo(t) ==
    /\ git[t].alive /\ git[t].left[git[t].wants] = 0
    /\ git[t].left # Nothing
    /\ git' = [git EXCEPT ![t].wants = CHOOSE s \in Streams : git[t].left[s] > 0]
    /\ UNCHANGED <<permits, read>>

Exits(t) ==
    /\ git[t].alive /\ git[t].left = Nothing
    /\ git' = [git EXCEPT ![t].alive = FALSE]
    /\ UNCHANGED <<permits, read>>

-----------------------------------------------------------------------------
\* A chunk is kept up to the ceiling and dropped beyond it; stdout at its
\* ceiling terminates git.  What it had not written yet never comes.
Keep(t, s) == IF read[t].kept[s] < Cap(s) THEN read[t].kept[s] + 1 ELSE Cap(s)

Drain(t, s) ==
    LET full == s = "out" /\ Keep(t, s) >= OutCap /\ ~read[t].truncated
    IN  /\ read[t].at = "draining" /\ s \in read[t].open
        /\ git[t].pipe[s] > 0
        /\ read' = [read EXCEPT ![t].kept[s] = Keep(t, s), ![t].truncated = @ \/ full]
        /\ git' = [git EXCEPT ![t].pipe[s] = @ - 1,
                              ![t].left = IF full THEN Nothing ELSE @,
                              ![t].failed = @ \/ (full /\ git[t].alive)]
        /\ UNCHANGED permits

EndOfFile(t, s) ==
    /\ read[t].at = "draining" /\ s \in read[t].open
    /\ git[t].pipe[s] = 0 /\ ~git[t].alive
    /\ read' = [read EXCEPT ![t].open = @ \ {s}]
    /\ UNCHANGED <<permits, git>>

\* The exit code of a terminated git means nothing and is not looked at.
CodeCounts(t) == git[t].failed /\ ~read[t].truncated

Finish(t) ==
    /\ read[t].at = "draining" /\ read[t].open = {} /\ ~git[t].alive
    /\ read' = [read EXCEPT ![t].at = "over", ![t].result = IF CodeCounts(t) THEN "error" ELSE "text"]
    /\ permits' = permits + 1
    /\ UNCHANGED git

\* At the deadline git is killed and reaped before the exception leaves.
Deadline(t) ==
    /\ read[t].at = "draining"
    /\ read' = [read EXCEPT ![t].at = "over", ![t].result = "timeout"]
    /\ git' = [git EXCEPT ![t] = NoGit]
    /\ permits' = permits + 1

-----------------------------------------------------------------------------
GitStep(t) == Writes(t) \/ TurnsTo(t) \/ Exits(t)
DrainStep(t, s) == Drain(t, s) \/ EndOfFile(t, s)
EdgeStep(t) == Start(t) \/ Finish(t)

ReaderNext ==
    \E t \in Task :
        \/ Start(t) \/ Writes(t) \/ TurnsTo(t) \/ Exits(t)
        \/ \E s \in Streams : Drain(t, s) \/ EndOfFile(t, s)
        \/ Finish(t) \/ Deadline(t)

ReaderSpec == ReaderInit /\ [][ReaderNext]_readerVars

\* git writes when it can, the selector reports what is readable, and whoever
\* waits for the semaphore is woken.  Deadlines are not needed.
ReaderFairness ==
    \A t \in Task :
        /\ WF_readerVars(GitStep(t)) /\ WF_readerVars(EdgeStep(t))
        /\ \A s \in Streams : WF_readerVars(DrainStep(t, s))

-----------------------------------------------------------------------------
(* Properties *)

ReaderTypeOK ==
    /\ permits \in 0..Concurrency
    /\ \A t \in Task :
          /\ read[t].at \in {"idle", "draining", "over"}
          /\ \A s \in Streams : git[t].pipe[s] \in 0..PipeSize
          /\ git[t].wants \in Streams

\* At most Concurrency git processes exist at any time, what they leave in
\* memory is bounded by the ceilings, and a truncated output is returned as
\* text although the termination makes git fail.
BoundedReads ==
    /\ Cardinality({t \in Task : git[t].alive}) <= Concurrency
    /\ \A t \in Task : \A s \in Streams : read[t].kept[s] <= Cap(s)
    /\ \A t \in Task :
          /\ read[t].at = "over" => ~git[t].alive
          /\ read[t].truncated => read[t].result \in {"none", "text", "timeout"}

\* Neither pipe can block git for good: without any deadline every read ends.
ReadsEnd == \A t \in Task : <>(read[t].at = "over")
=============================================================================
