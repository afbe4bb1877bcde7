------------------------------ MODULE Launchpad ------------------------------
(***************************************************************************)
(* LaunchpadCollector.collect_bugs on one project, and the pass of the     *)
(* collection driver around it, here a sweep.  A scheduled sweep searches  *)
(* the bugs that were modified since the watermark less an overlap; the    *)
(* hourly rotation searches them all.  Bugs are fetched one by one and     *)
(* stored in one commit; the watermark is the time at the end of the       *)
(* sweep.  issue_activity, which only the pages read, is left out.         *)
(***************************************************************************)
EXTENDS Integers, FiniteSets

CONSTANTS
    Bug,
    Overlap,       \* _WATERMARK_OVERLAP
    MaxTime, MaxEdits, MaxErrors  \* bounds

ASSUME LaunchpadAssumption ==
    /\ IsFiniteSet(Bug)
    /\ Overlap \in Nat /\ MaxTime \in Nat /\ MaxEdits \in Nat /\ MaxErrors \in Nat

VARIABLES
    clock,
    bugs,      \* bugs[b]: what Launchpad has: date_last_updated and the version
    copies,    \* copies[b]: the issue row
    mark,      \* last_collected_at of the watermark
    sweep,      \* the sweep under way
    errors,    \* failed requests so far
    slow       \* history: a sweep that took longer than the overlap has succeeded

launchpadVars == <<clock, bugs, copies, mark, sweep, errors, slow>>

NoMark == -1 - Overlap
NoBug == [at |-> 0, version |-> 0]
NoCopy == [version |-> 0, comments |-> FALSE]
NoSweep == [at |-> "idle", began |-> 0, todo |-> {}, staged |-> [b \in {} |-> NoCopy]]

LaunchpadInit ==
    /\ clock = 0 /\ mark = NoMark
    /\ bugs = [b \in Bug |-> NoBug] /\ copies = [b \in Bug |-> NoCopy]
    /\ sweep = NoSweep /\ errors = 0 /\ slow = FALSE

Known(b) == bugs[b].version > 0

-----------------------------------------------------------------------------
(* Launchpad, and time *)

Wait ==
    /\ clock < MaxTime /\ clock' = clock + 1
    /\ UNCHANGED <<bugs, copies, mark, sweep, errors, slow>>

\* A bug is reported, or edited, commented on or closed.
Edit(b) ==
    /\ bugs[b].version < MaxEdits
    /\ bugs' = [bugs EXCEPT ![b] = [at |-> clock, version |-> @.version + 1]]
    /\ UNCHANGED <<clock, copies, mark, sweep, errors, slow>>

-----------------------------------------------------------------------------
(* A sweep *)

NoOverlap(full) == IF full THEN NoMark ELSE mark              \* mutant
SearchedFrom(full) == IF full THEN NoMark ELSE mark - Overlap

\* The driver begins a scheduled sweep, or the rotation a full one.
BeginSweep(full) ==
    /\ sweep.at = "idle"
    /\ sweep' = [at |-> "fetch", began |-> clock, staged |-> NoSweep.staged,
                 todo |-> {b \in Bug : Known(b) /\ bugs[b].at >= SearchedFrom(full)}]
    /\ UNCHANGED <<clock, bugs, copies, mark, errors, slow>>

\* The bug as it is now; a request for its comments that fails leaves none.
FetchBug(b, comments) ==
    /\ sweep.at = "fetch" /\ b \in sweep.todo
    /\ comments \/ errors < MaxErrors
    /\ errors' = IF comments THEN errors ELSE errors + 1
    /\ LET copy == [version |-> bugs[b].version, comments |-> comments]
       IN  sweep' = [at |-> "fetch", began |-> sweep.began, todo |-> sweep.todo \ {b},
                     staged |-> [c \in DOMAIN sweep.staged \cup {b} |->
                                   IF c = b THEN copy ELSE sweep.staged[c]]]
    /\ UNCHANGED <<clock, bugs, copies, mark, slow>>

CommitBugs ==
    /\ sweep.at = "fetch" /\ sweep.todo = {}
    /\ copies' = [b \in Bug |-> IF b \in DOMAIN sweep.staged THEN sweep.staged[b] ELSE copies[b]]
    /\ sweep' = [sweep EXCEPT !.at = "snapshot", !.staged = NoSweep.staged]
    /\ UNCHANGED <<clock, bugs, mark, errors, slow>>

\* generate_snapshot and _upsert_collection_watermark
EndSweep ==
    /\ sweep.at = "snapshot"
    /\ mark' = clock
    /\ slow' = (slow \/ sweep.began < clock - Overlap)
    /\ sweep' = NoSweep
    /\ UNCHANGED <<clock, bugs, copies, errors>>

\* The exception leaves the session, and what was not committed is gone.
FailSweep ==
    /\ sweep.at # "idle" /\ errors < MaxErrors
    /\ errors' = errors + 1
    /\ sweep' = NoSweep
    /\ UNCHANGED <<clock, bugs, copies, mark, slow>>

SweepStep == (\E b \in Bug : FetchBug(b, TRUE)) \/ CommitBugs \/ EndSweep

LaunchpadNext ==
    \/ Wait
    \/ \E b \in Bug : Edit(b)
    \/ \E full \in BOOLEAN : BeginSweep(full)
    \/ \E b \in Bug, comments \in BOOLEAN : FetchBug(b, comments)
    \/ CommitBugs \/ EndSweep \/ FailSweep

LaunchpadSpec == LaunchpadInit /\ [][LaunchpadNext]_launchpadVars

\* cron starts both kinds of sweep for ever, and requests are answered or fail.
LaunchpadFairness ==
    /\ WF_launchpadVars(SweepStep)
    /\ SF_launchpadVars(BeginSweep(TRUE))

-----------------------------------------------------------------------------
(* Properties *)

Copy == [version : 0..MaxEdits, comments : BOOLEAN]
Staging == UNION {[B -> Copy] : B \in SUBSET Bug}

LaunchpadTypeOK ==
    /\ clock \in 0..MaxTime /\ mark \in {NoMark} \cup 0..clock
    /\ bugs \in [Bug -> [at : 0..clock, version : 0..MaxEdits]]
    /\ copies \in [Bug -> Copy]
    /\ sweep \in [at : {"idle", "fetch", "snapshot"}, began : 0..clock, todo : SUBSET Bug,
                  staged : Staging]
    /\ sweep.todo \cap DOMAIN sweep.staged = {}
    /\ errors \in 0..MaxErrors /\ slow \in BOOLEAN

\* The watermark misses no bug: one whose stored copy is behind is found by
\* the next search, whatever changes during a sweep and whichever sweeps fail,
\* as long as no sweep takes longer than the overlap.
WatermarkCovers ==
    ~slow => \A b \in Bug : copies[b].version # bugs[b].version => bugs[b].at >= mark - Overlap

\* Full sweeps of the rotation repair what incremental ones leave: in the end
\* every bug is stored as it is, with its comments.
RotationHeals ==
    <>[](\A b \in Bug : Known(b) =>
           copies[b] = [version |-> bugs[b].version, comments |-> TRUE])
=============================================================================
