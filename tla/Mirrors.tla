------------------------------ MODULE Mirrors ------------------------------
(***************************************************************************)
(* sync_mirror of craft_dashboard/git_mirrors/sync.py on the bare mirror   *)
(* of one project: the commit scanner, `mirrors sync` and the preflights   *)
(* of the evaluation workers may run it at the same time, each cut at      *)
(* every git command (asyncio.to_thread).  git itself is external: a clone *)
(* fails when its target exists; one that is killed leaves a directory     *)
(* behind that may or may not be a repository, one that fails leaves none. *)
(***************************************************************************)
EXTENDS Integers

CONSTANTS
    Syncer,       \* callers of sync_mirror
    Scheduled,    \* the one that comes back for ever; the others are visits
    MaxVisits,    \* bound: calls by the others
    MaxDamages,   \* bound: times the directory is damaged from outside
    MaxTimeouts   \* bound: git commands that exceed their timeout

ASSUME MirrorsAssumption ==
    Scheduled \in Syncer /\ MaxVisits \in Nat /\ MaxDamages \in Nat /\ MaxTimeouts \in Nat

VARIABLES
    dir,        \* the directory: "absent", "broken", or a "bare" repository
    birth,      \* birth of the repository in it: clones so far
    reflogs,    \* core.logAllRefUpdates and the refspecs are set in it
    sync,       \* sync[s]: where the call of s stands, and what it has seen
    status,     \* status[s]: the last MirrorSyncResult of s
    visits, damages, timeouts

mirrorVars == <<dir, birth, reflogs, sync, status, visits, damages, timeouts>>

\* "saw" is the birth of the repository whose check failed; "late" says that
\* the check did not fail, but took too long.
Away == [at |-> "out", saw |-> 0, late |-> FALSE]

MirrorInit ==
    /\ dir \in {"absent", "bare"} /\ birth = 0 /\ reflogs = FALSE
    /\ sync = [s \in Syncer |-> Away]
    /\ status = [s \in Syncer |-> "none"]
    /\ visits = 0 /\ damages = 0 /\ timeouts = 0

Goes(s, where) == sync' = [sync EXCEPT ![s].at = where]

Returns(s, outcome) ==
    /\ sync' = [sync EXCEPT ![s] = Away]
    /\ status' = [status EXCEPT ![s] = outcome]

TimesOut == timeouts < MaxTimeouts /\ timeouts' = timeouts + 1

-----------------------------------------------------------------------------
Enter(s) ==
    /\ sync[s].at = "out"
    /\ \/ s = Scheduled /\ UNCHANGED visits
       \/ visits < MaxVisits /\ visits' = visits + 1
    /\ Goes(s, IF dir = "absent" THEN "clone" ELSE "configure")
    /\ UNCHANGED <<dir, birth, reflogs, status, damages, timeouts>>

\* Configured again before every fetch: an older mirror is healed.
Configure(s) ==
    /\ sync[s].at = "configure"
    /\ \/ dir = "bare" /\ reflogs' = TRUE /\ Goes(s, "fetch") /\ UNCHANGED timeouts
       \/ dir # "bare" /\ Goes(s, "check") /\ UNCHANGED <<reflogs, timeouts>>
       \/ TimesOut /\ Goes(s, "check") /\ UNCHANGED reflogs
    /\ UNCHANGED <<dir, birth, status, visits, damages>>

Fetch(s) ==
    /\ sync[s].at = "fetch"
    /\ \/ dir = "bare" /\ Returns(s, "fetched") /\ UNCHANGED timeouts
       \/ dir # "bare" /\ Goes(s, "check") /\ UNCHANGED <<status, timeouts>>
       \/ TimesOut /\ Goes(s, "check") /\ UNCHANGED status
    /\ UNCHANGED <<dir, birth, reflogs, visits, damages>>

FailureIsEnough == TRUE                                \* mutant: no check at all
Invalid == dir # "bare"

\* _is_valid_mirror: a check that times out says no.
Check(s) ==
    /\ sync[s].at = "check"
    /\ \/ dir = "bare" /\ Returns(s, "skipped") /\ UNCHANGED timeouts
       \/ /\ Invalid
          /\ sync' = [sync EXCEPT ![s] = [at |-> "remove", saw |-> birth, late |-> FALSE]]
          /\ UNCHANGED <<status, timeouts>>
       \/ /\ dir = "bare" /\ TimesOut
          /\ sync' = [sync EXCEPT ![s] = [at |-> "remove", saw |-> birth, late |-> TRUE]]
          /\ UNCHANGED status
    /\ UNCHANGED <<dir, birth, reflogs, visits, damages>>

NotRemoved(s) == UNCHANGED <<dir, reflogs>>            \* mutant
Removed(s) == dir' = "absent" /\ reflogs' = FALSE

\* rmtree takes whatever is there by now; nothing there is an OSError, which
\* no handler catches.
Remove(s) ==
    /\ sync[s].at = "remove"
    /\ \/ dir # "absent" /\ Removed(s) /\ Goes(s, "clone") /\ UNCHANGED status
       \/ dir = "absent" /\ Returns(s, "raised") /\ UNCHANGED <<dir, reflogs>>
    /\ UNCHANGED <<birth, visits, damages, timeouts>>

\* A clone that ends is a repository at once; one that is killed is not sure
\* to be one.
Clone(s) ==
    /\ sync[s].at = "clone"
    /\ \/ /\ dir = "absent"
          /\ dir' = "bare" /\ birth' = birth + 1 /\ reflogs' = FALSE
          /\ Goes(s, "configureClone")
          /\ UNCHANGED <<status, timeouts>>
       \/ dir # "absent" /\ Returns(s, "skipped") /\ UNCHANGED <<dir, birth, reflogs, timeouts>>
       \/ /\ dir = "absent" /\ TimesOut
          /\ dir' \in {"broken", "bare"} /\ birth' = birth + 1 /\ reflogs' = FALSE
          /\ Returns(s, "skipped")
    /\ UNCHANGED <<visits, damages>>

ConfigureClone(s) ==
    /\ sync[s].at = "configureClone"
    /\ \/ dir = "bare" /\ reflogs' = TRUE /\ Returns(s, "cloned") /\ UNCHANGED timeouts
       \/ dir # "bare" /\ Returns(s, "skipped") /\ UNCHANGED <<reflogs, timeouts>>
       \/ TimesOut /\ Returns(s, "skipped") /\ UNCHANGED reflogs
    /\ UNCHANGED <<dir, birth, visits, damages>>

Damage ==
    /\ dir = "bare" /\ damages < MaxDamages
    /\ damages' = damages + 1
    /\ dir' = "broken"
    /\ UNCHANGED <<birth, reflogs, sync, status, visits, timeouts>>

-----------------------------------------------------------------------------
SyncStep(s) ==
    Enter(s) \/ Configure(s) \/ Fetch(s) \/ Check(s) \/ Remove(s) \/ Clone(s) \/ ConfigureClone(s)

MirrorNext ==
    \/ \E s \in Syncer :
          \/ Enter(s) \/ Configure(s) \/ Fetch(s) \/ Check(s)
          \/ Remove(s) \/ Clone(s) \/ ConfigureClone(s)
    \/ Damage

MirrorSpec == MirrorInit /\ [][MirrorNext]_mirrorVars

\* git answers or is killed; nothing is assumed of damage and of timeouts.
MirrorFairness == \A s \in Syncer : WF_mirrorVars(SyncStep(s))

-----------------------------------------------------------------------------
(* Properties *)

MirrorTypeOK ==
    /\ dir \in {"absent", "broken", "bare"} /\ birth \in Nat /\ reflogs \in BOOLEAN
    /\ \A s \in Syncer :
          /\ sync[s].at \in {"out", "configure", "fetch", "check", "remove",
                             "clone", "configureClone"}
          /\ status[s] \in {"none", "fetched", "cloned", "skipped", "raised"}
    /\ reflogs => dir # "absent"

\* A repository in good order, and every commit an evaluation has pinned in
\* it, is only ever removed after a check that timed out, or by a sync whose
\* check found an earlier one damaged while another sync has cloned it anew:
\* one sync at a time with prompt checks never loses a good mirror.
OnlySuspectsRemoved ==
    [][\A s \in Syncer :
          Remove(s) /\ dir = "bare" /\ dir' = "absent"
              => sync[s].late \/ sync[s].saw # birth]_mirrorVars

\* Once damage, timeouts and the visits of others have ended, the scheduled
\* sync leaves a repository in good order with its reflogs on, whatever was
\* there before.  As long as others come too this need not happen: two syncs
\* may take each other's fresh clone for the broken mirror for ever.
EventuallyHealed == <>[](dir = "bare" /\ reflogs)
=============================================================================
