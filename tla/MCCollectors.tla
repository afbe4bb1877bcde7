----------------------------- MODULE MCCollectors -----------------------------
(***************************************************************************)
(* The collectors of CI failures, forum topics and Launchpad bugs, one at  *)
(* a time: they share no rows.  "part" says whose behaviour this one is.   *)
(***************************************************************************)
EXTENDS CICollector, ForumBackfill, Launchpad

VARIABLE part

vars == <<part, ciVars, forumVars, launchpadVars>>

\* Category 1 has an old topic pinned at its head, and more of them at its end
\* than the streak.
MCListing == <<<<2, 6, 5, 4, 3, 1>>, <<7>>>>

Init ==
    /\ part \in {"ci", "forum", "launchpad"}
    /\ CIInit /\ ForumInit /\ LaunchpadInit

Next ==
    /\ UNCHANGED part
    /\ \/ part = "ci" /\ CINext /\ UNCHANGED <<forumVars, launchpadVars>>
       \/ part = "forum" /\ ForumNext /\ UNCHANGED <<ciVars, launchpadVars>>
       \/ part = "launchpad" /\ LaunchpadNext /\ UNCHANGED <<ciVars, forumVars>>

\* The fairness of each part, in the behaviours that are its own.
Spec ==
    /\ Init /\ [][Next]_vars
    /\ WF_forumVars(part = "forum" /\ ForumStep)
    /\ WF_launchpadVars(part = "launchpad" /\ SweepStep)
    /\ SF_launchpadVars(part = "launchpad" /\ BeginSweep(TRUE))

\* The type invariants of the parts.
TypeOK == CITypeOK /\ ForumTypeOK /\ LaunchpadTypeOK

\* The forum's history is walked to its end, and what a collection of bugs
\* has left behind is stored in the end (collect_forum_data.py, and the
\* rotation of collect_data.py).
CollectorsCatchUp ==
    /\ part = "forum" => BackfillEnds
    /\ part = "launchpad" => RotationHeals
=============================================================================
