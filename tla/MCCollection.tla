---------------------------- MODULE MCCollection ----------------------------
(* Collection on small instances; each .cfg names its bounds. *)
EXTENDS Collection, TLC

CONSTANTS sweep, daily, i1, i2

\* Two entries of the open sweep: one that is still running, and the next.
MCSweeps == [p \in {sweep, daily} |-> {"open"}]

\* One entry, in every mode.
MCModes == daily :> {"open", "full", "refresh", "rotation"}

MCOwner == i1 :> 1
MCOwners == i1 :> 1 @@ i2 :> 1

\* Two issues of one project are interchangeable.
Symmetry == Permutations({i1, i2})
=============================================================================
