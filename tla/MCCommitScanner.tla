-------------------------- MODULE MCCommitScanner --------------------------
(* CommitScanner on small instances; each .cfg names its bounds. *)
EXTENDS CommitScanner, TLC
=============================================================================
