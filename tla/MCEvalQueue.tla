---------------------------- MODULE MCEvalQueue ----------------------------
(* EvalQueue on small instances; each .cfg names its bounds. *)
EXTENDS EvalQueue, TLC

CONSTANTS w1, w2

MCWorkers == {w1, w2}

\* Workers are interchangeable (safety runs only).
WorkerSymmetry == Permutations(MCWorkers)
=============================================================================
