---------------------------- MODULE MCEvalWorker ----------------------------
(* EvalWorker on small instances; each .cfg names its bounds. *)
EXTENDS EvalWorker, TLC

CONSTANTS w1, w2

\* Coroutines are interchangeable (safety runs only).
WorkerSymmetry == Permutations({w1, w2})
=============================================================================
