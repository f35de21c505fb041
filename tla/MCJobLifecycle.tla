-------------------------- MODULE MCJobLifecycle --------------------------
(* One document, its job, a retry and a retry of the retry; two workers. *)
EXTENDS JobLifecycle, TLC

CONSTANTS j1, j2, w1, w2

MCJobs == {j1, j2}
MCUploads == {j1}
MCWorkers == {w1, w2}
MCSymmetry == Permutations(MCWorkers)
===========================================================================
