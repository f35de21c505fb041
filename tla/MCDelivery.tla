---------------------------- MODULE MCDelivery ----------------------------
(* One job, two workers and a fault. *)
EXTENDS Delivery, TLC

CONSTANTS j1, w1, w2

MCJobs == {j1}
MCWorkers == {w1, w2}
MCSymmetry == Permutations(MCWorkers)
===========================================================================
