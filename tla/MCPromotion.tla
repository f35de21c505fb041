--------------------------- MODULE MCPromotion ----------------------------
(* One job and up to three runs of it. *)
EXTENDS Promotion, TLC

CONSTANTS j1, r1, r2, r3, w1, w2, w3

MCJobs == {j1}
MCWorkers == {w1, w2, w3}

TwoRuns == {r1, r2}
ThreeRuns == {r1, r2, r3}

\* WORKER_CONCURRENCY=1: every run has a lease_owner of its own.
OwnerOfTwo == (r1 :> w1) @@ (r2 :> w2)
OwnerOfThree == (r1 :> w1) @@ (r2 :> w2) @@ (r3 :> w3)

\* WORKER_CONCURRENCY=2: two handlers of one process share theirs.
SharedOwner == (r1 :> w1) @@ (r2 :> w1)

\* Three runs, each with its worker, are interchangeable.
RunSymmetry ==
    { [x \in ThreeRuns \cup MCWorkers |->
         IF x \in ThreeRuns THEN p[x]
         ELSE OwnerOfThree[p[CHOOSE r \in ThreeRuns : OwnerOfThree[r] = x]]] :
      p \in Permutations(ThreeRuns) }
===========================================================================
