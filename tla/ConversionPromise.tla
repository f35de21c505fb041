------------------------ MODULE ConversionPromise ------------------------
(***************************************************************************)
(* What the platform promises its users about conversions, without         *)
(* workers, leases, messages or retries of the platform itself.            *)
(*                                                                         *)
(* An upload is accepted as a job.  The job is settled exactly once, with  *)
(* one of five outcomes, and its bundle can be downloaded exactly from the *)
(* step that settles it as succeeded.  A cancellation either wins          *)
(* completely or comes too late.  A user may retry a job that gave no      *)
(* bundle, once: the retry is a new job of the same document.              *)
(***************************************************************************)
CONSTANTS Jobs,   \* identifiers a job may be given
          NoJob   \* the parent of a job that retries nothing (SQL NULL)

VARIABLES state,        \* [Jobs -> States]: what the user is told of each job
          doc,          \* [Jobs -> document], named by the first job of the document
          parent,       \* [Jobs -> job it retries]
          downloadable  \* the jobs whose bundle the read endpoints serve

vars == <<state, doc, parent, downloadable>>

Settled == {"succeeded", "invalid", "failed", "dead", "canceled"}
NoBundle == Settled \ {"succeeded"}
States == {"absent", "active", "canceling"} \cup Settled

Init ==
    /\ state = [j \in Jobs |-> "absent"]
    /\ doc = [j \in Jobs |-> NoJob]
    /\ parent = [j \in Jobs |-> NoJob]
    /\ downloadable = {}

\* An upload: a new document and its first job.
Accept(j) ==
    /\ state[j] = "absent"
    /\ state' = [state EXCEPT ![j] = "active"]
    /\ doc' = [doc EXCEPT ![j] = j]
    /\ parent' = [parent EXCEPT ![j] = NoJob]
    /\ UNCHANGED downloadable

\* The user retries p, which gave no bundle and was not retried before, as c.
Retry(p, c) ==
    /\ state[p] \in NoBundle
    /\ \A k \in Jobs : parent[k] # p
    /\ state[c] = "absent"
    /\ state' = [state EXCEPT ![c] = "active"]
    /\ doc' = [doc EXCEPT ![c] = doc[p]]
    /\ parent' = [parent EXCEPT ![c] = p]
    /\ UNCHANGED downloadable

\* A cancellation that is in time: at once, or as a promise to give no bundle.
Cancel(j) ==
    /\ state[j] = "active"
    /\ \E s \in {"canceling", "canceled"} : state' = [state EXCEPT ![j] = s]
    /\ UNCHANGED <<doc, parent, downloadable>>

\* The promise given to the canceled jobs S is kept.
CloseCanceled(S) ==
    /\ \A j \in S : state[j] = "canceling"
    /\ state' = [j \in Jobs |-> IF j \in S THEN "canceled" ELSE state[j]]
    /\ UNCHANGED <<doc, parent, downloadable>>

\* The conversion ends; a success and its bundle become visible together.
Settle(j, outcome) ==
    /\ state[j] = "active"
    /\ state' = [state EXCEPT ![j] = outcome]
    /\ downloadable' = IF outcome = "succeeded"
                         THEN downloadable \cup {j} ELSE downloadable
    /\ UNCHANGED <<doc, parent>>

Next ==
    \/ \E j \in Jobs : Accept(j) \/ Cancel(j)
    \/ \E p, c \in Jobs : Retry(p, c)
    \/ \E S \in SUBSET Jobs : CloseCanceled(S)
    \/ \E j \in Jobs : \E o \in Settled \ {"canceled"} : Settle(j, o)

Spec == Init /\ [][Next]_vars
==========================================================================
