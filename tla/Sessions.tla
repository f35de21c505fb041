------------------------------ MODULE Sessions ------------------------------
(***************************************************************************)
(* The sessions of the workers, of the users and of the sweeper on the rows *)
(* of one job, interleaved statement by statement.  JobLifecycle states     *)
(* what each function does to the rows; this module asks what is left of    *)
(* that when the functions are taken apart.                                 *)
(***************************************************************************)
EXTENDS ApiCalls

CONSTANTS Sweepers, \* BOUND: replicas that sweep
          Casts     \* BOUND: the sets of sessions that are let loose together

VARIABLE overtaken  \* a sweeper's UPDATE has hit a row its subquery would not select

sessionVars == <<rows, at, seen, lease, answer, overtaken>>

AllSessions == Slots \cup Cancels \cup Clicks \cup Downloads \cup Sweepers

RowNames == {"job", "bundle", "ticket"} \cup Clicks

ASSUME SessionsAssumption ==
    Nobody \notin AllSessions /\ {"job", "bundle", "ticket"} \cap Clicks = {}

First(s) ==
    IF s \in Slots THEN "claim"
    ELSE IF s \in Cancels THEN "cancel_queued"
    ELSE IF s \in Clicks THEN "lock_parent"
    ELSE IF s \in Downloads THEN "create_ticket"
    ELSE "select_canceling"

\* A job waiting in the queue, one that ended without a bundle, or a published one.
SessionsInit ==
    /\ \E status \in {"queued", "dead", "succeeded"} :
         db = [r \in RowNames |->
                 IF r = "job" THEN [status |-> status, lease_owner |-> NoWorker,
                                    cancel_requested |-> FALSE, attempt |-> 1]
                 ELSE IF r = "ticket" THEN [issued |-> FALSE, expired |-> FALSE, uses |-> 0]
                 ELSE IF r = "bundle" /\ status = "succeeded" THEN "published"
                 ELSE "absent"]
    /\ lock = [r \in RowNames |-> Nobody]
    /\ draft = db
    /\ \E cast \in Casts : at = [s \in AllSessions |-> IF s \in cast THEN First(s) ELSE "over"]
    /\ seen = [s \in AllSessions |-> "nothing"]
    /\ lease = "live"
    /\ answer = [s \in AllSessions |-> "none"]
    /\ overtaken = FALSE

---------------------------------------------------------------------------
(* JobRepo.CancelExpiredLeases and ReclaimExpiredLeases: the subquery keeps the *)
(* snapshot of the statement, and once the row can be written only id IN (...)   *)
(* is evaluated again                                                            *)

Overdue(status) == Job.status = status /\ lease = "overdue"

Select(s, label, status, next, otherwise) ==
    /\ at[s] = label
    /\ Goto(s, IF Overdue(status) THEN next ELSE otherwise)
    /\ UNCHANGED <<rows, seen, lease, answer, overtaken>>

SelectCanceling(s) == Select(s, "select_canceling", "canceling", "cancel_expired", "select_running")
SelectRunning(s) == Select(s, "select_running", "running", "reclaim_expired", "select_canceling")

CancelExpired(s) ==
    /\ at[s] = "cancel_expired"
    /\ Store("job", Closed(Job, "canceled"))
    /\ overtaken' = (overtaken \/ ~Overdue("canceling"))
    /\ lease' = "live"
    /\ Goto(s, "select_running")
    /\ UNCHANGED <<seen, answer>>

ReclaimExpired(s) ==
    /\ at[s] = "reclaim_expired"
    /\ Store("job", Closed(Job, "queued"))
    /\ overtaken' = (overtaken \/ ~Overdue("running"))
    /\ lease' = "live"
    /\ Goto(s, "select_canceling")
    /\ UNCHANGED <<seen, answer>>

\* Time passes for the lease of a job that has one.
LeaseAges ==
    /\ Job.lease_owner # NoWorker
    /\ \/ lease = "live" /\ lease' = "expired"
       \/ lease = "expired" /\ lease' = "overdue"
    /\ UNCHANGED <<rows, at, seen, answer, overtaken>>

SessionsNext ==
    \/ \E s \in Slots : SlotStep(s) /\ UNCHANGED <<answer, overtaken>>
    \/ ApiNext /\ UNCHANGED overtaken
    \/ \E s \in Sweepers : SelectCanceling(s) \/ SelectRunning(s) \/ CancelExpired(s) \/ ReclaimExpired(s)
    \/ LeaseAges

SessionsSpec == SessionsInit /\ [][SessionsNext]_sessionVars

---------------------------------------------------------------------------
(* Correctness *)

Statuses == Terminal \cup Active

SessionsTypeOK ==
    /\ db["job"] \in [status : Statuses, lease_owner : Workers \cup {NoWorker},
                      cancel_requested : BOOLEAN, attempt : 1..MaxAttempts]
    /\ db["bundle"] \in {"absent", "promoting", "published"}
    /\ db["ticket"] \in [issued : BOOLEAN, expired : BOOLEAN, uses : 0..MaxUses]
    /\ \A c \in Clicks : db[c] \in Statuses \cup {"absent"}
    /\ \A r \in RowNames : lock[r] = Nobody => draft[r] = db[r]
    /\ \A s \in AllSessions : at[s] = "over" => Held(s) = {}
    /\ lease \in Lease

\* The row that the next statement of a slot writes, if it selects it.
Wants(s) ==
    CASE at[s] \in {"insert_bundle", "select_bundle"} -> {"bundle"}
      [] at[s] = "publish_job" /\ HoldsRunning(s) -> {"job"}
      [] OTHER -> {}

WaitsFor(s, t) == s # t /\ \E r \in Wants(s) : lock[r] = t

\* Publish locks the bundle and then the job, ClaimForPublish the job and then the
\* bundle.  Two slots can wait for each other only when they share the identity of one
\* worker: with another lease_owner, Publish does not select the job it would wait for.
DeadlocksNeedOneIdentity ==
    \A s, t \in Slots : WaitsFor(s, t) /\ WaitsFor(t, s) => Owner[s] = Owner[t]

\* A bundle is published exactly when its job succeeded, whatever breaks between two
\* statements; the one thing that parts them is a sweeper whose UPDATE waited for
\* Publish and then requeues or cancels the job that its old snapshot had selected.
PublishedIsSucceeded ==
    /\ db["job"].status = "succeeded" => db["bundle"] = "published"
    /\ db["bundle"] = "published" /\ ~overtaken => db["job"].status = "succeeded"

\* Who was told that the job is canceled, or will be, never sees it end otherwise; who
\* was told that it has ended can rely on it; and a request goes without effect and
\* without error only if the job was running and went back to the queue meanwhile.  All
\* of it but for the late UPDATE of a sweeper.
CancelIsTrue ==
    ~overtaken =>
        \A s \in Cancels :
            /\ answer[s] = "canceled" => Job.status = "canceled"
            /\ answer[s] = "canceling" => Job.status \in {"canceling", "canceled"}
            /\ answer[s] = "not_cancelable" => Job.status \in Terminal
            /\ answer[s] \in {"queued", "running"} => seen[s] = "running"

\* Clicks on Retry have one child between them, and who was given a child or refused
\* because of an active one can find it.
RetryIsTrue ==
    /\ Cardinality(Children) <= 1
    /\ \A s \in Clicks : answer[s] \in {"child", "active"} => Children # {}

\* Every answer that starts a download was paid with a use of the ticket.
UsesPayDownloads ==
    LET paid == {s \in Downloads : answer[s] \in {"zip", "broken_zip", "not_found"}}
    IN Cardinality(paid) <= Ticket.uses

\* What the users are told stays true however their requests interleave with the
\* workers, the sweeper and each other.
AnswersAreTrue == CancelIsTrue /\ RetryIsTrue /\ UsesPayDownloads
=============================================================================
