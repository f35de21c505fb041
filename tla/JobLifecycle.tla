--------------------------- MODULE JobLifecycle ---------------------------
(***************************************************************************)
(* The rows of jobs, job_outbox and bundles, and every statement the       *)
(* repository layer (internal/adapters/postgres) issues against them.      *)
(*                                                                         *)
(* One action is one committed statement or transaction.  Any worker may   *)
(* call any worker operation at any moment, on any job, however stale its  *)
(* view of that job: whatever the callers in internal/app do is a          *)
(* restriction of this module, which says what PostgreSQL alone keeps      *)
(* true.  A call that affects no row, or is rolled back, changes nothing   *)
(* and is not an action.  Time is the ageing of a lease and of             *)
(* available_at.                                                           *)
(***************************************************************************)
EXTENDS Naturals, FiniteSets

CONSTANTS Jobs,         \* identifiers a job may be given
          Uploads,      \* BOUND: those that may be given to an upload
          Workers,      \* worker processes, as lease_owner names them
          NoJob,        \* SQL NULL in parent_job_id
          NoWorker,     \* SQL NULL in lease_owner
          MaxAttempts,  \* MAX_ATTEMPTS
          MaxClaims,    \* the 10 of convert.go:103
          SweepBatch    \* LIMIT of the sweeper's statements

ASSUME NullAssumption == NoJob \notin Jobs /\ NoWorker \notin Workers
ASSUME UploadsAssumption == Uploads \subseteq Jobs
ASSUME AttemptsAssumption == MaxAttempts \in Nat \ {0}
ASSUME ClaimsAssumption == MaxClaims \in Nat \ {0}
ASSUME BatchAssumption == SweepBatch \in Nat \ {0}

VARIABLES jobs,     \* table jobs, by id; a row not inserted yet is AbsentRow
          outbox,   \* table job_outbox: one record per row
          bundles   \* table bundles, by job_id: its status, "none" without a row

vars == <<jobs, outbox, bundles>>

---------------------------------------------------------------------------
(* Statuses and rows *)

Terminal == {"succeeded", "invalid", "failed", "dead", "canceled"}
RetryableTerminal == Terminal  \* seeded fault: a success can be retried
Retryable == {"invalid", "failed", "dead", "canceled"}
Active == {"queued", "running", "canceling"}
Status == Active \cup Terminal

Attempts == 1..MaxAttempts

\* lease_expires_at against now(): NULL, in the future, past, and past by
\* more than the sweeper's grace period.
Leases == {"none", "live", "expired", "overdue"}

\* Only "claim_count > MaxClaims" is ever read: counting stops one above.
ClaimCounts == 0..(MaxClaims + 1)
Counted(n) == IF n <= MaxClaims THEN n + 1 ELSE n

Row == [status           : Status \cup {"absent"},
        root             : Jobs \cup {NoJob},  \* document_id and root_job_id: see NewRow
        parent           : Jobs \cup {NoJob},
        attempt          : Attempts,
        claim_count      : ClaimCounts,
        lease_owner      : Workers \cup {NoWorker},
        lease            : Leases,
        available        : BOOLEAN,            \* available_at <= now()
        enqueued         : BOOLEAN,            \* enqueued_confirmed_at is set
        cancel_requested : BOOLEAN]

OutboxRow == [job : Jobs, dest : {"jobs", "dlq"}, attempt : Attempts, sent : BOOLEAN]

AbsentRow == [status |-> "absent", root |-> NoJob, parent |-> NoJob, attempt |-> 1,
              claim_count |-> 0, lease_owner |-> NoWorker, lease |-> "none",
              available |-> TRUE, enqueued |-> FALSE, cancel_requested |-> FALSE]

Exists(j) == jobs[j].status # "absent"

\* A document is uploaded with its first job, and its retries copy both
\* document_id and root_job_id from their parent: root stands for both.
NewRow(root, parent) ==
    [AbsentRow EXCEPT !.status = "queued", !.root = root, !.parent = parent]

\* The SET lists of the statements, each as a function of the old row.
Released(row, status) ==
    [row EXCEPT !.status = status, !.lease_owner = NoWorker, !.lease = "none"]

\* Seeded fault: the claim sets no lease_expires_at.
ClaimedWithoutLease(row, w) ==
    [row EXCEPT !.status = "running", !.lease_owner = w, !.claim_count = Counted(@)]

Claimed(row, w) ==
    [row EXCEPT !.status = "running", !.lease_owner = w, !.lease = "live",
                !.claim_count = Counted(@)]

\* Seeded fault: a cancellation forgets the lease.
CancelingReleasesLease(row) ==
    [row EXCEPT !.status = "canceling", !.cancel_requested = TRUE, !.lease = "none"]

Canceling(row) == [row EXCEPT !.status = "canceling", !.cancel_requested = TRUE]

Requeued(row) == [Released(row, "queued") EXCEPT !.enqueued = FALSE]

Rescheduled(row) == [Requeued(row) EXCEPT !.attempt = @ + 1, !.available = FALSE]

SetRow(j, row) == jobs' = [jobs EXCEPT ![j] = row]

SetRows(S, row(_)) == jobs' = [j \in Jobs |-> IF j \in S THEN row(jobs[j]) ELSE jobs[j]]

\* UNIQUE (job_id, destination, message_attempt).
KeyFree(j, dest, n) ==
    \A o \in outbox : ~(o.job = j /\ o.dest = dest /\ o.attempt = n)

\* An INSERT that breaks the key rolls its transaction back.
InsertOutbox(j, dest, n) ==
    /\ KeyFree(j, dest, n)
    /\ outbox' = outbox \cup {[job |-> j, dest |-> dest, attempt |-> n, sent |-> FALSE]}

Init ==
    /\ jobs = [j \in Jobs |-> AbsentRow]
    /\ outbox = {}
    /\ bundles = [j \in Jobs |-> "none"]

---------------------------------------------------------------------------
(* The API: creation, retry and cancellation *)

CreateWithDocument(j) ==
    /\ ~Exists(j)
    /\ SetRow(j, NewRow(j, NoJob))
    /\ InsertOutbox(j, "jobs", 1)
    /\ UNCHANGED bundles

\* jobs_active_per_document_uk and jobs_single_retry_per_parent_uk.
ActiveDocument(root) == \E k \in Jobs : jobs[k].root = root /\ jobs[k].status \in Active
HasChild(p) == \E k \in Jobs : jobs[k].parent = p

CreateRetry(p, c) ==
    /\ jobs[p].status \in Retryable
    /\ ~Exists(c)
    /\ ~ActiveDocument(jobs[p].root)
    /\ ~HasChild(p)
    /\ SetRow(c, NewRow(jobs[p].root, p))
    /\ InsertOutbox(c, "jobs", 1)
    /\ UNCHANGED bundles

\* The first statement of RequestCancel.
RequestCancelQueued(j) ==
    /\ jobs[j].status = "queued"
    /\ SetRow(j, [jobs[j] EXCEPT !.status = "canceled"])
    /\ UNCHANGED <<outbox, bundles>>

\* Its second statement.
RequestCancelRunning(j) ==
    /\ jobs[j].status = "running"
    /\ SetRow(j, Canceling(jobs[j]))
    /\ UNCHANGED <<outbox, bundles>>

---------------------------------------------------------------------------
(* The worker: claim, lease and transitions out of running *)

\* Seeded fault: the lease is not looked at.
ClaimableAnyLease(j) ==
    \/ jobs[j].status = "queued" /\ jobs[j].available
    \/ jobs[j].status = "running"

Claimable(j) ==
    \/ jobs[j].status = "queued" /\ jobs[j].available
    \/ jobs[j].status = "running" /\ jobs[j].lease \in {"expired", "overdue"}

\* Seeded fault: a claim is counted as an attempt.
ClaimIsAttempt(j, w) ==
    /\ Claimable(j)
    /\ SetRow(j, [Claimed(jobs[j], w) EXCEPT
                     !.attempt = IF @ < MaxAttempts THEN @ + 1 ELSE @])
    /\ UNCHANGED <<outbox, bundles>>

Claim(j, w) ==
    /\ Claimable(j)
    /\ SetRow(j, Claimed(jobs[j], w))
    /\ UNCHANGED <<outbox, bundles>>

RenewLease(j, w) ==
    /\ jobs[j].lease_owner = w
    /\ jobs[j].status \in {"running", "canceling"}
    /\ SetRow(j, [jobs[j] EXCEPT !.lease = "live"])
    /\ UNCHANGED <<outbox, bundles>>

\* WHERE lease_owner = $2 AND status = 'running'
Holds(j, w) == jobs[j].lease_owner = w /\ jobs[j].status = "running"

FinishCanceled(j, w) ==
    /\ jobs[j].lease_owner = w
    /\ jobs[j].status = "canceling"
    /\ SetRow(j, Released(jobs[j], "canceled"))
    /\ UNCHANGED <<outbox, bundles>>

MarkInvalid(j, w) ==
    /\ Holds(j, w)
    /\ ~jobs[j].cancel_requested
    /\ SetRow(j, Released(jobs[j], "invalid"))
    /\ UNCHANGED <<outbox, bundles>>

MarkFailed(j, w) ==
    /\ Holds(j, w)
    /\ ~jobs[j].cancel_requested
    /\ SetRow(j, Released(jobs[j], "failed"))
    /\ UNCHANGED <<outbox, bundles>>

\* Seeded faults: no attempt budget; attempt is left alone.
ScheduleRetryUnbounded(j, w) ==
    /\ Holds(j, w)
    /\ ~jobs[j].cancel_requested
    /\ SetRow(j, Rescheduled(jobs[j]))
    /\ InsertOutbox(j, "jobs", jobs[j].attempt + 1)
    /\ UNCHANGED bundles

ScheduleRetrySameAttempt(j, w) ==
    /\ jobs[j].attempt < MaxAttempts
    /\ Holds(j, w)
    /\ ~jobs[j].cancel_requested
    /\ SetRow(j, [Requeued(jobs[j]) EXCEPT !.available = FALSE])
    /\ InsertOutbox(j, "jobs", jobs[j].attempt + 1)
    /\ UNCHANGED bundles

ScheduleRetry(j, w) ==
    /\ jobs[j].attempt < MaxAttempts
    /\ Holds(j, w)
    /\ ~jobs[j].cancel_requested
    /\ SetRow(j, Rescheduled(jobs[j]))
    /\ InsertOutbox(j, "jobs", jobs[j].attempt + 1)
    /\ UNCHANGED bundles

\* Seeded fault: dead without its row for the dead letter queue.
MarkDeadOnly(j, w) ==
    /\ Holds(j, w)
    /\ ~jobs[j].cancel_requested
    /\ SetRow(j, Released(jobs[j], "dead"))
    /\ UNCHANGED <<outbox, bundles>>

MarkDeadWithOutbox(j, w) ==
    /\ Holds(j, w)
    /\ ~jobs[j].cancel_requested
    /\ SetRow(j, Released(jobs[j], "dead"))
    /\ InsertOutbox(j, "dlq", jobs[j].attempt)
    /\ UNCHANGED bundles

---------------------------------------------------------------------------
(* The bundle row *)

\* A new row, or an unfinished promotion taken over with a new prefix.
ClaimForPublish(j, w) ==
    /\ Holds(j, w)
    /\ bundles[j] # "published"
    /\ bundles' = [bundles EXCEPT ![j] = "promoting"]
    /\ UNCHANGED <<jobs, outbox>>

\* Seeded faults: the UPDATE of jobs may affect no row; it forgets the status; it
\* forgets the owner.
PublishUnchecked(j, w) ==
    /\ bundles[j] = "promoting"
    /\ bundles' = [bundles EXCEPT ![j] = "published"]
    /\ SetRow(j, IF Holds(j, w) THEN Released(jobs[j], "succeeded") ELSE jobs[j])
    /\ UNCHANGED outbox

PublishCanceled(j, w) ==
    /\ bundles[j] = "promoting"
    /\ jobs[j].lease_owner = w
    /\ bundles' = [bundles EXCEPT ![j] = "published"]
    /\ SetRow(j, Released(jobs[j], "succeeded"))
    /\ UNCHANGED outbox

PublishAnyOwner(j, w) ==
    /\ bundles[j] = "promoting"
    /\ jobs[j].status = "running"
    /\ bundles' = [bundles EXCEPT ![j] = "published"]
    /\ SetRow(j, Released(jobs[j], "succeeded"))
    /\ UNCHANGED outbox

Publish(j, w) ==
    /\ bundles[j] = "promoting"
    /\ Holds(j, w)
    /\ bundles' = [bundles EXCEPT ![j] = "published"]
    /\ SetRow(j, Released(jobs[j], "succeeded"))
    /\ UNCHANGED outbox

DeleteClaim(j, w) ==
    /\ bundles[j] = "promoting"
    /\ Holds(j, w)
    /\ bundles' = [bundles EXCEPT ![j] = "none"]
    /\ UNCHANGED <<jobs, outbox>>

---------------------------------------------------------------------------
(* The sweeper and its bookkeeping *)

MarkEnqueued(j) ==
    /\ Exists(j)
    /\ SetRow(j, [jobs[j] EXCEPT !.enqueued = TRUE])
    /\ UNCHANGED <<outbox, bundles>>

\* The rows PendingOutbox can return.
Dispatchable == {o \in outbox : ~o.sent /\ (o.dest = "jobs" => jobs[o.job].available)}

MarkOutboxPublished(o) ==
    /\ o \in outbox /\ ~o.sent
    /\ outbox' = (outbox \ {o}) \cup {[o EXCEPT !.sent = TRUE]}
    /\ UNCHANGED <<jobs, bundles>>

\* Seeded fault: the backlog is taken for lost.
StaleQueuedBacklog ==
    {j \in Jobs : /\ jobs[j].status = "queued"
                  /\ jobs[j].available
                  /\ \A o \in outbox : o.job = j => o.sent}

\* The jobs StaleQueued returns.  The age it also asks for comes with time.
StaleQueued ==
    {j \in Jobs : /\ jobs[j].status = "queued"
                  /\ ~jobs[j].enqueued
                  /\ jobs[j].available
                  /\ \A o \in outbox : o.job = j => o.sent}

Overdue(status) == {j \in Jobs : jobs[j].status = status /\ jobs[j].lease = "overdue"}

\* What one statement with LIMIT takes of the rows that qualify.
Batch(S) == {T \in SUBSET S : \/ Cardinality(T) = SweepBatch
                              \/ T = S /\ Cardinality(S) < SweepBatch}

\* Seeded fault: cancellations whose worker died are requeued as well.
ReclaimAnyOverdue(S) ==
    /\ S \in Batch(Overdue("running") \cup Overdue("canceling"))
    /\ SetRows(S, Requeued)
    /\ UNCHANGED <<outbox, bundles>>

ReclaimExpiredLeases(S) ==
    /\ S \in Batch(Overdue("running"))
    /\ SetRows(S, Requeued)
    /\ UNCHANGED <<outbox, bundles>>

CancelExpiredLeases(S) ==
    /\ S \in Batch(Overdue("canceling"))
    /\ SetRows(S, LAMBDA row : Released(row, "canceled"))
    /\ UNCHANGED <<outbox, bundles>>

---------------------------------------------------------------------------
(* Time *)

LeaseExpires(j) ==
    /\ jobs[j].lease = "live"
    /\ SetRow(j, [jobs[j] EXCEPT !.lease = "expired"])
    /\ UNCHANGED <<outbox, bundles>>

LeaseOverdue(j) ==
    /\ jobs[j].lease = "expired"
    /\ SetRow(j, [jobs[j] EXCEPT !.lease = "overdue"])
    /\ UNCHANGED <<outbox, bundles>>

BecomesAvailable(j) ==
    /\ ~jobs[j].available
    /\ SetRow(j, [jobs[j] EXCEPT !.available = TRUE])
    /\ UNCHANGED <<outbox, bundles>>

---------------------------------------------------------------------------

ApiStep ==
    \/ \E j \in Uploads : CreateWithDocument(j)
    \/ \E p, c \in Jobs : CreateRetry(p, c)
    \/ \E j \in Jobs : RequestCancelQueued(j)
    \/ \E j \in Jobs : RequestCancelRunning(j)

WorkerStep(j, w) ==
    \/ Claim(j, w)
    \/ RenewLease(j, w)
    \/ FinishCanceled(j, w)
    \/ MarkInvalid(j, w)
    \/ MarkFailed(j, w)
    \/ ScheduleRetry(j, w)
    \/ MarkDeadWithOutbox(j, w)
    \/ ClaimForPublish(j, w)
    \/ Publish(j, w)
    \/ DeleteClaim(j, w)

SweeperStep ==
    \/ \E j \in Jobs : MarkEnqueued(j)
    \/ \E o \in outbox : MarkOutboxPublished(o)
    \/ \E S \in SUBSET Jobs : ReclaimExpiredLeases(S)
    \/ \E S \in SUBSET Jobs : CancelExpiredLeases(S)

ClockStep ==
    \E j \in Jobs : LeaseExpires(j) \/ LeaseOverdue(j) \/ BecomesAvailable(j)

Next ==
    \/ ApiStep
    \/ \E j \in Jobs, w \in Workers : WorkerStep(j, w)
    \/ SweeperStep
    \/ ClockStep

Spec == Init /\ [][Next]_vars

---------------------------------------------------------------------------
(* Correctness *)

\* Every row is well formed; in particular no job ever runs an attempt
\* beyond max_attempts.
TypeOK ==
    /\ jobs \in [Jobs -> Row]
    /\ outbox \subseteq OutboxRow
    /\ bundles \in [Jobs -> {"none", "promoting", "published"}]

\* A cancellation that RequestCancel answered with 'canceling' is never undone:
\* no retry, reclaim or stale worker turns it into anything but 'canceled'.
CancelWins ==
    \A j \in Jobs :
        /\ jobs[j].cancel_requested => jobs[j].status \in {"canceling", "canceled"}
        /\ jobs[j].status = "canceling" => jobs[j].cancel_requested

\* GetPublished serves a bundle exactly when its job succeeded: a job that ended
\* otherwise, or still runs, has nothing to download.
PublishedIffSucceeded ==
    \A j \in Jobs : bundles[j] = "published" <=> jobs[j].status = "succeeded"

\* However often a document is retried, and however its jobs interleave, it has
\* at most one job that is active or succeeded, so at most one bundle.
OneBundlePerDocument ==
    \A j, k \in Jobs :
        /\ jobs[j].root = jobs[k].root
        /\ jobs[j].status \in Active \cup {"succeeded"}
        /\ jobs[k].status \in Active \cup {"succeeded"}
        => j = k

\* Neither ScheduleRetry nor MarkDeadWithOutbox can break the key of job_outbox:
\* it would roll back the transition of a running job and leave it to its lease.
OutboxKeysFree ==
    \A j \in Jobs : jobs[j].status = "running" =>
        /\ KeyFree(j, "jobs", jobs[j].attempt + 1)
        /\ KeyFree(j, "dlq", jobs[j].attempt)

\* A job is dead exactly when a row archives it in the dead letter queue.
DeadHasEvidence ==
    \A j \in Jobs :
        jobs[j].status = "dead" <=> \E o \in outbox : o.job = j /\ o.dest = "dlq"

\* attempt moves only when a running job returns to the queue with the outbox
\* row of its next attempt: claims, thefts and reclaims do not spend the budget.
AttemptsPaidByRetries ==
    [][\A j \in Jobs : Exists(j) /\ jobs'[j].attempt # jobs[j].attempt =>
         /\ jobs'[j].attempt = jobs[j].attempt + 1
         /\ jobs[j].status = "running" /\ jobs'[j].status = "queued"
         /\ [job |-> j, dest |-> "jobs", attempt |-> jobs'[j].attempt, sent |-> FALSE]
              \in outbox' \ outbox]_vars

\* A running job passes from one worker to another only over an expired lease.
LiveLeaseKept ==
    [][\A j \in Jobs :
         /\ jobs[j].lease_owner # NoWorker
         /\ jobs'[j].lease_owner \notin {NoWorker, jobs[j].lease_owner}
         => jobs[j].lease \in {"expired", "overdue"}]_vars

\* The promise to the user that these rows implement.
PromisedState(j) ==
    IF jobs[j].status \in {"queued", "running"} THEN "active" ELSE jobs[j].status

Promise == INSTANCE ConversionPromise WITH
    state <- [j \in Jobs |-> PromisedState(j)],
    doc <- [j \in Jobs |-> jobs[j].root],
    parent <- [j \in Jobs |-> jobs[j].parent],
    downloadable <- {j \in Jobs : bundles[j] = "published"}

\* Whatever the workers, the sweeper and the API do, the user sees a job settled
\* once and for good, and its bundle from that same step on.
KeepsPromise == Promise!Spec
===========================================================================
