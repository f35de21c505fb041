---------------------------- MODULE WorkerCalls ----------------------------
(***************************************************************************)
(* One delivery handled by a slot of a worker, statement by statement: what *)
(* Handle, process, publish and fail (convert.go) ask of jobs.go and       *)
(* bundles.go.  JobLifecycle takes each of those functions as one step;    *)
(* here the statements of several slots, of the users and of the sweeper   *)
(* interleave, transactions hold their rows until they end, and connections *)
(* break between two statements.                                           *)
(***************************************************************************)
EXTENDS ReadCommitted

CONSTANTS Slots,       \* BOUND: goroutines of the workers, one delivery each
          Workers,     \* identities of worker processes, lease_owner
          Owner,       \* the process of a slot
          MaxAttempts, \* jobs.max_attempts
          NoWorker     \* lease_owner IS NULL

ASSUME OwnerAssumption == Owner \in [Slots -> Workers] /\ NoWorker \notin Workers
ASSUME AttemptsAssumption == MaxAttempts \in Nat \ {0}

VARIABLES at,    \* the statement a session is about to send
          seen,  \* what the snapshot of its subquery or join gave it
          lease  \* lease_expires_at: ahead, behind now(), behind now() - grace

Lease == {"live", "expired", "overdue"}

SlotLabels == {"claim", "convert", "touch_job", "insert_bundle", "select_bundle", "commit_claim",
               "publish_bundle", "publish_job", "commit_publish", "undo", "delete_claim",
               "undo_broken", "delete_broken", "late_cancel",
               "lock_job", "requeue", "commit_requeue", "mark_dead", "commit_dead",
               "mark_failed", "mark_invalid", "finish_cancel", "over"}

Goto(s, label) == at' = [at EXCEPT ![s] = label]

Job == db["job"]

\* lease_owner = $2 AND status = 'running'
HoldsRunning(s) ==
    Sees(s, "job").lease_owner = Owner[s] /\ Sees(s, "job").status = "running"

\* Seeded fault: the final statements look at the lease alone.
HoldsLease(s) == Sees(s, "job").lease_owner = Owner[s]

\* ... AND NOT cancel_requested
MayClose(s) == HoldsRunning(s) /\ ~Sees(s, "job").cancel_requested

Closed(job, status) == [job EXCEPT !.status = status, !.lease_owner = NoWorker]

---------------------------------------------------------------------------
(* Claim, and what the conversion comes to *)

Claimable == \/ Job.status = "queued"
             \/ Job.status = "running" /\ lease # "live"

Claim(s) ==
    /\ at[s] = "claim"
    /\ Claimable
    /\ Store("job", [Job EXCEPT !.status = "running", !.lease_owner = Owner[s]])
    /\ lease' = "live"
    /\ Goto(s, "convert")
    /\ UNCHANGED seen

ClaimRefused(s) ==
    /\ at[s] = "claim"
    /\ ~Claimable
    /\ Goto(s, "over")
    /\ UNCHANGED <<rows, seen, lease>>

\* A publishable bundle, an invalid one, a fault that is transient or permanent, or
\* a cancellation that a checkpoint saw.
Convert(s) ==
    /\ at[s] = "convert"
    /\ \E next \in {"touch_job", "mark_invalid", "lock_job", "mark_failed", "finish_cancel"} :
         /\ next = "finish_cancel" => Job.cancel_requested
         /\ Goto(s, next)
    /\ UNCHANGED <<rows, seen, lease>>

\* The ticker of renewLease, on a connection of its own.
RenewLease(s) ==
    /\ at[s] \notin {"claim", "over"}
    /\ Job.lease_owner = Owner[s] /\ Job.status \in {"running", "canceling"}
    /\ lock["job"] = Nobody
    /\ lease # "live" /\ lease' = "live"
    /\ UNCHANGED <<rows, at, seen>>

---------------------------------------------------------------------------
(* BundleRepo.ClaimForPublish: the job, then the bundle *)

\* Seeded fault: the lease is not part of the WHERE.
TouchAnyJob(s) ==
    /\ at[s] = "touch_job"
    /\ Sees(s, "job").status = "running"
    /\ Write(s, "job", Sees(s, "job"))
    /\ Goto(s, "insert_bundle")
    /\ UNCHANGED <<seen, lease>>

TouchJob(s) ==
    /\ at[s] = "touch_job"
    /\ HoldsRunning(s)
    /\ Write(s, "job", Sees(s, "job"))
    /\ Goto(s, "insert_bundle")
    /\ UNCHANGED <<seen, lease>>

\* The bundle is another's: a cancellation that came late is finished.
NotClaimed(s) == IF Job.cancel_requested THEN "late_cancel" ELSE "over"

TouchNoJob(s) ==
    /\ at[s] = "touch_job"
    /\ ~HoldsRunning(s)
    /\ Goto(s, NotClaimed(s))
    /\ UNCHANGED <<rows, seen, lease>>

\* ON CONFLICT DO NOTHING waits for whoever is writing the row it conflicts with.
InsertBundle(s) ==
    /\ at[s] = "insert_bundle"
    /\ Free(s, "bundle")
    /\ IF db["bundle"] = "absent"
       THEN Write(s, "bundle", "promoting") /\ Goto(s, "commit_claim")
       ELSE UNCHANGED rows /\ Goto(s, "select_bundle")
    /\ UNCHANGED <<seen, lease>>

\* SELECT status ... FOR UPDATE, and the UPDATE that takes over a promotion.
SelectBundle(s) ==
    /\ at[s] = "select_bundle"
    /\ Free(s, "bundle")
    /\ \/ db["bundle"] = "promoting" /\ Write(s, "bundle", "promoting") /\ Goto(s, "commit_claim")
       \/ db["bundle"] = "published" /\ Rollback(s) /\ Goto(s, NotClaimed(s))
       \/ db["bundle"] = "absent" /\ Rollback(s) /\ Goto(s, "lock_job")
    /\ UNCHANGED <<seen, lease>>

\* The answer to COMMIT may be lost; the copies that follow may fail, for good when an
\* object is gone.
CommitClaim(s) ==
    /\ at[s] = "commit_claim"
    /\ Commit(s)
    /\ \E next \in {"publish_bundle", "lock_job", "undo", "undo_broken"} : Goto(s, next)
    /\ UNCHANGED <<seen, lease>>

---------------------------------------------------------------------------
(* BundleRepo.Publish: the bundle, then the job *)

PublishBundle(s) ==
    /\ at[s] = "publish_bundle"
    /\ IF db["bundle"] = "promoting"
       THEN Write(s, "bundle", "published") /\ Goto(s, "publish_job")
       ELSE UNCHANGED rows /\ Goto(s, "undo")
    /\ UNCHANGED <<seen, lease>>

\* Seeded fault: RowsAffected is not looked at.
PublishAnyway(s) ==
    /\ at[s] = "publish_job"
    /\ IF HoldsRunning(s)
       THEN Write(s, "job", Closed(Sees(s, "job"), "succeeded"))
       ELSE UNCHANGED rows
    /\ Goto(s, "commit_publish")
    /\ UNCHANGED <<seen, lease>>

PublishJob(s) ==
    /\ at[s] = "publish_job"
    /\ IF HoldsRunning(s)
       THEN Write(s, "job", Closed(Sees(s, "job"), "succeeded")) /\ Goto(s, "commit_publish")
       ELSE Rollback(s) /\ Goto(s, "undo")
    /\ UNCHANGED <<seen, lease>>

CommitPublish(s) ==
    /\ at[s] = "commit_publish"
    /\ Commit(s)
    /\ lease' = IF lock["job"] = s THEN "live" ELSE lease
    /\ \E next \in {"over", "undo"} : Goto(s, next)
    /\ UNCHANGED seen

\* DeleteClaim joins the job as its snapshot has it with the bundle as it is once
\* the row can be deleted.
AfterUndo(s) == IF at[s] \in {"undo_broken", "delete_broken"} THEN "mark_failed" ELSE "lock_job"

UndoSnapshot(s) ==
    /\ at[s] \in {"undo", "undo_broken"}
    /\ Goto(s, IF HoldsRunning(s) /\ db["bundle"] = "promoting"
               THEN IF at[s] = "undo" THEN "delete_claim" ELSE "delete_broken"
               ELSE AfterUndo(s))
    /\ UNCHANGED <<rows, seen, lease>>

DeleteClaim(s) ==
    /\ at[s] \in {"delete_claim", "delete_broken"}
    /\ lock["bundle"] = Nobody
    /\ IF db["bundle"] = "promoting" THEN Store("bundle", "absent") ELSE UNCHANGED rows
    /\ Goto(s, AfterUndo(s))
    /\ UNCHANGED <<seen, lease>>

---------------------------------------------------------------------------
(* fail: ScheduleRetry, MarkDeadWithOutbox, MarkFailed, MarkInvalid *)

\* SELECT status, attempt, max_attempts ... FOR UPDATE
LockJob(s) ==
    LET job == Sees(s, "job")
    IN /\ at[s] = "lock_job"
       /\ Free(s, "job")
       /\ \/ job.status \in {"canceling", "canceled"} /\ UNCHANGED rows /\ Goto(s, "finish_cancel")
          \/ job.status \notin {"canceling", "canceled", "running"} /\ UNCHANGED rows /\ Goto(s, "over")
          \/ job.status = "running" /\ job.attempt >= MaxAttempts /\ UNCHANGED rows /\ Goto(s, "mark_dead")
          \/ job.status = "running" /\ job.attempt < MaxAttempts /\ Write(s, "job", job) /\ Goto(s, "requeue")
       /\ UNCHANGED <<seen, lease>>

Requeue(s) ==
    LET job == Sees(s, "job")
    IN /\ at[s] = "requeue"
       /\ IF MayClose(s)
          THEN /\ Write(s, "job", [Closed(job, "queued") EXCEPT !.attempt = @ + 1])
               /\ Goto(s, "commit_requeue")
          ELSE Rollback(s) /\ Goto(s, "over")
       /\ UNCHANGED <<seen, lease>>

\* Whether finishCanceledOrNack goes on to FinishCanceled.
OrCancel(s) == IF Job.cancel_requested THEN "finish_cancel" ELSE "over"

MarkDead(s) ==
    /\ at[s] = "mark_dead"
    /\ IF MayClose(s)
       THEN Write(s, "job", Closed(Sees(s, "job"), "dead")) /\ Goto(s, "commit_dead")
       ELSE UNCHANGED rows /\ Goto(s, OrCancel(s))
    /\ UNCHANGED <<seen, lease>>

CommitJob(s) ==
    /\ at[s] \in {"commit_requeue", "commit_dead"}
    /\ Commit(s)
    /\ lease' = "live"
    /\ Goto(s, "over")
    /\ UNCHANGED seen

\* MarkFailed and MarkInvalid are one statement each.
Close(s) ==
    /\ at[s] \in {"mark_failed", "mark_invalid"}
    /\ IF MayClose(s)
       THEN /\ Store("job", Closed(Job, IF at[s] = "mark_failed" THEN "failed" ELSE "invalid"))
            /\ lease' = "live"
            /\ Goto(s, "over")
       ELSE UNCHANGED <<rows, lease>> /\ Goto(s, OrCancel(s))
    /\ UNCHANGED seen

FinishCanceled(s) ==
    /\ at[s] \in {"finish_cancel", "late_cancel"}
    /\ IF Job.lease_owner = Owner[s] /\ Job.status = "canceling"
       THEN Store("job", Closed(Job, "canceled")) /\ lease' = "live"
       ELSE UNCHANGED <<rows, lease>>
    /\ Goto(s, "over")
    /\ UNCHANGED seen

---------------------------------------------------------------------------
(* What goes wrong around a statement *)

\* Where an error takes the code.
OnError(s) ==
    IF at[s] \in {"touch_job", "insert_bundle", "select_bundle", "commit_claim", "late_cancel"}
    THEN "lock_job"
    ELSE IF at[s] \in {"undo", "delete_claim", "undo_broken", "delete_broken"} THEN AfterUndo(s)
    ELSE IF at[s] \in {"publish_bundle", "publish_job", "commit_publish"} THEN "undo"
    ELSE IF at[s] \in {"mark_failed", "mark_invalid", "mark_dead", "commit_dead"} THEN OrCancel(s)
    ELSE "over"

\* The connection breaks, or PostgreSQL finds a deadlock and picks this session.
StatementFails(s) ==
    /\ at[s] \notin {"claim", "convert", "over"}
    /\ Rollback(s)
    /\ Goto(s, OnError(s))
    /\ UNCHANGED <<seen, lease>>

\* The process dies.
Dies(s) ==
    /\ at[s] \notin {"claim", "over"}
    /\ Rollback(s)
    /\ Goto(s, "over")
    /\ UNCHANGED <<seen, lease>>

SlotStep(s) ==
    \/ Claim(s) \/ ClaimRefused(s) \/ Convert(s) \/ RenewLease(s)
    \/ TouchJob(s) \/ TouchNoJob(s) \/ InsertBundle(s) \/ SelectBundle(s) \/ CommitClaim(s)
    \/ PublishBundle(s) \/ PublishJob(s) \/ CommitPublish(s)
    \/ UndoSnapshot(s) \/ DeleteClaim(s)
    \/ LockJob(s) \/ Requeue(s) \/ MarkDead(s) \/ CommitJob(s) \/ Close(s) \/ FinishCanceled(s)
    \/ StatementFails(s) \/ Dies(s)
============================================================================
