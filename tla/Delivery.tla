----------------------------- MODULE Delivery -----------------------------
(***************************************************************************)
(* How a job travels: outbox, RabbitMQ, worker, sweeper.                   *)
(*                                                                         *)
(* The tables and their statements are those of JobLifecycle; this module  *)
(* adds who issues them and in what order: the handler of                  *)
(* internal/app/convert/convert.go, one statement per step, the sweeper of *)
(* sweeper.go, one statement or publication per step, and the queues they  *)
(* share.  Between any two steps anybody else may take theirs, a process   *)
(* may die, and a statement or a publication may fail with or without      *)
(* having taken effect.                                                    *)
(*                                                                         *)
(* A message is its job: Handle reads nothing else of it.  Workers is the  *)
(* set of handler slots, each with a lease_owner of its own, which is what *)
(* WORKER_CONCURRENCY=1 gives.  Retries by the user are new jobs and       *)
(* travel like the first one.                                              *)
(***************************************************************************)
EXTENDS JobLifecycle

CONSTANT MaxFaults  \* BOUND: crashes, failed calls, replays and leases lost while attended

ASSUME FaultsAssumption == MaxFaults \in Nat

VARIABLES queue,   \* okf.jobs.q: copies of the message of each job
          dlq,     \* okf.jobs.dlq: <<job, how it got there>>
          held,    \* the unacknowledged delivery of each worker
          phase,   \* where each worker's handler is
          sweep,   \* where the sweeper is
          faults   \* faults so far

broker == <<queue, dlq>>
handlers == <<held, phase>>
deliveryVars == <<vars, broker, handlers, sweep, faults>>

\* The phases between a claim and the decision on the delivery.
Processing == {"thrashing", "converting", "canceled", "invalid", "publishing", "outbid",
               "promoting", "undoing", "undoing-permanent", "failing", "dying", "rejecting",
               "closing", "closing-or-fail", "checking"}
Phases == {"idle", "claiming", "ack", "nack"} \cup Processing

Stages == {"cancel", "outbox", "stale", "reclaim"}
Steps == {"query", "publish", "mark", "enqueue"}
After(stage) == CASE stage = "cancel"  -> "outbox"
                  [] stage = "outbox"  -> "stale"
                  [] stage = "stale"   -> "reclaim"
                  [] stage = "reclaim" -> "cancel"

\* item is the row or job being published, todo those of the query left to publish.
SweepFrom(stage) == [stage |-> stage, step |-> "query", todo |-> {}, item |-> NoJob]

DeliveryInit ==
    /\ Init
    /\ queue = [j \in Jobs |-> 0]
    /\ dlq = {}
    /\ held = [w \in Workers |-> NoJob]
    /\ phase = [w \in Workers |-> "idle"]
    /\ sweep = SweepFrom("cancel")
    /\ faults = 0

Fault == faults < MaxFaults /\ faults' = faults + 1

---------------------------------------------------------------------------
(* Deliveries *)

Receive(w, j) ==
    /\ phase[w] = "idle" /\ queue[j] > 0
    /\ queue' = [queue EXCEPT ![j] = @ - 1]
    /\ held' = [held EXCEPT ![w] = j]
    /\ phase' = [phase EXCEPT ![w] = "claiming"]
    /\ UNCHANGED <<vars, dlq, sweep, faults>>

\* Seeded fault: the slot is free, its delivery still pending.
ReleaseKeepingDelivery(w) ==
    /\ phase' = [phase EXCEPT ![w] = "idle"]
    /\ UNCHANGED <<vars, held, sweep>>

Release(w) ==
    /\ held' = [held EXCEPT ![w] = NoJob]
    /\ phase' = [phase EXCEPT ![w] = "idle"]
    /\ UNCHANGED <<vars, sweep>>

Acknowledge(w) ==
    /\ phase[w] = "ack"
    /\ Release(w)
    /\ UNCHANGED <<broker, faults>>

\* Nack without requeue: the broker dead-letters the message.
DropToDLQ(w) ==
    /\ phase[w] = "nack"
    /\ dlq' = dlq \cup {<<held[w], "nack">>}
    /\ Release(w)
    /\ UNCHANGED <<queue, faults>>

\* Seeded fault: the delivery is acknowledged before it is handled.
CrashLosingDelivery(w) ==
    /\ phase[w] # "idle" /\ Fault
    /\ Release(w)
    /\ UNCHANGED broker

\* The process dies; the broker returns its unacknowledged message.
Crash(w) ==
    /\ phase[w] # "idle" /\ Fault
    /\ queue' = [queue EXCEPT ![held[w]] = @ + 1]
    /\ Release(w)
    /\ UNCHANGED dlq

---------------------------------------------------------------------------
(* The handler *)

Goto(w, p) == phase' = [phase EXCEPT ![w] = p]

Elsewhere == UNCHANGED <<broker, held, sweep>>

\* A statement of worker w: done, or refused because it affects no row, or failed
\* with an error that does not tell whether it took effect.
Statement(w, possible, effect, done, refused, failed) ==
    /\ \/ effect /\ Goto(w, done) /\ UNCHANGED faults
       \/ ~possible /\ Goto(w, refused) /\ UNCHANGED <<vars, faults>>
       \/ Fault /\ Goto(w, failed) /\ (effect \/ UNCHANGED vars)
    /\ Elsewhere

\* A read of worker w that decides its next phase.
Look(w, next, failed) ==
    /\ \/ Goto(w, next) /\ UNCHANGED faults
       \/ Fault /\ Goto(w, failed)
    /\ UNCHANGED vars
    /\ Elsewhere

\* Terminal, or running under a live lease: the delivery is a duplicate.
ClaimDelivery(w) ==
    LET j == held[w] IN
    /\ phase[w] = "claiming"
    /\ Statement(w, Claimable(j), Claim(j, w),
                 IF Counted(jobs[j].claim_count) > MaxClaims THEN "thrashing" ELSE "converting",
                 "ack", "nack")

Settleable(w) == Holds(held[w], w) /\ ~jobs[held[w]].cancel_requested

\* The result of MarkFailed is not looked at.
FailThrashing(w) ==
    /\ phase[w] = "thrashing"
    /\ Statement(w, Settleable(w), MarkFailed(held[w], w), "ack", "ack", "ack")

\* Download, conversion, validation and upload: any outcome, but canceled only
\* when IsCancelRequested says so.  Losing the lease changes nothing: the signal
\* of renewLease finds no receiver.
Convert(w) ==
    /\ phase[w] = "converting"
    /\ \E p \in {"invalid", "publishing", "failing", "rejecting", "canceled"} :
         /\ p = "canceled" => jobs[held[w]].cancel_requested
         /\ Goto(w, p)
    /\ UNCHANGED <<vars, faults>> /\ Elsewhere

\* FinishCanceled, for the callers that ignore its result, drop the delivery if
\* it fails, or treat its failure as a failed conversion.
CloseCanceled(w) ==
    LET j == held[w]
        possible == jobs[j].lease_owner = w /\ jobs[j].status = "canceling"
    IN \/ /\ phase[w] = "canceled"
          /\ Statement(w, possible, FinishCanceled(j, w), "ack", "ack", "ack")
       \/ /\ phase[w] = "closing"
          /\ Statement(w, possible, FinishCanceled(j, w), "ack", "nack", "nack")
       \/ /\ phase[w] = "closing-or-fail"
          /\ Statement(w, possible, FinishCanceled(j, w), "ack", "failing", "failing")

RegisterInvalid(w) ==
    /\ phase[w] = "invalid"
    /\ Statement(w, Settleable(w), MarkInvalid(held[w], w), "ack", "checking", "checking")

\* fail, for a permanent fault.
RegisterFailed(w) ==
    /\ phase[w] = "rejecting"
    /\ Statement(w, Settleable(w), MarkFailed(held[w], w), "ack", "checking", "checking")

\* finishCanceledOrNack.
CheckCanceled(w) ==
    /\ phase[w] = "checking"
    /\ Look(w, IF jobs[held[w]].cancel_requested THEN "closing" ELSE "nack", "nack")

\* fail, for a transient fault.  The attempts are compared before the owner.
RegisterTransient(w) ==
    LET j == held[w] IN
    /\ phase[w] = "failing"
    /\ Statement(w, jobs[j].attempt < MaxAttempts /\ Settleable(w), ScheduleRetry(j, w), "ack",
                 CASE jobs[j].status \in {"canceling", "canceled"} -> "closing"
                   [] jobs[j].status = "running" /\ jobs[j].attempt >= MaxAttempts -> "dying"
                   [] OTHER -> "nack",
                 "nack")

\* Seeded fault: dead first, its message published afterwards.
RegisterDeadDirectly(w) ==
    LET j == held[w] IN
    /\ phase[w] = "dying"
    /\ IF Settleable(w)
         THEN /\ SetRow(j, Released(jobs[j], "dead"))
              /\ dlq' = dlq \cup {<<j, "dead">>}
              /\ Goto(w, "ack")
         ELSE Goto(w, "checking") /\ UNCHANGED <<jobs, dlq>>
    /\ UNCHANGED <<outbox, bundles, queue, held, sweep, faults>>

RegisterDead(w) ==
    LET j == held[w] IN
    /\ phase[w] = "dying"
    /\ Statement(w, Settleable(w), MarkDeadWithOutbox(j, w), "ack",
                 IF jobs[j].status \in {"canceling", "canceled"} THEN "closing" ELSE "checking",
                 "checking")

ClaimBundle(w) ==
    LET j == held[w] IN
    /\ phase[w] = "publishing"
    /\ Statement(w, Holds(j, w) /\ bundles[j] # "published", ClaimForPublish(j, w),
                 "promoting", "outbid", "failing")

\* Another claim of the job won, or a cancellation did.
Outbid(w) ==
    /\ phase[w] = "outbid"
    /\ Look(w, IF jobs[held[w]].cancel_requested THEN "closing-or-fail" ELSE "ack", "ack")

\* The copies to the published prefix may fail, for good if an object is missing.
CopyFails(w) ==
    /\ phase[w] = "promoting"
    /\ \E p \in {"undoing", "undoing-permanent"} : Goto(w, p)
    /\ UNCHANGED <<vars, faults>> /\ Elsewhere

PublishBundle(w) ==
    LET j == held[w] IN
    /\ phase[w] = "promoting"
    /\ Statement(w, Holds(j, w) /\ bundles[j] = "promoting", Publish(j, w),
                 "ack", "undoing", "undoing")

\* The result of DeleteClaim is not looked at.
UndoClaim(w) ==
    LET j == held[w]
        next == IF phase[w] = "undoing" THEN "failing" ELSE "rejecting"
    IN /\ phase[w] \in {"undoing", "undoing-permanent"}
       /\ Statement(w, Holds(j, w) /\ bundles[j] = "promoting", DeleteClaim(j, w),
                    next, next, next)

HandlerStep(w) ==
    \/ \E j \in Jobs : Receive(w, j)
    \/ Acknowledge(w)
    \/ DropToDLQ(w)
    \/ ClaimDelivery(w)
    \/ FailThrashing(w)
    \/ Convert(w)
    \/ CloseCanceled(w)
    \/ RegisterInvalid(w)
    \/ RegisterFailed(w)
    \/ CheckCanceled(w)
    \/ RegisterTransient(w)
    \/ RegisterDead(w)
    \/ ClaimBundle(w)
    \/ Outbid(w)
    \/ CopyFails(w)
    \/ PublishBundle(w)
    \/ UndoClaim(w)

---------------------------------------------------------------------------
(* The sweeper *)

\* A query of the sweeper ran and found these; or it failed, and found nothing.
Found(items) == sweep' = [sweep EXCEPT !.step = "publish", !.todo = items]

QueryFails(next) ==
    /\ Fault
    /\ sweep' = next
    /\ UNCHANGED <<vars, broker>>

At(stage, step) == sweep.stage = stage /\ sweep.step = step

SweepCanceled ==
    /\ At("cancel", "query")
    /\ \/ /\ \E S \in SUBSET Jobs : CancelExpiredLeases(S)
          /\ sweep' = SweepFrom("outbox")
          /\ UNCHANGED <<broker, faults>>
       \/ QueryFails(SweepFrom("outbox"))
    /\ UNCHANGED handlers

SweepOutbox ==
    /\ At("outbox", "query")
    /\ \/ /\ \E S \in Batch(Dispatchable) : Found(S)
          /\ UNCHANGED <<vars, broker, faults>>
       \/ QueryFails(SweepFrom("stale"))
    /\ UNCHANGED handlers

ToRepublish(S) == {[job |-> j, dest |-> "jobs"] : j \in S}

SweepStale ==
    /\ At("stale", "query")
    /\ \/ /\ \E S \in Batch(StaleQueued) : Found(ToRepublish(S))
          /\ UNCHANGED <<vars, broker, faults>>
       \/ QueryFails(SweepFrom("reclaim"))
    /\ UNCHANGED handlers

\* On error the sweep ends; the rows may have been reclaimed all the same.
SweepReclaim ==
    /\ At("reclaim", "query")
    /\ \E S \in SUBSET Jobs :
         /\ ReclaimExpiredLeases(S)
         /\ \/ Found(ToRepublish(S)) /\ UNCHANGED faults
            \/ Fault /\ sweep' = SweepFrom("cancel")
    /\ UNCHANGED <<broker, handlers>>

\* Seeded fault: every row goes to the exchange of jobs.
EnqueueAlwaysJobs(item) ==
    queue' = [queue EXCEPT ![item.job] = @ + 1] /\ UNCHANGED dlq

Enqueue(item) ==
    IF item.dest = "dlq"
      THEN dlq' = dlq \cup {<<item.job, "dead">>} /\ UNCHANGED queue
      ELSE queue' = [queue EXCEPT ![item.job] = @ + 1] /\ UNCHANGED dlq

\* Publish and wait for the confirm.  Without it the message may have arrived.
SweepPublish ==
    /\ sweep.step = "publish"
    /\ \E item \in sweep.todo :
         LET taken == [sweep EXCEPT !.todo = @ \ {item}] IN
         \/ /\ Enqueue(item) /\ UNCHANGED faults
            /\ sweep' = [taken EXCEPT !.item = item,
                            !.step = IF sweep.stage = "outbox" THEN "mark" ELSE "enqueue"]
         \/ Fault /\ sweep' = taken /\ (Enqueue(item) \/ UNCHANGED broker)
    /\ UNCHANGED <<vars, handlers>>

NextItem == sweep' = [sweep EXCEPT !.step = "publish", !.item = NoJob]

SweepMark ==
    /\ sweep.step = "mark"
    /\ \/ /\ MarkOutboxPublished(sweep.item) /\ UNCHANGED faults
          /\ IF sweep.item.dest = "dlq" THEN NextItem
                                        ELSE sweep' = [sweep EXCEPT !.step = "enqueue"]
       \/ Fault /\ NextItem /\ (MarkOutboxPublished(sweep.item) \/ UNCHANGED vars)
    /\ UNCHANGED <<broker, handlers>>

\* The result of MarkEnqueued is not looked at.
SweepEnqueue ==
    /\ sweep.step = "enqueue"
    /\ \/ MarkEnqueued(sweep.item.job) /\ UNCHANGED faults
       \/ Fault /\ UNCHANGED vars
    /\ NextItem
    /\ UNCHANGED <<broker, handlers>>

SweepNextStage ==
    /\ sweep.step = "publish" /\ sweep.todo = {}
    /\ sweep' = SweepFrom(After(sweep.stage))
    /\ UNCHANGED <<vars, broker, handlers, faults>>

\* The process dies; the advisory lock goes with its session, and the sweeper of
\* another process starts over.
SweeperDies ==
    /\ sweep # SweepFrom("cancel") /\ Fault
    /\ sweep' = SweepFrom("cancel")
    /\ UNCHANGED <<vars, broker, handlers>>

SweeperStepOnce ==
    \/ SweepCanceled \/ SweepOutbox \/ SweepStale \/ SweepReclaim
    \/ SweepPublish \/ SweepMark \/ SweepEnqueue \/ SweepNextStage

---------------------------------------------------------------------------
(* The user, time, and the specification *)

UserStep ==
    /\ \/ \E j \in Uploads : CreateWithDocument(j)
       \/ \E j \in Jobs : RequestCancelQueued(j)
       \/ \E j \in Jobs : RequestCancelRunning(j)
    /\ UNCHANGED <<broker, handlers, sweep, faults>>

\* JobService.Replay publishes messages of a job, in whatever status, one by one; it does
\* not touch its row.  Each is counted as a fault.
Replay(j) ==
    /\ Exists(j) /\ Fault
    /\ queue' = [queue EXCEPT ![j] = @ + 1]
    /\ UNCHANGED <<vars, dlq, handlers, sweep>>

\* Some worker is processing j and renews the lease it has on it.
Attended(j) ==
    \E w \in Workers : jobs[j].lease_owner = w /\ held[w] = j /\ phase[w] \in Processing

Renew(w) ==
    /\ phase[w] \in Processing
    /\ jobs[held[w]].lease # "live"
    /\ RenewLease(held[w], w)
    /\ UNCHANGED <<broker, handlers, sweep, faults>>

LeaseRunsOut(j) ==
    /\ ~Attended(j)
    /\ LeaseExpires(j) \/ LeaseOverdue(j)
    /\ UNCHANGED <<broker, handlers, sweep, faults>>

\* A worker that is slower than its lease, or cannot renew it.
LeaseSlips(j) ==
    /\ Attended(j)
    /\ \/ LeaseExpires(j) /\ Fault
       \/ LeaseOverdue(j) /\ UNCHANGED faults
    /\ UNCHANGED <<broker, handlers, sweep>>

DelayPasses(j) ==
    /\ BecomesAvailable(j)
    /\ UNCHANGED <<broker, handlers, sweep, faults>>

DeliveryNext ==
    \/ UserStep
    \/ \E w \in Workers : HandlerStep(w) \/ Crash(w) \/ Renew(w)
    \/ SweeperStepOnce \/ SweeperDies
    \/ \E j \in Jobs : Replay(j) \/ LeaseRunsOut(j) \/ LeaseSlips(j) \/ DelayPasses(j)

\* Consumers, the sweeper and the clock go on; a call returns in the end.
Fairness ==
    /\ \A w \in Workers : WF_deliveryVars(HandlerStep(w))
    /\ WF_deliveryVars(SweeperStepOnce)
    /\ \A j \in Jobs : WF_deliveryVars(LeaseRunsOut(j)) /\ WF_deliveryVars(DelayPasses(j))

DeliverySpec == DeliveryInit /\ [][DeliveryNext]_deliveryVars
FairDeliverySpec == DeliverySpec /\ Fairness

---------------------------------------------------------------------------
(* Correctness *)

DeliveryTypeOK ==
    /\ TypeOK
    /\ queue \in [Jobs -> Nat]
    /\ dlq \subseteq Jobs \X {"nack", "dead"}
    /\ held \in [Workers -> Jobs \cup {NoJob}]
    /\ phase \in [Workers -> Phases]
    /\ \A w \in Workers : phase[w] = "idle" <=> held[w] = NoJob
    /\ sweep.stage \in Stages /\ sweep.step \in Steps
    /\ faults \in 0..MaxFaults

\* Every step here is a statement of JobLifecycle or leaves the tables alone, so
\* whatever is true of its tables is true here.
UsesLifecycle == Spec

InFlight(j) == \E w \in Workers : held[w] = j /\ phase[w] = "claiming"

\* Nothing will ever make a worker look at the queued job j: it has no message,
\* no row to publish, and the sweeper takes its message for delivered.
Stranded(j) ==
    /\ jobs[j].status = "queued" /\ jobs[j].enqueued
    /\ queue[j] = 0 /\ ~InFlight(j)
    /\ \A o \in outbox : o.job = j /\ o.dest = "jobs" => o.sent

\* Work is never lost without a trace: the message of a stranded job is in the
\* dead letter queue, or on its way there.
NoSilentLoss ==
    \A j \in Jobs : Stranded(j) =>
        \/ <<j, "nack">> \in dlq
        \/ \E w \in Workers : held[w] = j /\ phase[w] = "nack"

\* StaleQueued "recovers a job whose message was lost": no job stays queued
\* without anything that will have it processed.
NeverStranded == \A j \in Jobs : ~Stranded(j)

\* While nothing fails, a job waiting for a free worker has one message: neither
\* the backlog nor a retry makes the sweeper publish a second one.
OneMessageWhileCalm ==
    faults = 0 => \A j \in Jobs :
        queue[j] + Cardinality({w \in Workers : held[w] = j /\ phase[w] = "claiming"}) <= 1

\* Every accepted job is settled, whoever dies on the way, unless its message
\* was dropped.
EveryJobSettles ==
    \A j \in Jobs : Exists(j) ~> jobs[j].status \in Terminal \/ Stranded(j)

\* A cancellation in time ends in 'canceled', even if the worker dies first.
CancellationEnds ==
    \A j \in Jobs : jobs[j].status = "canceling" ~> jobs[j].status = "canceled"

\* The message of a dead job reaches the dead letter queue.
DeadIsArchived ==
    \A j \in Jobs : jobs[j].status = "dead" ~> <<j, "dead">> \in dlq
===========================================================================
