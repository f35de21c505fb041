--------------------------- MODULE DeliveryProofs ---------------------------
(***************************************************************************)
(* Proofs about Delivery, for any jobs, workers, limits and number of      *)
(* faults: the form of messages, slots and sweeper; that handlers and      *)
(* sweeper use the tables as JobLifecycle allows, so that its theorems     *)
(* hold here; that no job is lost without a trace (LossInv); and that a    *)
(* job has one message at most while nothing fails (CalmInv).  Statements  *)
(* of the handlers, the users and the clock are treated together           *)
(* (Ordinary), those of the sweeper one by one.                            *)
(***************************************************************************)
EXTENDS Delivery, JobLifecycleProofs, FiniteSetTheorems

---------------------------------------------------------------------------
(* The invariants *)

\* The messages that the sweeper publishes for no row of job_outbox.
Republished == {[job |-> j, dest |-> "jobs"] : j \in Jobs}

Items == OutboxRow \cup Republished

SweepRecord == [stage : Stages, step : Steps, todo : SUBSET Items, item : {NoJob} \cup Items]

\* In the stage of the outbox the sweeper holds rows not sent yet, and marks none
\* that it has still to publish.
SweepOK ==
    /\ sweep \in SweepRecord
    /\ sweep.step = "mark" => /\ sweep.stage = "outbox"
                               /\ sweep.item \in outbox \ sweep.todo /\ ~sweep.item.sent
    /\ sweep.step = "enqueue" => sweep.item \in Items
    /\ sweep.step = "query" => sweep.todo = {}
    /\ sweep.stage = "outbox" => sweep.todo \subseteq {o \in outbox : ~o.sent}
    /\ sweep.stage # "outbox" => sweep.todo \subseteq Republished

TypeInv == DeliveryTypeOK /\ SweepOK

\* The message of j is in the queue, about to be claimed or dropped, or dropped.
Waiting(j) ==
    \/ queue[j] > 0
    \/ \E w \in Workers : held[w] = j /\ phase[w] \in {"claiming", "nack"}
    \/ <<j, "nack">> \in dlq

\* Its rows still to publish; the one published and not marked yet; and the job
\* about to be taken for enqueued.
Unsent(j) == {o \in outbox : o.job = j /\ o.dest = "jobs" /\ ~o.sent}
Marked(o) == sweep.step = "mark" /\ sweep.item = o
Confirming(j) == sweep.step = "enqueue" /\ sweep.item.job = j

\* PendingOutbox returns no row before its time, and a later delay of the job is
\* that of a later attempt.
Timely(o) ==
    jobs[o.job].available \/ o.attempt < jobs[o.job].attempt

Due ==
    \A o \in outbox :
        /\ o.dest = "jobs"
        /\ Marked(o) \/ (sweep.stage = "outbox" /\ o \in sweep.todo)
        => Timely(o)

\* A queued job that is taken for enqueued, or is about to be, has a message or a
\* row; so has one whose row is about to be marked, without counting that row; and
\* one whose delay runs has the row of its attempt.
Traced(j) ==
    /\ jobs[j].status = "running" => jobs[j].available
    /\ jobs[j].status = "queued" =>
        /\ ~jobs[j].available => \E o \in Unsent(j) : o.attempt = jobs[j].attempt
        /\ jobs[j].enqueued \/ Confirming(j) => Waiting(j) \/ Unsent(j) # {}
        /\ \A o \in Unsent(j) : Marked(o) => Waiting(j) \/ \E n \in Unsent(j) : n # o

LossInv == TypeInv /\ IInv /\ Due /\ \A j \in Jobs : Traced(j)

\* The handlers about to claim j, and those at work on a job they hold.
Claiming(j) == {w \in Workers : held[w] = j /\ phase[w] = "claiming"}
NoMessage(j) == queue[j] = 0 /\ Claiming(j) = {}
Working == {"thrashing", "converting", "invalid", "publishing", "promoting", "undoing",
            "undoing-permanent", "failing", "dying", "rejecting"}
\* The rows of j that will still add a message.
Publishable(j) == {o \in Unsent(j) : ~Marked(o)}

\* Without faults a row is published when the last message is gone, a running job
\* has its owner at work under a live lease, and no queued job looks stale.
CalmJob(j) ==
    /\ queue[j] <= 1
    /\ queue[j] = 1 => Claiming(j) = {}
    /\ \A v, w \in Claiming(j) : v = w
    /\ Publishable(j) # {} => NoMessage(j)
    /\ \A o, n \in Publishable(j) : o = n
    /\ jobs[j].status \in {"absent", "running"} => NoMessage(j) /\ Publishable(j) = {}
    /\ jobs[j].status = "running" =>
         /\ jobs[j].lease = "live"
         /\ held[jobs[j].lease_owner] = j /\ phase[jobs[j].lease_owner] \in Working
    /\ jobs[j].status = "queued" /\ ~jobs[j].enqueued => Unsent(j) # {} \/ Confirming(j)

\* So only the outbox gives the sweeper anything to publish.
CalmSweep == sweep.stage # "outbox" => sweep.todo = {} /\ sweep.step \in {"query", "publish"}


---------------------------------------------------------------------------
(* What a step does to the tables, the messages and the sweeper *)

\* The statements of a handler after its claim.
Transition(j, w) ==
    \/ FinishCanceled(j, w) \/ MarkInvalid(j, w) \/ MarkFailed(j, w)
    \/ ScheduleRetry(j, w) \/ MarkDeadWithOutbox(j, w)
    \/ ClaimForPublish(j, w) \/ Publish(j, w) \/ DeleteClaim(j, w)

\* A handler between the receipt of its message and its answer.
Call(w) ==
    /\ phase[w] \in Processing \cup {"claiming"}
    /\ phase[w] = "claiming" => ClaimDelivery(w)
    /\ \/ UNCHANGED vars
       \/ Transition(held[w], w)
       \/ phase[w] = "claiming" /\ WorkerStep(held[w], w)
    /\ \E p \in Phases \ {"idle", "claiming"} : Goto(w, p)
    /\ faults' = faults \/ Fault
    /\ Elsewhere

\* The handler of a delivery holds a job.
LEMMA HeldJob ==
    ASSUME TypeInv, NEW w \in Workers, phase[w] # "idle" PROVE held[w] \in Jobs
  BY DEF TypeInv, DeliveryTypeOK

\* Its calls are statements of a worker, or change no table.
LEMMA CallTables ==
    ASSUME TypeInv, NEW w \in Workers, Call(w)
    PROVE  held[w] \in Jobs /\ (UNCHANGED vars \/ WorkerStep(held[w], w))
  BY HeldJob DEF Call, Transition, WorkerStep, Processing

\* A handler receives, answers or calls.
LEMMA HandlerCalls ==
    ASSUME TypeInv, NEW w \in Workers, HandlerStep(w)
    PROVE  \/ \E j \in Jobs : Receive(w, j)
           \/ Acknowledge(w)
           \/ DropToDLQ(w)
           \/ Call(w)
<1> USE DEF Statement, Look, Phases, Processing, Call, Transition, WorkerStep
<1>1. CASE ClaimDelivery(w)
  BY <1>1 DEF ClaimDelivery
<1>2. CASE FailThrashing(w)
  BY <1>2 DEF FailThrashing
<1>3. CASE Convert(w)
  BY <1>3 DEF Convert
<1>4. CASE CloseCanceled(w)
  BY <1>4 DEF CloseCanceled
<1>5. CASE RegisterInvalid(w)
  BY <1>5 DEF RegisterInvalid
<1>6. CASE RegisterFailed(w)
  BY <1>6 DEF RegisterFailed
<1>7. CASE CheckCanceled(w)
  BY <1>7 DEF CheckCanceled
<1>8. CASE RegisterTransient(w)
  BY <1>8 DEF RegisterTransient
<1>9. CASE RegisterDead(w)
  BY <1>9 DEF RegisterDead
<1>10. CASE ClaimBundle(w)
  BY <1>10 DEF ClaimBundle
<1>11. CASE Outbid(w)
  BY <1>11 DEF Outbid
<1>12. CASE CopyFails(w)
  BY <1>12 DEF CopyFails
<1>13. CASE PublishBundle(w)
  BY <1>13 DEF PublishBundle
<1>14. CASE UndoClaim(w)
  BY <1>14 DEF UndoClaim
<1>15. QED
  BY <1>1, <1>2, <1>3, <1>4, <1>5, <1>6, <1>7, <1>8, <1>9, <1>10, <1>11, <1>12,
     <1>13, <1>14 DEF HandlerStep

\* The statements of a step are those of the lifecycle.
LEMMA StepTables ==
    ASSUME TypeInv, DeliveryNext PROVE [Next]_vars
<1> USE DEF Next, ApiStep, SweeperStep, ClockStep
<1>1. CASE UserStep
  BY <1>1 DEF UserStep
<1>2. ASSUME NEW w \in Workers, HandlerStep(w) PROVE [Next]_vars
  <2>1. CASE \E j \in Jobs : Receive(w, j)
    BY <2>1 DEF Receive
  <2>2. CASE Acknowledge(w)
    BY <2>2 DEF Acknowledge, Release
  <2>3. CASE DropToDLQ(w)
    BY <2>3 DEF DropToDLQ, Release
  <2>4. CASE Call(w)
    BY <2>4, CallTables
  <2>5. QED
    BY <1>2, <2>1, <2>2, <2>3, <2>4, HandlerCalls
<1>3. ASSUME NEW w \in Workers, Crash(w) PROVE [Next]_vars
  BY <1>3 DEF Crash, Release
<1>4. ASSUME NEW w \in Workers, Renew(w) PROVE [Next]_vars
  <2>1. held[w] \in Jobs
    BY <1>4, HeldJob DEF Renew, Processing
  <2>2. QED
    BY <1>4, <2>1 DEF Renew, WorkerStep
<1>5. CASE SweepCanceled
  BY <1>5 DEF SweepCanceled, QueryFails
<1>6. CASE SweepOutbox
  BY <1>6 DEF SweepOutbox, QueryFails
<1>7. CASE SweepStale
  BY <1>7 DEF SweepStale, QueryFails
<1>8. CASE SweepReclaim
  BY <1>8 DEF SweepReclaim
<1>9. CASE SweepPublish
  BY <1>9 DEF SweepPublish
<1>10. CASE SweepMark
  BY <1>10 DEF SweepMark, TypeInv, SweepOK
<1>11. CASE SweepEnqueue
  <2>1. sweep.item.job \in Jobs
    BY <1>11 DEF SweepEnqueue, TypeInv, SweepOK, Items, OutboxRow, Republished
  <2>2. QED
    BY <1>11, <2>1 DEF SweepEnqueue
<1>12. CASE SweepNextStage
  BY <1>12 DEF SweepNextStage
<1>13. CASE SweeperDies
  BY <1>13 DEF SweeperDies
<1>14. ASSUME NEW j \in Jobs, Replay(j) PROVE [Next]_vars
  BY <1>14 DEF Replay
<1>15. ASSUME NEW j \in Jobs, LeaseRunsOut(j) \/ LeaseSlips(j) \/ DelayPasses(j)
       PROVE  [Next]_vars
  BY <1>15 DEF LeaseRunsOut, LeaseSlips, DelayPasses
<1>16. QED
  BY <1>1, <1>2, <1>3, <1>4, <1>5, <1>6, <1>7, <1>8, <1>9, <1>10, <1>11, <1>12, <1>13,
     <1>14, <1>15 DEF DeliveryNext, SweeperStepOnce

---------------------------------------------------------------------------
(* The statements of users, workers and time *)

NewMessage(j) == [job |-> j, dest |-> "jobs", attempt |-> jobs[j].attempt, sent |-> FALSE]

\* Row k does not come to wait in the queue, nor loses its turn there,
Quiet(k) ==
    /\ jobs'[k].status = "queued" =>
         /\ jobs[k].status = "queued"
         /\ jobs'[k].enqueued = jobs[k].enqueued
         /\ jobs'[k].attempt = jobs[k].attempt
    /\ jobs'[k].status = "running" =>
         \/ jobs[k].status = "running"
         \/ jobs[k].status = "queued" /\ jobs[k].available
    /\ jobs'[k].attempt = jobs[k].attempt
    /\ jobs[k].available => jobs'[k].available

\* or comes to wait with a new row of job_outbox.
Fresh(k) ==
    /\ jobs'[k].status = "queued"
    /\ jobs[k].status \in {"absent", "running"}
    /\ NewMessage(k)' \in outbox' \ outbox
    /\ Exists(k) => jobs[k].attempt < jobs'[k].attempt

Ordinary ==
    /\ outbox \subseteq outbox'
    /\ \A k \in Jobs : Quiet(k) \/ Fresh(k)
    /\ \A o \in outbox' \ outbox : o.dest = "jobs" => Fresh(o.job) /\ o = NewMessage(o.job)'

\* Updating one row quietly, with the outbox as it was.
LEMMA QuietSetRow ==
    ASSUME TypeOK, NEW j \in Jobs, NEW row \in Row, SetRow(j, row), outbox' = outbox,
           row.status = "queued" =>
             jobs[j].status = "queued" /\ row.enqueued = jobs[j].enqueued,
           row.status = "running" => \/ jobs[j].status = "running"
                                     \/ jobs[j].status = "queued" /\ jobs[j].available,
           row.attempt = jobs[j].attempt,
           jobs[j].available => row.available
    PROVE  Ordinary
<1>1. jobs'[j] = row /\ \A k \in Jobs \ {j} : jobs'[k] = jobs[k]
  BY DEF SetRow, TypeOK
<1>2. \A k \in Jobs : Quiet(k)
  BY <1>1 DEF Quiet
<1>3. QED
  BY <1>2 DEF Ordinary

\* What the SET lists leave of a row.
LEMMA ReleasedFields ==
    ASSUME NEW r \in Row, NEW s
    PROVE  /\ Released(r, s).status = s
           /\ Released(r, s).attempt = r.attempt
           /\ Released(r, s).available = r.available
  BY DEF Released, Row

\* The statements of a handler that are not retries.
LEMMA WorkerQuiet ==
    ASSUME TypeOK, NEW j \in Jobs, NEW w \in Workers, WorkerStep(j, w), ~ScheduleRetry(j, w)
    PROVE  Ordinary
<1> USE DEF Status, Terminal
<1> jobs[j] \in Row
  BY DEF TypeOK
<1>1. CASE Claim(j, w)
  <2>1. LET r == Claimed(jobs[j], w)
        IN  /\ r.status = "running" /\ r.attempt = jobs[j].attempt
            /\ r.available = jobs[j].available
    BY DEF Claimed, Row
  <2>2. QED
    BY <1>1, <2>1, ClaimedType, QuietSetRow DEF Claim, Claimable
<1>2. CASE RenewLease(j, w)
  <2>1. [jobs[j] EXCEPT !.lease = "live"].attempt = jobs[j].attempt
    BY DEF Row
  <2>2. QED
    BY <1>2, <2>1, SimpleUpdateType, QuietSetRow DEF RenewLease, Leases, Row
<1>3. CASE FinishCanceled(j, w)
  BY <1>3, ReleasedType, ReleasedFields, QuietSetRow DEF FinishCanceled
<1>4. CASE MarkInvalid(j, w)
  BY <1>4, ReleasedType, ReleasedFields, QuietSetRow DEF MarkInvalid
<1>5. CASE MarkFailed(j, w)
  BY <1>5, ReleasedType, ReleasedFields, QuietSetRow DEF MarkFailed
<1>6. CASE MarkDeadWithOutbox(j, w)
  <2>1. jobs'[j] = Released(jobs[j], "dead") /\ \A k \in Jobs \ {j} : jobs'[k] = jobs[k]
    BY <1>6 DEF MarkDeadWithOutbox, SetRow, TypeOK
  <2>2. \A k \in Jobs : Quiet(k)
    BY <1>6, <2>1, ReleasedFields DEF MarkDeadWithOutbox, Holds, Quiet
  <2>3. outbox \subseteq outbox' /\ \A o \in outbox' \ outbox : o.dest = "dlq"
    BY <1>6 DEF MarkDeadWithOutbox, InsertOutbox
  <2>4. QED
    BY <2>2, <2>3 DEF Ordinary
<1>7. CASE ClaimForPublish(j, w) \/ DeleteClaim(j, w)
  BY <1>7 DEF ClaimForPublish, DeleteClaim, Ordinary, Quiet
<1>8. CASE Publish(j, w)
  BY <1>8, ReleasedType, ReleasedFields, QuietSetRow DEF Publish
<1>9. QED
  BY <1>1, <1>2, <1>3, <1>4, <1>5, <1>6, <1>7, <1>8 DEF WorkerStep

\* A new message that is not older than its job.
LEMMA FreshSetRow ==
    ASSUME TypeOK, NEW j \in Jobs, NEW row \in Row, SetRow(j, row),
           InsertOutbox(j, "jobs", row.attempt),
           row.status = "queued", jobs[j].status \in {"absent", "running"},
           Exists(j) => jobs[j].attempt < row.attempt
    PROVE  Ordinary
<1>1. jobs'[j] = row /\ \A k \in Jobs \ {j} : jobs'[k] = jobs[k]
  BY DEF SetRow, TypeOK
<1>2. outbox' = outbox \cup {NewMessage(j)'} /\ NewMessage(j)' \notin outbox
  BY <1>1 DEF InsertOutbox, KeyFree, NewMessage
<1>3. Fresh(j) /\ NewMessage(j)'.job = j
  BY <1>1, <1>2 DEF Fresh, NewMessage
<1>4. \A k \in Jobs \ {j} : Quiet(k)
  BY <1>1 DEF Quiet
<1>5. QED
  BY <1>2, <1>3, <1>4 DEF Ordinary

\* The statements of a handler,
LEMMA WorkerOrdinary ==
    ASSUME TypeOK, NEW j \in Jobs, NEW w \in Workers, WorkerStep(j, w)
    PROVE  Ordinary
<1>1. CASE ScheduleRetry(j, w)
  <2>1. jobs[j] \in Row
    BY DEF TypeOK
  <2>2. LET r == Rescheduled(jobs[j])
        IN  r \in Row /\ r.status = "queued" /\ r.attempt = jobs[j].attempt + 1
    BY <1>1, <2>1, RescheduledType DEF ScheduleRetry, Rescheduled, Requeued, Released, Row
  <2>3. jobs[j].attempt < jobs[j].attempt + 1
    BY <2>1 DEF Row, Attempts
  <2>4. QED
    BY <1>1, <2>2, <2>3, FreshSetRow DEF ScheduleRetry, Holds
<1>2. QED
  BY <1>1, WorkerQuiet

\* of the users,
LEMMA UserOrdinary ==
    ASSUME TypeOK, UserStep
    PROVE  Ordinary
<1> USE DEF Status, Terminal
<1>1. ASSUME NEW j \in Uploads, CreateWithDocument(j) PROVE Ordinary
  <2>1. j \in Jobs
    BY UploadsAssumption
  <2>2. NewRow(j, NoJob) \in Row /\ NewRow(j, NoJob).status = "queued"
        /\ NewRow(j, NoJob).attempt = 1
    BY <2>1, NewRowType, NewRowFields
  <2>3. QED
    BY <1>1, <2>1, <2>2, FreshSetRow DEF CreateWithDocument, Exists
<1>2. ASSUME NEW j \in Jobs, RequestCancelQueued(j) PROVE Ordinary
  <2>1. LET r == [jobs[j] EXCEPT !.status = "canceled"]
        IN r \in Row /\ r.status = "canceled" /\ r.attempt = jobs[j].attempt
           /\ r.available = jobs[j].available
    BY SimpleUpdateType DEF TypeOK, Row
  <2>2. QED
    BY <1>2, <2>1, QuietSetRow DEF RequestCancelQueued
<1>3. ASSUME NEW j \in Jobs, RequestCancelRunning(j) PROVE Ordinary
  <2>1. LET r == Canceling(jobs[j])
        IN r \in Row /\ r.status = "canceling" /\ r.attempt = jobs[j].attempt
           /\ r.available = jobs[j].available
    BY CancelingType DEF TypeOK, Row, Canceling
  <2>2. QED
    BY <1>3, <2>1, QuietSetRow DEF RequestCancelRunning
<1>4. QED
  BY <1>1, <1>2, <1>3 DEF UserStep

\* and of time.
LEMMA ClockOrdinary ==
    ASSUME TypeOK, NEW j \in Jobs, LeaseExpires(j) \/ LeaseOverdue(j) \/ BecomesAvailable(j)
    PROVE  Ordinary
<1>1. jobs[j] \in Row
  BY DEF TypeOK
<1>2. \A l \in Leases :
        LET r == [jobs[j] EXCEPT !.lease = l]
        IN  /\ r.status = jobs[j].status /\ r.attempt = jobs[j].attempt
            /\ r.available = jobs[j].available /\ r.enqueued = jobs[j].enqueued
  BY <1>1 DEF Row
<1>3. CASE LeaseExpires(j)
  BY <1>1, <1>2, <1>3, SimpleUpdateType, QuietSetRow DEF LeaseExpires, Leases
<1>4. CASE LeaseOverdue(j)
  BY <1>1, <1>2, <1>4, SimpleUpdateType, QuietSetRow DEF LeaseOverdue, Leases
<1>5. CASE BecomesAvailable(j)
  <2>1. LET r == [jobs[j] EXCEPT !.available = TRUE]
        IN  /\ r.status = jobs[j].status /\ r.attempt = jobs[j].attempt
            /\ r.available /\ r.enqueued = jobs[j].enqueued
    BY <1>1 DEF Row
  <2>2. jobs'[j] = [jobs[j] EXCEPT !.available = TRUE]
        /\ \A k \in Jobs \ {j} : jobs'[k] = jobs[k]
    BY <1>5 DEF BecomesAvailable, SetRow, TypeOK
  <2>3. \A k \in Jobs : Quiet(k)
    BY <1>5, <2>1, <2>2 DEF BecomesAvailable, Quiet
  <2>4. QED
    BY <1>5, <2>3 DEF BecomesAvailable, Ordinary
<1>6. QED
  BY <1>3, <1>4, <1>5

\* So is leaving the tables alone.
LEMMA IdleOrdinary == ASSUME UNCHANGED vars PROVE Ordinary
  BY DEF vars, Ordinary, Quiet

---------------------------------------------------------------------------
(* The form of the state *)

\* Where the sweeper goes next, field by field.
SweepGoes(stage, step, todo, item) ==
    /\ sweep' \in SweepRecord
    /\ sweep'.stage = stage /\ sweep'.step = step /\ sweep'.todo = todo /\ sweep'.item = item

\* The updates of sweep, field by field,
LEMMA SweepFields ==
    ASSUME sweep \in SweepRecord, NEW p \in Steps, NEW S \in SUBSET Items,
           NEW i \in {NoJob} \cup Items
    PROVE  /\ sweep' = [sweep EXCEPT !.step = p, !.todo = S] =>
                SweepGoes(sweep.stage, p, S, sweep.item)
           /\ sweep' = [sweep EXCEPT !.todo = S] =>
                SweepGoes(sweep.stage, sweep.step, S, sweep.item)
           /\ sweep' = [[sweep EXCEPT !.todo = S] EXCEPT !.item = i, !.step = p] =>
                SweepGoes(sweep.stage, p, S, i)
           /\ sweep' = [sweep EXCEPT !.step = p, !.item = i] =>
                SweepGoes(sweep.stage, p, sweep.todo, i)
           /\ sweep' = [sweep EXCEPT !.step = p] =>
                SweepGoes(sweep.stage, p, sweep.todo, sweep.item)
  BY DEF SweepRecord, SweepGoes

\* and its start of a stage.
LEMMA SweepFromFields ==
    ASSUME NEW s \in Stages, sweep' = SweepFrom(s)
    PROVE  SweepGoes(s, "query", {}, NoJob)
  BY DEF SweepFrom, SweepRecord, SweepGoes, Steps

\* A stage is followed by another.
LEMMA AfterStage == ASSUME NEW s \in Stages PROVE After(s) \in Stages
  BY DEF After, Stages

\* Requests to the sweeper stay as they were while it waits.
LEMMA SweepWaits ==
    ASSUME SweepOK, sweep' = sweep, outbox \subseteq outbox' PROVE SweepOK'
  BY DEF SweepOK

\* Every transition of a handler that is not the receipt of a message.
LEMMA CallType ==
    ASSUME TypeInv, TypeOK', NEW w \in Workers, Call(w) PROVE TypeInv'
<1>1. Ordinary
  BY CallTables, WorkerOrdinary, IdleOrdinary DEF TypeInv, DeliveryTypeOK
<1>2. DeliveryTypeOK'
  BY FaultsAssumption
  DEF TypeInv, DeliveryTypeOK, Call, Elsewhere, broker, Goto, Fault, Processing
<1>3. SweepOK'
  BY <1>1, SweepWaits DEF TypeInv, Call, Elsewhere, Ordinary
<1>4. QED
  BY <1>2, <1>3 DEF TypeInv

\* A sweeper without anything in hand.
LEMMA SweepFromOK ==
    ASSUME NEW s \in Stages, sweep' = SweepFrom(s) PROVE SweepOK'
  BY SweepFromFields DEF SweepGoes, SweepOK

\* What the queries of the sweeper return.
LEMMA QueriedItems ==
    ASSUME TypeInv
    PROVE  /\ \A S \in Batch(Dispatchable) :
                S \subseteq {o \in outbox : ~o.sent} /\ S \subseteq Items
           /\ \A S \in SUBSET Jobs : ToRepublish(S) \subseteq Republished
           /\ \A S \in Batch(StaleQueued) : S \subseteq Jobs
<1>1. outbox \subseteq Items
  BY DEF TypeInv, DeliveryTypeOK, TypeOK, Items
<1>2. QED
  BY <1>1 DEF Batch, Dispatchable, ToRepublish, Republished, StaleQueued

\* The sweeper publishes what its stage found.
LEMMA FoundOK ==
    ASSUME TypeInv, NEW S,
           sweep.stage = "outbox" =>
             S \subseteq {o \in outbox' : ~o.sent} /\ S \subseteq Items,
           sweep.stage # "outbox" => S \subseteq Republished,
           Found(S)
    PROVE  SweepOK'
<1>1. S \in SUBSET Items /\ sweep \in SweepRecord /\ "publish" \in Steps
  BY DEF Items, TypeInv, SweepOK, Steps
<1>2. SweepGoes(sweep.stage, "publish", S, sweep.item)
  BY <1>1, SweepFields DEF Found, SweepOK
<1>3. QED
  BY <1>2 DEF SweepGoes, SweepOK

\* One row to publish is taken, and confirmed.
LEMMA TakenOK ==
    ASSUME TypeInv, UNCHANGED outbox, sweep.step = "publish", NEW item \in sweep.todo,
           LET taken == [sweep EXCEPT !.todo = @ \ {item}]
           IN  \/ sweep' = taken
               \/ sweep' = [taken EXCEPT !.item = item,
                              !.step = IF sweep.stage = "outbox" THEN "mark" ELSE "enqueue"]
    PROVE  /\ SweepOK'
           /\ item \in Items
           /\ \/ SweepGoes(sweep.stage, "publish", sweep.todo \ {item}, sweep.item)
              \/ SweepGoes(sweep.stage, IF sweep.stage = "outbox" THEN "mark" ELSE "enqueue",
                           sweep.todo \ {item}, item)
<1>1. sweep \in SweepRecord /\ sweep.todo \in SUBSET Items
  BY DEF TypeInv, SweepOK, SweepRecord
<1>2. PICK p \in Steps : p = IF sweep.stage = "outbox" THEN "mark" ELSE "enqueue"
  BY DEF Steps
<1>3. \/ SweepGoes(sweep.stage, sweep.step, sweep.todo \ {item}, sweep.item)
      \/ SweepGoes(sweep.stage, p, sweep.todo \ {item}, item)
  <2>1. sweep.todo \ {item} \in SUBSET Items /\ item \in Items
    BY <1>1
  <2>2. QED
    BY <1>1, <1>2, <2>1, SweepFields
<1>4. SweepOK'
  BY <1>1, <1>2, <1>3 DEF SweepGoes, SweepOK, TypeInv
<1>5. QED
  BY <1>1, <1>2, <1>3, <1>4

\* A published row is marked, and its job enqueued.
LEMMA MarkedOK ==
    ASSUME TypeInv, sweep.step \in {"mark", "enqueue"},
           \/ NextItem
           \/ sweep.step = "mark" /\ sweep' = [sweep EXCEPT !.step = "enqueue"],
           \A o \in outbox :
             ~o.sent => o \in outbox' \/ (sweep.step = "mark" /\ o = sweep.item)
    PROVE  /\ SweepOK'
           /\ \/ SweepGoes(sweep.stage, "publish", sweep.todo, NoJob)
              \/ /\ sweep.step = "mark"
                 /\ SweepGoes(sweep.stage, "enqueue", sweep.todo, sweep.item)
<1>1. \/ SweepGoes(sweep.stage, "publish", sweep.todo, NoJob)
      \/ sweep.step = "mark" /\ SweepGoes(sweep.stage, "enqueue", sweep.todo, sweep.item)
  BY SweepFields DEF TypeInv, SweepOK, SweepRecord, NextItem, Steps
<1>2. sweep.step = "mark" => sweep.item \in Items
  BY DEF TypeInv, SweepOK, DeliveryTypeOK, TypeOK, Items
<1>3. sweep.stage = "outbox" => sweep.todo \subseteq {o \in outbox' : ~o.sent}
  BY DEF TypeInv, SweepOK
<1>4. SweepOK'
  <2>1. CASE SweepGoes(sweep.stage, "publish", sweep.todo, NoJob)
    BY <1>3, <2>1 DEF SweepGoes, SweepOK, TypeInv
  <2>2. CASE sweep.step = "mark" /\ SweepGoes(sweep.stage, "enqueue", sweep.todo, sweep.item)
    BY <1>2, <1>3, <2>2 DEF SweepGoes, SweepOK, TypeInv
  <2>3. QED
    BY <1>1, <2>1, <2>2
<1>5. QED
  BY <1>1, <1>4

\* MarkOutboxPublished changes one row, and nothing that was sent.
LEMMA MarkedRow ==
    ASSUME TypeInv, MarkOutboxPublished(sweep.item)
    PROVE  /\ jobs' = jobs
           /\ \A o \in outbox \ {sweep.item} : o \in outbox'
           /\ \A o \in outbox' : ~o.sent => o \in outbox \ {sweep.item}
<1>1. sweep.item \in OutboxRow
  BY DEF TypeInv, DeliveryTypeOK, TypeOK, MarkOutboxPublished
<1>2. [sweep.item EXCEPT !.sent = TRUE].sent
  BY <1>1 DEF OutboxRow
<1>3. QED
  BY <1>2 DEF MarkOutboxPublished

\* A step of the sweeper keeps what it holds well formed.
LEMMA SweeperType ==
    ASSUME TypeInv, SweeperStepOnce \/ SweeperDies PROVE SweepOK'
<1> USE DEF Stages
<1>1. CASE SweepCanceled
  BY <1>1, SweepFromOK DEF SweepCanceled, QueryFails
<1>2. CASE SweepOutbox
  <2>1. ASSUME NEW S \in Batch(Dispatchable), Found(S), UNCHANGED vars PROVE SweepOK'
    BY <1>2, <2>1, FoundOK, QueriedItems DEF SweepOutbox, At, vars
  <2>2. QED
    BY <1>2, <2>1, SweepFromOK DEF SweepOutbox, QueryFails
<1>3. CASE SweepStale
  <2>1. ASSUME NEW S \in Batch(StaleQueued), Found(ToRepublish(S)), UNCHANGED vars
        PROVE  SweepOK'
    BY <1>3, <2>1, FoundOK, QueriedItems DEF SweepStale, At, vars
  <2>2. QED
    BY <1>3, <2>1, SweepFromOK DEF SweepStale, QueryFails
<1>4. CASE SweepReclaim
  <2>1. ASSUME NEW S \in SUBSET Jobs, Found(ToRepublish(S)) PROVE SweepOK'
    BY <1>4, <2>1, FoundOK, QueriedItems DEF SweepReclaim, At
  <2>2. QED
    BY <1>4, <2>1, SweepFromOK DEF SweepReclaim
<1>5. CASE SweepPublish
  BY <1>5, TakenOK DEF SweepPublish, vars
<1>6. CASE SweepMark
  <2>1. \A o \in outbox : ~o.sent => o \in outbox' \/ (sweep.step = "mark" /\ o = sweep.item)
    BY <1>6, MarkedRow DEF SweepMark, vars
  <2>2. QED
    BY <1>6, <2>1, MarkedOK DEF SweepMark
<1>7. CASE SweepEnqueue
  <2>1. outbox' = outbox
    BY <1>7 DEF SweepEnqueue, MarkEnqueued, vars
  <2>2. QED
    BY <1>7, <2>1, MarkedOK DEF SweepEnqueue
<1>8. CASE SweepNextStage
  <2>1. sweep.stage \in Stages
    BY DEF TypeInv, DeliveryTypeOK
  <2>2. QED
    BY <1>8, <2>1, AfterStage, SweepFromOK DEF SweepNextStage
<1>9. CASE SweeperDies
  BY <1>9, SweepFromOK DEF SweeperDies
<1>10. QED
  BY <1>1, <1>2, <1>3, <1>4, <1>5, <1>6, <1>7, <1>8, <1>9 DEF SweeperStepOnce

\* No step breaks the form of the state.
LEMMA DeliveryTypeStep ==
    ASSUME TypeInv, [DeliveryNext]_deliveryVars PROVE TypeInv'
<1>1. TypeOK'
  BY StepTables, TypeStep DEF TypeInv, DeliveryTypeOK, deliveryVars
<1>2. ASSUME Ordinary, sweep' = sweep, DeliveryTypeOK' PROVE TypeInv'
  BY <1>2, SweepWaits DEF TypeInv, Ordinary
<1> USE DEF broker, handlers, Fault
<1>3. CASE UserStep
  <2>1. DeliveryTypeOK'
    BY <1>1, <1>3 DEF UserStep, TypeInv, DeliveryTypeOK
  <2>2. QED
    BY <1>2, <1>3, <2>1, UserOrdinary DEF UserStep, TypeInv, DeliveryTypeOK
<1>4. ASSUME NEW w \in Workers, HandlerStep(w) PROVE TypeInv'
  <2>1. CASE \E j \in Jobs : Receive(w, j)
    <3>1. DeliveryTypeOK'
      BY <1>1, <2>1, NullAssumption DEF Receive, TypeInv, DeliveryTypeOK, Phases
    <3>2. QED
      BY <1>2, <2>1, <3>1, IdleOrdinary DEF Receive
  <2>2. CASE Acknowledge(w) \/ DropToDLQ(w)
    <3>1. DeliveryTypeOK'
      BY <1>1, <2>2, NullAssumption
      DEF Acknowledge, DropToDLQ, Release, TypeInv, DeliveryTypeOK, Phases
    <3>2. QED
      BY <1>2, <2>2, <3>1, IdleOrdinary DEF Acknowledge, DropToDLQ, Release
  <2>3. CASE Call(w)
    BY <1>1, <2>3, CallType
  <2>4. QED
    BY <1>4, <2>1, <2>2, <2>3, HandlerCalls
<1>5. ASSUME NEW w \in Workers, Crash(w) PROVE TypeInv'
  <2>1. DeliveryTypeOK'
    BY <1>1, <1>5, NullAssumption, FaultsAssumption
    DEF Crash, Release, TypeInv, DeliveryTypeOK, Phases
  <2>2. QED
    BY <1>2, <1>5, <2>1, IdleOrdinary DEF Crash, Release
<1>6. ASSUME NEW w \in Workers, Renew(w) PROVE TypeInv'
  <2>1. DeliveryTypeOK'
    BY <1>1, <1>6 DEF Renew, TypeInv, DeliveryTypeOK
  <2>2. held[w] \in Jobs
    BY <1>6, HeldJob DEF Renew, Processing
  <2>3. QED
    BY <1>2, <1>6, <2>1, <2>2, WorkerOrdinary
    DEF Renew, WorkerStep, TypeInv, DeliveryTypeOK
<1>7. CASE SweeperStepOnce \/ SweeperDies
  <2>1. SweepOK'
    BY <1>7, SweeperType
  <2>2. /\ queue' \in [Jobs -> Nat] /\ dlq' \subseteq Jobs \X {"nack", "dead"}
        /\ UNCHANGED handlers /\ faults' \in 0..MaxFaults
    <3>1. ASSUME NEW item \in Items, Enqueue(item)
          PROVE  queue' \in [Jobs -> Nat] /\ dlq' \subseteq Jobs \X {"nack", "dead"}
      <4>1. item.job \in Jobs
        BY DEF Items, OutboxRow, Republished
      <4>2. QED
        BY <3>1, <4>1 DEF Enqueue, TypeInv, DeliveryTypeOK
    <3>2. CASE SweepPublish
      <4>1. sweep.todo \subseteq Items
        BY DEF TypeInv, SweepOK, SweepRecord
      <4>2. QED
        BY <3>1, <3>2, <4>1, FaultsAssumption DEF SweepPublish, TypeInv, DeliveryTypeOK
    <3>3. CASE ~SweepPublish
      BY <1>7, <3>3, FaultsAssumption
      DEF SweeperStepOnce, SweeperDies, SweepCanceled, SweepOutbox, SweepStale, SweepReclaim,
          SweepMark, SweepEnqueue, SweepNextStage, QueryFails, TypeInv, DeliveryTypeOK
    <3>4. QED
      BY <3>2, <3>3
  <2>3. DeliveryTypeOK'
    BY <1>1, <2>1, <2>2 DEF TypeInv, DeliveryTypeOK, SweepOK, SweepRecord
  <2>4. QED
    BY <2>1, <2>3 DEF TypeInv
<1>8. ASSUME NEW j \in Jobs, Replay(j) PROVE TypeInv'
  <2>1. DeliveryTypeOK'
    BY <1>1, <1>8, FaultsAssumption DEF Replay, TypeInv, DeliveryTypeOK
  <2>2. QED
    BY <1>2, <1>8, <2>1, IdleOrdinary DEF Replay
<1>9. ASSUME NEW j \in Jobs, LeaseRunsOut(j) \/ LeaseSlips(j) \/ DelayPasses(j)
      PROVE  TypeInv'
  <2>1. DeliveryTypeOK'
    BY <1>1, <1>9, FaultsAssumption
    DEF LeaseRunsOut, LeaseSlips, DelayPasses, TypeInv, DeliveryTypeOK
  <2>2. QED
    BY <1>2, <1>9, <2>1, ClockOrdinary
    DEF LeaseRunsOut, LeaseSlips, DelayPasses, TypeInv, DeliveryTypeOK
<1>10. CASE UNCHANGED deliveryVars
  BY <1>2, <1>10, <1>1, IdleOrdinary DEF deliveryVars, vars, TypeInv, DeliveryTypeOK
<1>11. QED
  BY <1>3, <1>4, <1>5, <1>6, <1>7, <1>8, <1>9, <1>10 DEF DeliveryNext

\* The sweeper and the slots start with nothing.
LEMMA DeliveryTypeInit == DeliveryInit => TypeInv /\ IInv
<1> SUFFICES ASSUME DeliveryInit PROVE TypeInv /\ IInv
  OBVIOUS
<1>1. IInv
  BY InvInit DEF DeliveryInit
<1>2. sweep.stage = "cancel" /\ sweep.step = "query" /\ SweepOK
  BY DEF DeliveryInit, SweepFrom, SweepOK, SweepRecord, Stages, Steps
<1>3. DeliveryTypeOK
  BY <1>1, <1>2, NullAssumption, FaultsAssumption
  DEF DeliveryInit, DeliveryTypeOK, IInv, Phases, Stages, Steps
<1>4. QED
  BY <1>1, <1>2, <1>3 DEF TypeInv

\* The messages, the slots and the sweeper are always well formed.
THEOREM DeliveryTypeCorrect == DeliverySpec => []DeliveryTypeOK
<1>1. DeliverySpec => []TypeInv
  BY DeliveryTypeInit, DeliveryTypeStep, PTL DEF DeliverySpec
<1>2. TypeInv => DeliveryTypeOK
  BY DEF TypeInv
<1>3. QED
  BY <1>1, <1>2, PTL

\* Handlers, sweeper and users only issue the statements of JobLifecycle.
THEOREM DeliveryUsesLifecycle == DeliverySpec => UsesLifecycle
<1>1. DeliveryInit => Init
  BY DEF DeliveryInit
<1>2. TypeInv /\ [DeliveryNext]_deliveryVars => [Next]_vars
  BY StepTables DEF deliveryVars
<1>3. QED
  BY <1>1, <1>2, DeliveryTypeInit, DeliveryTypeStep, PTL DEF DeliverySpec, UsesLifecycle, Spec

\* So a user of the delivered system gets what ConversionPromise says.
THEOREM DeliveryKeepsPromise == DeliverySpec => KeepsPromise
  BY DeliveryUsesLifecycle, Implements DEF UsesLifecycle

---------------------------------------------------------------------------
(* No job is lost without a trace *)

\* A new message is of no row that the sweeper has in hand.
LEMMA FreshUnsent ==
    ASSUME TypeInv, TypeOK', Ordinary, NEW k \in Jobs, Fresh(k), sweep' = sweep
    PROVE  \E m \in Unsent(k)' : m.attempt = jobs'[k].attempt /\ ~Marked(m)'
<1>1. LET m == NewMessage(k)'
      IN m.job = k /\ m.dest = "jobs" /\ ~m.sent /\ m.attempt = jobs'[k].attempt
  BY DEF NewMessage
<1>2. QED
  BY <1>1 DEF Fresh, Unsent, Marked, TypeInv, SweepOK

\* A statement of others, while the sweeper waits.
LEMMA OrdinaryKeeps ==
    ASSUME LossInv, TypeInv', IInv', Ordinary, sweep' = sweep,
           \A j \in Jobs : /\ jobs[j].status = "queued" /\ jobs'[j].status = "queued"
                           /\ jobs[j].available
                           => (Waiting(j) => Waiting(j)')
    PROVE  LossInv'
<1>1. Due'
  <2>1. ASSUME NEW o \in outbox', o.dest = "jobs",
               Marked(o)' \/ (sweep'.stage = "outbox" /\ o \in sweep'.todo)
        PROVE  Timely(o)'
    <3>1. o \in outbox /\ Timely(o) /\ o.job \in Jobs /\ o.attempt <= jobs[o.job].attempt
          /\ Exists(o.job)
      BY <2>1 DEF LossInv, Due, TypeInv, SweepOK, Marked, IInv, OutboxBehind, Behind,
                  TypeOK, OutboxRow
    <3>2. o.attempt \in Nat /\ jobs[o.job].attempt \in Nat /\ jobs'[o.job].attempt \in Nat
      BY <3>1 DEF LossInv, IInv, TypeOK, OutboxRow, Row, Attempts
    <3>3. QED
      BY <3>1, <3>2 DEF Ordinary, Quiet, Fresh, Timely
  <2>2. QED
    BY <2>1 DEF Due
<1>2. ASSUME NEW j \in Jobs PROVE Traced(j)'
  <2>1. CASE Fresh(j)
    <3>1. \E m \in Unsent(j)' : m.attempt = jobs'[j].attempt /\ ~Marked(m)'
      BY <2>1, FreshUnsent DEF LossInv, IInv
    <3>2. QED
      BY <2>1, <3>1 DEF Traced, Fresh
  <2>2. CASE Quiet(j) /\ jobs'[j].status = "queued"
    <3>1. jobs[j].status = "queued" /\ Traced(j) /\ Unsent(j) \subseteq Unsent(j)'
      BY <2>2 DEF Quiet, LossInv, Ordinary, Unsent
    <3>2. CASE jobs[j].available
      <4>1. Waiting(j) => Waiting(j)'
        BY <2>2, <3>1, <3>2
      <4>2. \A o \in Unsent(j)' : Marked(o)' => o \in Unsent(j) /\ Marked(o)
        BY DEF Unsent, Marked, LossInv, TypeInv, SweepOK
      <4>3. Confirming(j)' <=> Confirming(j)
        BY DEF Confirming
      <4>4. QED
        BY <2>2, <3>1, <3>2, <4>1, <4>2, <4>3 DEF Traced, Quiet
    <3>3. CASE ~jobs[j].available
      <4>1. PICK n \in Unsent(j) : n.attempt = jobs[j].attempt
        BY <3>1, <3>3 DEF Traced
      <4>2. n \in outbox /\ n.dest = "jobs" /\ n.job = j /\ n.attempt \in Nat
        BY <4>1 DEF Unsent, LossInv, IInv, TypeOK, OutboxRow, Attempts
      <4>3. ~Marked(n)
        BY <3>3, <4>1, <4>2 DEF LossInv, Due, Timely
      <4>4. n \in Unsent(j)' /\ ~Marked(n)' /\ n.attempt = jobs'[j].attempt
        BY <2>2, <3>1, <4>1, <4>3 DEF Quiet, Marked
      <4>5. QED
        BY <2>2, <4>4 DEF Traced
    <3>4. QED
      BY <3>2, <3>3
  <2>3. CASE Quiet(j) /\ jobs'[j].status # "queued"
    BY <2>3 DEF Traced, Quiet, LossInv
  <2>4. QED
    BY <2>1, <2>2, <2>3 DEF Ordinary
<1>3. QED
  BY <1>1, <1>2 DEF LossInv

\* The messages of a step of a handler: one is lost only with a job that takes
\* it, or that still has its next one to come.
LEMMA HandlerWaits ==
    ASSUME TypeInv, NEW w \in Workers, HandlerStep(w), NEW j \in Jobs,
           jobs[j].status = "queued", jobs'[j].status = "queued", jobs[j].available,
           Waiting(j)
    PROVE  Waiting(j)'
<1>1. /\ queue \in [Jobs -> Nat] /\ phase \in [Workers -> Phases]
      /\ held \in [Workers -> Jobs \cup {NoJob}] /\ jobs \in [Jobs -> Row]
  BY DEF TypeInv, DeliveryTypeOK, TypeOK
<1>2. CASE \E k \in Jobs : Receive(w, k)
  <2>1. PICK k \in Jobs : Receive(w, k)
    BY <1>2
  <2>2. held'[w] = k /\ phase'[w] = "claiming" /\ dlq' = dlq
    BY <1>1, <2>1 DEF Receive
  <2>3. CASE j = k
    BY <2>2, <2>3 DEF Waiting
  <2>4. CASE j # k
    BY <1>1, <2>1, <2>4 DEF Receive, Waiting
  <2>5. QED
    BY <2>3, <2>4
<1>3. CASE Acknowledge(w)
  BY <1>1, <1>3 DEF Acknowledge, Release, broker, Waiting
<1>4. CASE DropToDLQ(w)
  BY <1>1, <1>4 DEF DropToDLQ, Release, Waiting
<1>5. CASE Call(w) /\ phase[w] \in Processing
  BY <1>1, <1>5 DEF Call, Goto, Elsewhere, broker, Waiting, Processing
<1>6. CASE ClaimDelivery(w)
  <2>1. held' = held /\ queue' = queue /\ dlq' = dlq
    BY <1>6 DEF ClaimDelivery, Statement, Elsewhere, broker
  <2>2. CASE held[w] # j
    BY <1>1, <1>6, <2>1, <2>2 DEF ClaimDelivery, Statement, Goto, Waiting
  <2>3. CASE held[w] = j
    <3>1. ~Claim(j, w)
      <4>1. jobs[j] \in Row
        BY <1>1
      <4>2. Claimed(jobs[j], w).status = "running"
        BY <4>1 DEF Claimed, Row
      <4>3. Claim(j, w) => jobs'[j] = Claimed(jobs[j], w)
        BY <1>1 DEF Claim, SetRow
      <4>4. QED
        BY <4>2, <4>3
    <3>2. phase'[w] = "nack"
      BY <1>1, <1>6, <2>3, <3>1 DEF ClaimDelivery, Statement, Claimable, Goto
    <3>3. QED
      BY <2>1, <2>3, <3>2 DEF Waiting
  <2>4. QED
    BY <2>2, <2>3
<1>7. QED
  BY <1>2, <1>3, <1>4, <1>5, <1>6, HandlerCalls DEF Call

\* Steps of the handlers, of the users and of time keep the invariant.
LEMMA OthersKeep ==
    ASSUME LossInv, TypeInv', IInv',
           \/ UserStep
           \/ \E w \in Workers : HandlerStep(w) \/ Crash(w) \/ Renew(w)
           \/ \E j \in Jobs : Replay(j) \/ LeaseRunsOut(j) \/ LeaseSlips(j) \/ DelayPasses(j)
    PROVE  LossInv'
<1> USE DEF broker, handlers
<1>1. TypeInv /\ TypeOK
  BY DEF LossInv, IInv
<1>2. ASSUME UNCHANGED broker, UNCHANGED handlers, NEW j \in Jobs
      PROVE  Waiting(j) => Waiting(j)'
  BY <1>2 DEF Waiting
<1>3. CASE UserStep
  BY <1>1, <1>2, <1>3, UserOrdinary, OrdinaryKeeps DEF UserStep
<1>4. ASSUME NEW w \in Workers, HandlerStep(w) PROVE LossInv'
  <2>1. Ordinary /\ sweep' = sweep
    <3>1. CASE Call(w)
      BY <1>1, <3>1, CallTables, WorkerOrdinary, IdleOrdinary DEF Call, Elsewhere
    <3>2. CASE (\E j \in Jobs : Receive(w, j)) \/ Acknowledge(w) \/ DropToDLQ(w)
      BY <3>2, IdleOrdinary DEF Receive, Acknowledge, DropToDLQ, Release
    <3>3. QED
      BY <1>1, <1>4, <3>1, <3>2, HandlerCalls
  <2>2. QED
    BY <1>1, <1>4, <2>1, HandlerWaits, OrdinaryKeeps
<1>5. ASSUME NEW w \in Workers, Crash(w) PROVE LossInv'
  <2>1. Ordinary /\ sweep' = sweep
    BY <1>5, IdleOrdinary DEF Crash, Release
  <2>2. ASSUME NEW j \in Jobs, Waiting(j) PROVE Waiting(j)'
    <3>1. held[w] \in Jobs /\ queue \in [Jobs -> Nat]
          /\ held \in [Workers -> Jobs \cup {NoJob}] /\ phase \in [Workers -> Phases]
      BY <1>1, <1>5, HeldJob DEF Crash, TypeInv, DeliveryTypeOK
    <3>2. queue'[held[w]] = queue[held[w]] + 1
      BY <1>5, <3>1 DEF Crash
    <3>3. CASE held[w] = j
      BY <3>1, <3>2, <3>3 DEF Waiting
    <3>4. CASE held[w] # j
      BY <1>5, <2>2, <3>1, <3>4 DEF Crash, Release, Waiting
    <3>5. QED
      BY <3>3, <3>4
  <2>3. QED
    BY <2>1, <2>2, OrdinaryKeeps
<1>6. ASSUME NEW w \in Workers, Renew(w) PROVE LossInv'
  <2>1. held[w] \in Jobs
    BY <1>1, <1>6, HeldJob DEF Renew, Processing
  <2>2. QED
    BY <1>1, <1>2, <1>6, <2>1, WorkerOrdinary, OrdinaryKeeps DEF Renew, WorkerStep
<1>7. ASSUME NEW k \in Jobs, Replay(k) PROVE LossInv'
  <2>1. ASSUME NEW j \in Jobs, Waiting(j) PROVE Waiting(j)'
    BY <1>1, <1>7, <2>1 DEF Replay, Waiting, TypeInv, DeliveryTypeOK
  <2>2. QED
    BY <1>7, <2>1, IdleOrdinary, OrdinaryKeeps DEF Replay
<1>8. ASSUME NEW k \in Jobs, LeaseRunsOut(k) \/ LeaseSlips(k) \/ DelayPasses(k)
      PROVE  LossInv'
  BY <1>1, <1>2, <1>8, ClockOrdinary, OrdinaryKeeps DEF LeaseRunsOut, LeaseSlips, DelayPasses
<1>9. QED
  BY <1>3, <1>4, <1>5, <1>6, <1>7, <1>8

---------------------------------------------------------------------------
(* The sweeper loses nothing *)

\* What the sweeper does to the rows while it goes on with an empty hand, or
\* with what a query found.
LEMMA EmptyHandKeeps ==
    ASSUME LossInv, TypeInv', IInv', UNCHANGED broker, UNCHANGED handlers,
           outbox' = outbox, sweep'.step \in {"query", "publish"},
           \A o \in outbox : /\ o.dest = "jobs" /\ sweep'.stage = "outbox" /\ o \in sweep'.todo
                             => Timely(o)',
           \A j \in Jobs : jobs'[j] # jobs[j] =>
             /\ jobs'[j].status = "running" => jobs'[j].available
             /\ jobs'[j].status = "queued" => jobs'[j].available /\ ~jobs'[j].enqueued
    PROVE  LossInv'
<1>1. ASSUME NEW j \in Jobs PROVE Waiting(j)' <=> Waiting(j)
  BY DEF broker, handlers, Waiting
<1>2. \A o : ~Marked(o)'
  BY DEF Marked
<1>3. Due'
  BY <1>2 DEF Due
<1>4. ASSUME NEW j \in Jobs PROVE Traced(j)'
  <2>1. Unsent(j)' = Unsent(j) /\ ~Confirming(j)'
    BY DEF Unsent, Confirming
  <2>2. Traced(j)
    BY DEF LossInv
  <2>3. QED
    BY <1>1, <1>2, <2>1, <2>2 DEF Traced
<1>5. QED
  BY <1>3, <1>4 DEF LossInv

\* The queries, the reclaims and the ends of a stage.
LEMMA QueriesKeep ==
    ASSUME LossInv, TypeInv', IInv',
           \/ SweepCanceled \/ SweepOutbox \/ SweepStale \/ SweepReclaim
           \/ SweepNextStage \/ SweeperDies
    PROVE  LossInv'
<1> USE DEF Stages
<1>1. TypeInv /\ TypeOK /\ sweep.stage \in Stages
  BY DEF LossInv, IInv, TypeInv, DeliveryTypeOK
<1>2. ASSUME NEW s \in Stages, sweep' = SweepFrom(s), UNCHANGED <<vars, broker, handlers>>
      PROVE  LossInv'
  BY <1>2, SweepFromFields, EmptyHandKeeps DEF SweepGoes, vars
<1>3. CASE SweepCanceled
  <2> UNCHANGED broker /\ UNCHANGED handlers
    BY <1>3 DEF SweepCanceled, QueryFails
  <2>1. ASSUME NEW S \in SUBSET Jobs, CancelExpiredLeases(S), sweep' = SweepFrom("outbox")
        PROVE  LossInv'
    <3>1. \A j \in Jobs : jobs'[j] # jobs[j] => jobs'[j].status = "canceled"
      BY <1>1, <2>1, ReleasedFields DEF CancelExpiredLeases, SetRows, TypeOK
    <3>2. QED
      BY <2>1, <3>1, SweepFromFields, EmptyHandKeeps DEF CancelExpiredLeases, SweepGoes
  <2>2. QED
    BY <1>2, <1>3, <2>1 DEF SweepCanceled, QueryFails
<1>4. ASSUME NEW S, Found(S), S \subseteq Items, UNCHANGED <<broker, handlers>>
      PROVE  SweepGoes(sweep.stage, "publish", S, sweep.item)
  <2>1. "publish" \in Steps /\ sweep \in SweepRecord
    BY <1>1 DEF Steps, TypeInv, SweepOK
  <2>2. QED
    BY <1>4, <2>1, SweepFields DEF Found
<1>5. CASE SweepOutbox
  <2> UNCHANGED broker /\ UNCHANGED handlers
    BY <1>5 DEF SweepOutbox, QueryFails
  <2>1. ASSUME NEW S \in Batch(Dispatchable), Found(S), UNCHANGED vars PROVE LossInv'
    <3>1. SweepGoes(sweep.stage, "publish", S, sweep.item)
      BY <1>1, <1>4, <2>1, QueriedItems
    <3>2. \A o \in S : o.dest = "jobs" => Timely(o)'
      BY <2>1 DEF Batch, Dispatchable, Timely, vars
    <3>3. QED
      BY <2>1, <3>1, <3>2, EmptyHandKeeps DEF SweepGoes, vars
  <2>2. QED
    BY <1>2, <1>5, <2>1 DEF SweepOutbox, QueryFails
<1>6. CASE SweepStale
  <2> UNCHANGED broker /\ UNCHANGED handlers
    BY <1>6 DEF SweepStale, QueryFails
  <2>1. ASSUME NEW S \in Batch(StaleQueued), Found(ToRepublish(S)), UNCHANGED vars
        PROVE  LossInv'
    <3>1. SweepGoes(sweep.stage, "publish", ToRepublish(S), sweep.item)
      BY <1>1, <1>4, <2>1, QueriedItems DEF Batch, StaleQueued, Items
    <3>2. QED
      BY <1>6, <2>1, <3>1, EmptyHandKeeps DEF SweepStale, SweepGoes, At, vars
  <2>2. QED
    BY <1>2, <1>6, <2>1 DEF SweepStale, QueryFails
<1>7. CASE SweepReclaim
  <2>1. ASSUME NEW S \in SUBSET Jobs, ReclaimExpiredLeases(S),
               Found(ToRepublish(S)) \/ sweep' = SweepFrom("cancel")
        PROVE  LossInv'
    <3>1. ASSUME NEW j \in Jobs, jobs'[j] # jobs[j]
          PROVE  jobs'[j].status = "queued" /\ jobs'[j].available /\ ~jobs'[j].enqueued
      <4>1. jobs[j].status = "running" /\ jobs'[j] = Requeued(jobs[j]) /\ jobs[j] \in Row
        BY <1>1, <2>1, <3>1
        DEF ReclaimExpiredLeases, SetRows, Batch, Overdue, TypeOK
      <4>2. jobs[j].available
        BY <4>1 DEF LossInv, Traced
      <4>3. QED
        BY <4>1, <4>2 DEF Requeued, Released, Row
    <3>2. \/ SweepGoes("reclaim", "publish", ToRepublish(S), sweep.item)
          \/ SweepGoes("cancel", "query", {}, NoJob)
      BY <1>1, <1>4, <1>7, <2>1, QueriedItems, SweepFromFields DEF SweepReclaim, Items, At
    <3>3. QED
      BY <1>7, <2>1, <3>1, <3>2, EmptyHandKeeps
      DEF SweepReclaim, ReclaimExpiredLeases, SweepGoes
  <2>2. QED
    BY <1>7, <2>1 DEF SweepReclaim
<1>8. CASE SweepNextStage
  BY <1>1, <1>2, <1>8, AfterStage DEF SweepNextStage
<1>9. CASE SweeperDies
  BY <1>2, <1>9 DEF SweeperDies
<1>10. QED
  BY <1>3, <1>5, <1>6, <1>7, <1>8, <1>9

\* A publication adds a message, and the sweeper has the job it is of in hand.
LEMMA PublicationKeeps ==
    ASSUME LossInv, TypeInv', IInv', SweepPublish PROVE LossInv'
<1>1. TypeInv /\ UNCHANGED vars /\ UNCHANGED handlers /\ sweep.step = "publish"
  BY DEF LossInv, SweepPublish
<1>2. PICK item \in sweep.todo :
        /\ \/ SweepGoes(sweep.stage, "publish", sweep.todo \ {item}, sweep.item)
           \/ /\ Enqueue(item)
              /\ SweepGoes(sweep.stage, IF sweep.stage = "outbox" THEN "mark" ELSE "enqueue",
                           sweep.todo \ {item}, item)
        /\ Enqueue(item) \/ UNCHANGED broker
  <2>1. PICK item \in sweep.todo :
          LET taken == [sweep EXCEPT !.todo = @ \ {item}]
          IN  \/ Enqueue(item) /\ sweep' = [taken EXCEPT !.item = item,
                   !.step = IF sweep.stage = "outbox" THEN "mark" ELSE "enqueue"]
              \/ sweep' = taken /\ (Enqueue(item) \/ UNCHANGED broker)
    BY DEF SweepPublish
  <2>2. CASE sweep' = [sweep EXCEPT !.todo = @ \ {item}]
    <3>1. sweep \in SweepRecord /\ sweep.todo \ {item} \in SUBSET Items
          /\ sweep.step \in Steps /\ sweep.item \in {NoJob} \cup Items
      BY <1>1 DEF TypeInv, SweepOK, SweepRecord
    <3>2. QED
      BY <1>1, <2>1, <2>2, <3>1, SweepFields
  <2>3. CASE sweep' # [sweep EXCEPT !.todo = @ \ {item}]
    <3>1. sweep \in SweepRecord /\ sweep.todo \ {item} \in SUBSET Items /\ item \in Items
      BY <1>1 DEF TypeInv, SweepOK, SweepRecord
    <3>2. PICK p \in Steps : p = IF sweep.stage = "outbox" THEN "mark" ELSE "enqueue"
      BY DEF Steps
    <3>3. QED
      BY <2>1, <2>3, <3>1, <3>2, SweepFields
  <2>4. QED
    BY <2>2, <2>3
<1>3. item \in Items /\ item.job \in Jobs
  BY <1>1 DEF TypeInv, SweepOK, SweepRecord, Items, OutboxRow, Republished
<1>4. ASSUME NEW j \in Jobs
      PROVE  /\ Waiting(j) => Waiting(j)'
             /\ Enqueue(item) /\ item.job = j /\ item.dest = "jobs" => Waiting(j)'
  BY <1>1, <1>2, <1>3
  DEF Enqueue, Waiting, handlers, broker, TypeInv, DeliveryTypeOK
<1>5. sweep.stage = "outbox" /\ item.dest = "jobs" => Timely(item) /\ item \in outbox
  BY <1>1 DEF LossInv, Due, TypeInv, SweepOK
<1>6. \A o \in outbox : Timely(o)' <=> Timely(o)
  BY <1>1 DEF Timely, vars
<1>7. Due'
  BY <1>1, <1>2, <1>5, <1>6 DEF SweepGoes, Due, Marked, LossInv, vars
<1>8. ASSUME NEW j \in Jobs PROVE Traced(j)'
  <2>1. Unsent(j)' = Unsent(j) /\ jobs'[j] = jobs[j] /\ Traced(j)
    BY <1>1 DEF Unsent, vars, LossInv
  <2>2. Confirming(j)' => Waiting(j)'
    <3>1. ASSUME Confirming(j)' PROVE Waiting(j)'
      <4>1. sweep.stage # "outbox" /\ Enqueue(item) /\ item.job = j
        BY <1>2, <3>1 DEF Confirming, SweepGoes
      <4>2. item.dest = "jobs"
        BY <1>1, <1>2, <4>1 DEF TypeInv, SweepOK, Republished
      <4>3. QED
        BY <1>4, <4>1, <4>2
    <3>2. QED
      BY <3>1
  <2>3. \A o \in Unsent(j) : Marked(o)' => Waiting(j)'
    BY <1>2, <1>4 DEF Marked, SweepGoes, Unsent
  <2>4. QED
    BY <1>4, <2>1, <2>2, <2>3 DEF Traced
<1>9. QED
  BY <1>7, <1>8 DEF LossInv

\* The row of a publication is marked when its message is there, or another row is.
LEMMA MarkKeeps ==
    ASSUME LossInv, TypeInv', IInv', SweepMark PROVE LossInv'
<1>1. /\ TypeInv /\ UNCHANGED broker /\ UNCHANGED handlers
      /\ sweep.step = "mark" /\ sweep.stage = "outbox"
      /\ sweep.item \in outbox \ sweep.todo /\ ~sweep.item.sent
  BY DEF LossInv, SweepMark, TypeInv, SweepOK
<1>2. MarkOutboxPublished(sweep.item) \/ UNCHANGED vars
  BY DEF SweepMark
<1>3. \/ SweepGoes(sweep.stage, "publish", sweep.todo, NoJob)
      \/ /\ SweepGoes(sweep.stage, "enqueue", sweep.todo, sweep.item)
         /\ sweep.item.dest = "jobs"
         /\ MarkOutboxPublished(sweep.item)
  <2>1. sweep \in SweepRecord /\ sweep.todo \in SUBSET Items
        /\ sweep.item \in {NoJob} \cup Items /\ "publish" \in Steps /\ "enqueue" \in Steps
    BY <1>1 DEF TypeInv, SweepOK, SweepRecord, Steps
  <2>2. sweep.item.dest \in {"jobs", "dlq"}
    BY <1>1 DEF TypeInv, DeliveryTypeOK, TypeOK, OutboxRow
  <2>3. QED
    BY <2>1, <2>2, SweepFields DEF SweepMark, NextItem
<1>4. /\ jobs' = jobs
      /\ \A o \in outbox \ {sweep.item} : o \in outbox'
      /\ \A o \in outbox' : ~o.sent => o \in outbox
      /\ MarkOutboxPublished(sweep.item) => \A o \in outbox' : ~o.sent => o # sweep.item
  BY <1>1, <1>2, MarkedRow DEF vars
<1>5. ASSUME NEW j \in Jobs PROVE Waiting(j)' <=> Waiting(j)
  BY <1>1 DEF broker, handlers, Waiting
<1>6. \A o : ~Marked(o)'
  BY <1>3 DEF Marked, SweepGoes
<1>7. Due'
  <2>1. ASSUME NEW o \in outbox', o.dest = "jobs", sweep'.stage = "outbox", o \in sweep'.todo
        PROVE  Timely(o)'
    <3>1. o \in sweep.todo /\ o \in outbox
      BY <1>1, <1>3, <2>1 DEF SweepGoes, TypeInv, SweepOK
    <3>2. Timely(o)
      BY <1>1, <2>1, <3>1 DEF LossInv, Due
    <3>3. QED
      BY <1>4, <3>2 DEF Timely
  <2>2. QED
    BY <1>6, <2>1 DEF Due
<1>8. ASSUME NEW j \in Jobs PROVE Traced(j)'
  <2>1. Traced(j)
    BY DEF LossInv
  <2>2. CASE jobs[j].status = "queued"
    <3>1. ~jobs[j].available => \E o \in Unsent(j)' : o.attempt = jobs[j].attempt
      <4>1. ASSUME ~jobs[j].available, NEW n \in Unsent(j), n.attempt = jobs[j].attempt
            PROVE  n \in Unsent(j)'
        <5>1. n \in outbox /\ n.job = j /\ n.dest = "jobs" /\ n.attempt \in Nat
          BY <4>1 DEF Unsent, LossInv, IInv, TypeOK, OutboxRow, Attempts
        <5>2. ~Marked(n)
          BY <4>1, <5>1 DEF LossInv, Due, Timely
        <5>3. QED
          BY <1>1, <1>4, <4>1, <5>1, <5>2 DEF Unsent, Marked
      <4>2. QED
        BY <2>1, <2>2, <4>1 DEF Traced
    <3>2. jobs[j].enqueued \/ Confirming(j)' => Waiting(j)' \/ Unsent(j)' # {}
      <4>1. ASSUME sweep.item \in Unsent(j) PROVE Waiting(j) \/ Unsent(j)' # {}
        <5>1. Waiting(j) \/ \E n \in Unsent(j) : n # sweep.item
          BY <1>1, <2>1, <2>2, <4>1 DEF Traced, Marked
        <5>2. \A n \in Unsent(j) : n # sweep.item => n \in Unsent(j)'
          BY <1>4 DEF Unsent
        <5>3. QED
          BY <5>1, <5>2
      <4>2. ASSUME sweep.item \notin Unsent(j) PROVE Unsent(j) \subseteq Unsent(j)'
        BY <1>4, <4>2 DEF Unsent
      <4>3. Confirming(j)' => sweep.item \in Unsent(j)
        BY <1>1, <1>3 DEF Confirming, SweepGoes, Unsent
      <4>4. QED
        BY <1>5, <2>1, <2>2, <4>1, <4>2, <4>3 DEF Traced
    <3>3. QED
      BY <1>4, <1>6, <2>1, <3>1, <3>2 DEF Traced
  <2>3. QED
    BY <1>4, <2>1, <2>2 DEF Traced
<1>9. QED
  BY <1>7, <1>8 DEF LossInv

\* enqueued_confirmed_at is set on a job that still has a message or a row.
LEMMA EnqueueKeeps ==
    ASSUME LossInv, TypeInv', IInv', SweepEnqueue PROVE LossInv'
<1>1. /\ TypeInv /\ UNCHANGED broker /\ UNCHANGED handlers /\ outbox' = outbox
      /\ sweep.step = "enqueue"
  BY DEF LossInv, SweepEnqueue, MarkEnqueued, vars
<1>2. SweepGoes(sweep.stage, "publish", sweep.todo, NoJob)
  <2>1. sweep \in SweepRecord /\ sweep.todo \in SUBSET Items /\ "publish" \in Steps
    BY <1>1 DEF TypeInv, SweepOK, SweepRecord, Steps
  <2>2. QED
    BY <2>1, SweepFields DEF SweepEnqueue, NextItem
<1>3. ASSUME NEW j \in Jobs
      PROVE  /\ jobs'[j].status = jobs[j].status /\ jobs'[j].attempt = jobs[j].attempt
             /\ jobs'[j].available = jobs[j].available
             /\ jobs'[j].enqueued => jobs[j].enqueued \/ Confirming(j)
  <2>1. CASE UNCHANGED vars
    BY <2>1 DEF vars
  <2>2. CASE MarkEnqueued(sweep.item.job)
    <3>1. jobs[j] \in Row /\ jobs \in [Jobs -> Row]
      BY DEF LossInv, IInv, TypeOK
    <3>2. LET r == [jobs[j] EXCEPT !.enqueued = TRUE]
          IN  r.status = jobs[j].status /\ r.attempt = jobs[j].attempt
              /\ r.available = jobs[j].available
      BY <3>1 DEF Row
    <3>3. CASE j = sweep.item.job
      BY <1>1, <2>2, <3>1, <3>2, <3>3 DEF MarkEnqueued, SetRow, Confirming
    <3>4. CASE j # sweep.item.job
      BY <2>2, <3>1, <3>4 DEF MarkEnqueued, SetRow
    <3>5. QED
      BY <3>3, <3>4
  <2>3. QED
    BY <2>1, <2>2 DEF SweepEnqueue
<1>4. ASSUME NEW j \in Jobs PROVE Waiting(j)' <=> Waiting(j)
  BY <1>1 DEF broker, handlers, Waiting
<1>5. \A o : ~Marked(o)'
  BY <1>2 DEF Marked, SweepGoes
<1>6. Due'
  <2>1. ASSUME NEW o \in outbox', o.dest = "jobs", sweep'.stage = "outbox", o \in sweep'.todo
        PROVE  Timely(o)'
    <3>1. o.job \in Jobs /\ Timely(o)
      BY <1>1, <1>2, <2>1 DEF SweepGoes, LossInv, Due, IInv, TypeOK, OutboxRow
    <3>2. QED
      BY <1>3, <3>1 DEF Timely
  <2>2. QED
    BY <1>5, <2>1 DEF Due
<1>7. ASSUME NEW j \in Jobs PROVE Traced(j)'
  <2>1. Traced(j) /\ Unsent(j)' = Unsent(j) /\ ~Confirming(j)'
    BY <1>1, <1>2 DEF LossInv, Unsent, Confirming, SweepGoes
  <2>2. QED
    BY <1>3, <1>4, <1>5, <2>1 DEF Traced
<1>8. QED
  BY <1>6, <1>7 DEF LossInv

\* The invariant is kept by every step,
LEMMA LossStep ==
    ASSUME LossInv, [DeliveryNext]_deliveryVars PROVE LossInv'
<1>1. TypeInv /\ TypeInv' /\ IInv'
  BY DeliveryTypeStep, StepTables, InvStep DEF LossInv, deliveryVars
<1>2. CASE UNCHANGED deliveryVars
  BY <1>1, <1>2, IdleOrdinary, OrdinaryKeeps DEF deliveryVars, broker, handlers, Waiting
<1>3. CASE SweeperStepOnce \/ SweeperDies
  BY <1>1, <1>3, QueriesKeep, PublicationKeeps, MarkKeeps, EnqueueKeeps DEF SweeperStepOnce
<1>4. CASE DeliveryNext /\ ~(SweeperStepOnce \/ SweeperDies)
  BY <1>1, <1>4, OthersKeep DEF DeliveryNext
<1>5. QED
  BY <1>2, <1>3, <1>4

\* and holds at the start.
LEMMA LossInit == DeliveryInit => LossInv
<1> SUFFICES ASSUME DeliveryInit PROVE LossInv
  OBVIOUS
<1>1. TypeInv /\ IInv
  BY DeliveryTypeInit
<1>2. outbox = {} /\ \A j \in Jobs : jobs[j].status = "absent"
  BY DEF DeliveryInit, Init, AbsentRow
<1>3. Due /\ \A j \in Jobs : Traced(j)
  BY <1>2 DEF Due, Traced
<1>4. QED
  BY <1>1, <1>3 DEF LossInv

\* A queued job that nothing will ever look at has its message in the dead
\* letter queue, or on its way there: no crash, lost call, replay or stolen
\* lease makes the sweeper take a message for delivered that is nowhere.
THEOREM NoSilentLossHolds == DeliverySpec => []NoSilentLoss
<1>1. ASSUME LossInv, NEW j \in Jobs, Stranded(j)
      PROVE  \/ <<j, "nack">> \in dlq
             \/ \E w \in Workers : held[w] = j /\ phase[w] = "nack"
  <2>1. Unsent(j) = {}
    BY <1>1 DEF Stranded, Unsent
  <2>2. Waiting(j)
    BY <1>1, <2>1 DEF Stranded, LossInv, Traced
  <2>3. QED
    BY <1>1, <2>2 DEF Stranded, Waiting, InFlight
<1>2. LossInv => NoSilentLoss
  BY <1>1 DEF NoSilentLoss
<1>3. QED
  BY <1>2, LossInit, LossStep, PTL DEF DeliverySpec

---------------------------------------------------------------------------
(* One message while nothing fails *)

CalmState == TypeInv /\ IInv /\ CalmSweep /\ \A j \in Jobs : CalmJob(j)

\* Nothing fails in a step that leaves faults at zero.
Calmly == faults = 0 /\ faults' = 0

\* So no call fails in it.
LEMMA NoFault == ASSUME Calmly PROVE ~Fault
  BY DEF Calmly, Fault

\* The rows of job_outbox of a job that no statement puts back in the queue.
LEMMA QuietUnsent ==
    ASSUME TypeInv, Ordinary, NEW j \in Jobs, Quiet(j), ~Fresh(j), sweep' = sweep
    PROVE  /\ Unsent(j)' = Unsent(j)
           /\ Publishable(j)' = Publishable(j)
           /\ Confirming(j)' <=> Confirming(j)
  BY DEF Ordinary, Unsent, Publishable, Marked, Confirming

\* A statement of others keeps the messages of a job that it does not deliver.
LEMMA CalmOrdinary ==
    ASSUME CalmState, TypeInv', IInv', Ordinary, sweep' = sweep, NEW j \in Jobs,
           queue'[j] = queue[j], Claiming(j)' = Claiming(j),
           jobs'[j].status = "running" =>
             /\ jobs[j].status = "running" /\ jobs'[j].lease = "live"
             /\ jobs'[j].lease_owner = jobs[j].lease_owner
             /\ held'[jobs[j].lease_owner] = j /\ phase'[jobs[j].lease_owner] \in Working,
           jobs'[j].status = "queued" /\ ~Fresh(j) =>
             jobs[j].status = "queued" /\ jobs'[j].enqueued = jobs[j].enqueued,
           jobs'[j].status = "absent" => jobs[j].status = "absent"
    PROVE  CalmJob(j)'
<1>1. CalmJob(j) /\ (NoMessage(j)' <=> NoMessage(j))
  BY DEF CalmState, NoMessage
<1>2. CASE Fresh(j)
  <2>1. jobs'[j].status = "queued" /\ NoMessage(j) /\ Publishable(j) = {}
    BY <1>1, <1>2 DEF Fresh, CalmJob
  <2>2. \A o \in Publishable(j)' : o = NewMessage(j)'
    BY <2>1 DEF Ordinary, Publishable, Unsent, Marked
  <2>3. Unsent(j)' # {}
    BY <1>2, FreshUnsent DEF CalmState, IInv
  <2>4. QED
    BY <1>1, <2>1, <2>2, <2>3 DEF CalmJob
<1>3. CASE ~Fresh(j)
  <2>1. /\ Unsent(j)' = Unsent(j) /\ Publishable(j)' = Publishable(j)
        /\ Confirming(j)' <=> Confirming(j)
    BY <1>3, QuietUnsent DEF CalmState, Ordinary
  <2>2. QED
    BY <1>1, <1>3, <2>1 DEF CalmJob
<1>4. QED
  BY <1>2, <1>3

\* The owner of a running job is at work on it.
LEMMA CalmOwner ==
    ASSUME CalmState, NEW j \in Jobs, jobs[j].status = "running"
    PROVE  /\ jobs[j].lease_owner \in Workers
           /\ held[jobs[j].lease_owner] = j /\ phase[jobs[j].lease_owner] \in Working
  BY DEF CalmState, CalmJob, IInv, RowInv, TypeOK, Row

\* While the owner is at work, its calls settle the job or go on with it.
LEMMA OwnerWorks ==
    ASSUME CalmState, Calmly, NEW w \in Workers, HandlerStep(w), phase[w] \in Working,
           Holds(held[w], w)
    PROVE  (jobs' = jobs /\ phase'[w] \in Working) \/ jobs'[held[w]].status # "running"
<1> DEFINE j == held[w]
<1>1. /\ j \in Jobs /\ phase \in [Workers -> Phases] /\ jobs \in [Jobs -> Row]
      /\ jobs[j] \in Row
  BY HeldJob DEF CalmState, TypeInv, DeliveryTypeOK, TypeOK, Working
<1>2. Settleable(w) /\ bundles[j] # "published" /\ jobs[j].status = "running"
      /\ ~jobs[j].cancel_requested
  BY <1>1 DEF Settleable, Holds, CalmState, IInv, RowInv, PublishedIffSucceeded
<1>3. ~Fault
  BY NoFault
<1>4. ASSUME NEW s, jobs'[j] = Released(jobs[j], s), s # "running"
      PROVE  jobs'[j].status # "running"
  BY <1>1, <1>4, ReleasedFields
<1> HIDE DEF j
<1> USE DEF Statement, Look, Goto
<1>5. CASE FailThrashing(w)
  BY <1>1, <1>2, <1>3, <1>4, <1>5 DEF FailThrashing, MarkFailed, SetRow, j
<1>6. CASE Convert(w)
  BY <1>1, <1>2, <1>6 DEF Convert, Working, vars, j
<1>7. CASE RegisterInvalid(w)
  BY <1>1, <1>2, <1>3, <1>4, <1>7 DEF RegisterInvalid, MarkInvalid, SetRow, j
<1>8. CASE RegisterFailed(w)
  BY <1>1, <1>2, <1>3, <1>4, <1>8 DEF RegisterFailed, MarkFailed, SetRow, j
<1>9. CASE RegisterTransient(w)
  <2>1. CASE ScheduleRetry(j, w)
    <3>1. Rescheduled(jobs[j]).status = "queued"
      BY <1>1 DEF Rescheduled, Requeued, Released, Row
    <3>2. QED
      BY <1>1, <2>1, <3>1 DEF ScheduleRetry, SetRow, j
  <2>2. CASE ~ScheduleRetry(j, w)
    <3>1. UNCHANGED vars /\ ~(jobs[j].attempt < MaxAttempts)
      BY <1>2, <1>3, <1>9, <2>2 DEF RegisterTransient, j
    <3>2. jobs[j].attempt >= MaxAttempts
      BY <1>1, <3>1, AttemptsAssumption DEF Row, Attempts
    <3>3. (CASE jobs[j].status \in {"canceling", "canceled"} -> "closing"
             [] jobs[j].status = "running" /\ jobs[j].attempt >= MaxAttempts -> "dying"
             [] OTHER -> "nack") = "dying"
      <4>1. ~(jobs[j].status \in {"canceling", "canceled"})
        BY <1>2
      <4>2. QED
        BY <1>2, <3>2, <4>1, Zenon
    <3>4. phase' = [phase EXCEPT ![w] = "dying"]
      BY <1>3, <1>9, <2>2, <3>3 DEF RegisterTransient, j
    <3>5. QED
      BY <1>1, <3>1, <3>4 DEF Working, vars
  <2>3. QED
    BY <2>1, <2>2
<1>10. CASE RegisterDead(w)
  BY <1>1, <1>2, <1>3, <1>4, <1>10 DEF RegisterDead, MarkDeadWithOutbox, SetRow, j
<1>11. CASE ClaimBundle(w)
  BY <1>1, <1>2, <1>3, <1>11 DEF ClaimBundle, ClaimForPublish, Working, Settleable, j
<1>12. CASE CopyFails(w)
  BY <1>1, <1>12 DEF CopyFails, Working, vars
<1>13. CASE PublishBundle(w)
  BY <1>1, <1>2, <1>3, <1>4, <1>13 DEF PublishBundle, Publish, SetRow, Working, vars, j
<1>14. CASE UndoClaim(w)
  BY <1>1, <1>3, <1>14 DEF UndoClaim, DeleteClaim, Working, vars, j
<1>15. CASE phase[w] \in {"ack", "nack", "idle", "claiming", "canceled", "closing",
                         "closing-or-fail", "checking", "outbid"}
  BY <1>15 DEF Working
<1>16. QED
  BY <1>5, <1>6, <1>7, <1>8, <1>9, <1>10, <1>11, <1>12, <1>13, <1>14, <1>15
  DEF HandlerStep, Receive, Acknowledge, DropToDLQ, ClaimDelivery, CloseCanceled,
      CheckCanceled, Outbid

\* A call of a worker that does not hold its job touches no running row.
LEMMA TransitionRows ==
    ASSUME TypeOK, NEW j \in Jobs, NEW w \in Workers, Transition(j, w)
    PROVE  /\ \A k \in Jobs \ {j} : jobs'[k] = jobs[k]
           /\ jobs'[j] = jobs[j] \/ jobs'[j].status \notin {"running", "absent"}
           /\ jobs'[j] = jobs[j] \/ jobs'[j].status # "queued" \/ ScheduleRetry(j, w)
<1> jobs[j] \in Row /\ jobs \in [Jobs -> Row]
  BY DEF TypeOK
<1>1. CASE ScheduleRetry(j, w)
  <2>1. Rescheduled(jobs[j]).status = "queued"
    BY DEF Rescheduled, Requeued, Released, Row
  <2>2. QED
    BY <1>1, <2>1 DEF ScheduleRetry, SetRow
<1>2. CASE ClaimForPublish(j, w) \/ DeleteClaim(j, w)
  BY <1>2 DEF ClaimForPublish, DeleteClaim
<1>3. CASE FinishCanceled(j, w) \/ MarkInvalid(j, w) \/ MarkFailed(j, w)
           \/ MarkDeadWithOutbox(j, w) \/ Publish(j, w)
  <2>1. PICK s \in {"canceled", "invalid", "failed", "dead", "succeeded"} :
               SetRow(j, Released(jobs[j], s))
    BY <1>3 DEF FinishCanceled, MarkInvalid, MarkFailed, MarkDeadWithOutbox, Publish
  <2>2. QED
    BY <2>1, ReleasedFields DEF SetRow
<1>4. QED
  BY <1>1, <1>2, <1>3 DEF Transition

\* A receipt moves the message of a job from the queue to a handler.
LEMMA CalmReceive ==
    ASSUME CalmState, NEW w \in Workers, NEW k \in Jobs, Receive(w, k), NEW j \in Jobs
    PROVE  CalmJob(j)'
<1>1. /\ queue \in [Jobs -> Nat] /\ phase \in [Workers -> Phases]
      /\ held \in [Workers -> Jobs \cup {NoJob}] /\ CalmJob(j)
  BY DEF CalmState, TypeInv, DeliveryTypeOK
<1>2. /\ jobs' = jobs /\ Unsent(j)' = Unsent(j) /\ Publishable(j)' = Publishable(j)
      /\ Confirming(j)' <=> Confirming(j)
  BY DEF Receive, vars, Unsent, Publishable, Marked, Confirming
<1>3. jobs[j].status = "running" => /\ held'[jobs[j].lease_owner] = j
                                    /\ phase'[jobs[j].lease_owner] \in Working
  BY <1>1, CalmOwner DEF Receive, Working
<1>4. CASE j = k
  <2>1. queue[j] = 1 /\ queue'[j] = 0 /\ Claiming(j) = {} /\ Claiming(j)' = {w}
    <3>1. queue[j] = 1 /\ queue'[j] = 0 /\ Claiming(j) = {}
      BY <1>1, <1>4 DEF Receive, CalmJob
    <3>2. \A v \in Workers : v \in Claiming(j)' <=> v = w
      BY <1>1, <1>4, <3>1 DEF Receive, Claiming
    <3>3. QED
      BY <3>1, <3>2 DEF Claiming
  <2>2. QED
    BY <1>1, <1>2, <1>3, <2>1 DEF CalmJob, NoMessage
<1>5. CASE j # k
  <2>1. queue'[j] = queue[j] /\ Claiming(j)' = Claiming(j)
    BY <1>1, <1>5 DEF Receive, Claiming
  <2>2. QED
    BY <1>1, <1>2, <1>3, <2>1 DEF CalmJob, NoMessage
<1>6. QED
  BY <1>4, <1>5

\* A claim takes the message of its job, and makes its handler the owner at work.
LEMMA CalmClaim ==
    ASSUME CalmState, TypeInv', IInv', Calmly, NEW w \in Workers, ClaimDelivery(w),
           NEW j \in Jobs
    PROVE  CalmJob(j)'
<1>1. /\ queue \in [Jobs -> Nat] /\ phase \in [Workers -> Phases] /\ jobs \in [Jobs -> Row]
      /\ held \in [Workers -> Jobs \cup {NoJob}] /\ CalmJob(j)
      /\ held[w] \in Jobs /\ phase[w] = "claiming"
  BY HeldJob DEF CalmState, TypeInv, DeliveryTypeOK, TypeOK, ClaimDelivery
<1>2. PICK p \in {"thrashing", "converting", "ack"} :
        /\ phase' = [phase EXCEPT ![w] = p]
        /\ held' = held /\ queue' = queue /\ sweep' = sweep /\ outbox' = outbox
        /\ \/ jobs' = jobs /\ p = "ack"
           \/ Claim(held[w], w) /\ p # "ack"
  BY NoFault DEF ClaimDelivery, Statement, Goto, Elsewhere, broker, Claim, vars
<1>3. /\ Unsent(j)' = Unsent(j) /\ Publishable(j)' = Publishable(j)
      /\ Confirming(j)' <=> Confirming(j)
  BY <1>2 DEF Unsent, Publishable, Marked, Confirming
<1>4. jobs[j].status = "running" =>
        /\ jobs[j].lease_owner \in Workers
        /\ held'[jobs[j].lease_owner] = j /\ phase'[jobs[j].lease_owner] \in Working
  BY <1>1, <1>2, CalmOwner DEF Working
<1>5. CASE j = held[w]
  <2>1. queue[j] = 0 /\ Claiming(j) = {w} /\ Claiming(j)' = {} /\ ~NoMessage(j)
        /\ NoMessage(j)'
    <3>1. w \in Claiming(j)
      BY <1>1, <1>5 DEF Claiming
    <3>2. queue[j] = 0 /\ Claiming(j) = {w} /\ ~NoMessage(j)
      BY <1>1, <3>1 DEF CalmJob, NoMessage
    <3>3. Claiming(j)' = {}
      BY <1>1, <1>2, <3>2 DEF Claiming
    <3>4. QED
      BY <1>2, <3>2, <3>3 DEF NoMessage
  <2>2. Publishable(j) = {} /\ jobs[j].status \notin {"running", "absent"}
    BY <1>1, <2>1 DEF CalmJob
  <2>3. CASE jobs' = jobs
    BY <1>1, <1>2, <1>3, <2>1, <2>2, <2>3 DEF CalmJob
  <2>4. CASE Claim(held[w], w) /\ p # "ack"
    <3>1. jobs[j] \in Row /\ jobs'[j] = Claimed(jobs[j], w)
      BY <1>1, <1>5, <2>4 DEF Claim, SetRow
    <3>2. jobs'[j].status = "running" /\ jobs'[j].lease = "live" /\ jobs'[j].lease_owner = w
      BY <3>1 DEF Claimed, Row
    <3>3. held'[w] = j /\ phase'[w] \in Working
      BY <1>1, <1>2, <1>5, <2>4 DEF Working
    <3>4. QED
      BY <1>2, <1>3, <2>1, <2>2, <3>2, <3>3 DEF CalmJob
  <2>5. QED
    BY <1>2, <2>3, <2>4
<1>6. CASE j # held[w]
  <2>1. queue'[j] = queue[j] /\ Claiming(j)' = Claiming(j)
    BY <1>1, <1>2, <1>6 DEF Claiming
  <2>2. jobs'[j] = jobs[j]
    BY <1>1, <1>2, <1>6 DEF Claim, SetRow
  <2>3. QED
    BY <1>1, <1>2, <1>3, <1>4, <2>1, <2>2 DEF CalmJob, NoMessage
<1>7. QED
  BY <1>5, <1>6

\* The later calls of a handler leave the messages alone.
LEMMA CalmCall ==
    ASSUME CalmState, TypeInv', IInv', Calmly, NEW w \in Workers,
           HandlerStep(w), Call(w), phase[w] \in Processing, NEW j \in Jobs
    PROVE  CalmJob(j)'
<1>1. /\ phase \in [Workers -> Phases] /\ jobs \in [Jobs -> Row]
      /\ CalmJob(j) /\ held[w] \in Jobs /\ TypeOK /\ TypeInv
  BY HeldJob DEF CalmState, TypeInv, DeliveryTypeOK, TypeOK, Processing
<1>2. /\ held' = held /\ queue' = queue /\ sweep' = sweep
      /\ UNCHANGED vars \/ Transition(held[w], w)
      /\ phase[w] # "claiming"
  BY DEF Call, Elsewhere, broker, Processing
<1>3. PICK p : phase' = [phase EXCEPT ![w] = p] /\ p # "claiming"
  BY DEF Call, Goto
<1>4. Claiming(j)' = Claiming(j)
  BY <1>1, <1>2, <1>3 DEF Claiming
<1>5. Ordinary
  BY <1>1, CallTables, WorkerOrdinary, IdleOrdinary
<1>6. /\ \A k \in Jobs \ {held[w]} : jobs'[k] = jobs[k]
      /\ jobs'[held[w]] = jobs[held[w]] \/ jobs'[held[w]].status \notin {"running", "absent"}
  BY <1>1, <1>2, TransitionRows DEF vars
<1>7. jobs'[j].status = "running" =>
        jobs'[j] = jobs[j] /\ held'[jobs[j].lease_owner] = j
        /\ phase'[jobs[j].lease_owner] \in Working
  <2>1. ASSUME jobs'[j].status = "running"
        PROVE  jobs'[j] = jobs[j] /\ held'[jobs[j].lease_owner] = j
               /\ phase'[jobs[j].lease_owner] \in Working
    <3>1. jobs'[j] = jobs[j] /\ jobs[j].status = "running"
      BY <1>6, <2>1
    <3>2. /\ jobs[j].lease_owner \in Workers
          /\ held[jobs[j].lease_owner] = j /\ phase[jobs[j].lease_owner] \in Working
      BY <3>1, CalmOwner
    <3>3. CASE jobs[j].lease_owner = w
      BY <1>1, <1>2, <2>1, <3>1, <3>2, <3>3, OwnerWorks DEF Holds
    <3>4. CASE jobs[j].lease_owner # w
      BY <1>1, <1>2, <1>3, <3>1, <3>2, <3>4
    <3>5. QED
      BY <3>1, <3>3, <3>4
  <2>2. QED
    BY <2>1
<1>8. jobs'[j].status = "queued" /\ ~Fresh(j) =>
        jobs[j].status = "queued" /\ jobs'[j].enqueued = jobs[j].enqueued
  BY <1>5 DEF Ordinary, Quiet
<1>9. jobs[j].status = "running" => jobs[j].lease = "live"
  BY <1>1 DEF CalmJob
<1>10. QED
  BY <1>2, <1>4, <1>5, <1>6, <1>7, <1>8, <1>9, CalmOrdinary

\* The others' steps, while nothing fails.
LEMMA CalmOthers ==
    ASSUME CalmState, TypeInv', IInv', Calmly, NEW j \in Jobs,
           \/ UserStep
           \/ \E w \in Workers : HandlerStep(w) \/ Crash(w) \/ Renew(w)
           \/ \E k \in Jobs : Replay(k) \/ LeaseRunsOut(k) \/ LeaseSlips(k) \/ DelayPasses(k)
    PROVE  CalmJob(j)' /\ sweep' = sweep
<1> USE DEF broker, handlers
<1>1. /\ TypeInv /\ TypeOK /\ CalmJob(j) /\ jobs \in [Jobs -> Row] /\ ~Fault
      /\ phase \in [Workers -> Phases]
      /\ jobs[j] \in Row
  BY NoFault DEF CalmState, TypeInv, DeliveryTypeOK, TypeOK
<1>2. ASSUME Ordinary, sweep' = sweep, queue' = queue, UNCHANGED handlers,
             jobs'[j].status = "running" =>
               /\ jobs[j].status = "running" /\ jobs'[j].lease = "live"
               /\ jobs'[j].lease_owner = jobs[j].lease_owner,
             jobs'[j].status = "absent" => jobs[j].status = "absent"
      PROVE  CalmJob(j)' /\ sweep' = sweep
  <2>1. Claiming(j)' = Claiming(j)
    BY <1>2 DEF Claiming
  <2>2. jobs'[j].status = "queued" /\ ~Fresh(j) =>
          jobs[j].status = "queued" /\ jobs'[j].enqueued = jobs[j].enqueued
    BY <1>2 DEF Ordinary, Quiet
  <2>3. jobs[j].status = "running" =>
          held[jobs[j].lease_owner] = j /\ phase[jobs[j].lease_owner] \in Working
    BY <1>1 DEF CalmJob
  <2>4. QED
    BY <1>2, <2>1, <2>2, <2>3, CalmOrdinary
<1>3. CASE UserStep
  <2>1. Ordinary
    BY <1>1, <1>3, UserOrdinary
  <2>2. /\ jobs'[j] = jobs[j] \/ jobs'[j].status \notin {"running", "absent"}
    <3>1. ASSUME NEW k \in Jobs, CreateWithDocument(k)
          PROVE  jobs'[j] = jobs[j] \/ jobs'[j].status \notin {"running", "absent"}
      BY <1>1, <3>1, NewRowFields DEF CreateWithDocument, SetRow
    <3>2. ASSUME NEW k \in Jobs, RequestCancelQueued(k)
          PROVE  jobs'[j] = jobs[j] \/ jobs'[j].status \notin {"running", "absent"}
      <4>1. [jobs[j] EXCEPT !.status = "canceled"].status = "canceled"
        BY <1>1 DEF Row
      <4>2. QED
        BY <1>1, <3>2, <4>1 DEF RequestCancelQueued, SetRow
    <3>3. ASSUME NEW k \in Jobs, RequestCancelRunning(k)
          PROVE  jobs'[j] = jobs[j] \/ jobs'[j].status \notin {"running", "absent"}
      <4>1. Canceling(jobs[j]).status = "canceling"
        BY <1>1 DEF Canceling, Row
      <4>2. QED
        BY <1>1, <3>3, <4>1 DEF RequestCancelRunning, SetRow
    <3>4. QED
      BY <1>3, <3>1, <3>2, <3>3, UploadsAssumption DEF UserStep
  <2>3. jobs[j].status = "running" => jobs[j].lease = "live"
    BY <1>1 DEF CalmJob
  <2>4. QED
    BY <1>2, <1>3, <2>1, <2>2, <2>3 DEF UserStep
<1>4. ASSUME NEW w \in Workers, HandlerStep(w) PROVE CalmJob(j)' /\ sweep' = sweep
  <2>1. CASE \E k \in Jobs : Receive(w, k)
    BY <2>1, CalmReceive DEF Receive
  <2>2. CASE Acknowledge(w) \/ DropToDLQ(w)
    <3>1. /\ UNCHANGED vars /\ sweep' = sweep /\ queue' = queue
          /\ phase[w] \in {"ack", "nack"}
          /\ phase' = [phase EXCEPT ![w] = "idle"] /\ held' = [held EXCEPT ![w] = NoJob]
      BY <2>2 DEF Acknowledge, DropToDLQ, Release
    <3>2. Claiming(j)' = Claiming(j)
      BY <1>1, <3>1 DEF Claiming, TypeInv, DeliveryTypeOK
    <3>3. jobs[j].status = "running" =>
            held'[jobs[j].lease_owner] = j /\ phase'[jobs[j].lease_owner] \in Working
      BY <1>1, <3>1, CalmOwner DEF Working, TypeInv, DeliveryTypeOK
    <3>4. jobs'[j] = jobs[j] /\ (jobs[j].status = "running" => jobs[j].lease = "live")
      BY <1>1, <3>1 DEF CalmJob, vars
    <3>5. QED
      BY <3>1, <3>2, <3>3, <3>4, IdleOrdinary, CalmOrdinary
  <2>3. CASE Call(w)
    BY <1>4, <2>3, CalmClaim, CalmCall DEF Call, Elsewhere
  <2>4. QED
    BY <1>1, <1>4, <2>1, <2>2, <2>3, HandlerCalls
<1>5. ASSUME NEW w \in Workers, Renew(w) PROVE CalmJob(j)' /\ sweep' = sweep
  <2>1. held[w] \in Jobs /\ RenewLease(held[w], w)
    BY <1>1, <1>5, HeldJob DEF Renew, Processing
  <2>2. LET r == [jobs[j] EXCEPT !.lease = "live"]
        IN r.status = jobs[j].status /\ r.lease_owner = jobs[j].lease_owner /\ r.lease = "live"
    BY <1>1 DEF Row
  <2>3. jobs'[j] \in {jobs[j], [jobs[j] EXCEPT !.lease = "live"]}
    BY <1>1, <2>1 DEF RenewLease, SetRow
  <2>4. jobs[j].status = "running" => jobs[j].lease = "live"
    BY <1>1 DEF CalmJob
  <2>5. Ordinary
    BY <1>1, <2>1, WorkerOrdinary DEF WorkerStep
  <2>6. QED
    BY <1>2, <1>5, <2>2, <2>3, <2>4, <2>5 DEF Renew
<1>6. ASSUME NEW k \in Jobs, LeaseRunsOut(k) \/ LeaseSlips(k) \/ DelayPasses(k)
      PROVE  CalmJob(j)' /\ sweep' = sweep
  <2>1. /\ (LeaseExpires(k) /\ ~Attended(k)) \/ LeaseOverdue(k) \/ BecomesAvailable(k)
        /\ UNCHANGED broker /\ UNCHANGED handlers /\ sweep' = sweep
    BY <1>1, <1>6 DEF LeaseRunsOut, LeaseSlips, DelayPasses
  <2>2. Ordinary
    BY <1>1, <2>1, ClockOrdinary
  <2>3. jobs[j].status = "running" => jobs[j].lease = "live" /\ Attended(j)
    BY <1>1, CalmOwner DEF CalmJob, Attended, Working, Processing
  <2>4. LET r == [jobs[j] EXCEPT !.available = TRUE]
        IN  /\ r.status = jobs[j].status /\ r.lease_owner = jobs[j].lease_owner
            /\ r.lease = jobs[j].lease
    BY <1>1 DEF Row
  <2>5. \A l \in {"expired", "overdue"} : [jobs[j] EXCEPT !.lease = l].status = jobs[j].status
    BY <1>1 DEF Row
  <2>6. \/ jobs'[j] \in {jobs[j], [jobs[j] EXCEPT !.available = TRUE]}
        \/ j = k /\ jobs'[j] = [jobs[j] EXCEPT !.lease = "expired"] /\ ~Attended(j)
        \/ jobs'[j] = [jobs[j] EXCEPT !.lease = "overdue"] /\ jobs[j].lease = "expired"
    BY <1>1, <2>1 DEF LeaseExpires, LeaseOverdue, BecomesAvailable, SetRow
  <2>7. jobs'[j].status = jobs[j].status
    BY <2>4, <2>5, <2>6
  <2>8. QED
    BY <1>2, <2>1, <2>2, <2>3, <2>4, <2>6, <2>7
<1>7. ASSUME \/ \E w \in Workers : Crash(w)
             \/ \E k \in Jobs : Replay(k)
      PROVE  FALSE
  BY <1>1, <1>7 DEF Crash, Replay
<1>8. QED
  BY <1>3, <1>4, <1>5, <1>6, <1>7

\* The sweeper publishes the one row of a job, when its last message is gone.
LEMMA CalmPublication ==
    ASSUME CalmState, Calmly, SweepPublish PROVE CalmSweep' /\ \A j \in Jobs : CalmJob(j)'
<1>1. /\ TypeInv /\ UNCHANGED vars /\ UNCHANGED handlers /\ sweep.step = "publish" /\ ~Fault
      /\ sweep.todo \in SUBSET Items /\ sweep \in SweepRecord
  BY NoFault DEF CalmState, SweepPublish, TypeInv, SweepOK, SweepRecord
<1>2. PICK item \in sweep.todo :
        /\ Enqueue(item)
        /\ sweep' = [[sweep EXCEPT !.todo = @ \ {item}] EXCEPT !.item = item,
                       !.step = IF sweep.stage = "outbox" THEN "mark" ELSE "enqueue"]
  BY <1>1 DEF SweepPublish
<1>3. sweep.stage = "outbox" /\ item \in outbox /\ ~item.sent /\ item.job \in Jobs
  BY <1>1, <1>2 DEF CalmState, CalmSweep, TypeInv, SweepOK, DeliveryTypeOK, TypeOK, OutboxRow
<1>4. SweepGoes("outbox", "mark", sweep.todo \ {item}, item)
  <2>1. "mark" \in Steps /\ item \in Items /\ sweep.todo \ {item} \in SUBSET Items
    BY <1>1, <1>2 DEF Steps
  <2>2. sweep' = [[sweep EXCEPT !.todo = @ \ {item}] EXCEPT !.item = item, !.step = "mark"]
    BY <1>2, <1>3
  <2>3. QED
    BY <1>1, <1>3, <2>1, <2>2, SweepFields
<1>5. CalmSweep'
  BY <1>4 DEF CalmSweep, SweepGoes
<1>6. ASSUME NEW j \in Jobs PROVE CalmJob(j)'
  <2>1. /\ CalmJob(j) /\ jobs' = jobs /\ Unsent(j)' = Unsent(j) /\ Claiming(j)' = Claiming(j)
        /\ Publishable(j) = Unsent(j) /\ Publishable(j)' = Unsent(j) \ {item}
        /\ ~Confirming(j) /\ held' = held /\ phase' = phase
    BY <1>1, <1>4
    DEF CalmState, vars, handlers, Unsent, Claiming, Publishable, Marked, Confirming, SweepGoes
  <2>2. CASE item \in Unsent(j)
    <3>1. NoMessage(j) /\ Publishable(j)' = {} /\ queue'[j] = 1
      BY <1>1, <1>2, <2>1, <2>2
      DEF CalmJob, Unsent, Enqueue, NoMessage, TypeInv, DeliveryTypeOK
    <3>2. QED
      BY <2>1, <2>2, <3>1 DEF CalmJob, NoMessage
  <2>3. CASE item \notin Unsent(j)
    <3>1. queue'[j] = queue[j]
      <4>1. item.dest = "jobs" => item.job # j
        BY <1>3, <2>3 DEF Unsent
      <4>2. item.dest \in {"jobs", "dlq"} /\ queue \in [Jobs -> Nat]
        BY <1>1, <1>3 DEF TypeInv, DeliveryTypeOK, TypeOK, OutboxRow
      <4>3. QED
        BY <1>2, <1>3, <4>1, <4>2 DEF Enqueue
    <3>2. Publishable(j)' = Publishable(j) /\ (NoMessage(j)' <=> NoMessage(j))
      BY <2>1, <2>3, <3>1 DEF NoMessage
    <3>3. QED
      BY <2>1, <3>1, <3>2 DEF CalmJob
  <2>4. QED
    BY <2>2, <2>3
<1>7. QED
  BY <1>5, <1>6

\* Then its row is marked, and its job enqueued.
LEMMA CalmBookkeeping ==
    ASSUME CalmState, Calmly, SweepMark \/ SweepEnqueue
    PROVE  CalmSweep' /\ \A j \in Jobs : CalmJob(j)'
<1>1. /\ TypeInv /\ UNCHANGED broker /\ UNCHANGED handlers /\ ~Fault
      /\ sweep.todo \in SUBSET Items /\ sweep \in SweepRecord /\ sweep.stage = "outbox"
      /\ sweep.item \in {NoJob} \cup Items
  BY NoFault
  DEF CalmState, CalmSweep, SweepMark, SweepEnqueue, TypeInv, SweepOK, SweepRecord
<1>2. ASSUME NEW j \in Jobs, jobs' = jobs \/ outbox' = outbox
      PROVE  /\ Claiming(j)' = Claiming(j) /\ (NoMessage(j)' <=> NoMessage(j))
             /\ queue' = queue /\ held' = held /\ phase' = phase
  BY <1>1 DEF broker, handlers, Claiming, NoMessage
<1>3. CASE SweepMark
  <2>1. /\ MarkOutboxPublished(sweep.item) /\ sweep.step = "mark"
        /\ sweep.item \in outbox /\ ~sweep.item.sent /\ sweep.item.dest \in {"jobs", "dlq"}
    BY <1>1, <1>3
    DEF SweepMark, TypeInv, SweepOK, DeliveryTypeOK, TypeOK, OutboxRow
  <2>2. /\ jobs' = jobs
        /\ \A o \in outbox \ {sweep.item} : o \in outbox'
        /\ \A o \in outbox' : ~o.sent => o \in outbox \ {sweep.item}
    BY <1>1, <2>1, MarkedRow
  <2>3. \/ SweepGoes("outbox", "publish", sweep.todo, NoJob) /\ sweep.item.dest = "dlq"
        \/ SweepGoes("outbox", "enqueue", sweep.todo, sweep.item)
    <3>1. "publish" \in Steps /\ "enqueue" \in Steps
      BY DEF Steps
    <3>2. QED
      BY <1>1, <1>3, <3>1, SweepFields DEF SweepMark, NextItem
  <2>4. CalmSweep'
    BY <2>3 DEF CalmSweep, SweepGoes
  <2>5. ASSUME NEW j \in Jobs PROVE CalmJob(j)'
    <3>1. /\ CalmJob(j) /\ Claiming(j)' = Claiming(j) /\ (NoMessage(j)' <=> NoMessage(j))
          /\ queue' = queue /\ held' = held /\ phase' = phase
      BY <1>2, <2>2 DEF CalmState
    <3>2. Unsent(j)' = Unsent(j) \ {sweep.item}
      BY <2>2 DEF Unsent
    <3>3. Publishable(j) = Unsent(j) \ {sweep.item}
      BY <2>1 DEF Publishable, Marked
    <3>4. Publishable(j)' = Publishable(j)
      BY <2>3, <3>2, <3>3 DEF Publishable, Marked, SweepGoes
    <3>5. sweep.item \in Unsent(j) => Confirming(j)'
      BY <2>3 DEF Unsent, Confirming, SweepGoes
    <3>6. ~Confirming(j)
      BY <2>1 DEF Confirming
    <3>7. Unsent(j) # {} => Unsent(j)' # {} \/ Confirming(j)'
      BY <3>2, <3>5
    <3>8. QED
      BY <2>2, <3>1, <3>4, <3>6, <3>7 DEF CalmJob
  <2>6. QED
    BY <2>4, <2>5
<1>4. CASE SweepEnqueue
  <2>1. /\ MarkEnqueued(sweep.item.job) /\ outbox' = outbox /\ sweep.step = "enqueue"
        /\ sweep.item.job \in Jobs
    BY <1>1, <1>4
    DEF SweepEnqueue, MarkEnqueued, TypeInv, SweepOK, Items, OutboxRow, Republished
  <2>2. SweepGoes("outbox", "publish", sweep.todo, NoJob)
    <3>1. "publish" \in Steps
      BY DEF Steps
    <3>2. QED
      BY <1>1, <1>4, <3>1, SweepFields DEF SweepEnqueue, NextItem
  <2>3. CalmSweep'
    BY <2>2 DEF CalmSweep, SweepGoes
  <2>4. ASSUME NEW j \in Jobs PROVE CalmJob(j)'
    <3>1. /\ CalmJob(j) /\ Claiming(j)' = Claiming(j) /\ (NoMessage(j)' <=> NoMessage(j))
          /\ queue' = queue /\ held' = held /\ phase' = phase
      BY <1>2, <2>1 DEF CalmState
    <3>2. Unsent(j)' = Unsent(j) /\ Publishable(j)' = Publishable(j)
      BY <2>1, <2>2 DEF Unsent, Publishable, Marked, SweepGoes
    <3>3. jobs \in [Jobs -> Row] /\ jobs[j] \in Row
      BY DEF CalmState, IInv, TypeOK
    <3>4. LET r == [jobs[j] EXCEPT !.enqueued = TRUE]
          IN  /\ r.status = jobs[j].status /\ r.lease = jobs[j].lease
              /\ r.lease_owner = jobs[j].lease_owner /\ r.enqueued
      BY <3>3 DEF Row
    <3>5. CASE j = sweep.item.job
      <4>1. jobs'[j] = [jobs[j] EXCEPT !.enqueued = TRUE]
        BY <2>1, <3>3, <3>5 DEF MarkEnqueued, SetRow
      <4>2. QED
        BY <3>1, <3>2, <3>4, <4>1 DEF CalmJob
    <3>6. CASE j # sweep.item.job
      <4>1. jobs'[j] = jobs[j] /\ ~Confirming(j)
        BY <2>1, <3>3, <3>6 DEF MarkEnqueued, SetRow, Confirming
      <4>2. QED
        BY <3>1, <3>2, <4>1 DEF CalmJob
    <3>7. QED
      BY <3>5, <3>6
  <2>5. QED
    BY <2>3, <2>4
<1>5. QED
  BY <1>3, <1>4

\* While nothing fails, no lease is overdue and no queued job is taken for stale.
LEMMA CalmQueries ==
    ASSUME CalmState, Calmly,
           \/ SweepCanceled \/ SweepOutbox \/ SweepStale \/ SweepReclaim
           \/ SweepNextStage \/ SweeperDies
    PROVE  CalmSweep' /\ \A j \in Jobs : CalmJob(j)'
<1> USE DEF Stages
<1>1. /\ TypeInv /\ TypeOK /\ ~Fault /\ sweep \in SweepRecord /\ sweep.stage \in Stages
      /\ sweep.step \in {"query", "publish"}
      /\ jobs \in [Jobs -> Row] /\ "publish" \in Steps
      /\ UNCHANGED broker /\ UNCHANGED handlers
  BY NoFault
  DEF CalmState, TypeInv, DeliveryTypeOK, TypeOK, SweepOK, Steps, SweepCanceled, SweepOutbox,
      SweepStale, SweepReclaim, SweepNextStage, SweeperDies, QueryFails, At
<1>2. ASSUME outbox' = outbox, sweep'.step \in {"query", "publish"},
             \A j \in Jobs : jobs'[j] = jobs[j] \/ jobs'[j].status = "canceled", NEW j \in Jobs
      PROVE  CalmJob(j)'
  <2>1. /\ CalmJob(j) /\ Unsent(j)' = Unsent(j) /\ Publishable(j)' = Publishable(j)
        /\ ~Confirming(j) /\ Claiming(j)' = Claiming(j) /\ (NoMessage(j)' <=> NoMessage(j))
        /\ queue' = queue /\ held' = held /\ phase' = phase
    BY <1>1, <1>2
    DEF CalmState, Unsent, Publishable, Marked, Confirming, Claiming, NoMessage, broker,
        handlers
  <2>2. QED
    BY <1>2, <2>1 DEF CalmJob
<1>3. CASE SweepCanceled
  <2>1. PICK S \in SUBSET Jobs : CancelExpiredLeases(S)
    BY <1>1, <1>3 DEF SweepCanceled, QueryFails
  <2>2. SweepGoes("outbox", "query", {}, NoJob)
    BY <1>1, <1>3, SweepFromFields DEF SweepCanceled, QueryFails
  <2>3. \A j \in Jobs : jobs'[j] = jobs[j] \/ jobs'[j].status = "canceled"
    BY <1>1, <2>1, ReleasedFields DEF CancelExpiredLeases, SetRows
  <2>4. QED
    BY <1>2, <2>1, <2>2, <2>3 DEF CancelExpiredLeases, SweepGoes, CalmSweep
<1>4. CASE SweepOutbox
  <2>1. PICK S \in Batch(Dispatchable) : Found(S) /\ UNCHANGED vars /\ sweep.stage = "outbox"
    BY <1>1, <1>4 DEF SweepOutbox, QueryFails, At
  <2>2. S \in SUBSET Items
    BY <1>1, QueriedItems
  <2>3. SweepGoes("outbox", "publish", S, sweep.item)
    BY <1>1, <2>1, <2>2, SweepFields DEF Found
  <2>4. QED
    BY <1>2, <2>1, <2>3 DEF SweepGoes, CalmSweep, vars
<1>5. CASE SweepStale
  <2>1. PICK S \in Batch(StaleQueued) : Found(ToRepublish(S)) /\ UNCHANGED vars
    BY <1>1, <1>5 DEF SweepStale, QueryFails
  <2>2. StaleQueued = {}
    <3>1. ASSUME NEW j \in StaleQueued PROVE FALSE
      <4>1. j \in Jobs /\ Unsent(j) = {} /\ ~Confirming(j)
        BY <1>1 DEF StaleQueued, Unsent, Confirming
      <4>2. jobs[j].status = "queued" /\ ~jobs[j].enqueued
        BY DEF StaleQueued
      <4>3. QED
        BY <4>1, <4>2 DEF CalmState, CalmJob
    <3>2. QED
      BY <3>1
  <2>3. S = {} /\ ToRepublish(S) = {} /\ {} \in SUBSET Items
    BY <2>1, <2>2 DEF Batch, ToRepublish
  <2>4. SweepGoes(sweep.stage, "publish", {}, sweep.item)
    BY <1>1, <2>1, <2>3, SweepFields DEF Found
  <2>5. QED
    BY <1>2, <2>1, <2>4 DEF SweepGoes, CalmSweep, vars
<1>6. CASE SweepReclaim
  <2>1. PICK S \in SUBSET Jobs : ReclaimExpiredLeases(S) /\ Found(ToRepublish(S))
    BY <1>1, <1>6 DEF SweepReclaim
  <2>2. Overdue("running") = {}
    BY DEF Overdue, CalmState, CalmJob
  <2>3. S = {} /\ ToRepublish(S) = {} /\ {} \in SUBSET Items
    BY <2>1, <2>2 DEF ReclaimExpiredLeases, Batch, ToRepublish
  <2>4. SweepGoes(sweep.stage, "publish", {}, sweep.item)
    BY <1>1, <2>1, <2>3, SweepFields DEF Found
  <2>5. outbox' = outbox /\ \A j \in Jobs : jobs'[j] = jobs[j]
    BY <2>1, <2>3 DEF ReclaimExpiredLeases, SetRows
  <2>6. QED
    BY <1>2, <2>4, <2>5 DEF SweepGoes, CalmSweep
<1>7. CASE SweepNextStage
  <2>1. SweepGoes(After(sweep.stage), "query", {}, NoJob) /\ UNCHANGED vars
    BY <1>1, <1>7, AfterStage, SweepFromFields DEF SweepNextStage
  <2>2. QED
    BY <1>2, <2>1 DEF SweepGoes, CalmSweep, vars
<1>8. CASE SweeperDies
  BY <1>1, <1>8 DEF SweeperDies
<1>9. QED
  BY <1>3, <1>4, <1>5, <1>6, <1>7, <1>8

\* The invariant of a run without faults.
CalmInv == TypeInv /\ IInv /\ (faults = 0 => CalmSweep /\ \A j \in Jobs : CalmJob(j))

\* Every step keeps it: one that is a fault ends the run without faults,
LEMMA CalmStep ==
    ASSUME CalmInv, [DeliveryNext]_deliveryVars PROVE CalmInv'
<1>1. TypeInv' /\ IInv'
  BY DeliveryTypeStep, StepTables, InvStep DEF CalmInv, deliveryVars
<1>2. SUFFICES ASSUME faults' = 0 PROVE CalmSweep' /\ \A j \in Jobs : CalmJob(j)'
  BY <1>1 DEF CalmInv
<1>3. faults' = faults \/ Fault
  BY DEF DeliveryNext, deliveryVars, UserStep, HandlerStep, Receive, Acknowledge, DropToDLQ,
         ClaimDelivery, FailThrashing, Convert, CloseCanceled, RegisterInvalid, RegisterFailed,
         CheckCanceled, RegisterTransient, RegisterDead, ClaimBundle, Outbid, CopyFails,
         PublishBundle, UndoClaim, Statement, Look, Crash, Renew, SweeperStepOnce, SweeperDies,
         SweepCanceled, SweepOutbox, SweepStale, SweepReclaim, SweepPublish, SweepMark,
         SweepEnqueue, SweepNextStage, QueryFails, Replay, LeaseRunsOut, LeaseSlips,
         DelayPasses
<1>4. Calmly /\ CalmState
  BY <1>2, <1>3 DEF Calmly, Fault, CalmInv, CalmState, TypeInv, DeliveryTypeOK
<1>5. CASE UNCHANGED deliveryVars
  BY <1>4, <1>5
  DEF deliveryVars, vars, broker, handlers, CalmState, CalmSweep, CalmJob, NoMessage, Claiming,
      Publishable, Unsent, Marked, Confirming
<1>6. CASE SweeperStepOnce \/ SweeperDies
  BY <1>4, <1>6, CalmPublication, CalmBookkeeping, CalmQueries DEF SweeperStepOnce
<1>7. CASE DeliveryNext /\ ~(SweeperStepOnce \/ SweeperDies)
  <2>1. \A j \in Jobs : CalmJob(j)'
    BY <1>1, <1>4, <1>7, CalmOthers DEF DeliveryNext
  <2>2. sweep' = sweep
    BY <1>4, <1>7, HandlerCalls
    DEF DeliveryNext, UserStep, Receive, Acknowledge, DropToDLQ, Release, Call, Elsewhere,
        Crash, Renew, Replay, LeaseRunsOut, LeaseSlips, DelayPasses, CalmState
  <2>3. QED
    BY <1>4, <2>1, <2>2 DEF CalmState, CalmSweep
<1>8. QED
  BY <1>5, <1>6, <1>7

\* and it holds at the start.
LEMMA CalmInit == DeliveryInit => CalmInv
<1> SUFFICES ASSUME DeliveryInit PROVE CalmInv
  OBVIOUS
<1>1. TypeInv /\ IInv
  BY DeliveryTypeInit
<1>2. outbox = {} /\ \A j \in Jobs : jobs[j].status = "absent" /\ queue[j] = 0
  BY DEF DeliveryInit, Init, AbsentRow
<1>3. \A j \in Jobs : Claiming(j) = {} /\ Publishable(j) = {}
  BY <1>2 DEF DeliveryInit, Claiming, Publishable, Unsent
<1>4. CalmSweep
  BY DEF DeliveryInit, SweepFrom, CalmSweep
<1>5. ASSUME NEW j \in Jobs PROVE CalmJob(j)
  BY <1>2, <1>3 DEF CalmJob, NoMessage
<1>6. QED
  BY <1>1, <1>4, <1>5 DEF CalmInv

\* A set without two members has at most one.
LEMMA AtMostOne ==
    ASSUME NEW S, \A x, y \in S : x = y
    PROVE  Cardinality(S) \in 0..1 /\ (Cardinality(S) = 1 => S # {})
<1>1. CASE S = {}
  BY <1>1, FS_EmptySet
<1>2. CASE S # {}
  <2>1. PICK x : x \in S
    BY <1>2
  <2>2. S = {x}
    BY <2>1
  <2>3. QED
    BY <2>2, FS_Singleton
<1>3. QED
  BY <1>1, <1>2

\* Without faults, retries, cancellations and a backlog notwithstanding, the
\* queue and the handlers about to claim hold one message of a job at most.
THEOREM OneMessageHolds == DeliverySpec => []OneMessageWhileCalm
<1>1. CalmInv => OneMessageWhileCalm
  <2>1. ASSUME CalmInv, faults = 0, NEW j \in Jobs
        PROVE  queue[j]
                 + Cardinality({w \in Workers : held[w] = j /\ phase[w] = "claiming"}) <= 1
    <3>1. CalmJob(j) /\ queue[j] \in Nat
      BY <2>1 DEF CalmInv, TypeInv, DeliveryTypeOK
    <3>2. /\ Cardinality(Claiming(j)) \in 0..1
          /\ Cardinality(Claiming(j)) = 1 => Claiming(j) # {}
      BY <3>1, AtMostOne DEF CalmJob
    <3>3. queue[j] + Cardinality(Claiming(j)) <= 1
      BY <3>1, <3>2 DEF CalmJob
    <3>4. QED
      BY <3>3 DEF Claiming
  <2>2. QED
    BY <2>1 DEF OneMessageWhileCalm
<1>2. QED
  BY <1>1, CalmInit, CalmStep, PTL DEF DeliverySpec
=============================================================================
