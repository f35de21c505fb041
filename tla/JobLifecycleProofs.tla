------------------------ MODULE JobLifecycleProofs ------------------------
(***************************************************************************)
(* Proofs about JobLifecycle, for any jobs, workers and limits: the form   *)
(* of the rows, an inductive invariant of the three tables, the properties *)
(* it implies, two action properties, and that the tables implement        *)
(* ConversionPromise.  The invariant is kept row by row: a statement       *)
(* either moves rows (Moves), inserts one (NewJobKeeps) or settles one     *)
(* (SettledRow).                                                           *)
(***************************************************************************)
EXTENDS JobLifecycle, TLAPS

\* The arithmetic of the rows, kept apart from their records.
LEMMA FirstAttempt == 1 \in Attempts
  BY AttemptsAssumption DEF Attempts

\* A retry within the budget is an attempt.
LEMMA NextAttempt ==
    ASSUME NEW n \in Attempts, n < MaxAttempts PROVE n + 1 \in Attempts
  BY AttemptsAssumption DEF Attempts

\* claim_count starts and stays within its counter, which saturates.
LEMMA CountedType ==
    /\ 0 \in ClaimCounts
    /\ \A n \in ClaimCounts : Counted(n) \in ClaimCounts
  BY ClaimsAssumption DEF ClaimCounts, Counted

\* The rows that an upload or a retry inserts are well formed.
LEMMA NewRowType ==
    ASSUME NEW r \in Jobs \cup {NoJob}, NEW p \in Jobs \cup {NoJob}
    PROVE  NewRow(r, p) \in Row
<1>1. AbsentRow \in Row
  BY FirstAttempt, CountedType DEF AbsentRow, Row, Leases
<1>2. QED
  BY <1>1 DEF NewRow, Row, Status, Active

\* A row that gives up its lease for another status is well formed.
LEMMA ReleasedType ==
    ASSUME NEW row \in Row, NEW s \in Status PROVE Released(row, s) \in Row
  BY DEF Released, Row, Leases

\* So is one that returns to the queue,
LEMMA RequeuedType ==
    ASSUME NEW row \in Row PROVE Requeued(row) \in Row
  BY ReleasedType DEF Requeued, Row, Status, Active

\* and one that returns to it with its next attempt.
LEMMA RescheduledType ==
    ASSUME NEW row \in Row, row.attempt < MaxAttempts PROVE Rescheduled(row) \in Row
<1>1. Requeued(row) \in Row /\ Requeued(row).attempt + 1 \in Attempts
  BY RequeuedType, NextAttempt DEF Requeued, Released, Row
<1>2. QED
  BY <1>1 DEF Rescheduled, Row

\* A claimed row is well formed.
LEMMA ClaimedType ==
    ASSUME NEW row \in Row, NEW w \in Workers PROVE Claimed(row, w) \in Row
  BY CountedType DEF Claimed, Row, Status, Active, Leases

\* A row with a cancellation requested is well formed.
LEMMA CancelingType ==
    ASSUME NEW row \in Row PROVE Canceling(row) \in Row
  BY DEF Canceling, Row, Status, Active

\* The updates of a single column keep a row well formed.
LEMMA SimpleUpdateType ==
    ASSUME NEW row \in Row
    PROVE  /\ [row EXCEPT !.status = "canceled"] \in Row
           /\ \A l \in Leases : [row EXCEPT !.lease = l] \in Row
           /\ [row EXCEPT !.enqueued = TRUE] \in Row
           /\ [row EXCEPT !.available = TRUE] \in Row
  BY DEF Row, Status, Terminal

\* Replacing one row by a well formed one keeps the table well formed.
LEMMA SetRowType ==
    ASSUME jobs \in [Jobs -> Row], NEW j \in Jobs, NEW row \in Row, SetRow(j, row)
    PROVE  jobs' \in [Jobs -> Row]
  BY DEF SetRow

\* An insertion keeps job_outbox well formed.
LEMMA InsertOutboxType ==
    ASSUME outbox \subseteq OutboxRow, NEW j \in Jobs, NEW d \in {"jobs", "dlq"},
           NEW n \in Attempts, InsertOutbox(j, d, n)
    PROVE  outbox' \subseteq OutboxRow
<1>1. [job |-> j, dest |-> d, attempt |-> n, sent |-> FALSE] \in OutboxRow
  BY DEF OutboxRow
<1>2. QED
  BY <1>1 DEF InsertOutbox

\* No statement breaks the form of a row.
LEMMA TypeStep == TypeOK /\ [Next]_vars => TypeOK'
<1> SUFFICES ASSUME TypeOK, [Next]_vars PROVE TypeOK'
  OBVIOUS
<1> USE DEF TypeOK
<1>1. ASSUME NEW j \in Uploads, CreateWithDocument(j) PROVE TypeOK'
  <2>1. j \in Jobs
    BY UploadsAssumption
  <2>2. QED
    BY <1>1, <2>1, NewRowType, FirstAttempt, SetRowType, InsertOutboxType
    DEF CreateWithDocument
<1>2. ASSUME NEW p \in Jobs, NEW c \in Jobs, CreateRetry(p, c) PROVE TypeOK'
  BY <1>2, NewRowType, FirstAttempt, SetRowType, InsertOutboxType DEF CreateRetry, Row
<1>3. ASSUME NEW j \in Jobs, RequestCancelQueued(j) PROVE TypeOK'
  BY <1>3, SimpleUpdateType, SetRowType DEF RequestCancelQueued
<1>4. ASSUME NEW j \in Jobs, RequestCancelRunning(j) PROVE TypeOK'
  BY <1>4, CancelingType, SetRowType DEF RequestCancelRunning
<1>5. ASSUME NEW j \in Jobs, NEW w \in Workers, WorkerStep(j, w) PROVE TypeOK'
  <2> USE DEF Status, Terminal
  <2>1. CASE Claim(j, w)
    BY <2>1, ClaimedType, SetRowType DEF Claim
  <2>2. CASE RenewLease(j, w)
    BY <2>2, SimpleUpdateType, SetRowType DEF RenewLease, Leases
  <2>3. CASE FinishCanceled(j, w)
    BY <2>3, ReleasedType, SetRowType DEF FinishCanceled
  <2>4. CASE MarkInvalid(j, w)
    BY <2>4, ReleasedType, SetRowType DEF MarkInvalid
  <2>5. CASE MarkFailed(j, w)
    BY <2>5, ReleasedType, SetRowType DEF MarkFailed
  <2>6. CASE ScheduleRetry(j, w)
    BY <2>6, RescheduledType, NextAttempt, SetRowType, InsertOutboxType
    DEF ScheduleRetry, Row
  <2>7. CASE MarkDeadWithOutbox(j, w)
    BY <2>7, ReleasedType, SetRowType, InsertOutboxType DEF MarkDeadWithOutbox, Row
  <2>8. CASE ClaimForPublish(j, w)
    BY <2>8 DEF ClaimForPublish
  <2>9. CASE Publish(j, w)
    BY <2>9, ReleasedType, SetRowType DEF Publish
  <2>10. CASE DeleteClaim(j, w)
    BY <2>10 DEF DeleteClaim
  <2>11. QED
    BY <1>5, <2>1, <2>2, <2>3, <2>4, <2>5, <2>6, <2>7, <2>8, <2>9, <2>10 DEF WorkerStep
<1>6. ASSUME NEW j \in Jobs, MarkEnqueued(j) PROVE TypeOK'
  BY <1>6, SimpleUpdateType, SetRowType DEF MarkEnqueued
<1>7. ASSUME NEW o \in outbox, MarkOutboxPublished(o) PROVE TypeOK'
  BY <1>7 DEF MarkOutboxPublished, OutboxRow
<1>8. ASSUME NEW S \in SUBSET Jobs, ReclaimExpiredLeases(S) PROVE TypeOK'
  BY <1>8, RequeuedType DEF ReclaimExpiredLeases, SetRows
<1>9. ASSUME NEW S \in SUBSET Jobs, CancelExpiredLeases(S) PROVE TypeOK'
  BY <1>9, ReleasedType DEF CancelExpiredLeases, SetRows, Status, Terminal
<1>10. ASSUME NEW j \in Jobs, LeaseExpires(j) \/ LeaseOverdue(j) PROVE TypeOK'
  BY <1>10, SimpleUpdateType, SetRowType DEF LeaseExpires, LeaseOverdue, Leases
<1>11. ASSUME NEW j \in Jobs, BecomesAvailable(j) PROVE TypeOK'
  BY <1>11, SimpleUpdateType, SetRowType DEF BecomesAvailable
<1>12. CASE UNCHANGED vars
  BY <1>12 DEF vars
<1>13. QED
  BY <1>1, <1>2, <1>3, <1>4, <1>5, <1>6, <1>7, <1>8, <1>9, <1>10, <1>11, <1>12
  DEF Next, ApiStep, SweeperStep, ClockStep

\* Every row of the three tables is always well formed.
THEOREM TypeCorrect == Spec => []TypeOK
<1>1. Init => TypeOK
  BY FirstAttempt, CountedType DEF Init, TypeOK, AbsentRow, Row, Leases
<1>2. QED
  BY <1>1, TypeStep, PTL DEF Spec

---------------------------------------------------------------------------
(* The inductive invariant *)

\* The columns of one row agree: a lease exactly while a worker holds the job,
\* a cancellation flag only on a job that is, or ended, canceled.
RowInv(r) ==
    /\ r.lease_owner # NoWorker <=> r.status \in {"running", "canceling"}
    /\ r.lease = "none" <=> r.lease_owner = NoWorker
    /\ r.cancel_requested => r.status \in {"canceling", "canceled"}
    /\ r.status = "canceling" => r.cancel_requested

\* The jobs of a document form one chain: every parent gave no bundle, and a
\* document has a single job without a child.
Lineage ==
    /\ \A j \in Jobs : ~Exists(j) => jobs[j].root = NoJob /\ jobs[j].parent = NoJob
    /\ \A j \in Jobs : Exists(j) => /\ jobs[j].root \in Jobs
                                    /\ Exists(jobs[j].root)
    /\ \A j \in Jobs : jobs[j].parent # NoJob => jobs[jobs[j].parent].status \in Retryable
    /\ \A j, k \in Jobs :
         /\ Exists(j) /\ Exists(k) /\ jobs[j].root = jobs[k].root
         /\ ~HasChild(j) /\ ~HasChild(k)
         => j = k

\* No outbox row is ahead of its job, and only dead jobs go to the dead letters.
Behind(o) ==
    /\ Exists(o.job)
    /\ o.dest = "jobs" => o.attempt <= jobs[o.job].attempt
    /\ o.dest = "dlq" => jobs[o.job].status = "dead"

OutboxBehind == \A o \in outbox : Behind(o)

DeadArchived ==
    \A j \in Jobs : jobs[j].status = "dead" => \E o \in outbox : o.job = j /\ o.dest = "dlq"

IInv ==
    /\ TypeOK
    /\ \A j \in Jobs : RowInv(jobs[j])
    /\ Lineage
    /\ OutboxBehind
    /\ DeadArchived
    /\ PublishedIffSucceeded

---------------------------------------------------------------------------
(* Rows that move without settling anything as dead or succeeded *)

\* What no transition may do to a row.
Kept(r, s) ==
    /\ s.root = r.root /\ s.parent = r.parent
    /\ s.status = "absent" <=> r.status = "absent"
    /\ r.status \in Terminal => s.status = r.status
    /\ r.attempt <= s.attempt

Moves(r, s) ==
    /\ RowInv(s)
    /\ Kept(r, s)
    /\ s.status \in {"dead", "succeeded"} => s.status = r.status

\* A row may stay as it is.
LEMMA SelfMoves == ASSUME NEW r \in Row, RowInv(r) PROVE Moves(r, r)
  BY DEF Moves, Kept, Row, Attempts

\* A running job may be released: invalid, failed or queued.
LEMMA ReleasedMoves ==
    ASSUME NEW r \in Row, RowInv(r), NEW s \in {"queued", "invalid", "failed"},
           r.status = "running"
    PROVE  Moves(r, Released(r, s))
  BY DEF Moves, Kept, RowInv, Released, Row, Attempts, Terminal

\* A cancellation may be closed.
LEMMA CanceledMoves ==
    ASSUME NEW r \in Row, RowInv(r), r.status = "canceling"
    PROVE  Moves(r, Released(r, "canceled"))
  BY DEF Moves, Kept, RowInv, Released, Row, Attempts, Terminal

\* A running job may be reclaimed,
LEMMA RequeuedMoves ==
    ASSUME NEW r \in Row, RowInv(r), r.status = "running"
    PROVE  Moves(r, Requeued(r))
  BY DEF Moves, Kept, RowInv, Released, Requeued, Row, Attempts, Terminal

\* or retried, which spends one attempt.
LEMMA RescheduledMoves ==
    ASSUME NEW r \in Row, RowInv(r), r.status = "running"
    PROVE  Moves(r, Rescheduled(r)) /\ Rescheduled(r).attempt = r.attempt + 1
<1>1. Requeued(r) \in Row /\ Moves(r, Requeued(r)) /\ Requeued(r).attempt = r.attempt
  BY RequeuedMoves, RequeuedType DEF Requeued, Released, Row
<1>2. QED
  BY <1>1 DEF Moves, Kept, RowInv, Rescheduled, Row, Attempts

\* A queued or running job may be claimed.
LEMMA ClaimedMoves ==
    ASSUME NEW r \in Row, RowInv(r), NEW w \in Workers, r.status \in {"queued", "running"}
    PROVE  Moves(r, Claimed(r, w))
  BY NullAssumption DEF Moves, Kept, RowInv, Claimed, Row, Attempts, Terminal

\* A running job may be asked to cancel.
LEMMA CancelingMoves ==
    ASSUME NEW r \in Row, RowInv(r), r.status = "running"
    PROVE  Moves(r, Canceling(r))
  BY DEF Moves, Kept, RowInv, Canceling, Row, Attempts, Terminal

\* A queued job may be canceled, and the bookkeeping columns may change.
LEMMA SimpleMoves ==
    ASSUME NEW r \in Row, RowInv(r)
    PROVE  /\ r.status = "queued" => Moves(r, [r EXCEPT !.status = "canceled"])
           /\ r.status \in {"running", "canceling"} =>
                \A l \in {"live", "expired", "overdue"} : Moves(r, [r EXCEPT !.lease = l])
           /\ Moves(r, [r EXCEPT !.enqueued = TRUE])
           /\ Moves(r, [r EXCEPT !.available = TRUE])
  BY DEF Moves, Kept, RowInv, Row, Attempts, Terminal

\* Setting one row to where it may move moves every row.
LEMMA SetRowMoves ==
    ASSUME IInv, NEW j \in Jobs, NEW s, SetRow(j, s), Moves(jobs[j], s)
    PROVE  \A k \in Jobs : Moves(jobs[k], jobs'[k])
  BY SelfMoves DEF IInv, TypeOK, SetRow

\* Rows that are Kept keep the chain of retries and stay ahead of the outbox.
LEMMA LineageKept ==
    ASSUME IInv, TypeOK', \A k \in Jobs : Kept(jobs[k], jobs'[k])
    PROVE  Lineage'
<1> USE DEF IInv
<1>1. \A k \in Jobs : /\ jobs'[k].root = jobs[k].root
                      /\ jobs'[k].parent = jobs[k].parent
                      /\ Exists(k)' <=> Exists(k)
                      /\ jobs[k].status \in Retryable => jobs'[k].status \in Retryable
  BY DEF Kept, Exists, Retryable, Terminal
<1>2. \A k \in Jobs : HasChild(k)' <=> HasChild(k)
  BY <1>1 DEF HasChild
<1>3. \A k \in Jobs : jobs[k].parent \in Jobs \cup {NoJob}
  BY DEF TypeOK, Row
<1>4. /\ \A j \in Jobs : ~Exists(j) => jobs[j].root = NoJob /\ jobs[j].parent = NoJob
      /\ \A j \in Jobs : Exists(j) => jobs[j].root \in Jobs /\ Exists(jobs[j].root)
      /\ \A j \in Jobs : jobs[j].parent # NoJob =>
                           jobs[jobs[j].parent].status \in Retryable
      /\ \A j, k \in Jobs :
           /\ Exists(j) /\ Exists(k) /\ jobs[j].root = jobs[k].root
           /\ ~HasChild(j) /\ ~HasChild(k)
           => j = k
  BY DEF Lineage
<1>5. (\A j \in Jobs : ~Exists(j) => jobs[j].root = NoJob /\ jobs[j].parent = NoJob)'
  BY <1>1, <1>4
<1>6. (\A j \in Jobs : Exists(j) => jobs[j].root \in Jobs /\ Exists(jobs[j].root))'
  <2>1. ASSUME NEW j \in Jobs, Exists(j)'
        PROVE  jobs'[j].root \in Jobs /\ Exists(jobs[j].root)'
    BY <1>1, <1>4, <2>1
  <2>2. QED
    BY <1>1, <2>1
<1>7. (\A j \in Jobs : jobs[j].parent # NoJob =>
                       jobs[jobs[j].parent].status \in Retryable)'
  BY <1>1, <1>3, <1>4
<1>8. (\A j, k \in Jobs :
           /\ Exists(j) /\ Exists(k) /\ jobs[j].root = jobs[k].root
           /\ ~HasChild(j) /\ ~HasChild(k)
           => j = k)'
  BY <1>1, <1>2, <1>4
<1>9. QED
  BY <1>5, <1>6, <1>7, <1>8 DEF Lineage

\* Rows that are Kept stay ahead of the outbox row o.
LEMMA BehindKept ==
    ASSUME IInv, TypeOK', \A k \in Jobs : Kept(jobs[k], jobs'[k]), NEW o \in outbox
    PROVE  Behind(o)'
<1>1. /\ o.job \in Jobs
      /\ o.attempt \in Nat /\ jobs[o.job].attempt \in Nat /\ jobs'[o.job].attempt \in Nat
  BY DEF IInv, TypeOK, OutboxRow, Row, Attempts
<1>2. Behind(o) /\ Kept(jobs[o.job], jobs'[o.job])
  BY <1>1 DEF IInv, OutboxBehind
<1>3. QED
  BY <1>1, <1>2 DEF Behind, Kept, Exists, Terminal

\* An outbox row that is not ahead of its job may be inserted.
LEMMA InsertBehind ==
    ASSUME NEW j \in Jobs, NEW d \in {"jobs", "dlq"}, NEW n \in Attempts,
           InsertOutbox(j, d, n), \A o \in outbox : Behind(o)',
           Exists(j)',
           d = "jobs" => n <= jobs'[j].attempt,
           d = "dlq" => jobs'[j].status = "dead"
    PROVE  OutboxBehind'
<1> DEFINE new == [job |-> j, dest |-> d, attempt |-> n, sent |-> FALSE]
<1>1. new.job = j /\ new.dest = d /\ new.attempt = n
  OBVIOUS
<1>2. outbox' = outbox \cup {new}
  BY DEF InsertOutbox
<1> HIDE DEF new
<1>3. Behind(new)'
  BY <1>1 DEF Behind, Exists
<1>4. ASSUME NEW o \in outbox' PROVE Behind(o)'
  <2>1. CASE o \in outbox
    BY <2>1
  <2>2. CASE o = new
    BY <1>3, <2>2 DEF Behind, Exists
  <2>3. QED
    BY <1>2, <1>4, <2>1, <2>2
<1>5. QED
  BY <1>4 DEF OutboxBehind

\* A step that only moves rows keeps the invariant.
LEMMA MovesKeep ==
    ASSUME IInv, TypeOK', \A k \in Jobs : Moves(jobs[k], jobs'[k]),
           UNCHANGED <<outbox, bundles>>
    PROVE  IInv'
<1> USE DEF IInv, Moves
<1>1. OutboxBehind'
  BY BehindKept DEF OutboxBehind
<1>2. DeadArchived'
  BY DEF DeadArchived
<1>3. PublishedIffSucceeded'
  BY DEF PublishedIffSucceeded, Kept, Terminal
<1>4. QED
  BY <1>1, <1>2, <1>3, LineageKept

\* What a new row holds.
LEMMA NewRowFields ==
    ASSUME NEW r \in Jobs, NEW p \in Jobs \cup {NoJob}
    PROVE  LET n == NewRow(r, p)
           IN  /\ n.status = "queued" /\ n.root = r /\ n.parent = p /\ n.attempt = 1
               /\ RowInv(n)
  BY DEF NewRow, AbsentRow, RowInv

\* A new job c heads a document of its own or becomes the only leaf of p's.
LEMMA NewJobKeeps ==
    ASSUME IInv, TypeOK',
           NEW c \in Jobs, NEW r \in Jobs, NEW p \in Jobs \cup {NoJob},
           ~Exists(c), SetRow(c, NewRow(r, p)), InsertOutbox(c, "jobs", 1),
           UNCHANGED bundles,
           \/ p = NoJob /\ r = c
           \/ /\ p \in Jobs /\ jobs[p].status \in Retryable
              /\ ~HasChild(p) /\ r = jobs[p].root
    PROVE  IInv'
<1>1. /\ \A j \in Jobs : ~Exists(j) => jobs[j].root = NoJob /\ jobs[j].parent = NoJob
      /\ \A j \in Jobs : Exists(j) => jobs[j].root \in Jobs /\ Exists(jobs[j].root)
      /\ \A j \in Jobs : jobs[j].parent # NoJob => jobs[jobs[j].parent].status \in Retryable
      /\ \A j, k \in Jobs :
           /\ Exists(j) /\ Exists(k) /\ jobs[j].root = jobs[k].root
           /\ ~HasChild(j) /\ ~HasChild(k)
           => j = k
  BY DEF IInv, Lineage
<1>2. /\ \A k \in Jobs \ {c} : jobs'[k] = jobs[k]
      /\ jobs'[c].status = "queued" /\ jobs'[c].root = r /\ jobs'[c].parent = p
      /\ jobs'[c].attempt = 1 /\ RowInv(jobs'[c])
  <2>1. jobs'[c] = NewRow(r, p) /\ \A k \in Jobs \ {c} : jobs'[k] = jobs[k]
    BY DEF SetRow, IInv, TypeOK
  <2>2. QED
    BY <2>1, NewRowFields
<1>3. \A k \in Jobs : jobs[k].parent # c /\ (k # c => jobs[k].root # c)
  BY <1>1, NullAssumption DEF Exists, Retryable
<1>4. \A k \in Jobs : Exists(k)' <=> Exists(k) \/ k = c
  BY <1>2 DEF Exists
<1>5. \A k \in Jobs : HasChild(k)' <=> HasChild(k) \/ k = p
  BY <1>1, <1>2, NullAssumption DEF HasChild
<1>6. \A j \in Jobs : RowInv(jobs'[j])
  BY <1>2 DEF IInv
<1>7. Lineage'
  <2>1. (\A j \in Jobs : ~Exists(j) => jobs[j].root = NoJob /\ jobs[j].parent = NoJob)'
    BY <1>1, <1>2, <1>4
  <2>2. (\A j \in Jobs : Exists(j) => jobs[j].root \in Jobs /\ Exists(jobs[j].root))'
    <3>1. Exists(r) \/ r = c
      BY <1>1 DEF Exists, Retryable
    <3>2. ASSUME NEW j \in Jobs, Exists(j)'
          PROVE  jobs'[j].root \in Jobs /\ Exists(jobs[j].root)'
      BY <1>1, <1>2, <1>4, <3>1, <3>2
    <3>3. QED
      BY <3>2
  <2>3. (\A j \in Jobs : jobs[j].parent # NoJob =>
                         jobs[jobs[j].parent].status \in Retryable)'
    <3>1. ASSUME NEW j \in Jobs, jobs'[j].parent # NoJob
          PROVE  jobs'[jobs'[j].parent].status \in Retryable
      <4>1. CASE j = c
        BY <1>2, <3>1, <4>1 DEF Exists, Retryable
      <4>2. CASE j # c
        <5>1. jobs[j].parent \in Jobs \ {c}
          BY <1>2, <1>3, <3>1, <4>2 DEF IInv, TypeOK, Row
        <5>2. QED
          BY <1>1, <1>2, <3>1, <4>2, <5>1
      <4>3. QED
        BY <4>1, <4>2
    <3>2. QED
      BY <3>1
  <2>4. ASSUME NEW j \in Jobs, NEW k \in Jobs, Exists(j)', Exists(k)',
               jobs'[j].root = jobs'[k].root, ~HasChild(j)', ~HasChild(k)'
        PROVE  j = k
    <3>1. \A i \in Jobs \ {c} : Exists(i) /\ ~HasChild(i) /\ i # p => jobs[i].root # r
      BY <1>1, <1>3 DEF Exists, Retryable
    <3>2. QED
      BY <1>1, <1>2, <1>4, <1>5, <2>4, <3>1
  <2>5. QED
    BY <2>1, <2>2, <2>3, <2>4 DEF Lineage
<1>8. OutboxBehind'
  <2>1. ASSUME NEW o \in outbox PROVE Behind(o)'
    <3>1. o.job \in Jobs \ {c} /\ Behind(o)
      BY DEF IInv, TypeOK, OutboxRow, OutboxBehind, Behind
    <3>2. QED
      BY <1>2, <1>4, <3>1 DEF Behind
  <2>2. Behind([job |-> c, dest |-> "jobs", attempt |-> 1, sent |-> FALSE])'
    BY <1>2, <1>4 DEF Behind
  <2>3. QED
    BY <2>1, <2>2 DEF OutboxBehind, InsertOutbox
<1>9. DeadArchived'
  BY <1>2 DEF IInv, DeadArchived, InsertOutbox
<1>10. PublishedIffSucceeded'
  BY <1>2 DEF IInv, PublishedIffSucceeded, Exists
<1>11. QED
  BY <1>6, <1>7, <1>8, <1>9, <1>10 DEF IInv

\* A retry keeps the invariant: its outbox row is that of the new attempt.
LEMMA ScheduleRetryKeeps ==
    ASSUME IInv, TypeOK', NEW j \in Jobs, NEW w \in Workers, ScheduleRetry(j, w)
    PROVE  IInv'
<1> USE DEF IInv
<1>1. /\ Moves(jobs[j], Rescheduled(jobs[j]))
      /\ Rescheduled(jobs[j]).attempt = jobs[j].attempt + 1
  BY RescheduledMoves DEF ScheduleRetry, Holds, TypeOK
<1>2. \A k \in Jobs : Moves(jobs[k], jobs'[k])
  BY <1>1, SetRowMoves DEF ScheduleRetry
<1>3. OutboxBehind'
  <2>1. jobs'[j].attempt = jobs[j].attempt + 1
    BY <1>1 DEF ScheduleRetry, SetRow, TypeOK
  <2>2. jobs[j].attempt + 1 \in Attempts /\ jobs[j].attempt + 1 <= jobs'[j].attempt
    BY <2>1, NextAttempt DEF ScheduleRetry, TypeOK, Row, Attempts
  <2>3. Exists(j)'
    BY <1>2 DEF Moves, Kept, ScheduleRetry, Holds, Exists
  <2>4. \A o \in outbox : Behind(o)'
    BY <1>2, BehindKept DEF Moves
  <2>5. QED
    BY <2>2, <2>3, <2>4, InsertBehind DEF ScheduleRetry
<1>4. DeadArchived'
  BY <1>2 DEF Moves, DeadArchived, ScheduleRetry, InsertOutbox
<1>5. PublishedIffSucceeded'
  BY <1>2 DEF Moves, Kept, Terminal, PublishedIffSucceeded, ScheduleRetry
<1>6. QED
  BY <1>2, <1>3, <1>4, <1>5, LineageKept DEF Moves

\* A running job that settles, with or without a bundle.
LEMMA SettledRow ==
    ASSUME IInv, NEW j \in Jobs, NEW s \in {"dead", "succeeded"},
           jobs[j].status = "running", SetRow(j, Released(jobs[j], s))
    PROVE  /\ jobs'[j].status = s
           /\ \A k \in Jobs : k # j => jobs'[k] = jobs[k]
           /\ \A k \in Jobs : RowInv(jobs'[k]) /\ Kept(jobs[k], jobs'[k])
<1> USE DEF IInv
<1>1. LET n == Released(jobs[j], s)
      IN  n.status = s /\ RowInv(n) /\ Kept(jobs[j], n)
  <2>1. jobs[j] \in Row /\ RowInv(jobs[j])
    BY DEF TypeOK
  <2>2. QED
    BY <2>1 DEF Released, RowInv, Kept, Row, Attempts, Terminal
<1>2. jobs'[j] = Released(jobs[j], s) /\ \A k \in Jobs : k # j => jobs'[k] = jobs[k]
  BY DEF SetRow, TypeOK
<1>3. \A k \in Jobs : RowInv(jobs[k]) /\ Kept(jobs[k], jobs[k])
  BY SelfMoves DEF Moves, TypeOK
<1>4. QED
  BY <1>1, <1>2, <1>3

\* So does a death: it is archived in the same transaction.
LEMMA MarkDeadKeeps ==
    ASSUME IInv, TypeOK', NEW j \in Jobs, NEW w \in Workers, MarkDeadWithOutbox(j, w)
    PROVE  IInv'
<1>1. /\ jobs'[j].status = "dead" /\ \A k \in Jobs : k # j => jobs'[k] = jobs[k]
      /\ \A k \in Jobs : RowInv(jobs'[k]) /\ Kept(jobs[k], jobs'[k])
  BY SettledRow DEF MarkDeadWithOutbox, Holds
<1>2. OutboxBehind'
  <2>1. \A o \in outbox : Behind(o)'
    BY <1>1, BehindKept
  <2>2. Exists(j)'
    BY <1>1 DEF Exists
  <2>3. jobs[j].attempt \in Attempts
    BY DEF IInv, TypeOK, Row
  <2>4. QED
    BY <1>1, <2>1, <2>2, <2>3, InsertBehind DEF MarkDeadWithOutbox
<1>3. DeadArchived'
  <2>1. \E o \in outbox' : o.job = j /\ o.dest = "dlq"
    <3>1. LET o == [job |-> j, dest |-> "dlq", attempt |-> jobs[j].attempt, sent |-> FALSE]
          IN  o \in outbox' /\ o.job = j /\ o.dest = "dlq"
      BY DEF MarkDeadWithOutbox, InsertOutbox
    <3>2. QED
      BY <3>1
  <2>2. ASSUME NEW k \in Jobs, k # j, jobs'[k].status = "dead"
        PROVE  \E o \in outbox' : o.job = k /\ o.dest = "dlq"
    BY <1>1, <2>2 DEF IInv, DeadArchived, MarkDeadWithOutbox, InsertOutbox
  <2>3. QED
    BY <2>1, <2>2 DEF DeadArchived
<1>4. PublishedIffSucceeded'
  BY <1>1 DEF IInv, PublishedIffSucceeded, MarkDeadWithOutbox, Holds
<1>5. QED
  BY <1>1, <1>2, <1>3, <1>4, LineageKept DEF IInv

\* So does a publication: the job succeeds in the same transaction.
LEMMA PublishKeeps ==
    ASSUME IInv, TypeOK', NEW j \in Jobs, NEW w \in Workers, Publish(j, w)
    PROVE  IInv'
<1>1. /\ jobs'[j].status = "succeeded" /\ \A k \in Jobs : k # j => jobs'[k] = jobs[k]
      /\ \A k \in Jobs : RowInv(jobs'[k]) /\ Kept(jobs[k], jobs'[k])
  BY SettledRow DEF Publish, Holds
<1>2. OutboxBehind'
  BY <1>1, BehindKept DEF OutboxBehind, Publish
<1>3. DeadArchived'
  BY <1>1 DEF IInv, DeadArchived, Publish
<1>4. PublishedIffSucceeded'
  BY <1>1 DEF IInv, TypeOK, PublishedIffSucceeded, Publish
<1>5. QED
  BY <1>1, <1>2, <1>3, <1>4, LineageKept DEF IInv

\* A step that leaves the table jobs alone has only its own table to answer for.
LEMMA SameJobsKeep ==
    ASSUME IInv, TypeOK', jobs' = jobs, OutboxBehind', DeadArchived',
           PublishedIffSucceeded'
    PROVE  IInv'
<1>1. Lineage'
  BY LineageKept, SelfMoves DEF IInv, Moves, TypeOK
<1>2. QED
  BY <1>1 DEF IInv

\* The claim of a bundle and its undoing never touch a published one.
LEMMA BundleKeeps ==
    ASSUME IInv, TypeOK', NEW j \in Jobs, NEW w \in Workers,
           ClaimForPublish(j, w) \/ DeleteClaim(j, w)
    PROVE  IInv'
<1>1. jobs' = jobs /\ outbox' = outbox
  BY DEF ClaimForPublish, DeleteClaim
<1>2. OutboxBehind' /\ DeadArchived'
  BY <1>1 DEF IInv, OutboxBehind, Behind, Exists, DeadArchived
<1>3. PublishedIffSucceeded'
  BY <1>1 DEF IInv, TypeOK, PublishedIffSucceeded, ClaimForPublish, DeleteClaim, Holds
<1>4. QED
  BY <1>1, <1>2, <1>3, SameJobsKeep

\* Marking an outbox row as sent leaves its key alone.
LEMMA MarkOutboxKeeps ==
    ASSUME IInv, TypeOK', NEW o \in outbox, MarkOutboxPublished(o)
    PROVE  IInv'
<1>1. /\ jobs' = jobs /\ bundles' = bundles
      /\ outbox' = (outbox \ {o}) \cup {[o EXCEPT !.sent = TRUE]}
  BY DEF MarkOutboxPublished
<1>2. LET n == [o EXCEPT !.sent = TRUE]
      IN  n.job = o.job /\ n.dest = o.dest /\ n.attempt = o.attempt
  BY DEF IInv, TypeOK, OutboxRow
<1>3. OutboxBehind'
  BY <1>1, <1>2 DEF IInv, OutboxBehind, Behind, Exists
<1>4. DeadArchived'
  <2>1. ASSUME NEW k \in Jobs, jobs'[k].status = "dead"
        PROVE  \E n \in outbox' : n.job = k /\ n.dest = "dlq"
    <3>1. PICK d \in outbox : d.job = k /\ d.dest = "dlq"
      BY <1>1, <2>1 DEF IInv, DeadArchived
    <3>2. CASE d = o
      BY <1>1, <1>2, <3>1, <3>2
    <3>3. CASE d # o
      BY <1>1, <3>1, <3>3
    <3>4. QED
      BY <3>2, <3>3
  <2>2. QED
    BY <2>1 DEF DeadArchived
<1>5. PublishedIffSucceeded'
  BY <1>1 DEF IInv, PublishedIffSucceeded
<1>6. QED
  BY <1>1, <1>3, <1>4, <1>5, SameJobsKeep

\* IInv is inductive.
LEMMA InvStep == IInv /\ [Next]_vars => IInv'
<1> SUFFICES ASSUME IInv, [Next]_vars PROVE IInv'
  OBVIOUS
<1>0. TypeOK /\ TypeOK' /\ \A j \in Jobs : jobs[j] \in Row /\ RowInv(jobs[j])
  BY TypeStep DEF IInv, TypeOK
<1> USE <1>0
<1>1. ASSUME NEW j \in Uploads, CreateWithDocument(j) PROVE IInv'
  <2>1. j \in Jobs
    BY UploadsAssumption
  <2>2. QED
    BY <1>1, <2>1, NewJobKeeps DEF CreateWithDocument
<1>2. ASSUME NEW p \in Jobs, NEW c \in Jobs, CreateRetry(p, c) PROVE IInv'
  <2>1. jobs[p].root \in Jobs
    BY <1>2 DEF IInv, Lineage, CreateRetry, Exists, Retryable
  <2>2. QED
    BY <1>2, <2>1, NewJobKeeps DEF CreateRetry
<1>3. ASSUME NEW j \in Jobs, RequestCancelQueued(j) PROVE IInv'
  BY <1>3, SimpleMoves, SetRowMoves, MovesKeep DEF RequestCancelQueued
<1>4. ASSUME NEW j \in Jobs, RequestCancelRunning(j) PROVE IInv'
  BY <1>4, CancelingMoves, SetRowMoves, MovesKeep DEF RequestCancelRunning
<1>5. ASSUME NEW j \in Jobs, NEW w \in Workers, WorkerStep(j, w) PROVE IInv'
  <2>1. CASE Claim(j, w)
    BY <2>1, ClaimedMoves, SetRowMoves, MovesKeep DEF Claim, Claimable
  <2>2. CASE RenewLease(j, w)
    BY <2>2, SimpleMoves, SetRowMoves, MovesKeep DEF RenewLease
  <2>3. CASE FinishCanceled(j, w)
    BY <2>3, CanceledMoves, SetRowMoves, MovesKeep DEF FinishCanceled
  <2>4. CASE MarkInvalid(j, w)
    BY <2>4, ReleasedMoves, SetRowMoves, MovesKeep DEF MarkInvalid, Holds
  <2>5. CASE MarkFailed(j, w)
    BY <2>5, ReleasedMoves, SetRowMoves, MovesKeep DEF MarkFailed, Holds
  <2>6. CASE ScheduleRetry(j, w)
    BY <2>6, ScheduleRetryKeeps
  <2>7. CASE MarkDeadWithOutbox(j, w)
    BY <2>7, MarkDeadKeeps
  <2>8. CASE ClaimForPublish(j, w)
    BY <2>8, BundleKeeps
  <2>9. CASE Publish(j, w)
    BY <2>9, PublishKeeps
  <2>10. CASE DeleteClaim(j, w)
    BY <2>10, BundleKeeps
  <2>11. QED
    BY <1>5, <2>1, <2>2, <2>3, <2>4, <2>5, <2>6, <2>7, <2>8, <2>9, <2>10 DEF WorkerStep
<1>6. ASSUME NEW j \in Jobs, MarkEnqueued(j) PROVE IInv'
  BY <1>6, SimpleMoves, SetRowMoves, MovesKeep DEF MarkEnqueued
<1>7. ASSUME NEW o \in outbox, MarkOutboxPublished(o) PROVE IInv'
  BY <1>7, MarkOutboxKeeps
<1>8. ASSUME NEW S \in SUBSET Jobs, ReclaimExpiredLeases(S) PROVE IInv'
  <2>1. \A k \in S : jobs[k].status = "running"
    BY <1>8 DEF ReclaimExpiredLeases, Batch, Overdue
  <2>2. \A k \in Jobs : Moves(jobs[k], jobs'[k])
    BY <1>8, <2>1, SelfMoves, RequeuedMoves DEF ReclaimExpiredLeases, SetRows
  <2>3. QED
    BY <1>8, <2>2, MovesKeep DEF ReclaimExpiredLeases
<1>9. ASSUME NEW S \in SUBSET Jobs, CancelExpiredLeases(S) PROVE IInv'
  <2>1. \A k \in S : jobs[k].status = "canceling"
    BY <1>9 DEF CancelExpiredLeases, Batch, Overdue
  <2>2. \A k \in Jobs : Moves(jobs[k], jobs'[k])
    BY <1>9, <2>1, SelfMoves, CanceledMoves DEF CancelExpiredLeases, SetRows
  <2>3. QED
    BY <1>9, <2>2, MovesKeep DEF CancelExpiredLeases
<1>10. ASSUME NEW j \in Jobs, LeaseExpires(j) \/ LeaseOverdue(j) PROVE IInv'
  <2>1. jobs[j].status \in {"running", "canceling"}
    BY <1>10 DEF LeaseExpires, LeaseOverdue, RowInv
  <2>2. QED
    BY <1>10, <2>1, SimpleMoves, SetRowMoves, MovesKeep DEF LeaseExpires, LeaseOverdue
<1>11. ASSUME NEW j \in Jobs, BecomesAvailable(j) PROVE IInv'
  BY <1>11, SimpleMoves, SetRowMoves, MovesKeep DEF BecomesAvailable
<1>12. CASE UNCHANGED vars
  BY <1>12, SelfMoves, MovesKeep DEF vars
<1>13. QED
  BY <1>1, <1>2, <1>3, <1>4, <1>5, <1>6, <1>7, <1>8, <1>9, <1>10, <1>11, <1>12
  DEF Next, ApiStep, SweeperStep, ClockStep

\* The empty tables satisfy IInv.
LEMMA InvInit == Init => IInv
<1> SUFFICES ASSUME Init PROVE IInv
  OBVIOUS
<1>1. TypeOK
  BY FirstAttempt, CountedType DEF Init, TypeOK, AbsentRow, Row, Leases
<1>2. \A j \in Jobs : RowInv(jobs[j])
  BY DEF Init, RowInv, AbsentRow
<1>3. Lineage
  BY DEF Init, Lineage, Exists, AbsentRow
<1>4. OutboxBehind /\ DeadArchived /\ PublishedIffSucceeded
  BY DEF Init, OutboxBehind, DeadArchived, PublishedIffSucceeded, AbsentRow
<1>5. QED
  BY <1>1, <1>2, <1>3, <1>4 DEF IInv

---------------------------------------------------------------------------
(* Safety *)

\* The invariant above is inductive: no interleaving of API calls, workers,
\* however stale, and sweepers leads out of it.
THEOREM Invariant == Spec => []IInv
  BY InvInit, InvStep, PTL DEF Spec

\* A cancellation answered with 'canceling' is never undone.
THEOREM CancelWinsHolds == Spec => []CancelWins
<1>1. IInv => CancelWins
  BY DEF IInv, RowInv, CancelWins
<1>2. QED
  BY <1>1, Invariant, PTL

\* A bundle is served exactly when its job succeeded.
THEOREM PublishedHolds == Spec => []PublishedIffSucceeded
<1>1. IInv => PublishedIffSucceeded
  BY DEF IInv
<1>2. QED
  BY <1>1, Invariant, PTL

\* A document has at most one active or succeeded job, over any number of
\* retries and jobs: such a job has no child, and the chain has one leaf.
THEOREM OneBundleHolds == Spec => []OneBundlePerDocument
<1>1. ASSUME IInv, NEW j \in Jobs, jobs[j].status \in Active \cup {"succeeded"}
      PROVE  Exists(j) /\ ~HasChild(j)
  BY <1>1, NullAssumption DEF IInv, Lineage, Exists, HasChild, Active, Retryable
<1>2. IInv => OneBundlePerDocument
  BY <1>1 DEF IInv, Lineage, OneBundlePerDocument
<1>3. QED
  BY <1>2, Invariant, PTL

\* No transition of a running job breaks the key of job_outbox.
THEOREM OutboxKeysHold == Spec => []OutboxKeysFree
<1>1. ASSUME IInv, NEW j \in Jobs, jobs[j].status = "running", NEW o \in outbox, o.job = j
      PROVE  /\ ~(o.dest = "jobs" /\ o.attempt = jobs[j].attempt + 1)
             /\ o.dest # "dlq"
  BY <1>1 DEF IInv, TypeOK, Row, Attempts, OutboxBehind, Behind
<1>2. IInv => OutboxKeysFree
  BY <1>1 DEF OutboxKeysFree, KeyFree
<1>3. QED
  BY <1>2, Invariant, PTL

\* A job is dead exactly when its row for the dead letter queue exists.
THEOREM DeadHasEvidenceHolds == Spec => []DeadHasEvidence
<1>1. IInv => DeadHasEvidence
  BY DEF IInv, DeadArchived, OutboxBehind, Behind, DeadHasEvidence
<1>2. QED
  BY <1>1, Invariant, PTL

---------------------------------------------------------------------------
(* What one step may do to the attempts and the owner of a row *)

Calm(r, s) == s.attempt = r.attempt /\ s.lease_owner \in {NoWorker, r.lease_owner}

\* The SET lists that neither spend an attempt nor hand the job to a worker.
LEMMA CalmRows ==
    ASSUME NEW r \in Row
    PROVE  /\ Calm(r, r)
           /\ \A s \in Status : Calm(r, Released(r, s))
           /\ Calm(r, Requeued(r))
           /\ Calm(r, Canceling(r))
           /\ Calm(r, [r EXCEPT !.status = "canceled"])
           /\ \A l \in Leases : Calm(r, [r EXCEPT !.lease = l])
           /\ Calm(r, [r EXCEPT !.enqueued = TRUE])
           /\ Calm(r, [r EXCEPT !.available = TRUE])
  BY DEF Calm, Released, Requeued, Canceling, Row

\* Setting one row calmly leaves every row calm.
LEMMA SetRowCalm ==
    ASSUME TypeOK, NEW j \in Jobs, NEW s, SetRow(j, s), Calm(jobs[j], s)
    PROVE  \A k \in Jobs : Calm(jobs[k], jobs'[k])
  BY CalmRows DEF TypeOK, SetRow

\* Every step leaves a row its attempts and hands it to nobody, but for the
\* insertion of the row, a claim and a retry.
LEMMA StepRows ==
    ASSUME TypeOK, Next, NEW k \in Jobs
    PROVE  \/ Calm(jobs[k], jobs'[k])
           \/ ~Exists(k)
           \/ Claimable(k) /\ jobs'[k].attempt = jobs[k].attempt
           \/ \E w \in Workers : ScheduleRetry(k, w)
<1> DEFINE Goal == \/ Calm(jobs[k], jobs'[k])
                   \/ ~Exists(k)
                   \/ Claimable(k) /\ jobs'[k].attempt = jobs[k].attempt
                   \/ \E w \in Workers : ScheduleRetry(k, w)
<1>0. /\ \A j \in Jobs : jobs[j] \in Row
      /\ Calm(jobs[k], jobs[k])
  BY CalmRows DEF TypeOK
<1>1. ASSUME NEW j \in Uploads, CreateWithDocument(j) PROVE Goal
  BY <1>0, <1>1, UploadsAssumption DEF CreateWithDocument, SetRow, TypeOK
<1>2. ASSUME NEW p \in Jobs, NEW c \in Jobs, CreateRetry(p, c) PROVE Goal
  BY <1>0, <1>2 DEF CreateRetry, SetRow, TypeOK
<1>3. ASSUME NEW j \in Jobs, RequestCancelQueued(j) \/ RequestCancelRunning(j) PROVE Goal
  BY <1>0, <1>3, CalmRows, SetRowCalm DEF RequestCancelQueued, RequestCancelRunning
<1>4. ASSUME NEW j \in Jobs, NEW w \in Workers, WorkerStep(j, w) PROVE Goal
  <2> USE DEF Status, Terminal, Active
  <2>1. CASE Claim(j, w)
    <3>1. Claimed(jobs[j], w).attempt = jobs[j].attempt
      BY <1>0 DEF Claimed, Row
    <3>2. QED
      BY <1>0, <2>1, <3>1 DEF Claim, SetRow, TypeOK
  <2>2. CASE RenewLease(j, w)
    BY <1>0, <2>2, CalmRows, SetRowCalm DEF RenewLease, Leases
  <2>3. CASE FinishCanceled(j, w)
    BY <1>0, <2>3, CalmRows, SetRowCalm DEF FinishCanceled
  <2>4. CASE MarkInvalid(j, w) \/ MarkFailed(j, w)
    BY <1>0, <2>4, CalmRows, SetRowCalm DEF MarkInvalid, MarkFailed
  <2>5. CASE ScheduleRetry(j, w)
    BY <1>0, <2>5 DEF ScheduleRetry, SetRow, TypeOK
  <2>6. CASE MarkDeadWithOutbox(j, w) \/ Publish(j, w)
    BY <1>0, <2>6, CalmRows, SetRowCalm DEF MarkDeadWithOutbox, Publish
  <2>7. CASE ClaimForPublish(j, w) \/ DeleteClaim(j, w)
    BY <1>0, <2>7 DEF ClaimForPublish, DeleteClaim
  <2>8. QED
    BY <1>4, <2>1, <2>2, <2>3, <2>4, <2>5, <2>6, <2>7 DEF WorkerStep
<1>5. ASSUME NEW j \in Jobs, MarkEnqueued(j) PROVE Goal
  BY <1>0, <1>5, CalmRows, SetRowCalm DEF MarkEnqueued
<1>6. ASSUME NEW o \in outbox, MarkOutboxPublished(o) PROVE Goal
  BY <1>0, <1>6 DEF MarkOutboxPublished
<1>7. ASSUME NEW S \in SUBSET Jobs, ReclaimExpiredLeases(S) \/ CancelExpiredLeases(S)
      PROVE  Goal
  <2>1. /\ Calm(jobs[k], Requeued(jobs[k]))
        /\ Calm(jobs[k], Released(jobs[k], "canceled"))
    BY <1>0, CalmRows DEF Status, Terminal
  <2>2. CASE ReclaimExpiredLeases(S)
    BY <1>0, <2>1, <2>2 DEF ReclaimExpiredLeases, SetRows
  <2>3. CASE CancelExpiredLeases(S)
    BY <1>0, <2>1, <2>3 DEF CancelExpiredLeases, SetRows
  <2>4. QED
    BY <1>7, <2>2, <2>3
<1>8. ASSUME NEW j \in Jobs, LeaseExpires(j) \/ LeaseOverdue(j) \/ BecomesAvailable(j)
      PROVE  Goal
  BY <1>0, <1>8, CalmRows, SetRowCalm DEF LeaseExpires, LeaseOverdue, BecomesAvailable,
                                          Leases
<1>9. QED
  BY <1>1, <1>2, <1>3, <1>4, <1>5, <1>6, <1>7, <1>8
  DEF Next, ApiStep, SweeperStep, ClockStep

\* What a retry does to the row and the outbox.
LEMMA ScheduleRetryEffect ==
    ASSUME IInv, NEW j \in Jobs, NEW w \in Workers, ScheduleRetry(j, w)
    PROVE  /\ jobs'[j].attempt = jobs[j].attempt + 1
           /\ jobs[j].status = "running" /\ jobs'[j].status = "queued"
           /\ jobs'[j].lease_owner = NoWorker
           /\ [job |-> j, dest |-> "jobs", attempt |-> jobs[j].attempt + 1, sent |-> FALSE]
                \in outbox' \ outbox
<1>1. jobs[j] \in Row /\ jobs[j].status = "running"
  BY DEF IInv, TypeOK, ScheduleRetry, Holds
<1>2. LET n == Rescheduled(jobs[j])
      IN  /\ n.attempt = jobs[j].attempt + 1 /\ n.status = "queued"
          /\ n.lease_owner = NoWorker
  BY <1>1 DEF Rescheduled, Requeued, Released, Row
<1>3. jobs'[j] = Rescheduled(jobs[j])
  BY DEF ScheduleRetry, SetRow, IInv, TypeOK
<1>4. [job |-> j, dest |-> "jobs", attempt |-> jobs[j].attempt + 1, sent |-> FALSE]
        \in outbox' \ outbox
  BY DEF ScheduleRetry, InsertOutbox, KeyFree
<1>5. QED
  BY <1>1, <1>2, <1>3, <1>4

\* The retry budget is spent only by a retry that also queues its message.
THEOREM AttemptsPaidHolds == Spec => AttemptsPaidByRetries
<1> DEFINE Paid(j) ==
      Exists(j) /\ jobs'[j].attempt # jobs[j].attempt =>
        /\ jobs'[j].attempt = jobs[j].attempt + 1
        /\ jobs[j].status = "running" /\ jobs'[j].status = "queued"
        /\ [job |-> j, dest |-> "jobs", attempt |-> jobs'[j].attempt, sent |-> FALSE]
             \in outbox' \ outbox
<1>1. ASSUME IInv, Next, NEW j \in Jobs PROVE Paid(j)
  <2>1. TypeOK
    BY <1>1 DEF IInv
  <2>2. \/ Calm(jobs[j], jobs'[j]) \/ ~Exists(j)
        \/ jobs'[j].attempt = jobs[j].attempt
        \/ \E w \in Workers : ScheduleRetry(j, w)
    BY <1>1, <2>1, StepRows
  <2>3. ASSUME NEW w \in Workers, ScheduleRetry(j, w) PROVE Paid(j)
    BY <1>1, <2>3, ScheduleRetryEffect
  <2>4. QED
    BY <2>2, <2>3 DEF Calm
<1>2. IInv /\ [Next]_vars => [\A j \in Jobs : Paid(j)]_vars
  BY <1>1
<1>3. QED
  BY <1>2, Invariant, PTL DEF Spec, AttemptsPaidByRetries

\* No worker loses a job to another one while its lease is live.
THEOREM LiveLeaseHolds == Spec => LiveLeaseKept
<1> DEFINE Safe(j) ==
      /\ jobs[j].lease_owner # NoWorker
      /\ jobs'[j].lease_owner \notin {NoWorker, jobs[j].lease_owner}
      => jobs[j].lease \in {"expired", "overdue"}
<1>1. ASSUME IInv, Next, NEW j \in Jobs PROVE Safe(j)
  <2>1. TypeOK /\ RowInv(jobs[j])
    BY <1>1 DEF IInv
  <2>2. \/ Calm(jobs[j], jobs'[j]) \/ ~Exists(j) \/ Claimable(j)
        \/ \E w \in Workers : ScheduleRetry(j, w)
    BY <1>1, <2>1, StepRows
  <2>3. ASSUME NEW w \in Workers, ScheduleRetry(j, w) PROVE Safe(j)
    BY <1>1, <2>3, ScheduleRetryEffect
  <2>4. QED
    BY <2>1, <2>2, <2>3 DEF Calm, Exists, Claimable, RowInv
<1>2. IInv /\ [Next]_vars => [\A j \in Jobs : Safe(j)]_vars
  BY <1>1
<1>3. QED
  BY <1>2, Invariant, PTL DEF Spec, LiveLeaseKept

---------------------------------------------------------------------------
(* The rows implement ConversionPromise *)

\* s is r with another status.
Becomes(r, s, status) == s.status = status /\ s.root = r.root /\ s.parent = r.parent

\* The status that each SET list gives a row, which keeps its lineage.
LEMMA RowsBecome ==
    ASSUME NEW r \in Row
    PROVE  /\ Becomes(r, r, r.status)
           /\ \A s \in Status : Becomes(r, Released(r, s), s)
           /\ Becomes(r, Requeued(r), "queued")
           /\ \A w \in Workers : Becomes(r, Claimed(r, w), "running")
           /\ Becomes(r, Canceling(r), "canceling")
           /\ Becomes(r, [r EXCEPT !.status = "canceled"], "canceled")
           /\ \A l \in Leases : Becomes(r, [r EXCEPT !.lease = l], r.status)
           /\ Becomes(r, [r EXCEPT !.enqueued = TRUE], r.status)
           /\ Becomes(r, [r EXCEPT !.available = TRUE], r.status)
  BY DEF Becomes, Released, Requeued, Claimed, Canceling, Row

\* A rescheduled row is queued.
LEMMA RescheduledBecomes ==
    ASSUME NEW r \in Row PROVE Becomes(r, Rescheduled(r), "queued")
<1>1. Requeued(r) \in Row /\ Becomes(r, Requeued(r), "queued")
  BY RequeuedType, RowsBecome
<1>2. QED
  BY <1>1 DEF Becomes, Rescheduled, Row

\* All the rows of S become status, and the other rows stay.
Change(S, status) ==
    /\ \A k \in Jobs : jobs'[k].root = jobs[k].root /\ jobs'[k].parent = jobs[k].parent
    /\ \A k \in S : jobs'[k].status = status
    /\ \A k \in Jobs \ S : jobs'[k].status = jobs[k].status

\* Setting one row changes the status of one job.
LEMMA SetRowChange ==
    ASSUME TypeOK, NEW j \in Jobs, NEW s, NEW x, SetRow(j, s), Becomes(jobs[j], s, x)
    PROVE  Change({j}, x)
  BY DEF TypeOK, SetRow, Becomes, Change

\* The user does not see a claim, a retry of the platform or a reclaim.
LEMMA PromiseStutters ==
    ASSUME NEW S \in SUBSET Jobs, NEW x, Change(S, x), UNCHANGED bundles,
           \/ \A k \in S : jobs[k].status = x
           \/ x \in {"queued", "running"} /\ \A k \in S : jobs[k].status \in {"queued", "running"}
    PROVE  UNCHANGED Promise!vars
<1>1. \A k \in Jobs : PromisedState(k)' = PromisedState(k)
  BY DEF Change, PromisedState
<1>2. QED
  BY <1>1 DEF Change, Promise!vars

\* A cancellation request in time is a Cancel of the promise.
LEMMA PromiseCancels ==
    ASSUME NEW j \in Jobs, NEW x \in {"canceling", "canceled"}, Change({j}, x),
           UNCHANGED bundles, jobs[j].status \in {"queued", "running"}
    PROVE  Promise!Next
<1>1. PromisedState(j) = "active" /\ PromisedState(j)' = x
  BY DEF Change, PromisedState
<1>2. \A k \in Jobs \ {j} : PromisedState(k)' = PromisedState(k)
  BY DEF Change, PromisedState
<1>3. [k \in Jobs |-> PromisedState(k)]'
        = [[k \in Jobs |-> PromisedState(k)] EXCEPT ![j] = x]
  BY <1>1, <1>2
<1>4. Promise!Cancel(j)
  BY <1>1, <1>3 DEF Promise!Cancel, Change
<1>5. QED
  BY <1>4 DEF Promise!Next

\* Closing cancellations is the CloseCanceled of the promise.
LEMMA PromiseClosesCanceled ==
    ASSUME NEW S \in SUBSET Jobs, Change(S, "canceled"),
           UNCHANGED bundles, \A k \in S : jobs[k].status = "canceling"
    PROVE  Promise!Next
<1>1. \A k \in S : PromisedState(k) = "canceling" /\ PromisedState(k)' = "canceled"
  BY DEF Change, PromisedState
<1>2. \A k \in Jobs \ S : PromisedState(k)' = PromisedState(k)
  BY DEF Change, PromisedState
<1>3. Promise!CloseCanceled(S)
  BY <1>1, <1>2 DEF Promise!CloseCanceled, Change
<1>4. QED
  BY <1>3 DEF Promise!Next

\* A running job that ends is a Settle of the promise.
LEMMA PromiseSettles ==
    ASSUME NEW j \in Jobs, NEW x \in {"invalid", "failed", "dead", "succeeded"},
           Change({j}, x), jobs[j].status = "running", TypeOK,
           bundles' = IF x = "succeeded" THEN [bundles EXCEPT ![j] = "published"] ELSE bundles
    PROVE  Promise!Next
<1>1. PromisedState(j) = "active" /\ PromisedState(j)' = x
  BY DEF Change, PromisedState
<1>2. \A k \in Jobs \ {j} : PromisedState(k)' = PromisedState(k)
  BY DEF Change, PromisedState
<1>3. [k \in Jobs |-> PromisedState(k)]'
        = [[k \in Jobs |-> PromisedState(k)] EXCEPT ![j] = x]
  BY <1>1, <1>2
<1>4. {k \in Jobs : bundles[k] = "published"}'
        = IF x = "succeeded" THEN {k \in Jobs : bundles[k] = "published"} \cup {j}
                             ELSE {k \in Jobs : bundles[k] = "published"}
  BY DEF TypeOK
<1>5. Promise!Settle(j, x)
  BY <1>1, <1>3, <1>4 DEF Promise!Settle, Change
<1>6. QED
  BY <1>5 DEF Promise!Next, Promise!Settled

\* A new row shows up as active, in the document and below the parent it names.
LEMMA NewRowView ==
    ASSUME TypeOK, NEW c \in Jobs, NEW r \in Jobs, NEW p \in Jobs \cup {NoJob},
           SetRow(c, NewRow(r, p))
    PROVE  /\ [k \in Jobs |-> PromisedState(k)]'
                = [[k \in Jobs |-> PromisedState(k)] EXCEPT ![c] = "active"]
           /\ [k \in Jobs |-> jobs[k].root]' = [[k \in Jobs |-> jobs[k].root] EXCEPT ![c] = r]
           /\ [k \in Jobs |-> jobs[k].parent]'
                = [[k \in Jobs |-> jobs[k].parent] EXCEPT ![c] = p]
<1>1. jobs'[c] = NewRow(r, p) /\ \A k \in Jobs \ {c} : jobs'[k] = jobs[k]
  BY DEF SetRow, TypeOK
<1>2. jobs'[c].status = "queued" /\ jobs'[c].root = r /\ jobs'[c].parent = p
  BY <1>1, NewRowFields
<1>3. PromisedState(c)' = "active"
  BY <1>2 DEF PromisedState
<1>4. \A k \in Jobs \ {c} : PromisedState(k)' = PromisedState(k)
  BY <1>1 DEF PromisedState
<1>5. QED
  BY <1>1, <1>2, <1>3, <1>4

\* Every statement is a step of the promise, or invisible to the user.
LEMMA PromiseStep == IInv /\ [Next]_vars => [Promise!Next]_(Promise!vars)
<1> SUFFICES ASSUME IInv, [Next]_vars PROVE Promise!Next \/ UNCHANGED Promise!vars
  OBVIOUS
<1>0. TypeOK /\ \A j \in Jobs : jobs[j] \in Row /\ RowInv(jobs[j])
  BY DEF IInv, TypeOK
<1> USE <1>0
<1> DEFINE Goal == Promise!Next \/ UNCHANGED Promise!vars
<1>1. ASSUME NEW j \in Uploads, CreateWithDocument(j) PROVE Goal
  <2>1. j \in Jobs /\ PromisedState(j) = "absent"
    BY <1>1, UploadsAssumption DEF CreateWithDocument, Exists, PromisedState
  <2>2. Promise!Accept(j)
    BY <1>1, <2>1, NewRowView DEF CreateWithDocument, Promise!Accept
  <2>3. QED
    BY <2>1, <2>2 DEF Promise!Next
<1>2. ASSUME NEW p \in Jobs, NEW c \in Jobs, CreateRetry(p, c) PROVE Goal
  <2>1. jobs[p].root \in Jobs
    BY <1>2 DEF IInv, Lineage, CreateRetry, Exists, Retryable
  <2>2. PromisedState(c) = "absent" /\ PromisedState(p) \in Promise!NoBundle
    BY <1>2 DEF CreateRetry, Exists, PromisedState, Retryable,
                Promise!NoBundle, Promise!Settled
  <2>3. Promise!Retry(p, c)
    BY <1>2, <2>1, <2>2, NewRowView DEF CreateRetry, HasChild, Promise!Retry
  <2>4. QED
    BY <2>3 DEF Promise!Next
<1>3. ASSUME NEW j \in Jobs, RequestCancelQueued(j) PROVE Goal
  BY <1>3, RowsBecome, SetRowChange, PromiseCancels DEF RequestCancelQueued
<1>4. ASSUME NEW j \in Jobs, RequestCancelRunning(j) PROVE Goal
  BY <1>4, RowsBecome, SetRowChange, PromiseCancels DEF RequestCancelRunning
<1>5. ASSUME NEW j \in Jobs, NEW w \in Workers, WorkerStep(j, w) PROVE Goal
  <2> USE DEF Status, Terminal
  <2>1. CASE Claim(j, w)
    <3>1. Change({j}, "running")
      BY <2>1, RowsBecome, SetRowChange DEF Claim
    <3>2. QED
      BY <2>1, <3>1, PromiseStutters DEF Claim, Claimable
  <2>2. CASE RenewLease(j, w)
    <3>1. Change({j}, jobs[j].status)
      BY <2>2, RowsBecome, SetRowChange DEF RenewLease, Leases
    <3>2. QED
      BY <2>2, <3>1, PromiseStutters DEF RenewLease
  <2>3. CASE FinishCanceled(j, w)
    <3>1. Change({j}, "canceled")
      BY <2>3, RowsBecome, SetRowChange DEF FinishCanceled
    <3>2. QED
      BY <2>3, <3>1, PromiseClosesCanceled DEF FinishCanceled
  <2>4. CASE MarkInvalid(j, w)
    <3>1. Change({j}, "invalid")
      BY <2>4, RowsBecome, SetRowChange DEF MarkInvalid
    <3>2. QED
      BY <2>4, <3>1, PromiseSettles DEF MarkInvalid, Holds
  <2>5. CASE MarkFailed(j, w)
    <3>1. Change({j}, "failed")
      BY <2>5, RowsBecome, SetRowChange DEF MarkFailed
    <3>2. QED
      BY <2>5, <3>1, PromiseSettles DEF MarkFailed, Holds
  <2>6. CASE ScheduleRetry(j, w)
    <3>1. Change({j}, "queued")
      BY <2>6, RescheduledBecomes, SetRowChange DEF ScheduleRetry
    <3>2. QED
      BY <2>6, <3>1, PromiseStutters DEF ScheduleRetry, Holds
  <2>7. CASE MarkDeadWithOutbox(j, w)
    <3>1. Change({j}, "dead")
      BY <2>7, RowsBecome, SetRowChange DEF MarkDeadWithOutbox
    <3>2. QED
      BY <2>7, <3>1, PromiseSettles DEF MarkDeadWithOutbox, Holds
  <2>8. CASE ClaimForPublish(j, w) \/ DeleteClaim(j, w)
    <3>1. jobs' = jobs /\ {k \in Jobs : bundles[k] = "published"}'
                            = {k \in Jobs : bundles[k] = "published"}
      BY <2>8 DEF ClaimForPublish, DeleteClaim, TypeOK
    <3>2. QED
      BY <3>1 DEF Promise!vars, PromisedState
  <2>9. CASE Publish(j, w)
    <3>1. Change({j}, "succeeded")
      BY <2>9, RowsBecome, SetRowChange DEF Publish
    <3>2. QED
      BY <2>9, <3>1, PromiseSettles DEF Publish, Holds
  <2>10. QED
    BY <1>5, <2>1, <2>2, <2>3, <2>4, <2>5, <2>6, <2>7, <2>8, <2>9 DEF WorkerStep
<1>6. ASSUME NEW j \in Jobs, MarkEnqueued(j) PROVE Goal
  BY <1>6, RowsBecome, SetRowChange, PromiseStutters DEF MarkEnqueued
<1>7. ASSUME NEW o \in outbox, MarkOutboxPublished(o) PROVE Goal
  BY <1>7 DEF MarkOutboxPublished, Promise!vars, PromisedState
<1>8. ASSUME NEW S \in SUBSET Jobs, ReclaimExpiredLeases(S) PROVE Goal
  <2>1. \A k \in S : jobs[k].status = "running"
    BY <1>8 DEF ReclaimExpiredLeases, Batch, Overdue
  <2>2. Change(S, "queued")
    BY <1>8, RowsBecome DEF ReclaimExpiredLeases, SetRows, Becomes, Change
  <2>3. QED
    BY <1>8, <2>1, <2>2, PromiseStutters DEF ReclaimExpiredLeases
<1>9. ASSUME NEW S \in SUBSET Jobs, CancelExpiredLeases(S) PROVE Goal
  <2>1. \A k \in S : jobs[k].status = "canceling"
    BY <1>9 DEF CancelExpiredLeases, Batch, Overdue
  <2>2. \A k \in Jobs : Becomes(jobs[k], Released(jobs[k], "canceled"), "canceled")
    BY RowsBecome DEF Status, Terminal
  <2>3. Change(S, "canceled")
    BY <1>9, <2>2 DEF CancelExpiredLeases, SetRows, Becomes, Change
  <2>4. QED
    BY <1>9, <2>1, <2>3, PromiseClosesCanceled DEF CancelExpiredLeases
<1>10. ASSUME NEW j \in Jobs, LeaseExpires(j) \/ LeaseOverdue(j) \/ BecomesAvailable(j)
       PROVE  Goal
  <2>1. Change({j}, jobs[j].status) /\ UNCHANGED bundles
    BY <1>10, RowsBecome, SetRowChange DEF LeaseExpires, LeaseOverdue, BecomesAvailable, Leases
  <2>2. QED
    BY <2>1, PromiseStutters
<1>11. CASE UNCHANGED vars
  BY <1>11 DEF vars, Promise!vars, PromisedState
<1>12. QED
  BY <1>1, <1>2, <1>3, <1>4, <1>5, <1>6, <1>7, <1>8, <1>9, <1>10, <1>11
  DEF Next, ApiStep, SweeperStep, ClockStep

\* The repository layer implements the promise: every statement settles jobs as
\* ConversionPromise allows, or shows the user nothing new.
THEOREM Implements == Spec => KeepsPromise
<1>1. Init => Promise!Init
  BY DEF Init, Promise!Init, PromisedState, AbsentRow
<1>2. QED
  BY <1>1, PromiseStep, Invariant, PTL DEF Spec, KeepsPromise, Promise!Spec
===========================================================================
