-------------------------- MODULE PromotionProofs --------------------------
(***************************************************************************)
(* Proofs about Promotion, for any jobs, workers, runs and files: the form *)
(* of what runs and object store keep; that runs use the tables as         *)
(* JobLifecycle allows, so that its theorems hold here; and, as long as no *)
(* two runs use a lease_owner at the same time, that what is published is  *)
(* complete, is what its manifest was made for, and stays as it is.  Only  *)
(* the run that holds a job moves its bundle (HeldBundle); the rest is     *)
(* about the objects below the prefix (Filling, Finished).                 *)
(***************************************************************************)
EXTENDS Promotion, JobLifecycleProofs

---------------------------------------------------------------------------
(* The form of the state *)

\* A run that has started has a job.
Started == \A r \in Runs : pc[r] # "new" => job[r] \in Jobs

TypeInv == PromotionTypeOK /\ Started

\* A statement on the tables is one of JobLifecycle's.
LEMMA WorkerStatement ==
    ASSUME TypeInv, NEW r \in Runs, pc[r] # "new", WorkerStep(job[r], Owner[r]) PROVE Next
<1>1. job[r] \in Jobs /\ Owner[r] \in Workers
  BY RunsAssumption DEF TypeInv, Started
<1>2. QED
  BY <1>1 DEF Next

\* What the others do to the rows is what JobLifecycle allows.
LEMMA MeanwhileTables == ASSUME Meanwhile PROVE Next
  BY DEF Meanwhile, Next, ApiStep, SweeperStep

\* So is what a run does.
LEMMA RunTables ==
    ASSUME TypeInv, NEW r \in Runs, RunStep(r) PROVE [Next]_vars
<1>1. ASSUME NEW j \in Jobs, StartRun(r, j) PROVE Next
  <2>1. Owner[r] \in Workers
    BY RunsAssumption
  <2>2. QED
    BY <1>1, <2>1 DEF StartRun, Next, WorkerStep
<1>2. CASE ClaimBundle(r)
  BY <1>2, WorkerStatement DEF ClaimBundle, WorkerStep
<1>3. CASE PublishRun(r)
  BY <1>3, WorkerStatement DEF PublishRun, WorkerStep
<1>4. CASE UndoClaim(r)
  BY <1>4, WorkerStatement DEF UndoClaim, WorkerStep
<1>5. CASE EndRun(r)
  BY <1>5, WorkerStatement DEF EndRun, WorkerStep
<1>6. CASE Renew(r)
  BY <1>6, WorkerStatement DEF Renew, WorkerStep
<1>7. CASE UNCHANGED vars
  BY <1>7
<1>8. QED
  BY <1>1, <1>2, <1>3, <1>4, <1>5, <1>6, <1>7
  DEF RunStep, ConvertRun, Upload, Outbid, Copy, CopyMissing, CallFails, PublishRefused,
      ListTemp, RemoveTemp, StopRun

\* Every step of the promotion is a step of the tables or leaves them alone.
LEMMA PromotionTables ==
    ASSUME TypeInv, [PromotionNext]_promotionVars PROVE [Next]_vars
  BY MeanwhileTables, RunTables DEF PromotionNext, promotionVars

\* A run that moves on to another point of its program.
LEMMA GotoType ==
    ASSUME pc \in [Runs -> Labels], NEW r \in Runs, NEW label \in Labels, Goto(r, label)
    PROVE  pc' \in [Runs -> Labels]
  BY DEF Goto

\* Started is kept by a step after which the jobs of the runs are the same.
LEMMA StartedKept ==
    ASSUME TypeInv, NEW r \in Runs, pc[r] # "new", UNCHANGED job,
           UNCHANGED pc \/ \E label \in Labels : Goto(r, label)
    PROVE  Started'
  BY DEF TypeInv, PromotionTypeOK, Started, Goto

\* No step of a run breaks the form of the state.
LEMMA RunType ==
    ASSUME TypeInv, TypeOK', NEW r \in Runs, RunStep(r) PROVE TypeInv'
<1> USE DEF TypeInv, PromotionTypeOK, store, index, locals, Labels, Content
<1>1. ASSUME NEW j \in Jobs, StartRun(r, j) PROVE TypeInv'
  <2>1. jobs[j].attempt \in Attempts
    BY DEF TypeOK, Row
  <2>2. PromotionTypeOK'
    BY <1>1, <2>1, GotoType DEF StartRun
  <2>3. Started'
    BY <1>1 DEF StartRun, Started, Goto
  <2>4. QED
    BY <2>2, <2>3
<1>2. CASE ConvertRun(r)
  BY <1>2, GotoType, StartedKept DEF ConvertRun
<1>3. CASE Upload(r)
  <2>1. Temp(r) \in TempPrefix /\ file[r] \in Files
    BY <1>3 DEF Upload, Started, Temp, TempPrefix
  <2>2. file[r] + 1 \in 1..(FileCount + 1)
    BY <2>1, FilesAssumption DEF Files
  <2>3. tmp' \in [TempPrefix -> [Files -> Content]]
    BY <1>3, <2>1 DEF Upload
  <2>4. QED
    BY <1>3, <2>2, <2>3, StartedKept DEF Upload
<1>4. CASE ClaimBundle(r)
  <2>1. PICK label \in {"promoting", "failing"} : Goto(r, label)
    BY <1>4 DEF ClaimBundle
  <2>2. pc' \in [Runs -> Labels] /\ Started'
    BY <1>4, <2>1, GotoType, StartedKept DEF ClaimBundle
  <2>3. 1 \in 1..(FileCount + 1)
    BY FilesAssumption
  <2>4. prefix' \in [Jobs -> Content] /\ file' \in [Runs -> 1..(FileCount + 1)]
    BY <1>4, <2>3 DEF ClaimBundle, PublishedPrefix
  <2>5. QED
    BY <1>4, <2>2, <2>4 DEF ClaimBundle
<1>5. CASE Outbid(r) \/ CallFails(r) \/ CopyMissing(r) \/ PublishRefused(r)
  BY <1>5, GotoType, StartedKept DEF Outbid, CallFails, CopyMissing, PublishRefused
<1>6. CASE Copy(r)
  <2>1. Temp(r) \in TempPrefix /\ file[r] \in Files
    BY <1>6 DEF Copy, Started, Temp, TempPrefix
  <2>2. file[r] + 1 \in 1..(FileCount + 1)
    BY <2>1, FilesAssumption DEF Files
  <2>3. served' \in [Runs -> [Files -> Content]]
    BY <1>6, <2>1 DEF Copy, PublishedPrefix
  <2>4. QED
    BY <1>6, <2>2, <2>3, StartedKept DEF Copy
<1>7. CASE PublishRun(r)
  BY <1>7, GotoType, StartedKept DEF PublishRun
<1>8. CASE UndoClaim(r)
  BY <1>8, GotoType, StartedKept DEF UndoClaim
<1>9. CASE ListTemp(r)
  BY <1>9, GotoType, StartedKept DEF ListTemp
<1>10. ASSUME NEW f \in Files, RemoveTemp(r, f) PROVE TypeInv'
  <2>1. tmp' \in [TempPrefix -> [Files -> Content]]
    BY <1>10 DEF RemoveTemp
  <2>2. QED
    BY <1>10, <2>1, StartedKept DEF RemoveTemp
<1>11. CASE EndRun(r)
  BY <1>11, GotoType, StartedKept DEF EndRun
<1>12. CASE StopRun(r)
  BY <1>12, GotoType, StartedKept DEF StopRun
<1>13. CASE Renew(r)
  BY <1>13, StartedKept DEF Renew
<1>14. QED
  BY <1>1, <1>2, <1>3, <1>4, <1>5, <1>6, <1>7, <1>8, <1>9, <1>10, <1>11, <1>12, <1>13
  DEF RunStep

\* No step breaks it.
LEMMA PromotionTypeStep ==
    ASSUME TypeInv, [PromotionNext]_promotionVars PROVE TypeInv'
<1>1. TypeOK'
  BY PromotionTables, TypeStep DEF TypeInv, PromotionTypeOK
<1>2. CASE Meanwhile \/ UNCHANGED promotionVars
  BY <1>1, <1>2
  DEF Meanwhile, promotionVars, locals, store, index, TypeInv, PromotionTypeOK, Started
<1>3. QED
  BY <1>1, <1>2, RunType DEF PromotionNext

\* The state is well formed at the start.
LEMMA PromotionTypeInit == PromotionInit => TypeInv /\ IInv
<1> SUFFICES ASSUME PromotionInit PROVE TypeInv /\ IInv
  OBVIOUS
<1>1. IInv
  BY InvInit DEF PromotionInit
<1>2. 1 \in 1..(FileCount + 1)
  BY FilesAssumption
<1>3. QED
  BY <1>1, <1>2, FirstAttempt
  DEF PromotionInit, TypeInv, PromotionTypeOK, Started, IInv, Labels, Content

\* The runs, the objects and the index of the bundles are always well formed.
THEOREM PromotionTypeCorrect == PromotionSpec => []PromotionTypeOK
<1>1. PromotionSpec => []TypeInv
  BY PromotionTypeInit, PromotionTypeStep, PTL DEF PromotionSpec
<1>2. TypeInv => PromotionTypeOK
  BY DEF TypeInv
<1>3. QED
  BY <1>1, <1>2, PTL

\* Runs and their surroundings only issue the statements of JobLifecycle.
THEOREM PromotionUsesLifecycle == PromotionSpec => Spec
<1>1. PromotionInit => Init
  BY DEF PromotionInit
<1>2. TypeInv /\ [PromotionNext]_promotionVars => [Next]_vars
  BY PromotionTables
<1>3. QED
  BY <1>1, <1>2, PromotionTypeInit, PromotionTypeStep, PTL DEF PromotionSpec, Spec

\* So a user of bundles promoted like this gets what ConversionPromise says.
THEOREM PromotionKeepsPromise == PromotionSpec => KeepsPromise
  BY PromotionUsesLifecycle, Implements

---------------------------------------------------------------------------
(* The invariant of the promotion *)

Busy(r) == pc[r] \notin {"new", "done"}

\* WORKER_CONCURRENCY=1: a process, whose lease_owner is drawn when it starts, has one
\* run at a time.
OneRunPerOwner == \A r, s \in Runs : Busy(r) /\ Busy(s) /\ Owner[r] = Owner[s] => r = s

\* Nobody takes the bundle from a run that promotes it and still holds its job.
HeldBundle ==
    \A r \in Runs : pc[r] = "promoting" /\ Holds(job[r], Owner[r]) =>
        bundles[job[r]] = "promoting" /\ prefix[job[r]] = r

\* A promotion leaves no hole behind.
Filling ==
    \A r \in Runs : pc[r] = "promoting" =>
        \A f \in Files : f < file[r] => served[r][f] # NoRun

\* The points of a run at which it may still write below its prefix, sooner or later.
Writing == {"new", "converting", "uploading", "promoting"}

\* A published bundle is that of a run that will not touch it again.
Finished ==
    \A j \in Jobs : Published(j) =>
        /\ prefix[j] \in Runs /\ manifest[j] = prefix[j]
        /\ pc[prefix[j]] \notin Writing
        /\ \A f \in Files : served[prefix[j]][f] # NoRun

PromotionInv == TypeInv /\ IInv /\ HeldBundle /\ Filling /\ Finished

---------------------------------------------------------------------------
(* Who holds a job *)

\* A step keeps the holders of a row when it gives it neither a new owner nor a
\* running status.
Keeps(row, new) ==
    new.lease_owner # NoWorker =>
        /\ new.lease_owner = row.lease_owner
        /\ new.status = "running" => row.status = "running"

KeepHolders == \A j \in Jobs : Keeps(jobs[j], jobs'[j])

\* The SET lists of all statements but Claim keep them.
LEMMA RowsKeepHolders ==
    ASSUME NEW r \in Row
    PROVE  /\ Keeps(r, r)
           /\ \A s \in Status : Keeps(r, Released(r, s))
           /\ Keeps(r, Requeued(r)) /\ Keeps(r, Rescheduled(r))
           /\ Keeps(r, Canceling(r))
           /\ \A l \in Leases : Keeps(r, [r EXCEPT !.lease = l])
           /\ Keeps(r, [r EXCEPT !.available = TRUE])
  BY DEF Keeps, Released, Requeued, Rescheduled, Canceling, Row

\* A statement that sets one row so keeps the holders of all.
LEMMA SetRowKeepsHolders ==
    ASSUME TypeOK, NEW j \in Jobs, NEW s, SetRow(j, s), Keeps(jobs[j], s)
    PROVE  KeepHolders
  BY RowsKeepHolders DEF TypeOK, SetRow, KeepHolders

\* The others keep them,
LEMMA MeanwhileHolders == ASSUME TypeOK, Meanwhile PROVE KeepHolders
<1>1. \A j \in Jobs : jobs[j] \in Row
  BY DEF TypeOK
<1>2. ASSUME NEW j \in Uploads, CreateWithDocument(j) PROVE KeepHolders
  <2>1. j \in Jobs
    BY UploadsAssumption
  <2>2. Keeps(jobs[j], NewRow(j, NoJob))
    BY DEF Keeps, NewRow, AbsentRow
  <2>3. QED
    BY <1>2, <2>1, <2>2, SetRowKeepsHolders DEF CreateWithDocument
<1>3. ASSUME NEW j \in Jobs, RequestCancelRunning(j) PROVE KeepHolders
  BY <1>1, <1>3, RowsKeepHolders, SetRowKeepsHolders DEF RequestCancelRunning
<1>4. ASSUME NEW S \in SUBSET Jobs, ReclaimExpiredLeases(S) PROVE KeepHolders
  <2>1. \A j \in Jobs : Keeps(jobs[j], jobs[j]) /\ Keeps(jobs[j], Requeued(jobs[j]))
    BY <1>1, RowsKeepHolders
  <2>2. QED
    BY <1>4, <2>1 DEF ReclaimExpiredLeases, SetRows, KeepHolders
<1>5. ASSUME NEW S \in SUBSET Jobs, CancelExpiredLeases(S) PROVE KeepHolders
  <2>1. \A j \in Jobs : /\ Keeps(jobs[j], jobs[j])
                        /\ Keeps(jobs[j], Released(jobs[j], "canceled"))
    BY <1>1, RowsKeepHolders DEF Status, Terminal
  <2>2. QED
    BY <1>5, <2>1 DEF CancelExpiredLeases, SetRows, KeepHolders
<1>6. ASSUME NEW j \in Jobs, LeaseExpires(j) \/ LeaseOverdue(j) \/ BecomesAvailable(j)
      PROVE  KeepHolders
  BY <1>1, <1>6, RowsKeepHolders, SetRowKeepsHolders
  DEF LeaseExpires, LeaseOverdue, BecomesAvailable, Leases
<1>7. QED
  BY <1>2, <1>3, <1>4, <1>5, <1>6 DEF Meanwhile, ClockStep

\* and so does a run once it has started.
LEMMA RunHolders ==
    ASSUME TypeInv, NEW r \in Runs, RunStep(r), pc[r] # "new" PROVE KeepHolders
<1>1. TypeOK /\ job[r] \in Jobs /\ jobs[job[r]] \in Row /\ \A j \in Jobs : jobs[j] \in Row
  BY DEF TypeInv, PromotionTypeOK, TypeOK, Started
<1> USE DEF Status, Terminal, Active
<1>2. CASE UNCHANGED jobs
  BY <1>1, <1>2, RowsKeepHolders DEF KeepHolders
<1>3. CASE PublishRun(r)
  BY <1>1, <1>3, RowsKeepHolders, SetRowKeepsHolders DEF PublishRun, Publish
<1>4. CASE EndRun(r)
  BY <1>1, <1>4, RowsKeepHolders, SetRowKeepsHolders
  DEF EndRun, ScheduleRetry, MarkDeadWithOutbox, MarkFailed, FinishCanceled
<1>5. CASE Renew(r)
  BY <1>1, <1>5, RowsKeepHolders, SetRowKeepsHolders DEF Renew, RenewLease, Leases
<1>6. QED
  BY <1>2, <1>3, <1>4, <1>5
  DEF RunStep, StartRun, ConvertRun, Upload, ClaimBundle, ClaimForPublish, Outbid, Copy,
      CopyMissing, CallFails, PublishRefused, UndoClaim, DeleteClaim, ListTemp, RemoveTemp,
      StopRun, vars

---------------------------------------------------------------------------
(* Every step keeps the invariant *)

\* Who holds a job after such a step held it before.
LEMMA HeldBefore ==
    ASSUME TypeInv, KeepHolders, NEW r \in Runs, pc[r] # "new", Holds(job[r], Owner[r])'
    PROVE  UNCHANGED job => Holds(job[r], Owner[r])
<1>1. Owner[r] # NoWorker /\ job[r] \in Jobs
  BY RunsAssumption, NullAssumption DEF TypeInv, Started
<1>2. QED
  BY <1>1 DEF KeepHolders, Keeps, Holds

\* Two runs do not hold the same job.
LEMMA OneHolder ==
    ASSUME OneRunPerOwner, NEW r \in Runs, NEW s \in Runs, Busy(r), Busy(s), NEW j \in Jobs,
           Holds(j, Owner[r]), Holds(j, Owner[s])
    PROVE  r = s
  BY DEF OneRunPerOwner, Holds

\* A step that touches neither bundles nor objects, and takes no run to a promotion
\* or back from its end, keeps the rest.
LEMMA QuietKeeps ==
    ASSUME PromotionInv, TypeInv', IInv', KeepHolders,
           UNCHANGED <<job, file, served, prefix, manifest, bundles>>,
           \A r \in Runs : \/ pc'[r] = pc[r]
                           \/ pc[r] # "new" /\ pc'[r] \notin {"new", "promoting"}
                              /\ (pc'[r] \in Writing => pc[r] \in Writing)
    PROVE  PromotionInv'
<1>1. HeldBundle'
  <2> SUFFICES ASSUME NEW r \in Runs, pc'[r] = "promoting", Holds(job[r], Owner[r])'
               PROVE  bundles[job[r]] = "promoting" /\ prefix[job[r]] = r
    BY DEF HeldBundle
  <2>1. pc[r] = "promoting"
    OBVIOUS
  <2>2. Holds(job[r], Owner[r])
    BY <2>1, HeldBefore DEF PromotionInv
  <2>3. QED
    BY <2>1, <2>2 DEF PromotionInv, HeldBundle
<1>2. Filling'
  <2>1. \A r \in Runs : pc'[r] = "promoting" => pc[r] = "promoting"
    OBVIOUS
  <2>2. QED
    BY <2>1 DEF PromotionInv, Filling
<1>3. Finished'
  <2>1. \A r \in Runs : pc[r] \notin Writing => pc'[r] \notin Writing
    OBVIOUS
  <2>2. QED
    BY <2>1 DEF PromotionInv, Finished, Published
<1>4. QED
  BY <1>1, <1>2, <1>3 DEF PromotionInv

\* A claim of a job.
LEMMA StartKeeps ==
    ASSUME OneRunPerOwner', PromotionInv, TypeInv', IInv', NEW r \in Runs, NEW j \in Jobs,
           StartRun(r, j)
    PROVE  PromotionInv'
<1> USE DEF store, index
<1>1. /\ pc[r] = "new" /\ pc' = [pc EXCEPT ![r] = "converting"]
      /\ job' = [job EXCEPT ![r] = j]
      /\ UNCHANGED <<file, served, prefix, manifest, bundles>>
  BY DEF StartRun, Goto, Claim
<1>2. /\ jobs'[j].lease_owner = Owner[r]
      /\ \A k \in Jobs : k # j => jobs'[k] = jobs[k]
  BY DEF StartRun, Claim, SetRow, Claimed, PromotionInv, TypeInv, PromotionTypeOK, TypeOK,
         Row
<1>3. pc \in [Runs -> Labels] /\ job \in [Runs -> Jobs \cup {NoJob}]
  BY DEF PromotionInv, TypeInv, PromotionTypeOK
<1>4. HeldBundle'
  <2> SUFFICES ASSUME NEW s \in Runs, pc'[s] = "promoting", Holds(job[s], Owner[s])'
               PROVE  bundles'[job'[s]] = "promoting" /\ prefix'[job'[s]] = s
    BY DEF HeldBundle
  <2>1. s # r /\ pc[s] = "promoting" /\ job'[s] = job[s] /\ job[s] \in Jobs
    BY <1>1, <1>3 DEF PromotionInv, TypeInv, Started
  <2>2. job[s] # j
    BY <1>1, <1>2, <1>3, <2>1 DEF Holds, OneRunPerOwner, Busy
  <2>3. Holds(job[s], Owner[s])
    BY <1>2, <2>1, <2>2 DEF Holds
  <2>4. QED
    BY <1>1, <2>1, <2>3 DEF PromotionInv, HeldBundle
<1>5. Filling' /\ Finished'
  <2>1. \A s \in Runs : pc'[s] = "promoting" => pc[s] = "promoting"
    BY <1>1, <1>3
  <2>2. \A s \in Runs : pc[s] \notin Writing => pc'[s] \notin Writing
    BY <1>1, <1>3 DEF Writing
  <2>3. QED
    BY <1>1, <2>1, <2>2 DEF PromotionInv, Filling, Finished, Published
<1>6. QED
  BY <1>4, <1>5 DEF PromotionInv

\* The claim of the bundle, by the only run that holds the job.
LEMMA ClaimBundleKeeps ==
    ASSUME OneRunPerOwner, PromotionInv, TypeInv', IInv', NEW r \in Runs, ClaimBundle(r)
    PROVE  PromotionInv'
<1> USE DEF store, index, PublishedPrefix
<1> DEFINE j == job[r]
<1>1. j \in Jobs /\ pc[r] = "uploading" /\ Holds(j, Owner[r]) /\ ~Published(j)
  BY DEF ClaimBundle, ClaimForPublish, Published, PromotionInv, TypeInv, Started
<1>2. /\ bundles' = [bundles EXCEPT ![j] = "promoting"]
      /\ prefix' = [prefix EXCEPT ![j] = r]
      /\ file' = [file EXCEPT ![r] = 1]
      /\ UNCHANGED <<jobs, job, served, manifest>>
  BY DEF ClaimBundle, ClaimForPublish
<1>3. /\ pc \in [Runs -> Labels] /\ bundles \in [Jobs -> {"none", "promoting", "published"}]
      /\ prefix \in [Jobs -> Content] /\ file \in [Runs -> 1..(FileCount + 1)]
  BY DEF PromotionInv, TypeInv, PromotionTypeOK, TypeOK
<1>4. PICK label \in {"promoting", "failing"} : pc' = [pc EXCEPT ![r] = label]
  BY DEF ClaimBundle, Goto
<1>5. HeldBundle'
  <2> SUFFICES ASSUME NEW s \in Runs, pc'[s] = "promoting", Holds(job[s], Owner[s])
               PROVE  bundles'[job[s]] = "promoting" /\ prefix'[job[s]] = s
    BY <1>2 DEF HeldBundle, Holds
  <2>1. CASE s = r
    BY <1>1, <1>2, <1>3, <2>1
  <2>2. CASE s # r
    <3>1. pc[s] = "promoting" /\ job[s] \in Jobs
      BY <1>3, <1>4, <2>2 DEF PromotionInv, TypeInv, Started
    <3>2. job[s] # j
      BY <1>1, <2>2, <3>1, OneHolder DEF Busy
    <3>3. QED
      BY <1>2, <1>3, <3>1, <3>2 DEF PromotionInv, HeldBundle
  <2>3. QED
    BY <2>1, <2>2
<1>6. Filling'
  <2> SUFFICES ASSUME NEW s \in Runs, pc'[s] = "promoting",
                      NEW f \in Files, f < file'[s]
               PROVE  served[s][f] # NoRun
    BY <1>2 DEF Filling
  <2>1. s # r
    BY <1>2, <1>3 DEF Files
  <2>2. pc[s] = "promoting" /\ file'[s] = file[s]
    BY <1>2, <1>3, <1>4, <2>1
  <2>3. QED
    BY <2>2 DEF PromotionInv, Filling
<1>7. Finished'
  <2> SUFFICES ASSUME NEW k \in Jobs, bundles'[k] = "published"
               PROVE  /\ prefix'[k] \in Runs /\ manifest[k] = prefix'[k]
                      /\ pc'[prefix'[k]] \notin Writing
                      /\ \A f \in Files : served[prefix'[k]][f] # NoRun
    BY <1>2 DEF Finished, Published
  <2>1. k # j /\ Published(k) /\ prefix'[k] = prefix[k]
    BY <1>1, <1>2, <1>3 DEF Published
  <2>2. prefix[k] \in Runs /\ pc[prefix[k]] \notin Writing /\ manifest[k] = prefix[k]
        /\ \A f \in Files : served[prefix[k]][f] # NoRun
    BY <2>1 DEF PromotionInv, Finished
  <2>3. prefix[k] # r
    BY <1>1, <2>2 DEF Writing
  <2>4. QED
    BY <1>3, <1>4, <2>1, <2>2, <2>3
<1>8. QED
  BY <1>5, <1>6, <1>7 DEF PromotionInv

\* A copy below the prefix of the run, which is not that of a published bundle.
LEMMA CopyKeeps ==
    ASSUME PromotionInv, TypeInv', IInv', NEW r \in Runs, Copy(r)
    PROVE  PromotionInv'
<1> USE DEF store, index, PublishedPrefix, vars
<1>1. /\ pc[r] = "promoting" /\ file[r] \in Files
      /\ tmp[Temp(r)][file[r]] # NoRun
      /\ served' = [served EXCEPT ![r][file[r]] = tmp[Temp(r)][file[r]]]
      /\ file' = [file EXCEPT ![r] = @ + 1]
      /\ UNCHANGED <<jobs, outbox, bundles, pc, job, prefix, manifest>>
  BY DEF Copy
<1>2. served \in [Runs -> [Files -> Content]] /\ file \in [Runs -> 1..(FileCount + 1)]
  BY DEF PromotionInv, TypeInv, PromotionTypeOK
<1>3. /\ \A s \in Runs : s # r => served'[s] = served[s] /\ file'[s] = file[s]
      /\ served'[r][file[r]] # NoRun /\ file'[r] = file[r] + 1
      /\ \A f \in Files : f # file[r] => served'[r][f] = served[r][f]
  BY <1>1, <1>2
<1>4. HeldBundle'
  BY <1>1 DEF PromotionInv, HeldBundle, Holds
<1>5. Filling'
  <2> SUFFICES ASSUME NEW s \in Runs, pc[s] = "promoting", NEW f \in Files, f < file'[s]
               PROVE  served'[s][f] # NoRun
    BY <1>1 DEF Filling
  <2>1. CASE s # r
    BY <1>3, <2>1 DEF PromotionInv, Filling
  <2>2. CASE s = r /\ f # file[r]
    <3>1. f < file[r]
      BY <1>1, <1>3, <2>2, FilesAssumption DEF Files
    <3>2. QED
      BY <1>3, <2>2, <3>1 DEF PromotionInv, Filling
  <2>3. QED
    BY <1>3, <2>1, <2>2
<1>6. Finished'
  <2>1. \A j \in Jobs : Published(j) => prefix[j] \in Runs /\ prefix[j] # r
    BY <1>1 DEF PromotionInv, Finished, Writing
  <2>2. QED
    BY <1>1, <1>3, <2>1 DEF PromotionInv, Finished, Published
<1>7. QED
  BY <1>4, <1>5, <1>6 DEF PromotionInv

\* The publication: the holder finds its own prefix in the row, filled.
LEMMA PublishRunKeeps ==
    ASSUME OneRunPerOwner, PromotionInv, TypeInv', IInv', NEW r \in Runs, PublishRun(r),
           KeepHolders
    PROVE  PromotionInv'
<1> USE DEF store, index
<1> DEFINE j == job[r]
<1>1. j \in Jobs /\ pc[r] = "promoting" /\ Holds(j, Owner[r]) /\ file[r] \notin Files
  BY DEF PublishRun, Publish, PromotionInv, TypeInv, Started
<1>2. /\ bundles' = [bundles EXCEPT ![j] = "published"]
      /\ manifest' = [manifest EXCEPT ![j] = r]
      /\ UNCHANGED <<job, file, served, prefix>>
  BY DEF PublishRun, Publish
<1>3. /\ pc \in [Runs -> Labels] /\ bundles \in [Jobs -> {"none", "promoting", "published"}]
      /\ manifest \in [Jobs -> Content] /\ file \in [Runs -> 1..(FileCount + 1)]
  BY DEF PromotionInv, TypeInv, PromotionTypeOK, TypeOK
<1>4. PICK label \in {"cleaning", "undoing"} : pc' = [pc EXCEPT ![r] = label]
  BY DEF PublishRun, Goto
<1>5. prefix[j] = r
  BY <1>1 DEF PromotionInv, HeldBundle
<1>6. \A f \in Files : served[r][f] # NoRun
  <2>1. \A f \in Files : f < file[r]
    BY <1>1, <1>3, FilesAssumption DEF Files
  <2>2. QED
    BY <1>1, <2>1 DEF PromotionInv, Filling
<1>7. \A s \in Runs : pc'[s] = "promoting" => s # r /\ pc[s] = "promoting"
  BY <1>3, <1>4
<1>8. HeldBundle'
  <2> SUFFICES ASSUME NEW s \in Runs, pc'[s] = "promoting", Holds(job[s], Owner[s])'
               PROVE  bundles'[job[s]] = "promoting" /\ prefix[job[s]] = s
    BY <1>2 DEF HeldBundle
  <2>1. s # r /\ pc[s] = "promoting" /\ job[s] \in Jobs
    BY <1>7 DEF PromotionInv, TypeInv, Started
  <2>2. Holds(job[s], Owner[s])
    BY <1>2, <2>1, HeldBefore DEF PromotionInv
  <2>3. job[s] # j
    BY <1>1, <2>1, <2>2, OneHolder DEF Busy
  <2>4. QED
    BY <1>2, <1>3, <2>1, <2>2, <2>3 DEF PromotionInv, HeldBundle
<1>9. Filling'
  BY <1>2, <1>7 DEF PromotionInv, Filling
<1>10. Finished'
  <2> SUFFICES ASSUME NEW k \in Jobs, bundles'[k] = "published"
               PROVE  /\ prefix[k] \in Runs /\ manifest'[k] = prefix[k]
                      /\ pc'[prefix[k]] \notin Writing
                      /\ \A f \in Files : served[prefix[k]][f] # NoRun
    BY <1>2 DEF Finished, Published
  <2>1. CASE k = j
    BY <1>2, <1>3, <1>4, <1>5, <1>6, <2>1 DEF Writing
  <2>2. CASE k # j
    <3>1. Published(k) /\ manifest'[k] = manifest[k]
      BY <1>2, <1>3, <2>2 DEF Published
    <3>2. prefix[k] \in Runs /\ pc[prefix[k]] \notin Writing /\ manifest[k] = prefix[k]
          /\ \A f \in Files : served[prefix[k]][f] # NoRun
      BY <3>1 DEF PromotionInv, Finished
    <3>3. QED
      BY <1>3, <1>4, <3>1, <3>2 DEF Writing
  <2>3. QED
    BY <2>1, <2>2
<1>11. QED
  BY <1>8, <1>9, <1>10 DEF PromotionInv

\* Only an unfinished bundle is deleted, and by the run that holds its job: nobody
\* else can be promoting it.
LEMMA UndoClaimKeeps ==
    ASSUME OneRunPerOwner, PromotionInv, TypeInv', IInv', NEW r \in Runs, UndoClaim(r),
           KeepHolders
    PROVE  PromotionInv'
<1> USE DEF store, index
<1>1. PICK label \in {"failing", "rejecting"} : pc' = [pc EXCEPT ![r] = label]
  BY DEF UndoClaim, Goto
<1>2. pc[r] \in {"undoing", "undoing-permanent"} /\ pc \in [Runs -> Labels]
  BY DEF UndoClaim, PromotionInv, TypeInv, PromotionTypeOK
<1>3. \A s \in Runs : \/ pc'[s] = pc[s]
                      \/ pc[s] # "new" /\ pc'[s] \notin {"new", "promoting"}
                         /\ pc'[s] \notin Writing
  BY <1>1, <1>2 DEF Writing
<1>4. CASE UNCHANGED <<vars, prefix>>
  BY <1>3, <1>4, QuietKeeps DEF UndoClaim, vars
<1>5. CASE DeleteClaim(job[r], Owner[r]) /\ prefix' = [prefix EXCEPT ![job[r]] = NoRun]
  <2> DEFINE j == job[r]
  <2>1. j \in Jobs /\ bundles[j] = "promoting" /\ Holds(j, Owner[r])
    BY <1>2, <1>5 DEF DeleteClaim, PromotionInv, TypeInv, Started
  <2>2. /\ bundles' = [bundles EXCEPT ![j] = "none"]
        /\ UNCHANGED <<jobs, job, file, served, manifest>>
    BY <1>5 DEF UndoClaim, DeleteClaim
  <2>3. /\ bundles \in [Jobs -> {"none", "promoting", "published"}]
        /\ prefix \in [Jobs -> Content]
    BY DEF PromotionInv, TypeInv, PromotionTypeOK, TypeOK
  <2>4. HeldBundle'
    <3> SUFFICES ASSUME NEW s \in Runs, pc'[s] = "promoting", Holds(job[s], Owner[s])
                 PROVE  bundles'[job[s]] = "promoting" /\ prefix'[job[s]] = s
      BY <2>2 DEF HeldBundle, Holds
    <3>1. pc[s] = "promoting" /\ s # r /\ job[s] \in Jobs
      BY <1>2, <1>3 DEF PromotionInv, TypeInv, Started
    <3>2. job[s] # j
      BY <1>2, <2>1, <3>1, OneHolder DEF Busy
    <3>3. QED
      BY <1>5, <2>2, <2>3, <3>1, <3>2 DEF PromotionInv, HeldBundle
  <2>5. Filling'
    BY <1>3, <2>2 DEF PromotionInv, Filling
  <2>6. Finished'
    <3> SUFFICES ASSUME NEW k \in Jobs, bundles'[k] = "published"
                 PROVE  /\ prefix'[k] \in Runs /\ manifest[k] = prefix'[k]
                        /\ pc'[prefix'[k]] \notin Writing
                        /\ \A f \in Files : served[prefix'[k]][f] # NoRun
      BY <2>2 DEF Finished, Published
    <3>1. Published(k) /\ prefix'[k] = prefix[k]
      BY <1>5, <2>1, <2>2, <2>3 DEF Published
    <3>2. prefix[k] \in Runs /\ pc[prefix[k]] \notin Writing /\ manifest[k] = prefix[k]
          /\ \A f \in Files : served[prefix[k]][f] # NoRun
      BY <3>1 DEF PromotionInv, Finished
    <3>3. QED
      BY <1>3, <3>1, <3>2
  <2>7. QED
    BY <2>4, <2>5, <2>6 DEF PromotionInv
<1>6. QED
  BY <1>4, <1>5 DEF UndoClaim

\* A run that only moves on, or ends.
LEMMA MoveOn ==
    ASSUME TypeInv, NEW r \in Runs, pc[r] # "new",
           NEW label \in Labels \ {"new", "promoting"}, Goto(r, label),
           label \in Writing => pc[r] \in Writing
    PROVE  \A s \in Runs : \/ pc'[s] = pc[s]
                           \/ pc[s] # "new" /\ pc'[s] \notin {"new", "promoting"}
                              /\ (pc'[s] \in Writing => pc[s] \in Writing)
  BY DEF TypeInv, PromotionTypeOK, Goto

\* The steps of a run.
LEMMA RunKeeps ==
    ASSUME OneRunPerOwner, OneRunPerOwner', PromotionInv, TypeInv', IInv', NEW r \in Runs,
           RunStep(r)
    PROVE  PromotionInv'
<1>1. ASSUME NEW j \in Jobs, StartRun(r, j) PROVE PromotionInv'
  BY <1>1, StartKeeps
<1>2. CASE ClaimBundle(r)
  BY <1>2, ClaimBundleKeeps
<1>3. CASE Copy(r)
  BY <1>3, CopyKeeps
<1>4. CASE PublishRun(r)
  BY <1>4, RunHolders, PublishRunKeeps DEF PublishRun, PromotionInv
<1>5. CASE UndoClaim(r)
  BY <1>5, RunHolders, UndoClaimKeeps DEF UndoClaim, PromotionInv
<1> USE DEF vars, store, index, locals
<1>6. ASSUME KeepHolders, UNCHANGED <<job, file, served, index, bundles>>, pc[r] # "new",
             NEW label \in Labels \ {"new", "promoting"}, Goto(r, label),
             label \in Writing => pc[r] \in Writing
      PROVE  PromotionInv'
  BY <1>6, MoveOn, QuietKeeps DEF PromotionInv
<1>7. CASE Upload(r)
  <2>1. KeepHolders
    BY <1>7, RunHolders DEF Upload, PromotionInv
  <2>2. HeldBundle' /\ Finished'
    BY <1>7 DEF Upload, PromotionInv, HeldBundle, Finished, Holds, Published
  <2>3. Filling'
    <3>1. \A s \in Runs : pc[s] = "promoting" => file'[s] = file[s]
      BY <1>7 DEF Upload, PromotionInv, TypeInv, PromotionTypeOK
    <3>2. QED
      BY <1>7, <3>1 DEF Upload, PromotionInv, Filling
  <2>4. QED
    BY <2>2, <2>3 DEF PromotionInv
<1>8. CASE Renew(r) \/ \E f \in Files : RemoveTemp(r, f)
  <2>1. CASE Renew(r)
    BY <2>1, RunHolders, QuietKeeps DEF Renew, RenewLease, PromotionInv
  <2>2. ASSUME NEW f \in Files, RemoveTemp(r, f) PROVE PromotionInv'
    BY <2>2, RunHolders, QuietKeeps DEF RemoveTemp, PromotionInv, RunStep
  <2>3. QED
    BY <1>8, <2>1, <2>2
<1>9. CASE ConvertRun(r)
  BY <1>6, <1>9, RunHolders DEF ConvertRun, Labels, Writing, PromotionInv
<1>10. CASE Outbid(r)
  BY <1>6, <1>10, RunHolders DEF Outbid, Labels, Writing, PromotionInv
<1>11. CASE CopyMissing(r)
  BY <1>6, <1>11, RunHolders DEF CopyMissing, Labels, Writing, PromotionInv
<1>12. CASE CallFails(r)
  BY <1>6, <1>12, RunHolders DEF CallFails, Labels, Writing, PromotionInv
<1>13. CASE PublishRefused(r)
  BY <1>6, <1>13, RunHolders DEF PublishRefused, Labels, Writing, PromotionInv
<1>14. CASE ListTemp(r)
  BY <1>6, <1>14, RunHolders DEF ListTemp, Labels, Writing, PromotionInv
<1>15. CASE StopRun(r)
  BY <1>6, <1>15, RunHolders DEF StopRun, Labels, Writing, PromotionInv
<1>16. CASE EndRun(r)
  <2>1. pc[r] # "new" /\ UNCHANGED bundles
    BY <1>16 DEF EndRun, ScheduleRetry, MarkDeadWithOutbox, MarkFailed, FinishCanceled
  <2>2. QED
    BY <1>6, <1>16, <2>1, RunHolders DEF EndRun, Labels, Writing, PromotionInv
<1>17. QED
  BY <1>1, <1>2, <1>3, <1>4, <1>5, <1>7, <1>8, <1>9, <1>10, <1>11, <1>12, <1>13, <1>14,
     <1>15, <1>16
  DEF RunStep

\* All steps.
LEMMA PromotionInvStep ==
    ASSUME OneRunPerOwner, OneRunPerOwner', PromotionInv, [PromotionNext]_promotionVars
    PROVE  PromotionInv'
<1>1. TypeInv' /\ IInv'
  BY PromotionTypeStep, PromotionTables, InvStep DEF PromotionInv
<1>2. CASE Meanwhile
  <2>1. KeepHolders
    BY <1>2, MeanwhileHolders DEF PromotionInv, TypeInv, PromotionTypeOK
  <2>2. UNCHANGED bundles
    BY <1>2 DEF Meanwhile, CreateWithDocument, RequestCancelRunning, ReclaimExpiredLeases,
                CancelExpiredLeases, ClockStep, LeaseExpires, LeaseOverdue, BecomesAvailable
  <2>3. QED
    BY <1>1, <1>2, <2>1, <2>2, QuietKeeps DEF Meanwhile, locals, store, index
<1>3. CASE UNCHANGED promotionVars
  <2>1. UNCHANGED <<jobs, bundles, job, pc, file, served, prefix, manifest>>
    BY <1>3 DEF promotionVars, vars, locals, store, index
  <2>2. QED
    BY <1>1, <2>1
    DEF PromotionInv, HeldBundle, Filling, Finished, Holds, Published
<1>4. QED
  BY <1>1, <1>2, <1>3, RunKeeps DEF PromotionNext

\* Nothing is promoted at the start.
LEMMA PromotionInvInit == PromotionInit => PromotionInv
<1> SUFFICES ASSUME PromotionInit PROVE PromotionInv
  OBVIOUS
<1>1. TypeInv /\ IInv
  BY PromotionTypeInit
<1>2. HeldBundle /\ Filling /\ Finished
  BY DEF PromotionInit, Init, HeldBundle, Filling, Finished, Published
<1>3. QED
  BY <1>1, <1>2 DEF PromotionInv

\* The invariant of the promotion.
THEOREM PromotionInvariant == PromotionSpec /\ []OneRunPerOwner => []PromotionInv
  BY PromotionInvInit, PromotionInvStep, PTL DEF PromotionSpec

---------------------------------------------------------------------------
(* What users read *)

\* With one slot per worker, every file of a published bundle is there.
THEOREM PublishedCompleteHolds ==
    PromotionSpec /\ []OneRunPerOwner => []PublishedComplete
<1>1. PromotionInv => PublishedComplete
  BY RunsAssumption DEF PromotionInv, Finished, PublishedComplete
<1>2. QED
  BY <1>1, PromotionInvariant, PTL

\* Its manifest is that of the run whose prefix is served.
THEOREM ManifestOfServedRunHolds ==
    PromotionSpec /\ []OneRunPerOwner => []ManifestOfServedRun
<1>1. PromotionInv => ManifestOfServedRun
  BY DEF PromotionInv, Finished, ManifestOfServedRun
<1>2. QED
  BY <1>1, PromotionInvariant, PTL

\* And no run that comes late moves it or writes below its prefix.
THEOREM PublishedFrozenHolds ==
    PromotionSpec /\ []OneRunPerOwner => PublishedFrozen
<1> DEFINE Frozen(j) == Published(j) =>
      /\ prefix'[j] = prefix[j] /\ manifest'[j] = manifest[j]
      /\ served'[prefix[j]] = served[prefix[j]]
<1>1. ASSUME PromotionInv, PromotionNext, NEW j \in Jobs PROVE Frozen(j)
  <2> SUFFICES ASSUME Published(j)
               PROVE  /\ prefix'[j] = prefix[j] /\ manifest'[j] = manifest[j]
                      /\ served'[prefix[j]] = served[prefix[j]]
    OBVIOUS
  <2>1. prefix[j] \in Runs /\ pc[prefix[j]] # "promoting"
    BY <1>1 DEF PromotionInv, Finished, Writing
  <2>2. /\ prefix \in [Jobs -> Content] /\ manifest \in [Jobs -> Content]
        /\ served \in [Runs -> [Files -> Content]]
    BY <1>1 DEF PromotionInv, TypeInv, PromotionTypeOK
  <2> USE DEF store, index
  <2>3. CASE UNCHANGED <<served, prefix, manifest>>
    BY <2>3
  <2>4. ASSUME NEW r \in Runs, ClaimBundle(r) PROVE Frozen(j)
    <3>1. job[r] # j
      BY <2>4 DEF ClaimBundle, ClaimForPublish, Published
    <3>2. QED
      BY <2>2, <2>4, <3>1 DEF ClaimBundle
  <2>5. ASSUME NEW r \in Runs, Copy(r) PROVE Frozen(j)
    <3>1. prefix[j] # r
      BY <2>1, <2>5 DEF Copy
    <3>2. QED
      BY <2>1, <2>2, <2>5, <3>1 DEF Copy, PublishedPrefix
  <2>6. ASSUME NEW r \in Runs, PublishRun(r) PROVE Frozen(j)
    <3>1. job[r] # j
      BY <2>6 DEF PublishRun, Publish, Published
    <3>2. QED
      BY <2>2, <2>6, <3>1 DEF PublishRun
  <2>7. ASSUME NEW r \in Runs, UndoClaim(r) PROVE Frozen(j)
    <3>1. prefix' = prefix \/ job[r] # j
      BY <2>7 DEF UndoClaim, DeleteClaim, Published
    <3>2. QED
      BY <2>2, <2>7, <3>1 DEF UndoClaim
  <2>8. QED
    BY <1>1, <2>3, <2>4, <2>5, <2>6, <2>7
    DEF PromotionNext, RunStep, Meanwhile, StartRun, ConvertRun, Upload, Outbid, CopyMissing,
        CallFails, PublishRefused, ListTemp, RemoveTemp, EndRun, StopRun, Renew
<1>2. PromotionInv /\ [PromotionNext]_promotionVars
        => [\A j \in Jobs : Frozen(j)]_promotionVars
  BY <1>1
<1>3. QED
  BY <1>2, PromotionInvariant, PTL DEF PromotionSpec, PublishedFrozen
=============================================================================
