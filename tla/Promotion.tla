---------------------------- MODULE Promotion -----------------------------
(***************************************************************************)
(* How a converted bundle reaches the prefix that users read: the function *)
(* publish of internal/app/convert/convert.go, over the rows of            *)
(* JobLifecycle and the object store.                                      *)
(*                                                                         *)
(* A run is one execution of process: one successful Claim and what        *)
(* follows.  Two runs of a job overlap when the lease of the first one     *)
(* expires, and nothing stops the first: the signal of renewLease finds no *)
(* receiver.  A run takes one statement or one object at a time.  The      *)
(* objects of a run all have its own content, for log.md names the worker. *)
(* A run draws one promotion identifier, so it stands for it as well.      *)
(***************************************************************************)
EXTENDS JobLifecycle

CONSTANTS Runs,      \* BOUND: executions of process
          Owner,     \* the worker each run executes in
          FileCount, \* BOUND: files of a bundle, in the order of FS.Files()
          NoRun      \* no object, no prefix, no manifest

ASSUME RunsAssumption == NoRun \notin Runs /\ Owner \in [Runs -> Workers]
ASSUME FilesAssumption == FileCount \in Nat \ {0}

VARIABLES pc,        \* where each run is
          job,       \* the job it claimed
          attempt,   \* and its attempt, as Claim returned it
          file,      \* the next file to upload or copy
          listed,    \* the objects its RemovePrefix still has to remove
          tmp,       \* tmp/<job>/<attempt>/<file>: the run that wrote it
          served,    \* bundles/<owner>/<job>/<promotion>/<file>: likewise
          prefix,    \* bundles.prefix
          manifest   \* bundle_files: the run whose hashes it lists

locals == <<pc, job, attempt, file, listed>>
store == <<tmp, served>>
index == <<prefix, manifest>>
promotionVars == <<vars, locals, store, index>>

Files == 1..FileCount
Content == Runs \cup {NoRun}
TempPrefix == Jobs \X Attempts

PromotionInit ==
    /\ Init
    /\ pc = [r \in Runs |-> "new"]
    /\ job = [r \in Runs |-> NoJob]
    /\ attempt = [r \in Runs |-> 1]
    /\ file = [r \in Runs |-> 1]
    /\ listed = [r \in Runs |-> {}]
    /\ tmp = [t \in TempPrefix |-> [f \in Files |-> NoRun]]
    /\ served = [p \in Runs |-> [f \in Files |-> NoRun]]
    /\ prefix = [j \in Jobs |-> NoRun]
    /\ manifest = [j \in Jobs |-> NoRun]

Goto(r, label) == pc' = [pc EXCEPT ![r] = label]
Temp(r) == <<job[r], attempt[r]>>

\* Seeded fault: the prefix is that of the job, named for the first run.
PublishedPrefixOfJob(r) ==
    IF prefix[job[r]] = NoRun THEN r ELSE prefix[job[r]]

PublishedPrefix(r) == r

---------------------------------------------------------------------------
(* A run up to the claim of the bundle *)

StartRun(r, j) ==
    /\ pc[r] = "new"
    /\ Claim(j, Owner[r])
    /\ Goto(r, "converting")
    /\ job' = [job EXCEPT ![r] = j]
    /\ attempt' = [attempt EXCEPT ![r] = jobs[j].attempt]
    /\ UNCHANGED <<file, listed, store, index>>

\* The report is publishable: upload to the temporary prefix.
ConvertRun(r) ==
    /\ pc[r] = "converting"
    /\ Goto(r, "uploading")
    /\ UNCHANGED <<vars, job, attempt, file, listed, store, index>>

\* Seeded fault: the loop goes past the last file.
UploadForever(r) ==
    /\ pc[r] = "uploading"
    /\ tmp' = [tmp EXCEPT ![Temp(r)][file[r]] = r]
    /\ file' = [file EXCEPT ![r] = @ + 1]
    /\ UNCHANGED <<vars, pc, job, attempt, listed, served, index>>

Upload(r) ==
    /\ pc[r] = "uploading" /\ file[r] \in Files
    /\ tmp' = [tmp EXCEPT ![Temp(r)][file[r]] = r]
    /\ file' = [file EXCEPT ![r] = @ + 1]
    /\ UNCHANGED <<vars, pc, job, attempt, listed, served, index>>

\* Done; or done, and its answer is lost.
ClaimBundle(r) ==
    /\ pc[r] = "uploading" /\ file[r] \notin Files
    /\ ClaimForPublish(job[r], Owner[r])
    /\ prefix' = [prefix EXCEPT ![job[r]] = PublishedPrefix(r)]
    /\ file' = [file EXCEPT ![r] = 1]
    /\ \E label \in {"promoting", "failing"} : Goto(r, label)
    /\ UNCHANGED <<job, attempt, listed, store, manifest>>

\* claimed = false: a cancellation is closed; else somebody else got the job, and
\* the temporary objects are removed.
Outbid(r) ==
    /\ pc[r] = "uploading" /\ file[r] \notin Files
    /\ ~(Holds(job[r], Owner[r]) /\ bundles[job[r]] # "published")
    /\ Goto(r, IF jobs[job[r]].cancel_requested THEN "closing" ELSE "cleaning")
    /\ UNCHANGED <<vars, job, attempt, file, listed, store, index>>

---------------------------------------------------------------------------
(* The promotion *)

\* A server side copy of whatever the temporary prefix holds by now.
Copy(r) ==
    /\ pc[r] = "promoting" /\ file[r] \in Files
    /\ tmp[Temp(r)][file[r]] # NoRun
    /\ served' = [served EXCEPT ![PublishedPrefix(r)][file[r]] = tmp[Temp(r)][file[r]]]
    /\ file' = [file EXCEPT ![r] = @ + 1]
    /\ UNCHANGED <<vars, pc, job, attempt, listed, tmp, index>>

\* Seeded fault: a missing object is skipped.
CopySkipsMissing(r) ==
    /\ pc[r] = "promoting" /\ file[r] \in Files
    /\ tmp[Temp(r)][file[r]] = NoRun
    /\ file' = [file EXCEPT ![r] = @ + 1]
    /\ UNCHANGED <<vars, pc, job, attempt, listed, store, index>>

\* Copy answers NoSuchKey, which Classify takes for a permanent fault.
CopyMissing(r) ==
    /\ pc[r] = "promoting" /\ file[r] \in Files
    /\ tmp[Temp(r)][file[r]] = NoRun
    /\ Goto(r, "undoing-permanent")
    /\ UNCHANGED <<vars, job, attempt, file, listed, store, index>>

\* An upload, the claim of the bundle or FinishCanceled fails, or a copy for some
\* other reason.
CallFails(r) ==
    /\ pc[r] \in {"uploading", "closing", "promoting"}
    /\ Goto(r, IF pc[r] = "promoting" THEN "undoing" ELSE "failing")
    /\ UNCHANGED <<vars, job, attempt, file, listed, store, index>>

\* The manifest is computed from the run's own memory, not from the objects.  A
\* commit whose answer is lost is undone, or would be.
PublishRun(r) ==
    /\ pc[r] = "promoting" /\ file[r] \notin Files
    /\ Publish(job[r], Owner[r])
    /\ manifest' = [manifest EXCEPT ![job[r]] = r]
    /\ \E label \in {"cleaning", "undoing"} : Goto(r, label)
    /\ UNCHANGED <<job, attempt, file, listed, store, prefix>>

PublishRefused(r) ==
    /\ pc[r] = "promoting" /\ file[r] \notin Files
    /\ ~(Holds(job[r], Owner[r]) /\ bundles[job[r]] = "promoting")
    /\ Goto(r, "undoing")
    /\ UNCHANGED <<vars, job, attempt, file, listed, store, index>>

\* DeleteClaim deletes the row, prefix included, affects no row, or fails, which is not
\* looked at.
UndoClaim(r) ==
    /\ pc[r] \in {"undoing", "undoing-permanent"}
    /\ Goto(r, IF pc[r] = "undoing" THEN "failing" ELSE "rejecting")
    /\ \/ /\ DeleteClaim(job[r], Owner[r])
          /\ prefix' = [prefix EXCEPT ![job[r]] = NoRun]
       \/ UNCHANGED <<vars, prefix>>
    /\ UNCHANGED <<job, attempt, file, listed, store, manifest>>

\* RemovePrefix lists the prefix, then removes one object at a time.
ListTemp(r) ==
    /\ pc[r] = "cleaning"
    /\ listed' = [listed EXCEPT ![r] = {f \in Files : tmp[Temp(r)][f] # NoRun}]
    /\ Goto(r, "removing")
    /\ UNCHANGED <<vars, job, attempt, file, store, index>>

RemoveTemp(r, f) ==
    /\ pc[r] = "removing" /\ f \in listed[r]
    /\ tmp' = [tmp EXCEPT ![Temp(r)][f] = NoRun]
    /\ listed' = [listed EXCEPT ![r] = @ \ {f}]
    /\ UNCHANGED <<vars, pc, job, attempt, file, served, index>>

---------------------------------------------------------------------------
(* The end of a run *)

\* The statement that ends it, if it affects a row.
EndRun(r) ==
    LET j == job[r]
        w == Owner[r]
    IN /\ \/ pc[r] = "failing" /\ ScheduleRetry(j, w)
          \/ pc[r] = "failing" /\ jobs[j].attempt >= MaxAttempts /\ MarkDeadWithOutbox(j, w)
          \/ pc[r] = "rejecting" /\ MarkFailed(j, w)
          \/ pc[r] \in {"failing", "rejecting", "closing"} /\ FinishCanceled(j, w)
       /\ Goto(r, "done")
       /\ UNCHANGED <<job, attempt, file, listed, store, index>>

\* It affects none or cannot be made, the clean-up is over, or the process dies:
\* what is left of the run is what it wrote.
StopRun(r) ==
    /\ pc[r] \notin {"new", "done"}
    /\ Goto(r, "done")
    /\ UNCHANGED <<vars, job, attempt, file, listed, store, index>>

\* renewLease, which goes on while the run does.
Renew(r) ==
    /\ pc[r] \notin {"new", "done"}
    /\ RenewLease(job[r], Owner[r])
    /\ UNCHANGED <<locals, store, index>>

RunStep(r) ==
    \/ \E j \in Jobs : StartRun(r, j)
    \/ ConvertRun(r)
    \/ Upload(r)
    \/ ClaimBundle(r)
    \/ Outbid(r)
    \/ Copy(r)
    \/ CopyMissing(r)
    \/ CallFails(r)
    \/ PublishRun(r)
    \/ PublishRefused(r)
    \/ UndoClaim(r)
    \/ ListTemp(r)
    \/ \E f \in Files : RemoveTemp(r, f)
    \/ EndRun(r)
    \/ StopRun(r)
    \/ Renew(r)

\* What else happens to the rows meanwhile.
Meanwhile ==
    /\ \/ \E j \in Uploads : CreateWithDocument(j)
       \/ \E j \in Jobs : RequestCancelRunning(j)
       \/ \E S \in SUBSET Jobs : ReclaimExpiredLeases(S) \/ CancelExpiredLeases(S)
       \/ ClockStep
    /\ UNCHANGED <<locals, store, index>>

PromotionNext == Meanwhile \/ \E r \in Runs : RunStep(r)

PromotionSpec == PromotionInit /\ [][PromotionNext]_promotionVars

---------------------------------------------------------------------------
(* Correctness *)

Labels == {"new", "converting", "uploading", "promoting", "undoing", "undoing-permanent",
           "failing", "rejecting", "closing", "cleaning", "removing", "done"}

PromotionTypeOK ==
    /\ TypeOK
    /\ pc \in [Runs -> Labels]
    /\ job \in [Runs -> Jobs \cup {NoJob}]
    /\ attempt \in [Runs -> Attempts]
    /\ file \in [Runs -> 1..(FileCount + 1)]
    /\ listed \in [Runs -> SUBSET Files]
    /\ tmp \in [TempPrefix -> [Files -> Content]]
    /\ served \in [Runs -> [Files -> Content]]
    /\ prefix \in [Jobs -> Content]
    /\ manifest \in [Jobs -> Content]

Published(j) == bundles[j] = "published"

\* Every file that the manifest of a published bundle lists can be read, however
\* many stale runs uploaded, cleaned and promoted at the same time.
PublishedComplete ==
    \A j \in Jobs : Published(j) =>
        /\ prefix[j] # NoRun
        /\ \A f \in Files : served[prefix[j]][f] # NoRun

\* The manifest of a published bundle was written by the run that filled the
\* prefix it is served from.
ManifestOfServedRun == \A j \in Jobs : Published(j) => manifest[j] = prefix[j]

\* From its publication on, nobody moves or overwrites what users read.
PublishedFrozen ==
    [][\A j \in Jobs : Published(j) =>
         /\ prefix'[j] = prefix[j] /\ manifest'[j] = manifest[j]
         /\ served'[prefix[j]] = served[prefix[j]]]_promotionVars

\* Concurrent claims of a job do not tread on each other's temporary objects: what
\* is served is what the manifest describes, not a mixture of two runs.
MatchesManifest ==
    \A j \in Jobs : Published(j) =>
        \A f \in Files : served[prefix[j]][f] = manifest[j]
===========================================================================
