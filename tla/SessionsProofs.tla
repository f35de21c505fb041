--------------------------- MODULE SessionsProofs ---------------------------
(***************************************************************************)
(* What the sessions of Sessions keep, whatever the number of slots, users, *)
(* downloads and sweepers, and whatever breaks between two statements.      *)
(*                                                                         *)
(* The inductive invariant says which rows each session holds at each of    *)
(* its statements, and what it has written to them.  The locks are          *)
(* exclusive, so that what a session knew of a row when it locked it is     *)
(* still so when it commits; each commit is then a legal move of the job    *)
(* and of its bundle (DbMoves), and what the users were told follows.       *)
(***************************************************************************)
EXTENDS Sessions, FiniteSetTheorems, TLAPS

---------------------------------------------------------------------------
(* The inductive invariant *)

JobRows == [status : Statuses, lease_owner : Workers \cup {NoWorker},
            cancel_requested : BOOLEAN, attempt : 1..MaxAttempts]
BundleRows == {"absent", "promoting", "published"}
TicketRows == [issued : BOOLEAN, expired : BOOLEAN, uses : 0..MaxUses]
ChildRows == Statuses \cup {"absent"}

Typed(version) ==
    /\ version = [r \in RowNames |-> version[r]]
    /\ version["job"] \in JobRows
    /\ version["bundle"] \in BundleRows
    /\ version["ticket"] \in TicketRows
    /\ \A c \in Clicks : version[c] \in ChildRows

\* The statements before which a session holds the job, and the bundle; the statements of
\* CreateRetry, which only a click sends; and the others, before which it holds no row.
JobLabels == {"insert_bundle", "select_bundle", "commit_claim", "commit_publish", "requeue",
              "commit_requeue", "commit_dead", "insert_child", "commit_child"}
BundleLabels == {"commit_claim", "publish_job", "commit_publish"}
Holding == JobLabels \cup BundleLabels
ClickLabels == {"lock_parent", "insert_child", "commit_child"}
Outside == {"claim", "convert", "touch_job", "publish_bundle", "undo", "delete_claim",
            "undo_broken", "delete_broken", "late_cancel", "lock_job",
            "mark_dead", "mark_failed", "mark_invalid", "finish_cancel", "over",
            "cancel_queued", "cancel_running", "cancel_read", "by_parent",
            "create_ticket", "redeem", "prepare",
            "select_canceling", "select_running", "cancel_expired", "reclaim_expired"}
Labels == Holding \cup ClickLabels \cup Outside

Answers == Statuses \cup {"none", "error", "not_cancelable", "not_retryable", "child", "active",
                         "ticket_invalid", "zip", "broken_zip", "not_found"}

RowsInv == Typed(db) /\ Typed(draft) /\ lock \in [RowNames -> AllSessions \cup {Nobody}]

SessionsInv ==
    /\ at \in [AllSessions -> Labels]
    /\ seen \in [AllSessions -> Statuses \cup {"nothing"}]
    /\ answer \in [AllSessions -> Answers]
    /\ lease \in Lease
    /\ overtaken \in BOOLEAN
    /\ \A s \in AllSessions : at[s] \in ClickLabels => s \in Clicks

\* Who holds which row.
Locks ==
    /\ \A s \in AllSessions : lock["job"] = s <=> at[s] \in JobLabels
    /\ \A s \in AllSessions : lock["bundle"] = s <=> at[s] \in BundleLabels
    /\ lock["ticket"] = Nobody
    /\ \A c \in Clicks : lock[c] = IF at[c] = "commit_child" THEN c ELSE Nobody

Settled == \A r \in RowNames : lock[r] = Nobody => draft[r] = db[r]

\* What a session that holds the job knows of it, or has made of it.
JobDraft(s) ==
    /\ at[s] \in {"insert_bundle", "select_bundle", "commit_claim", "requeue",
                  "insert_child", "commit_child"} => draft["job"] = db["job"]
    /\ at[s] \in {"insert_bundle", "select_bundle"} =>
         db["job"].lease_owner = Owner[s] /\ db["job"].status = "running"
    /\ at[s] \in {"commit_publish", "requeue", "commit_requeue", "commit_dead"} =>
         db["job"].status = "running"
    /\ at[s] = "requeue" => db["job"].attempt < MaxAttempts
    /\ at[s] = "commit_publish" => draft["job"].status = "succeeded"
    /\ at[s] = "commit_requeue" => draft["job"].status = "queued"
    /\ at[s] = "commit_dead" => draft["job"].status = "dead"

\* What a session that holds the bundle has made of it.
BundleDraft(s) ==
    /\ at[s] = "commit_claim" => draft["bundle"] = "promoting" /\ db["bundle"] # "published"
    /\ at[s] \in {"publish_job", "commit_publish"} => draft["bundle"] = "published"

\* An insertion that is not committed is the only one.
ChildDraft(c) == at[c] = "commit_child" => draft[c] = "queued" /\ Children = {}

Drafts ==
    /\ Settled
    /\ \A s \in AllSessions : JobDraft(s) /\ BundleDraft(s)
    /\ \A c \in Clicks : ChildDraft(c)

RowLocks == RowsInv /\ SessionsInv /\ Locks /\ Drafts

\* What the first statement of RequestCancel saw, for the last one.
Reads ==
    /\ \A s \in Cancels : at[s] = "cancel_queued" => answer[s] = "none"
    /\ ~overtaken =>
         \A s \in Cancels : at[s] \in {"cancel_running", "cancel_read"} =>
            /\ seen[s] \in Statuses \ {"queued"}
            /\ seen[s] = "canceling" => Job.status \in {"canceling", "canceled"}
            /\ seen[s] \in Terminal => Job.status = seen[s]

OneChild ==
    /\ \A c, d \in Children : c = d
    /\ \A s \in Clicks : answer[s] \in {"child", "active"} => Children # {}

\* The downloads that have spent a use.
Spent == {s \in Downloads : at[s] = "prepare" \/ answer[s] \in {"zip", "broken_zip", "not_found"}}

UsesInv == IsFiniteSet(Spent) /\ Cardinality(Spent) <= Ticket.uses

AnswersInv == PublishedIsSucceeded /\ Reads /\ CancelIsTrue /\ OneChild /\ UsesInv

SessionsIInv == RowLocks /\ AnswersInv

---------------------------------------------------------------------------
(* The rows *)

LEMMA Names ==
    /\ {"job", "bundle", "ticket"} \subseteq RowNames
    /\ "job" \notin Clicks /\ "bundle" \notin Clicks /\ "ticket" \notin Clicks
    /\ Clicks \subseteq RowNames
    /\ Clicks \subseteq AllSessions /\ Slots \subseteq AllSessions
    /\ Cancels \subseteq AllSessions /\ Downloads \subseteq AllSessions
    /\ Sweepers \subseteq AllSessions
    /\ \A s \in AllSessions : s # Nobody
  BY SessionsAssumption DEF RowNames, AllSessions

\* A job that is closed, or whose status changes, is a job.
LEMMA ClosedIsAJob ==
    ASSUME NEW job \in JobRows, NEW status \in Statuses
    PROVE  /\ Closed(job, status) \in JobRows
           /\ Closed(job, status).status = status
           /\ Closed(job, status).attempt = job.attempt
           /\ [job EXCEPT !.status = status] \in JobRows
           /\ [job EXCEPT !.status = status].status = status
  BY DEF JobRows, Closed

\* One version typed, and the others as they were.
LEMMA ExceptTyped ==
    ASSUME NEW version, Typed(version), NEW r \in RowNames, NEW v,
           r = "job" => v \in JobRows,
           r = "bundle" => v \in BundleRows,
           r = "ticket" => v \in TicketRows,
           r \in Clicks => v \in ChildRows
    PROVE  Typed([version EXCEPT ![r] = v])
  BY Names DEF Typed

\* The sessions that move neither held a row nor hold one now.
Aside == \A t \in AllSessions : at'[t] = at[t] \/ {at[t], at'[t]} \cap Holding = {}

LEMMA RowsUntouched ==
    ASSUME RowLocks, SessionsInv', Aside, UNCHANGED rows
    PROVE  RowLocks'
<1>1. UNCHANGED <<db, draft, lock>>
  BY DEF rows
<1>2. RowsInv'
  BY <1>1 DEF RowLocks, RowsInv, Typed
<1>3. Locks'
  BY <1>1, Names DEF RowLocks, Locks, Aside, Holding, JobLabels, BundleLabels
<1>4. Drafts'
  <2>1. Settled'
    BY <1>1 DEF RowLocks, Drafts, Settled
  <2>2. ASSUME NEW t \in AllSessions PROVE JobDraft(t)' /\ BundleDraft(t)'
    BY <1>1, <2>2 DEF RowLocks, Drafts, JobDraft, BundleDraft, Aside, Holding, JobLabels, BundleLabels
  <2>3. ASSUME NEW c \in Clicks PROVE ChildDraft(c)'
    BY <1>1, <2>3, Names DEF RowLocks, Drafts, ChildDraft, Children, Aside, Holding, JobLabels, BundleLabels
  <2>4. QED BY <2>1, <2>2, <2>3 DEF Drafts
<1>5. QED BY <1>2, <1>3, <1>4 DEF RowLocks

\* A statement that is a transaction of its own finds the row free, so that no session
\* in the middle of a transaction has read it for itself.
LEMMA StoreKeeps ==
    ASSUME RowLocks, SessionsInv', Aside,
           NEW r \in RowNames, NEW v, Store(r, v),
           r = "job" => v \in JobRows,
           r = "bundle" => v \in BundleRows,
           r = "ticket" => v \in TicketRows,
           r \in Clicks => v \in ChildRows /\ r \in Children
    PROVE  RowLocks'
<1>1. /\ lock[r] = Nobody
      /\ lock' = lock
      /\ db' = [db EXCEPT ![r] = v]
      /\ draft' = [draft EXCEPT ![r] = v]
  BY DEF Store
<1>2. RowsInv'
  <2>1. Typed(db') /\ Typed(draft')
    BY <1>1, ExceptTyped DEF RowLocks, RowsInv
  <2>2. QED BY <1>1, <2>1 DEF RowLocks, RowsInv, Typed
<1>3. Locks'
  BY <1>1, Names DEF RowLocks, Locks, Aside, Holding, JobLabels, BundleLabels
<1>4. \A q \in RowNames : q # r => db'[q] = db[q] /\ draft'[q] = draft[q]
  BY <1>1 DEF RowLocks, RowsInv, Typed
<1>5. db'[r] = v /\ draft'[r] = v
  BY <1>1 DEF RowLocks, RowsInv, Typed
<1>6. Settled'
  BY <1>1, <1>4, <1>5 DEF RowLocks, Drafts, Settled
<1>7. ASSUME NEW t \in AllSessions PROVE JobDraft(t)' /\ BundleDraft(t)'
  <2>1. at'[t] \in Holding => at'[t] = at[t]
    BY DEF Aside
  <2>2. at[t] \in JobLabels => r # "job"
    BY <1>1, Names DEF RowLocks, Locks
  <2>3. at[t] \in BundleLabels => r # "bundle"
    BY <1>1, Names DEF RowLocks, Locks
  <2>4. JobDraft(t) /\ BundleDraft(t)
    BY DEF RowLocks, Drafts
  <2>5. at[t] \in JobLabels => db'["job"] = db["job"] /\ draft'["job"] = draft["job"]
    BY <1>4, <2>2, Names
  <2>6. at[t] \in BundleLabels => db'["bundle"] = db["bundle"] /\ draft'["bundle"] = draft["bundle"]
    BY <1>4, <2>3, Names
  <2>7. JobDraft(t)'
    BY <2>1, <2>4, <2>5 DEF JobDraft, Holding, JobLabels
  <2>8. BundleDraft(t)'
    BY <2>1, <2>4, <2>6 DEF BundleDraft, Holding, BundleLabels
  <2>9. QED BY <2>7, <2>8
<1>8. ASSUME NEW c \in Clicks PROVE ChildDraft(c)'
  <2>1. CASE at'[c] = "commit_child"
    <3>1. at[c] = "commit_child"
      BY <2>1, Names DEF Aside, Holding, JobLabels
    <3>2. draft[c] = "queued" /\ Children = {}
      BY <3>1 DEF RowLocks, Drafts, ChildDraft
    <3>3. r \notin Clicks
      BY <3>2
    <3>4. QED BY <1>4, <3>2, <3>3, Names DEF ChildDraft, Children
  <2>2. QED BY <2>1 DEF ChildDraft
<1>9. QED BY <1>2, <1>3, <1>6, <1>7, <1>8 DEF RowLocks, Drafts

\* A session that rolls back leaves the committed versions to the others.
LEMMA RollbackKeeps ==
    ASSUME RowLocks, SessionsInv', NEW s \in AllSessions, NEW label,
           Rollback(s), at' = [at EXCEPT ![s] = label], label \notin Holding
    PROVE  RowLocks'
<1>1. /\ lock' = [r \in RowNames |-> IF lock[r] = s THEN Nobody ELSE lock[r]]
      /\ draft' = [r \in RowNames |-> IF lock[r] = s THEN db[r] ELSE draft[r]]
      /\ db' = db
  BY DEF Rollback, Unlock, RowLocks, RowsInv, Typed
<1>2. RowsInv'
  <2>1. Typed(draft')
    BY <1>1, Names DEF RowLocks, RowsInv, Typed
  <2>2. QED BY <1>1, <2>1 DEF RowLocks, RowsInv, Typed
<1>3. at'[s] = label /\ \A t \in AllSessions : t # s => at'[t] = at[t]
  BY DEF RowLocks, SessionsInv
<1>4. Locks'
  <2>1. \A r \in RowNames : lock'[r] = IF lock[r] = s THEN Nobody ELSE lock[r]
    BY <1>1
  <2>2. \A t \in AllSessions : lock'["job"] = t <=> at'[t] \in JobLabels
    BY <1>3, <2>1, Names DEF RowLocks, Locks, Holding
  <2>3. \A t \in AllSessions : lock'["bundle"] = t <=> at'[t] \in BundleLabels
    BY <1>3, <2>1, Names DEF RowLocks, Locks, Holding
  <2>4. lock'["ticket"] = Nobody
    BY <2>1, Names DEF RowLocks, Locks
  <2>5. \A c \in Clicks : lock'[c] = IF at'[c] = "commit_child" THEN c ELSE Nobody
    BY <1>3, <2>1, Names DEF RowLocks, Locks, Holding, JobLabels
  <2>6. QED BY <2>2, <2>3, <2>4, <2>5 DEF Locks
<1>5. Settled'
  BY <1>1 DEF RowLocks, Drafts, Settled
<1>6. ASSUME NEW t \in AllSessions PROVE JobDraft(t)' /\ BundleDraft(t)'
  <2>1. at'[t] \in Holding => t # s /\ at'[t] = at[t]
    BY <1>3
  <2>2. at'[t] \in JobLabels => draft'["job"] = draft["job"]
    BY <1>1, <2>1, Names DEF RowLocks, Locks, Holding
  <2>3. at'[t] \in BundleLabels => draft'["bundle"] = draft["bundle"]
    BY <1>1, <2>1, Names DEF RowLocks, Locks, Holding
  <2>4. JobDraft(t) /\ BundleDraft(t)
    BY DEF RowLocks, Drafts
  <2>5. JobDraft(t)'
    BY <1>1, <2>1, <2>2, <2>4 DEF JobDraft, Holding, JobLabels
  <2>6. BundleDraft(t)'
    BY <1>1, <2>1, <2>3, <2>4 DEF BundleDraft, Holding, BundleLabels
  <2>7. QED BY <2>5, <2>6
<1>7. ASSUME NEW c \in Clicks PROVE ChildDraft(c)'
  <2>1. CASE at'[c] = "commit_child"
    <3>1. c # s /\ at[c] = "commit_child"
      BY <1>3, <2>1, Names DEF Holding, JobLabels
    <3>2. draft'[c] = draft[c]
      BY <1>1, <3>1, Names DEF RowLocks, Locks
    <3>3. QED BY <1>1, <3>1, <3>2 DEF RowLocks, Drafts, ChildDraft, Children
  <2>2. QED BY <2>1 DEF ChildDraft
<1>8. QED BY <1>2, <1>4, <1>5, <1>6, <1>7 DEF RowLocks, Drafts

\* A session that commits changes what it holds, and no other session holds it.
LEMMA CommitKeeps ==
    ASSUME RowLocks, SessionsInv', NEW s \in AllSessions, NEW label,
           Commit(s), at' = [at EXCEPT ![s] = label], label \notin Holding
    PROVE  RowLocks'
<1>1. /\ lock' = [r \in RowNames |-> IF lock[r] = s THEN Nobody ELSE lock[r]]
      /\ db' = [r \in RowNames |-> IF lock[r] = s THEN draft[r] ELSE db[r]]
      /\ draft' = draft
  BY DEF Commit, Unlock, Sees, RowLocks, RowsInv, Typed
<1>2. RowsInv'
  <2>1. Typed(db')
    BY <1>1, Names DEF RowLocks, RowsInv, Typed
  <2>2. QED BY <1>1, <2>1 DEF RowLocks, RowsInv, Typed
<1>3. at'[s] = label /\ \A t \in AllSessions : t # s => at'[t] = at[t]
  BY DEF RowLocks, SessionsInv
<1>4. Locks'
  <2>1. \A r \in RowNames : lock'[r] = IF lock[r] = s THEN Nobody ELSE lock[r]
    BY <1>1
  <2>2. \A t \in AllSessions : lock'["job"] = t <=> at'[t] \in JobLabels
    BY <1>3, <2>1, Names DEF RowLocks, Locks, Holding
  <2>3. \A t \in AllSessions : lock'["bundle"] = t <=> at'[t] \in BundleLabels
    BY <1>3, <2>1, Names DEF RowLocks, Locks, Holding
  <2>4. lock'["ticket"] = Nobody
    BY <2>1, Names DEF RowLocks, Locks
  <2>5. \A c \in Clicks : lock'[c] = IF at'[c] = "commit_child" THEN c ELSE Nobody
    BY <1>3, <2>1, Names DEF RowLocks, Locks, Holding, JobLabels
  <2>6. QED BY <2>2, <2>3, <2>4, <2>5 DEF Locks
<1>5. Settled'
  BY <1>1 DEF RowLocks, Drafts, Settled
<1>6. ASSUME NEW t \in AllSessions PROVE JobDraft(t)' /\ BundleDraft(t)'
  <2>1. at'[t] \in Holding => t # s /\ at'[t] = at[t]
    BY <1>3
  <2>2. at'[t] \in JobLabels => db'["job"] = db["job"]
    BY <1>1, <2>1, Names DEF RowLocks, Locks, Holding
  <2>3. at'[t] \in BundleLabels => db'["bundle"] = db["bundle"]
    BY <1>1, <2>1, Names DEF RowLocks, Locks, Holding
  <2>4. JobDraft(t) /\ BundleDraft(t)
    BY DEF RowLocks, Drafts
  <2>5. JobDraft(t)'
    BY <1>1, <2>1, <2>2, <2>4 DEF JobDraft, Holding, JobLabels
  <2>6. BundleDraft(t)'
    BY <1>1, <2>1, <2>3, <2>4 DEF BundleDraft, Holding, BundleLabels
  <2>7. QED BY <2>5, <2>6
<1>7. ASSUME NEW c \in Clicks PROVE ChildDraft(c)'
  <2>1. CASE at'[c] = "commit_child"
    <3>1. c # s /\ at[c] = "commit_child"
      BY <1>3, <2>1, Names DEF Holding, JobLabels
    <3>2. lock["job"] = c /\ at[s] \notin JobLabels
      BY <3>1, Names DEF RowLocks, Locks, JobLabels
    <3>3. \A d \in Clicks : lock[d] # s
      BY <3>2, Names DEF RowLocks, Locks, JobLabels
    <3>4. \A d \in Clicks : db'[d] = db[d]
      BY <1>1, <3>3, Names
    <3>5. QED BY <1>1, <3>1, <3>4 DEF RowLocks, Drafts, ChildDraft, Children
  <2>2. QED BY <2>1 DEF ChildDraft
<1>8. QED BY <1>2, <1>4, <1>5, <1>6, <1>7 DEF RowLocks, Drafts

\* A session that writes a row in a transaction: what it knows itself is left to show.
LEMMA WriteKeeps ==
    ASSUME RowLocks, SessionsInv', NEW s \in AllSessions, NEW label,
           at' = [at EXCEPT ![s] = label],
           NEW r \in RowNames, NEW v, Write(s, r, v),
           r = "job" => v \in JobRows,
           r = "bundle" => v \in BundleRows,
           r \in Clicks => v \in ChildRows,
           Locks', JobDraft(s)', BundleDraft(s)', s \in Clicks => ChildDraft(s)'
    PROVE  RowLocks'
<1>1. /\ lock[r] \in {s, Nobody}
      /\ lock' = [lock EXCEPT ![r] = s]
      /\ draft' = [draft EXCEPT ![r] = v]
      /\ db' = db
  BY DEF Write, Free
<1>2. r # "ticket"
  BY <1>1, Names DEF RowLocks, RowsInv, Locks
<1>3. RowsInv'
  <2>1. Typed(draft')
    BY <1>1, <1>2, ExceptTyped DEF RowLocks, RowsInv
  <2>2. QED BY <1>1, <2>1 DEF RowLocks, RowsInv, Typed
<1>4. \A t \in AllSessions : t # s => at'[t] = at[t]
  BY DEF RowLocks, SessionsInv
<1>5. \A q \in RowNames : q # r => draft'[q] = draft[q] /\ lock'[q] = lock[q]
  BY <1>1 DEF RowLocks, RowsInv, Typed
<1>6. Settled'
  BY <1>1, <1>5, Names DEF RowLocks, RowsInv, Drafts, Settled
<1>7. ASSUME NEW t \in AllSessions PROVE JobDraft(t)' /\ BundleDraft(t)'
  <2>1. CASE t = s
    BY <2>1
  <2>2. CASE t # s
    <3>1. at[t] \in JobLabels => r # "job"
      BY <1>1, <2>2, Names DEF RowLocks, Locks
    <3>2. at[t] \in BundleLabels => r # "bundle"
      BY <1>1, <2>2, Names DEF RowLocks, Locks
    <3>3. JobDraft(t) /\ BundleDraft(t)
      BY DEF RowLocks, Drafts
    <3>4. at[t] \in JobLabels => draft'["job"] = draft["job"]
      BY <1>5, <3>1, Names
    <3>5. at[t] \in BundleLabels => draft'["bundle"] = draft["bundle"]
      BY <1>5, <3>2, Names
    <3>6. JobDraft(t)'
      BY <1>1, <1>4, <2>2, <3>3, <3>4 DEF JobDraft, JobLabels
    <3>7. BundleDraft(t)'
      BY <1>1, <1>4, <2>2, <3>3, <3>5 DEF BundleDraft, BundleLabels
    <3>8. QED BY <3>6, <3>7
  <2>3. QED BY <2>1, <2>2
<1>8. ASSUME NEW c \in Clicks PROVE ChildDraft(c)'
  <2>1. CASE c = s
    BY <2>1
  <2>2. CASE c # s
    <3>1. at[c] = "commit_child" => r # c
      BY <1>1, <2>2, Names DEF RowLocks, Locks
    <3>2. QED BY <1>1, <1>4, <1>5, <2>2, <3>1, Names DEF RowLocks, Drafts, ChildDraft, Children
  <2>3. QED BY <2>1, <2>2
<1>9. QED BY <1>3, <1>6, <1>7, <1>8 DEF RowLocks, Drafts

---------------------------------------------------------------------------
(* The sessions *)

\* A step of one session to a statement that is its own.
LEMMA SessionMoves ==
    ASSUME SessionsInv, NEW s \in AllSessions, NEW label \in Labels,
           label \in ClickLabels => s \in Clicks,
           at' = [at EXCEPT ![s] = label],
           seen' \in [AllSessions -> Statuses \cup {"nothing"}],
           answer' \in [AllSessions -> Answers], lease' \in Lease, overtaken' \in BOOLEAN
    PROVE  SessionsInv' /\ (at[s] \notin Holding /\ label \notin Holding => Aside)
<1>1. \A t \in AllSessions : at'[t] = IF t = s THEN label ELSE at[t]
  BY DEF SessionsInv
<1>2. at' \in [AllSessions -> Labels]
  BY DEF SessionsInv
<1>3. \A t \in AllSessions : at'[t] \in ClickLabels => t \in Clicks
  BY <1>1 DEF SessionsInv
<1>4. QED BY <1>1, <1>2, <1>3 DEF SessionsInv, Aside

\* A step of a worker, which answers nobody.
LEMMA SlotMoves ==
    ASSUME SessionsInv, NEW s \in AllSessions, NEW label \in Labels, label \notin ClickLabels,
           Goto(s, label), UNCHANGED <<seen, answer, overtaken>>, lease' \in Lease
    PROVE  SessionsInv' /\ (at[s] \notin Holding /\ label \notin Holding => Aside)
<1>1. /\ at' = [at EXCEPT ![s] = label]
      /\ seen' = seen /\ answer' = answer /\ overtaken' = overtaken
  BY DEF Goto
<1>2. /\ seen' \in [AllSessions -> Statuses \cup {"nothing"}]
      /\ answer' \in [AllSessions -> Answers] /\ overtaken' \in BOOLEAN
  BY <1>1 DEF SessionsInv
<1>3. QED BY <1>1, <1>2, SessionMoves

\* A step of a user.
LEMMA UserMoves ==
    ASSUME SessionsInv, NEW s \in AllSessions, NEW label \in Labels, NEW what \in Answers,
           label \in ClickLabels => s \in Clicks,
           Goto(s, label), UNCHANGED answer \/ Answer(s, what),
           seen' \in [AllSessions -> Statuses \cup {"nothing"}], UNCHANGED <<lease, overtaken>>
    PROVE  SessionsInv' /\ (at[s] \notin Holding /\ label \notin Holding => Aside)
<1>1. /\ at' = [at EXCEPT ![s] = label]
      /\ lease' = lease /\ overtaken' = overtaken
  BY DEF Goto
<1>2. answer' \in [AllSessions -> Answers]
  BY DEF SessionsInv, Answer
<1>3. lease' \in Lease /\ overtaken' \in BOOLEAN
  BY <1>1 DEF SessionsInv
<1>4. QED BY <1>1, <1>2, <1>3, SessionMoves

---------------------------------------------------------------------------
(* The workers *)

LEMMA OutsideHoldsNothing ==
    ASSUME NEW label \in Outside
    PROVE  label \in Labels /\ label \notin Holding /\ label \notin ClickLabels
  BY DEF Outside, Labels, Holding, JobLabels, BundleLabels, ClickLabels

\* The four ways of a worker's statement that leave it with no row.
LEMMA SlotOnlyMoves ==
    ASSUME RowLocks, NEW s \in Slots, NEW label \in Outside, at[s] \in Outside,
           Goto(s, label), UNCHANGED <<rows, seen, answer, overtaken>>, lease' \in Lease
    PROVE  RowLocks'
<1>1. SessionsInv' /\ Aside
  BY SlotMoves, OutsideHoldsNothing, Names DEF RowLocks
<1>2. QED BY <1>1, RowsUntouched

LEMMA SlotStores ==
    ASSUME RowLocks, NEW s \in Slots, NEW label \in Outside, at[s] \in Outside,
           Goto(s, label), UNCHANGED <<seen, answer, overtaken>>, lease' \in Lease,
           NEW v, \/ v \in JobRows /\ Store("job", v)
                  \/ v \in BundleRows /\ Store("bundle", v)
    PROVE  RowLocks'
<1>1. SessionsInv' /\ Aside
  BY SlotMoves, OutsideHoldsNothing, Names DEF RowLocks
<1>2. CASE v \in JobRows /\ Store("job", v)
  BY <1>1, <1>2, StoreKeeps, Names
<1>3. CASE v \in BundleRows /\ Store("bundle", v)
  BY <1>1, <1>3, StoreKeeps, Names
<1>4. QED BY <1>2, <1>3

LEMMA SlotEnds ==
    ASSUME RowLocks, NEW s \in Slots, NEW label \in Outside,
           Goto(s, label), UNCHANGED <<seen, answer, overtaken>>, lease' \in Lease,
           Rollback(s) \/ Commit(s)
    PROVE  RowLocks'
<1>1. SessionsInv'
  BY SlotMoves, OutsideHoldsNothing, Names DEF RowLocks
<1>2. at' = [at EXCEPT ![s] = label] /\ label \notin Holding
  BY OutsideHoldsNothing DEF Goto
<1>3. QED BY <1>1, <1>2, RollbackKeeps, CommitKeeps, Names

\* What a step of a worker leaves alone, for the lemmas above.
Quiet == UNCHANGED <<answer, overtaken>>

LEMMA Leases == RowLocks => lease \in Lease /\ "live" \in Lease
  BY DEF RowLocks, SessionsInv, Lease

LEMMA TypedJob ==
    RowLocks => /\ Job \in JobRows /\ draft["job"] \in JobRows
                /\ \A s \in AllSessions : Sees(s, "job") \in JobRows
  BY Names DEF RowLocks, RowsInv, Typed, Job, Sees

\* A session that does not hold a row sees its committed version.
LEMMA SeesCommitted ==
    ASSUME RowLocks, NEW s \in AllSessions
    PROVE  at[s] \notin JobLabels => Sees(s, "job") = db["job"]
  BY DEF RowLocks, Locks, Sees

LEMMA ClaimKeeps ==
    ASSUME RowLocks, NEW s \in Slots, Quiet, Claim(s) \/ ClaimRefused(s) \/ Convert(s)
    PROVE  RowLocks'
<1>1. CASE Claim(s)
  <2>1. [Job EXCEPT !.status = "running", !.lease_owner = Owner[s]] \in JobRows
    BY TypedJob, OwnerAssumption DEF JobRows, Statuses, Active
  <2>2. QED
    BY <1>1, <2>1, SlotStores, Leases
    DEF Claim, Quiet, Outside
<1>2. CASE ClaimRefused(s)
  BY <1>2, SlotOnlyMoves, Leases
  DEF ClaimRefused, Quiet, Outside
<1>3. CASE Convert(s)
  <2>1. PICK next \in {"touch_job", "mark_invalid", "lock_job", "mark_failed", "finish_cancel"} :
          Goto(s, next)
    BY <1>3 DEF Convert
  <2>2. next \in Outside
    BY DEF Outside
  <2>3. QED
    BY <1>3, <2>1, <2>2, SlotOnlyMoves, Leases
    DEF Convert, Quiet, Outside
<1>4. QED BY <1>1, <1>2, <1>3

LEMMA RenewLeaseKeeps ==
    ASSUME RowLocks, NEW s \in Slots, Quiet, RenewLease(s) PROVE RowLocks'
<1>1. SessionsInv' /\ Aside
  BY DEF RenewLease, Quiet, RowLocks, SessionsInv, Lease, Aside
<1>2. QED BY <1>1, RowsUntouched DEF RenewLease

LEMMA NotClaimedOutside == ASSUME NEW s PROVE NotClaimed(s) \in Outside /\ OrCancel(s) \in Outside
  BY DEF NotClaimed, OrCancel, Outside

\* Nor has a transaction whoever undid a promotion.
LEMMA AfterUndoOutside == ASSUME NEW s PROVE AfterUndo(s) \in Outside
  BY DEF AfterUndo, Outside

\* A worker's statement that writes a row in a transaction, and what is left to show.
LEMMA SlotWrites ==
    ASSUME RowLocks, NEW s \in Slots, NEW label \in Labels, label \notin ClickLabels,
           at[s] \notin ClickLabels,
           Goto(s, label), UNCHANGED <<seen, answer, overtaken>>, lease' \in Lease,
           NEW r \in {"job", "bundle"}, NEW v, Write(s, r, v),
           r = "job" => v \in JobRows,
           r = "bundle" => v \in BundleRows,
           label \in JobLabels <=> (r = "job" \/ at[s] \in JobLabels),
           label \in BundleLabels <=> (r = "bundle" \/ at[s] \in BundleLabels)
    PROVE  /\ at'[s] = label /\ draft'[r] = v /\ db' = db
           /\ \A q \in RowNames : q # r => draft'[q] = draft[q]
           /\ JobDraft(s)' /\ BundleDraft(s)' => RowLocks'
<1>1. /\ lock[r] \in {s, Nobody}
      /\ lock' = [lock EXCEPT ![r] = s]
      /\ draft' = [draft EXCEPT ![r] = v]
      /\ db' = db
  BY DEF Write, Free
<1>2. /\ draft'[r] = v
      /\ \A q \in RowNames : q # r => draft'[q] = draft[q]
      /\ \A q \in RowNames : lock'[q] = IF q = r THEN s ELSE lock[q]
  BY <1>1, Names DEF RowLocks, RowsInv, Typed
<1>3. at' = [at EXCEPT ![s] = label]
  BY DEF Goto
<1>4. \A t \in AllSessions : at'[t] = IF t = s THEN label ELSE at[t]
  BY <1>3 DEF RowLocks, SessionsInv
<1>5. Locks'
  <2>1. \A t \in AllSessions : lock'["job"] = t <=> at'[t] \in JobLabels
    BY <1>1, <1>2, <1>4, Names DEF RowLocks, Locks
  <2>2. \A t \in AllSessions : lock'["bundle"] = t <=> at'[t] \in BundleLabels
    BY <1>1, <1>2, <1>4, Names DEF RowLocks, Locks
  <2>3. lock'["ticket"] = Nobody
    BY <1>2, Names DEF RowLocks, Locks
  <2>4. \A c \in Clicks : lock'[c] = IF at'[c] = "commit_child" THEN c ELSE Nobody
    BY <1>2, <1>4, Names DEF RowLocks, Locks, ClickLabels
  <2>5. QED BY <2>1, <2>2, <2>3, <2>4 DEF Locks
<1>6. ChildDraft(s)'
  BY <1>4, Names DEF ChildDraft, ClickLabels
<1>7. SessionsInv'
  BY SlotMoves, Names DEF RowLocks
<1>8. r \in RowNames /\ r \notin Clicks
  BY Names
<1>9. JobDraft(s)' /\ BundleDraft(s)' => RowLocks'
  BY <1>3, <1>5, <1>6, <1>7, <1>8, WriteKeeps, Names
<1>10. QED BY <1>1, <1>2, <1>4, <1>9, Names

\* ClaimForPublish locks the job of this worker, and then the bundle.
LEMMA TouchJobKeeps ==
    ASSUME RowLocks, NEW s \in Slots, Quiet, TouchJob(s) \/ TouchNoJob(s) PROVE RowLocks'
<1>1. CASE TouchJob(s)
  <2>1. Sees(s, "job") = db["job"] /\ HoldsRunning(s)
    BY <1>1, SeesCommitted, Names DEF TouchJob, JobLabels
  <2>2. /\ at'[s] = "insert_bundle" /\ draft'["job"] = db["job"] /\ db' = db
        /\ JobDraft(s)' /\ BundleDraft(s)' => RowLocks'
    BY <1>1, <2>1, SlotWrites, TypedJob, Leases, Names
    DEF TouchJob, Quiet, Labels, Holding, JobLabels, BundleLabels, ClickLabels
  <2>3. JobDraft(s)' /\ BundleDraft(s)'
    BY <2>1, <2>2 DEF JobDraft, BundleDraft, HoldsRunning
  <2>4. QED BY <2>2, <2>3
<1>2. CASE TouchNoJob(s)
  BY <1>2, SlotOnlyMoves, NotClaimedOutside, Leases DEF TouchNoJob, Quiet, Outside
<1>3. QED BY <1>1, <1>2

\* A job that a session of this worker has locked is still this worker's.
LEMMA StillRunning ==
    ASSUME RowLocks, NEW s \in AllSessions
    PROVE  JobDraft(s) /\ BundleDraft(s)
  BY DEF RowLocks, Drafts

LEMMA InsertBundleKeeps ==
    ASSUME RowLocks, NEW s \in Slots, Quiet, InsertBundle(s) PROVE RowLocks'
<1>1. at[s] = "insert_bundle" /\ JobDraft(s)
  BY StillRunning, Names DEF InsertBundle
<1>2. CASE db["bundle"] = "absent"
  <2>1. /\ at'[s] = "commit_claim" /\ draft'["bundle"] = "promoting" /\ db' = db
        /\ draft'["job"] = draft["job"]
        /\ JobDraft(s)' /\ BundleDraft(s)' => RowLocks'
    BY <1>1, <1>2, SlotWrites, Leases, Names
    DEF InsertBundle, Quiet, BundleRows, Labels, Holding, JobLabels, BundleLabels, ClickLabels
  <2>2. JobDraft(s)' /\ BundleDraft(s)'
    BY <1>1, <1>2, <2>1 DEF JobDraft, BundleDraft
  <2>3. QED BY <2>1, <2>2
<1>3. CASE db["bundle"] # "absent"
  <2>1. /\ at' = [at EXCEPT ![s] = "select_bundle"]
        /\ UNCHANGED <<db, draft, lock>>
    BY <1>3 DEF InsertBundle, Goto, rows
  <2>2. \A t \in AllSessions : at'[t] = IF t = s THEN "select_bundle" ELSE at[t]
    BY <2>1 DEF RowLocks, SessionsInv
  <2>3. SessionsInv'
    BY <1>3, SlotMoves, Leases, Names
    DEF InsertBundle, Quiet, RowLocks, Labels, Holding, JobLabels, ClickLabels
  <2>4. RowsInv'
    BY <2>1 DEF RowLocks, RowsInv, Typed
  <2>5. Locks'
    BY <1>1, <2>1, <2>2, Names DEF RowLocks, Locks, JobLabels, BundleLabels
  <2>6. Settled'
    BY <2>1 DEF RowLocks, Drafts, Settled
  <2>7. ASSUME NEW t \in AllSessions PROVE JobDraft(t)' /\ BundleDraft(t)'
    BY <1>1, <2>1, <2>2, StillRunning DEF JobDraft, BundleDraft
  <2>8. ASSUME NEW c \in Clicks PROVE ChildDraft(c)'
    BY <2>1, <2>2, Names DEF RowLocks, Drafts, ChildDraft, Children
  <2>9. QED BY <2>3, <2>4, <2>5, <2>6, <2>7, <2>8 DEF RowLocks, Drafts
<1>4. QED BY <1>2, <1>3

LEMMA SelectBundleKeeps ==
    ASSUME RowLocks, NEW s \in Slots, Quiet, SelectBundle(s) PROVE RowLocks'
<1>1. at[s] = "select_bundle" /\ JobDraft(s)
  BY StillRunning, Names DEF SelectBundle
<1>2. CASE db["bundle"] = "promoting"
  <2>1. Write(s, "bundle", "promoting") /\ Goto(s, "commit_claim")
    BY <1>2 DEF SelectBundle
  <2>2. /\ at'[s] = "commit_claim" /\ draft'["bundle"] = "promoting" /\ db' = db
        /\ draft'["job"] = draft["job"]
        /\ JobDraft(s)' /\ BundleDraft(s)' => RowLocks'
    BY <1>1, <2>1, SlotWrites, Leases, Names
    DEF SelectBundle, Quiet, BundleRows, Labels, Holding, JobLabels, BundleLabels, ClickLabels
  <2>3. JobDraft(s)' /\ BundleDraft(s)'
    BY <1>1, <1>2, <2>2 DEF JobDraft, BundleDraft
  <2>4. QED BY <2>2, <2>3
<1>3. CASE db["bundle"] # "promoting"
  <2>1. /\ Rollback(s)
        /\ Goto(s, NotClaimed(s)) \/ Goto(s, "lock_job")
    BY <1>3 DEF SelectBundle
  <2>2. "lock_job" \in Outside
    BY DEF Outside
  <2>3. QED BY <2>1, <2>2, SlotEnds, NotClaimedOutside, Leases DEF SelectBundle, Quiet
<1>4. QED BY <1>2, <1>3

LEMMA CommitClaimKeeps ==
    ASSUME RowLocks, NEW s \in Slots, Quiet, CommitClaim(s) PROVE RowLocks'
<1>1. PICK next \in {"publish_bundle", "lock_job", "undo", "undo_broken"} : Goto(s, next)
  BY DEF CommitClaim
<1>2. next \in Outside
  BY DEF Outside
<1>3. QED BY <1>1, <1>2, SlotEnds, Leases DEF CommitClaim, Quiet

\* Publish writes the bundle, and then the job of this worker.
LEMMA PublishBundleKeeps ==
    ASSUME RowLocks, NEW s \in Slots, Quiet, PublishBundle(s) PROVE RowLocks'
<1>1. at[s] = "publish_bundle"
  BY DEF PublishBundle
<1>2. CASE db["bundle"] = "promoting"
  <2>1. /\ at'[s] = "publish_job" /\ draft'["bundle"] = "published" /\ db' = db
        /\ JobDraft(s)' /\ BundleDraft(s)' => RowLocks'
    BY <1>1, <1>2, SlotWrites, Leases, Names
    DEF PublishBundle, Quiet, BundleRows, Labels, Holding, JobLabels, BundleLabels, ClickLabels
  <2>2. JobDraft(s)' /\ BundleDraft(s)'
    BY <2>1 DEF JobDraft, BundleDraft
  <2>3. QED BY <2>1, <2>2
<1>3. CASE db["bundle"] # "promoting"
  BY <1>3, SlotOnlyMoves, Leases DEF PublishBundle, Quiet, Outside
<1>4. QED BY <1>2, <1>3

LEMMA PublishJobKeeps ==
    ASSUME RowLocks, NEW s \in Slots, Quiet, PublishJob(s) PROVE RowLocks'
<1>1. at[s] = "publish_job" /\ BundleDraft(s)
  BY StillRunning, Names DEF PublishJob
<1>2. CASE HoldsRunning(s)
  <2>1. Sees(s, "job") = db["job"] /\ db["job"].status = "running"
    BY <1>1, <1>2, SeesCommitted, Names DEF JobLabels, HoldsRunning
  <2>2. /\ Closed(Sees(s, "job"), "succeeded") \in JobRows
        /\ Closed(Sees(s, "job"), "succeeded").status = "succeeded"
    BY TypedJob, ClosedIsAJob, Names DEF Statuses, Terminal
  <2>3. Write(s, "job", Closed(Sees(s, "job"), "succeeded")) /\ Goto(s, "commit_publish")
    BY <1>2 DEF PublishJob
  <2>4. /\ at'[s] = "commit_publish" /\ draft'["job"].status = "succeeded" /\ db' = db
        /\ draft'["bundle"] = draft["bundle"]
        /\ JobDraft(s)' /\ BundleDraft(s)' => RowLocks'
    BY <1>1, <2>2, <2>3, SlotWrites, Leases, Names
    DEF PublishJob, Quiet, Labels, Holding, JobLabels, BundleLabels, ClickLabels
  <2>5. JobDraft(s)' /\ BundleDraft(s)'
    BY <1>1, <2>1, <2>4 DEF JobDraft, BundleDraft
  <2>6. QED BY <2>4, <2>5
<1>3. CASE ~HoldsRunning(s)
  <2>1. "undo" \in Outside
    BY DEF Outside
  <2>2. QED BY <1>3, <2>1, SlotEnds, Leases DEF PublishJob, Quiet
<1>4. QED BY <1>2, <1>3

LEMMA CommitPublishKeeps ==
    ASSUME RowLocks, NEW s \in Slots, Quiet, CommitPublish(s) PROVE RowLocks'
<1>1. PICK next \in {"over", "undo"} : Goto(s, next)
  BY DEF CommitPublish
<1>2. next \in Outside /\ lease' \in Lease
  BY Leases DEF Outside, CommitPublish
<1>3. QED BY <1>1, <1>2, SlotEnds DEF CommitPublish, Quiet

LEMMA UndoKeeps ==
    ASSUME RowLocks, NEW s \in Slots, Quiet, UndoSnapshot(s) \/ DeleteClaim(s) PROVE RowLocks'
<1>1. CASE UndoSnapshot(s)
  BY <1>1, SlotOnlyMoves, AfterUndoOutside, Leases DEF UndoSnapshot, Quiet, Outside
<1>2. CASE DeleteClaim(s)
  <2>1. CASE db["bundle"] = "promoting"
    BY <1>2, <2>1, SlotStores, AfterUndoOutside, Leases DEF DeleteClaim, Quiet, Outside, BundleRows
  <2>2. CASE db["bundle"] # "promoting"
    BY <1>2, <2>2, SlotOnlyMoves, AfterUndoOutside, Leases DEF DeleteClaim, Quiet, Outside
  <2>3. QED BY <2>1, <2>2
<1>3. QED BY <1>1, <1>2

\* ScheduleRetry reads the job and locks it, and then writes it.
LEMMA LockJobKeeps ==
    ASSUME RowLocks, NEW s \in Slots, Quiet, LockJob(s) PROVE RowLocks'
<1>1. at[s] = "lock_job" /\ Sees(s, "job") = db["job"]
  BY SeesCommitted, Names DEF LockJob, JobLabels
<1>2. CASE Goto(s, "requeue")
  <2>1. /\ db["job"].status = "running" /\ db["job"].attempt < MaxAttempts
        /\ Write(s, "job", db["job"])
    <3>1. at'[s] = "requeue"
      BY <1>2, Names DEF Goto, RowLocks, SessionsInv
    <3>2. QED BY <1>1, <3>1, Names DEF LockJob, Goto, RowLocks, SessionsInv
  <2>2. /\ at'[s] = "requeue" /\ draft'["job"] = db["job"] /\ db' = db
        /\ JobDraft(s)' /\ BundleDraft(s)' => RowLocks'
    BY <1>1, <1>2, <2>1, SlotWrites, TypedJob, Leases, Names
    DEF LockJob, Job, Quiet, Labels, Holding, JobLabels, BundleLabels, ClickLabels
  <2>3. JobDraft(s)' /\ BundleDraft(s)'
    BY <2>1, <2>2 DEF JobDraft, BundleDraft
  <2>4. QED BY <2>2, <2>3
<1>3. CASE ~Goto(s, "requeue")
  BY <1>3, SlotOnlyMoves, Leases DEF LockJob, Quiet, Outside
<1>4. QED BY <1>2, <1>3

LEMMA RequeueKeeps ==
    ASSUME RowLocks, NEW s \in Slots, Quiet, Requeue(s) PROVE RowLocks'
<1>1. at[s] = "requeue" /\ JobDraft(s)
  BY StillRunning, Names DEF Requeue
<1>2. CASE MayClose(s)
  <2> DEFINE job == Sees(s, "job")
             next == [Closed(job, "queued") EXCEPT !.attempt = @ + 1]
  <2>1. job = db["job"]
    BY <1>1 DEF JobDraft, Sees
  <2>2. next \in JobRows /\ next.status = "queued"
    <3>1. Closed(job, "queued") \in JobRows
      BY TypedJob, ClosedIsAJob, Names DEF Statuses, Active
    <3>2. Closed(job, "queued").attempt = job.attempt
          /\ Closed(job, "queued").status = "queued"
      BY TypedJob, ClosedIsAJob, Names DEF Statuses, Active
    <3>3. job.attempt + 1 \in 1..MaxAttempts
      BY <1>1, <2>1, TypedJob, AttemptsAssumption DEF JobDraft, JobRows, Job
    <3>4. QED BY <3>1, <3>2, <3>3 DEF JobRows
  <2>3. Write(s, "job", next) /\ Goto(s, "commit_requeue")
    BY <1>2 DEF Requeue
  <2> HIDE DEF job, next
  <2>4. /\ at'[s] = "commit_requeue" /\ draft'["job"] = next /\ db' = db
        /\ JobDraft(s)' /\ BundleDraft(s)' => RowLocks'
    BY <1>1, <2>2, <2>3, SlotWrites, Leases, Names
    DEF Requeue, Quiet, Labels, Holding, JobLabels, BundleLabels, ClickLabels
  <2>5. JobDraft(s)' /\ BundleDraft(s)'
    BY <1>1, <2>2, <2>4 DEF JobDraft, BundleDraft
  <2>6. QED BY <2>4, <2>5
<1>3. CASE ~MayClose(s)
  <2>1. "over" \in Outside
    BY DEF Outside
  <2>2. QED BY <1>3, <2>1, SlotEnds, Leases DEF Requeue, Quiet
<1>4. QED BY <1>2, <1>3

LEMMA MarkDeadKeeps ==
    ASSUME RowLocks, NEW s \in Slots, Quiet, MarkDead(s) PROVE RowLocks'
<1>1. at[s] = "mark_dead" /\ Sees(s, "job") = db["job"]
  BY SeesCommitted, Names DEF MarkDead, JobLabels
<1>2. CASE MayClose(s)
  <2>1. /\ Closed(db["job"], "dead") \in JobRows
        /\ Closed(db["job"], "dead").status = "dead"
    BY TypedJob, ClosedIsAJob DEF Statuses, Terminal, Job
  <2>2. Write(s, "job", Closed(db["job"], "dead")) /\ Goto(s, "commit_dead")
    BY <1>1, <1>2 DEF MarkDead
  <2>3. /\ at'[s] = "commit_dead" /\ draft'["job"].status = "dead" /\ db' = db
        /\ JobDraft(s)' /\ BundleDraft(s)' => RowLocks'
    BY <1>1, <2>1, <2>2, SlotWrites, Leases, Names
    DEF MarkDead, Quiet, Labels, Holding, JobLabels, BundleLabels, ClickLabels
  <2>4. JobDraft(s)' /\ BundleDraft(s)'
    BY <1>1, <1>2, <2>3 DEF JobDraft, BundleDraft, MayClose, HoldsRunning
  <2>5. QED BY <2>3, <2>4
<1>3. CASE ~MayClose(s)
  BY <1>3, SlotOnlyMoves, NotClaimedOutside, Leases DEF MarkDead, Quiet, Outside
<1>4. QED BY <1>2, <1>3

LEMMA ClosesKeep ==
    ASSUME RowLocks, NEW s \in Slots, Quiet, CommitJob(s) \/ Close(s) \/ FinishCanceled(s)
    PROVE  RowLocks'
<1>1. "over" \in Outside
  BY DEF Outside
<1>2. CASE CommitJob(s)
  BY <1>1, <1>2, SlotEnds, Leases DEF CommitJob, Quiet
<1>3. CASE Close(s)
  <2> DEFINE status == IF at[s] = "mark_failed" THEN "failed" ELSE "invalid"
  <2>1. at[s] \in Outside
    BY <1>3 DEF Close, Outside
  <2>2. CASE MayClose(s)
    <3>1. Closed(Job, status) \in JobRows
      BY TypedJob, ClosedIsAJob DEF Statuses, Terminal
    <3>2. QED BY <1>1, <1>3, <2>1, <2>2, <3>1, SlotStores, Leases DEF Close, Quiet
  <2>3. CASE ~MayClose(s)
    BY <1>3, <2>1, <2>3, SlotOnlyMoves, NotClaimedOutside, Leases DEF Close, Quiet
  <2>4. QED BY <2>2, <2>3
<1>4. CASE FinishCanceled(s)
  <2>1. at[s] \in Outside
    BY <1>4 DEF FinishCanceled, Outside
  <2>2. CASE Job.lease_owner = Owner[s] /\ Job.status = "canceling"
    <3>1. Closed(Job, "canceled") \in JobRows
      BY TypedJob, ClosedIsAJob DEF Statuses, Terminal
    <3>2. QED BY <1>1, <1>4, <2>1, <2>2, <3>1, SlotStores, Leases DEF FinishCanceled, Quiet
  <2>3. CASE ~(Job.lease_owner = Owner[s] /\ Job.status = "canceling")
    BY <1>1, <1>4, <2>1, <2>3, SlotOnlyMoves, Leases DEF FinishCanceled, Quiet
  <2>4. QED BY <2>2, <2>3
<1>5. QED BY <1>2, <1>3, <1>4

LEMMA FaultsKeep ==
    ASSUME RowLocks, NEW s \in Slots, Quiet, StatementFails(s) \/ Dies(s) PROVE RowLocks'
<1>1. OnError(s) \in Outside /\ "over" \in Outside
  BY NotClaimedOutside, AfterUndoOutside DEF OnError, Outside
<1>2. QED BY <1>1, SlotEnds, Leases DEF StatementFails, Dies, Quiet

\* Every step of a worker.
LEMMA SlotKeeps ==
    ASSUME RowLocks, NEW s \in Slots, SlotStep(s), Quiet PROVE RowLocks'
  BY ClaimKeeps, RenewLeaseKeeps, TouchJobKeeps, InsertBundleKeeps, SelectBundleKeeps,
     CommitClaimKeeps, PublishBundleKeeps, PublishJobKeeps, CommitPublishKeeps, UndoKeeps,
     LockJobKeeps, RequeueKeeps, MarkDeadKeeps, ClosesKeep, FaultsKeep
  DEF SlotStep

---------------------------------------------------------------------------
(* The users *)

\* The ways of a request's statement that leave it with no row.
LEMMA UserOnlyMoves ==
    ASSUME RowLocks, NEW s \in AllSessions, NEW label \in Outside, at[s] \notin Holding,
           NEW what \in Answers, UNCHANGED answer \/ Answer(s, what),
           Goto(s, label), UNCHANGED <<rows, lease, overtaken>>,
           seen' \in [AllSessions -> Statuses \cup {"nothing"}]
    PROVE  RowLocks'
<1>1. SessionsInv' /\ Aside
  BY UserMoves, OutsideHoldsNothing DEF RowLocks
<1>2. QED BY <1>1, RowsUntouched

LEMMA UserStores ==
    ASSUME RowLocks, NEW s \in AllSessions, NEW label \in Outside, at[s] \notin Holding,
           NEW what \in Answers, UNCHANGED answer \/ Answer(s, what),
           Goto(s, label), UNCHANGED <<lease, overtaken>>,
           seen' \in [AllSessions -> Statuses \cup {"nothing"}],
           NEW v, \/ v \in JobRows /\ Store("job", v)
                  \/ v \in TicketRows /\ Store("ticket", v)
    PROVE  RowLocks'
<1>1. SessionsInv' /\ Aside
  BY UserMoves, OutsideHoldsNothing DEF RowLocks
<1>2. CASE v \in JobRows /\ Store("job", v)
  BY <1>1, <1>2, StoreKeeps, Names
<1>3. CASE v \in TicketRows /\ Store("ticket", v)
  BY <1>1, <1>3, StoreKeeps, Names
<1>4. QED BY <1>2, <1>3

LEMMA UserEnds ==
    ASSUME RowLocks, NEW s \in AllSessions, NEW label \in Outside,
           NEW what \in Answers, UNCHANGED answer \/ Answer(s, what),
           Goto(s, label), UNCHANGED <<seen, lease, overtaken>>,
           Rollback(s) \/ Commit(s)
    PROVE  RowLocks'
<1>1. SessionsInv'
  BY UserMoves, OutsideHoldsNothing DEF RowLocks, SessionsInv
<1>2. at' = [at EXCEPT ![s] = label] /\ label \notin Holding
  BY OutsideHoldsNothing DEF Goto
<1>3. QED BY <1>1, <1>2, RollbackKeeps, CommitKeeps

LEMMA SeenTyped == RowLocks => seen \in [AllSessions -> Statuses \cup {"nothing"}]
  BY DEF RowLocks, SessionsInv

LEMMA StatusTyped == RowLocks => Job.status \in Statuses
  BY TypedJob DEF JobRows

LEMMA CancelKeeps ==
    ASSUME RowLocks, NEW s \in AllSessions, UNCHANGED overtaken,
           CancelQueued(s) \/ CancelRunning(s) \/ CancelRead(s)
    PROVE  RowLocks'
<1>1. at[s] \notin Holding /\ {"over", "cancel_running", "cancel_read"} \subseteq Outside
  BY DEF CancelQueued, CancelRunning, CancelRead, Holding, JobLabels, BundleLabels, Outside
<1>2. CASE CancelQueued(s)
  <2>1. seen' \in [AllSessions -> Statuses \cup {"nothing"}]
    BY <1>2, SeenTyped, StatusTyped DEF CancelQueued
  <2>2. CASE Job.status = "queued"
    <3>1. [Job EXCEPT !.status = "canceled"] \in JobRows /\ "canceled" \in Answers
      BY TypedJob, ClosedIsAJob DEF Statuses, Terminal, Answers
    <3>2. QED BY <1>1, <1>2, <2>1, <2>2, <3>1, UserStores DEF CancelQueued
  <2>3. CASE Job.status # "queued"
    BY <1>1, <1>2, <2>1, <2>3, UserOnlyMoves DEF CancelQueued, Answers
  <2>4. QED BY <2>2, <2>3
<1>3. CASE CancelRunning(s)
  <2>1. CASE Job.status = "running"
    <3>1. [Job EXCEPT !.status = "canceling", !.cancel_requested = TRUE] \in JobRows
      BY TypedJob DEF JobRows, Statuses, Active
    <3>2. "canceling" \in Answers
      BY DEF Answers, Statuses, Active
    <3>3. QED
      BY <1>1, <1>3, <2>1, <3>1, <3>2, SeenTyped, UserStores DEF CancelRunning, apiUnchanged
  <2>2. CASE Job.status # "running"
    BY <1>1, <1>3, <2>2, SeenTyped, UserOnlyMoves DEF CancelRunning, apiUnchanged, Answers
  <2>3. QED BY <2>1, <2>2
<1>4. CASE CancelRead(s)
  <2>1. (IF Job.status \in Terminal THEN "not_cancelable" ELSE Job.status) \in Answers
    BY StatusTyped DEF Answers
  <2>2. QED BY <1>1, <1>4, <2>1, SeenTyped, UserOnlyMoves DEF CancelRead, apiUnchanged
<1>5. QED BY <1>2, <1>3, <1>4

\* CreateRetry locks the parent and leaves it as it is.
LEMMA LockParentKeeps ==
    ASSUME RowLocks, NEW s \in AllSessions, UNCHANGED overtaken, LockParent(s)
    PROVE  RowLocks'
<1>1. at[s] = "lock_parent" /\ at[s] \notin Holding /\ s \in Clicks
  BY DEF LockParent, Holding, JobLabels, BundleLabels, RowLocks, SessionsInv, ClickLabels
<1>2. CASE Job.status \in Retryable
  <2>1. /\ Write(s, "job", Job) /\ UNCHANGED <<answer, seen, lease>>
        /\ at' = [at EXCEPT ![s] = "insert_child"]
    BY <1>2 DEF LockParent, apiUnchanged, Goto
  <2>2. SessionsInv'
    BY <1>1, <2>1, SeenTyped, UserMoves
    DEF RowLocks, Goto, Labels, Holding, JobLabels, ClickLabels, Answers
  <2>3. \A t \in AllSessions : at'[t] = IF t = s THEN "insert_child" ELSE at[t]
    BY <2>1 DEF RowLocks, SessionsInv
  <2>4. /\ lock["job"] \in {s, Nobody}
        /\ \A q \in RowNames : lock'[q] = IF q = "job" THEN s ELSE lock[q]
        /\ draft'["job"] = db["job"] /\ db' = db
    BY <2>1, Names DEF Write, Free, RowLocks, RowsInv, Typed, Job
  <2>5. Locks'
    BY <1>1, <2>3, <2>4, Names DEF RowLocks, Locks, JobLabels, BundleLabels
  <2>6. JobDraft(s)' /\ BundleDraft(s)' /\ ChildDraft(s)'
    BY <2>3, <2>4 DEF JobDraft, BundleDraft, ChildDraft
  <2>7. QED BY <2>1, <2>2, <2>5, <2>6, TypedJob, WriteKeeps, Names
<1>3. CASE Job.status \notin Retryable
  BY <1>1, <1>3, SeenTyped, UserOnlyMoves DEF LockParent, apiUnchanged, Answers, Outside
<1>4. QED BY <1>2, <1>3

\* Without a conflict there is no child.
LEMMA NoConflict == ASSUME NEW s, Conflict(s) = "none" PROVE Children = {}
  BY DEF Conflict

\* The insertion of the one child.
LEMMA InsertChildKeeps ==
    ASSUME RowLocks, NEW s \in AllSessions, UNCHANGED overtaken, InsertChild(s)
    PROVE  RowLocks'
<1>1. at[s] = "insert_child" /\ s \in Clicks
  BY DEF InsertChild, RowLocks, SessionsInv, ClickLabels
<1>2. CASE /\ Conflict(s) = "none"
           /\ Write(s, s, "queued") /\ UNCHANGED answer /\ Goto(s, "commit_child")
  <2>1. UNCHANGED <<answer, seen, lease>> /\ at' = [at EXCEPT ![s] = "commit_child"]
    BY <1>2 DEF InsertChild, apiUnchanged, Goto
  <2>2. SessionsInv'
    BY <1>1, <2>1, SeenTyped, UserMoves
    DEF RowLocks, Goto, Labels, Holding, JobLabels, ClickLabels, Answers
  <2>3. \A t \in AllSessions : at'[t] = IF t = s THEN "commit_child" ELSE at[t]
    BY <2>1 DEF RowLocks, SessionsInv
  <2>4. /\ \A q \in RowNames : lock'[q] = IF q = s THEN s ELSE lock[q]
        /\ \A q \in RowNames : q # s => draft'[q] = draft[q]
        /\ draft'[s] = "queued" /\ db' = db
    BY <1>1, <1>2, Names DEF Write, Free, RowLocks, RowsInv, Typed
  <2>5. Locks'
    BY <1>1, <2>3, <2>4, Names DEF RowLocks, Locks, JobLabels, BundleLabels
  <2>6. JobDraft(s)' /\ BundleDraft(s)'
    BY <1>1, <2>3, <2>4, StillRunning, Names DEF JobDraft, BundleDraft
  <2>7. ChildDraft(s)'
    BY <1>2, <2>4, NoConflict DEF ChildDraft, Children
  <2>8. s \in RowNames /\ s # "job" /\ s # "bundle" /\ "queued" \in ChildRows
    BY <1>1, Names DEF ChildRows, Statuses, Active
  <2>9. QED BY <1>2, <2>1, <2>2, <2>5, <2>6, <2>7, <2>8, WriteKeeps
<1>3. CASE Rollback(s) /\ Answer(s, "active") /\ Goto(s, "over")
  BY <1>3, UserEnds DEF InsertChild, apiUnchanged, Answers, Outside
<1>4. CASE Rollback(s) /\ UNCHANGED answer /\ Goto(s, "by_parent")
  BY <1>4, UserEnds DEF InsertChild, apiUnchanged, Answers, Outside
<1>5. QED BY <1>2, <1>3, <1>4 DEF InsertChild

LEMMA RetryKeeps ==
    ASSUME RowLocks, NEW s \in AllSessions, UNCHANGED overtaken,
           CommitChild(s) \/ ByParent(s) \/ RequestFails(s)
    PROVE  RowLocks'
<1>1. "over" \in Outside /\ {"child", "error"} \subseteq Answers
  BY DEF Outside, Answers
<1>2. CASE CommitChild(s)
  <2>1. PICK what \in {"child", "error"} : Answer(s, what)
    BY <1>2 DEF CommitChild
  <2>2. QED BY <1>1, <1>2, <2>1, UserEnds DEF CommitChild, apiUnchanged
<1>3. CASE ByParent(s)
  BY <1>1, <1>3, SeenTyped, UserOnlyMoves
  DEF ByParent, apiUnchanged, Holding, JobLabels, BundleLabels
<1>4. CASE RequestFails(s)
  BY <1>1, <1>4, UserEnds DEF RequestFails, apiUnchanged
<1>5. QED BY <1>2, <1>3, <1>4

LEMMA TypedTicket ==
    RowLocks => /\ Ticket \in TicketRows
                /\ [Ticket EXCEPT !.issued = TRUE] \in TicketRows
                /\ [Ticket EXCEPT !.expired = TRUE] \in TicketRows
                /\ Ticket.uses < MaxUses => [Ticket EXCEPT !.uses = @ + 1] \in TicketRows
<1> SUFFICES ASSUME RowLocks PROVE TypedTicket!2
  OBVIOUS
<1>1. Ticket \in TicketRows
  BY DEF RowLocks, RowsInv, Typed, Ticket
<1>2. Ticket.uses < MaxUses => Ticket.uses + 1 \in 0..MaxUses
  BY <1>1, UsesAssumption DEF TicketRows
<1>3. QED BY <1>1, <1>2 DEF TicketRows

LEMMA DownloadKeeps ==
    ASSUME RowLocks, NEW s \in AllSessions, UNCHANGED overtaken,
           CreateTicket(s) \/ Redeem(s) \/ Download(s)
    PROVE  RowLocks'
<1>1. at[s] \notin Holding /\ {"over", "redeem", "prepare"} \subseteq Outside
  BY DEF CreateTicket, Redeem, Download, Holding, JobLabels, BundleLabels, Outside
<1>2. {"zip", "broken_zip", "not_found", "ticket_invalid"} \subseteq Answers
  BY DEF Answers
<1>3. CASE CreateTicket(s)
  <2>1. CASE db["bundle"] = "published" /\ ~Ticket.issued
    BY <1>1, <1>2, <1>3, <2>1, SeenTyped, TypedTicket, UserStores DEF CreateTicket, apiUnchanged
  <2>2. CASE ~(db["bundle"] = "published" /\ ~Ticket.issued)
    BY <1>1, <1>2, <1>3, <2>2, SeenTyped, UserOnlyMoves DEF CreateTicket, apiUnchanged
  <2>3. QED BY <2>1, <2>2
<1>4. CASE Redeem(s)
  <2>1. CASE Redeemable
    BY <1>1, <1>2, <1>4, <2>1, SeenTyped, TypedTicket, UserStores
    DEF Redeem, apiUnchanged, Redeemable
  <2>2. CASE ~Redeemable
    BY <1>1, <1>2, <1>4, <2>2, SeenTyped, UserOnlyMoves DEF Redeem, apiUnchanged
  <2>3. QED BY <2>1, <2>2
<1>5. CASE Download(s)
  <2>1. PICK what \in {"zip", "broken_zip", "not_found"} : Answer(s, what)
    BY <1>5 DEF Download
  <2>2. QED BY <1>1, <1>2, <1>5, <2>1, SeenTyped, UserOnlyMoves DEF Download, apiUnchanged
<1>6. QED BY <1>3, <1>4, <1>5

LEMMA ApiKeeps == ASSUME RowLocks, ApiNext, UNCHANGED overtaken PROVE RowLocks'
<1>1. ASSUME NEW s \in Cancels \cup Clicks \cup Downloads, ApiStep(s) PROVE RowLocks'
  BY <1>1, Names, CancelKeeps, LockParentKeeps, InsertChildKeeps, RetryKeeps, DownloadKeeps
  DEF ApiStep
<1>2. CASE ChildEnds
  <2>1. PICK c \in Children, status \in Terminal : Store(c, status)
    BY <1>2 DEF ChildEnds
  <2>2. SessionsInv' /\ Aside
    BY <1>2 DEF ChildEnds, RowLocks, SessionsInv, Aside
  <2>3. c \in Clicks /\ c \in RowNames /\ status \in ChildRows
    BY Names DEF Children, ChildRows, Statuses
  <2>4. QED BY <2>1, <2>2, <2>3, StoreKeeps, Names
<1>3. CASE TicketExpires
  <2>1. SessionsInv' /\ Aside
    BY <1>3 DEF TicketExpires, RowLocks, SessionsInv, Aside
  <2>2. QED BY <1>3, <2>1, StoreKeeps, TypedTicket, Names DEF TicketExpires
<1>4. QED BY <1>1, <1>2, <1>3 DEF ApiNext

---------------------------------------------------------------------------
(* The sweeper and time *)

LEMMA SweepKeeps ==
    ASSUME RowLocks, NEW s \in Sweepers,
           SelectCanceling(s) \/ SelectRunning(s) \/ CancelExpired(s) \/ ReclaimExpired(s)
    PROVE  RowLocks'
<1>1. at[s] \notin Holding
  BY DEF SelectCanceling, SelectRunning, Select, CancelExpired, ReclaimExpired, Holding,
         JobLabels, BundleLabels
<1>2. PICK label \in {"cancel_expired", "select_running", "reclaim_expired", "select_canceling"} :
        at' = [at EXCEPT ![s] = label]
  BY DEF SelectCanceling, SelectRunning, Select, CancelExpired, ReclaimExpired, Goto
<1>3. label \in Outside
  BY DEF Outside
<1>4. seen' = seen /\ answer' = answer /\ lease' \in Lease /\ overtaken' \in BOOLEAN
  BY Leases DEF SelectCanceling, SelectRunning, Select, CancelExpired, ReclaimExpired,
                Overdue, RowLocks, SessionsInv
<1>5. SessionsInv' /\ Aside
  BY <1>1, <1>2, <1>3, <1>4, SessionMoves, OutsideHoldsNothing, Names DEF RowLocks, SessionsInv
<1>6. CASE UNCHANGED rows
  BY <1>5, <1>6, RowsUntouched
<1>7. CASE Store("job", Closed(Job, "canceled")) \/ Store("job", Closed(Job, "queued"))
  <2>1. Closed(Job, "canceled") \in JobRows /\ Closed(Job, "queued") \in JobRows
    BY TypedJob, ClosedIsAJob DEF Statuses, Terminal, Active
  <2>2. QED BY <1>5, <1>7, <2>1, StoreKeeps, Names
<1>8. QED
  BY <1>6, <1>7 DEF SelectCanceling, SelectRunning, Select, CancelExpired, ReclaimExpired

LEMMA LeaseAgesKeeps == ASSUME RowLocks, LeaseAges PROVE RowLocks'
<1>1. SessionsInv' /\ Aside
  BY DEF LeaseAges, RowLocks, SessionsInv, Aside, Lease
<1>2. QED BY <1>1, RowsUntouched DEF LeaseAges

LEMMA RowLocksStep == ASSUME RowLocks, [SessionsNext]_sessionVars PROVE RowLocks'
<1>1. CASE SessionsNext
  BY <1>1, SlotKeeps, ApiKeeps, SweepKeeps, LeaseAgesKeeps DEF SessionsNext, Quiet
<1>2. CASE UNCHANGED sessionVars
  <2>1. SessionsInv' /\ Aside /\ UNCHANGED rows
    BY <1>2 DEF sessionVars, RowLocks, SessionsInv, Aside
  <2>2. QED BY <2>1, RowsUntouched
<1>3. QED BY <1>1, <1>2

LEMMA InitRowLocks == SessionsInit => RowLocks
<1> SUFFICES ASSUME SessionsInit PROVE RowLocks
  OBVIOUS
<1>1. PICK status \in {"queued", "dead", "succeeded"} :
        db = [r \in RowNames |->
                IF r = "job" THEN [status |-> status, lease_owner |-> NoWorker,
                                   cancel_requested |-> FALSE, attempt |-> 1]
                ELSE IF r = "ticket" THEN [issued |-> FALSE, expired |-> FALSE, uses |-> 0]
                ELSE IF r = "bundle" /\ status = "succeeded" THEN "published"
                ELSE "absent"]
  BY DEF SessionsInit
<1>2. /\ lock = [r \in RowNames |-> Nobody] /\ draft = db
      /\ seen = [s \in AllSessions |-> "nothing"] /\ lease = "live"
      /\ answer = [s \in AllSessions |-> "none"] /\ overtaken = FALSE
  BY DEF SessionsInit
<1>3. PICK cast : at = [s \in AllSessions |-> IF s \in cast THEN First(s) ELSE "over"]
  BY DEF SessionsInit
<1>4. RowsInv
  <2>1. db["job"] \in JobRows
    BY <1>1, AttemptsAssumption, Names DEF JobRows, Statuses, Terminal, Active
  <2>2. db["ticket"] \in TicketRows
    BY <1>1, UsesAssumption, Names DEF TicketRows
  <2>3. Typed(db)
    BY <1>1, <2>1, <2>2, Names DEF Typed, BundleRows, ChildRows
  <2>4. QED BY <1>2, <2>3 DEF RowsInv
<1>5. \A s \in AllSessions : at[s] \in Outside \cup {"lock_parent"} /\ (at[s] = "lock_parent" => s \in Clicks)
  BY <1>3 DEF First, Outside
<1>6. SessionsInv
  <2>1. at \in [AllSessions -> Labels]
    BY <1>3, <1>5 DEF Labels, ClickLabels
  <2>2. \A s \in AllSessions : at[s] \in ClickLabels => s \in Clicks
    BY <1>5, OutsideHoldsNothing
  <2>3. QED BY <1>2, <2>1, <2>2 DEF SessionsInv, Answers, Lease
<1>7. \A s \in AllSessions : at[s] \notin Holding
  BY <1>5, OutsideHoldsNothing DEF Holding, JobLabels, BundleLabels
<1>8. Locks
  BY <1>2, <1>7, Names DEF Locks, Holding, JobLabels
<1>9. Drafts
  <2>1. Settled
    BY <1>2 DEF Settled
  <2>2. QED
    BY <1>7, <2>1, Names DEF Drafts, JobDraft, BundleDraft, ChildDraft, Holding, JobLabels, BundleLabels
<1>10. QED BY <1>4, <1>6, <1>8, <1>9 DEF RowLocks

LEMMA InitAnswers == SessionsInit => AnswersInv
<1> SUFFICES ASSUME SessionsInit PROVE AnswersInv
  OBVIOUS
<1>1. PICK status \in {"queued", "dead", "succeeded"} :
        db = [r \in RowNames |->
                IF r = "job" THEN [status |-> status, lease_owner |-> NoWorker,
                                   cancel_requested |-> FALSE, attempt |-> 1]
                ELSE IF r = "ticket" THEN [issued |-> FALSE, expired |-> FALSE, uses |-> 0]
                ELSE IF r = "bundle" /\ status = "succeeded" THEN "published"
                ELSE "absent"]
  BY DEF SessionsInit
<1>2. answer = [s \in AllSessions |-> "none"]
  BY DEF SessionsInit
<1>3. \A s \in AllSessions : at[s] \notin {"cancel_running", "cancel_read", "prepare"}
  BY DEF SessionsInit, First
<1>4. PublishedIsSucceeded
  BY <1>1, Names DEF PublishedIsSucceeded
<1>5. Reads /\ CancelIsTrue
  BY <1>2, <1>3, Names DEF Reads, CancelIsTrue
<1>6. Children = {}
  BY <1>1, Names DEF Children
<1>7. Spent = {}
  BY <1>2, <1>3, Names DEF Spent
<1>8. Ticket.uses = 0
  BY <1>1, Names DEF Ticket
<1>9. UsesInv
  BY <1>7, <1>8, FS_EmptySet DEF UsesInv
<1>10. QED BY <1>2, <1>4, <1>5, <1>6, <1>9, Names DEF AnswersInv, OneChild

---------------------------------------------------------------------------
(* What a step commits *)

\* Where the status of a job goes.
Moves(from, to) ==
    \/ to = from
    \/ from = "queued" /\ to \in {"running", "canceled"}
    \/ from = "running" /\ to \in Statuses
    \/ from = "canceling" /\ to = "canceled"

JobMoves == overtaken' \/ Moves(Job.status, Job'.status)

BundleMoves ==
    \/ db'["bundle"] = db["bundle"] /\ (Job'.status = "succeeded" => Job.status = "succeeded")
    \/ "published" \notin {db["bundle"], db'["bundle"]} /\ Job' = Job
    \/ db'["bundle"] = "published" /\ Job'.status = "succeeded"

ChildrenMove ==
    \/ Children' = Children
    \/ Children = {} /\ \E s \in Clicks : Children' = {s}

\* A use is spent by one session.
Redeems ==
    /\ Ticket'.uses = Ticket.uses + 1
    /\ \E s \in AllSessions : at' = [at EXCEPT ![s] = "prepare"] /\ UNCHANGED answer

UsesMove == Ticket'.uses = Ticket.uses \/ Redeems

DbMoves == JobMoves /\ BundleMoves /\ ChildrenMove /\ UsesMove

LEMMA SameDb == ASSUME db' = db PROVE DbMoves
<1>1. Job' = Job /\ Ticket' = Ticket /\ Children' = Children
  BY DEF Job, Ticket, Children
<1>2. JobMoves
  BY <1>1 DEF JobMoves, Moves
<1>3. BundleMoves
  BY <1>1 DEF BundleMoves
<1>4. UsesMove
  BY <1>1 DEF UsesMove
<1>5. QED BY <1>1, <1>2, <1>3, <1>4 DEF DbMoves, ChildrenMove

LEMMA StoreFacts ==
    ASSUME RowLocks, NEW r \in RowNames, NEW v, Store(r, v)
    PROVE  db'[r] = v /\ \A q \in RowNames : q # r => db'[q] = db[q]
  BY DEF Store, RowLocks, RowsInv, Typed

\* A job that is stored by itself does not succeed.
LEMMA JobStored ==
    ASSUME RowLocks, NEW v, Store("job", v), v.status # "succeeded",
           overtaken' \/ Moves(Job.status, v.status)
    PROVE  DbMoves
<1>1. db'["job"] = v /\ \A q \in RowNames : q # "job" => db'[q] = db[q]
  BY StoreFacts, Names
<1>2. db'["bundle"] = db["bundle"] /\ db'["ticket"] = db["ticket"] /\ Children' = Children
  BY <1>1, Names DEF Children
<1>3. JobMoves
  BY <1>1 DEF JobMoves, Job
<1>4. BundleMoves
  BY <1>1, <1>2 DEF BundleMoves, Job
<1>5. UsesMove
  BY <1>2 DEF UsesMove, Ticket
<1>6. QED BY <1>2, <1>3, <1>4, <1>5 DEF DbMoves, ChildrenMove

LEMMA CommitFacts ==
    ASSUME RowLocks, NEW s \in AllSessions, Commit(s)
    PROVE  /\ db'["job"] = IF at[s] \in JobLabels THEN draft["job"] ELSE db["job"]
           /\ db'["bundle"] = IF at[s] \in BundleLabels THEN draft["bundle"] ELSE db["bundle"]
           /\ db'["ticket"] = db["ticket"]
           /\ \A c \in Clicks :
                db'[c] = IF c = s /\ at[s] = "commit_child" THEN draft[c] ELSE db[c]
<1>1. \A q \in RowNames : db'[q] = IF lock[q] = s THEN draft[q] ELSE db[q]
  BY DEF Commit, Sees, RowLocks, RowsInv, Typed
<1>2. QED BY <1>1, Names DEF RowLocks, Locks

LEMMA SlotCommits == ASSUME RowLocks, NEW s \in Slots, SlotStep(s), Quiet PROVE DbMoves
<1>1. CASE Claim(s)
  <2>1. [Job EXCEPT !.status = "running", !.lease_owner = Owner[s]].status = "running"
    BY TypedJob DEF JobRows
  <2>2. Moves(Job.status, "running")
    BY <1>1 DEF Claim, Claimable, Moves
  <2>3. QED BY <1>1, <2>1, <2>2, JobStored DEF Claim
<1>2. CASE Close(s)
  <2> DEFINE status == IF at[s] = "mark_failed" THEN "failed" ELSE "invalid"
  <2>1. CASE MayClose(s)
    <3>1. Closed(Job, status).status = status /\ status \in Statuses
      BY TypedJob, ClosedIsAJob DEF Statuses, Terminal
    <3>2. at[s] \notin JobLabels
      BY <1>2 DEF Close, JobLabels
    <3>3. Job.status = "running"
      BY <2>1, <3>2, SeesCommitted, Names DEF MayClose, HoldsRunning, Job
    <3>4. Store("job", Closed(Job, status)) /\ Moves(Job.status, status)
      BY <1>2, <2>1, <3>1, <3>3 DEF Close, Moves
    <3>5. QED BY <3>1, <3>4, JobStored
  <2>2. CASE ~MayClose(s)
    BY <1>2, <2>2, SameDb DEF Close, rows
  <2>3. QED BY <2>1, <2>2
<1>3. CASE FinishCanceled(s)
  <2>1. Closed(Job, "canceled").status = "canceled"
    BY TypedJob, ClosedIsAJob DEF Statuses, Terminal
  <2>2. QED BY <1>3, <2>1, SameDb, JobStored DEF FinishCanceled, rows, Moves
<1>4. CASE DeleteClaim(s)
  <2>1. CASE Store("bundle", "absent") /\ db["bundle"] = "promoting"
    <3>1. db'["bundle"] = "absent" /\ \A q \in RowNames : q # "bundle" => db'[q] = db[q]
      BY <2>1, StoreFacts, Names
    <3>2. db'["job"] = db["job"] /\ db'["ticket"] = db["ticket"] /\ Children' = Children
      BY <3>1, Names DEF Children
    <3>3. JobMoves
      BY <3>2 DEF JobMoves, Moves, Job
    <3>4. BundleMoves
      BY <2>1, <3>1, <3>2 DEF BundleMoves, Job
    <3>5. UsesMove
      BY <3>2 DEF UsesMove, Ticket
    <3>6. QED BY <3>2, <3>3, <3>4, <3>5 DEF DbMoves, ChildrenMove
  <2>2. CASE UNCHANGED rows
    BY <2>2, SameDb DEF rows
  <2>3. QED BY <1>4, <2>1, <2>2 DEF DeleteClaim
<1>5. CASE Commit(s) /\ at[s] \in {"commit_claim", "commit_publish", "commit_requeue", "commit_dead"}
  <2>1. /\ db'["job"] = draft["job"] /\ db'["ticket"] = db["ticket"] /\ Children' = Children
        /\ db'["bundle"] = IF at[s] \in {"commit_claim", "commit_publish"}
                           THEN draft["bundle"] ELSE db["bundle"]
    BY <1>5, CommitFacts, Names DEF JobLabels, BundleLabels, Children
  <2>2. JobDraft(s) /\ BundleDraft(s) /\ draft["job"].status \in Statuses
    BY StillRunning, TypedJob, Names DEF JobRows
  <2>3. JobMoves
    BY <1>5, <2>1, <2>2 DEF JobDraft, JobMoves, Moves, Job
  <2>4. BundleMoves
    <3>1. CASE at[s] = "commit_claim"
      BY <2>1, <2>2, <3>1 DEF JobDraft, BundleDraft, BundleMoves, Job
    <3>2. CASE at[s] = "commit_publish"
      BY <2>1, <2>2, <3>2 DEF JobDraft, BundleDraft, BundleMoves, Job
    <3>3. CASE at[s] \in {"commit_requeue", "commit_dead"}
      BY <2>1, <2>2, <3>3 DEF JobDraft, BundleMoves, Job
    <3>4. QED BY <1>5, <3>1, <3>2, <3>3
  <2>5. UsesMove
    BY <2>1 DEF UsesMove, Ticket
  <2>6. QED BY <2>1, <2>3, <2>4, <2>5 DEF DbMoves, ChildrenMove
<1>6. CASE CommitClaim(s) \/ CommitPublish(s) \/ CommitJob(s)
  BY <1>5, <1>6 DEF CommitClaim, CommitPublish, CommitJob
<1>7. CASE \/ ClaimRefused(s) \/ Convert(s) \/ RenewLease(s) \/ TouchJob(s) \/ TouchNoJob(s)
           \/ UndoSnapshot(s) \/ StatementFails(s) \/ Dies(s)
  BY <1>7, SameDb DEF ClaimRefused, Convert, RenewLease, TouchJob, TouchNoJob, UndoSnapshot,
     StatementFails, Dies, Write, Rollback, rows
<1>8. CASE \/ InsertBundle(s) \/ SelectBundle(s) \/ PublishBundle(s) \/ PublishJob(s)
           \/ LockJob(s) \/ Requeue(s) \/ MarkDead(s)
  BY <1>8, SameDb DEF InsertBundle, SelectBundle, PublishBundle, PublishJob, LockJob, Requeue,
     MarkDead, Write, Rollback, rows
<1>9. QED BY <1>1, <1>2, <1>3, <1>4, <1>6, <1>7, <1>8 DEF SlotStep

LEMMA JobKept ==
    ASSUME RowLocks, NEW r \in RowNames \ {"job", "bundle"}, NEW v, Store(r, v)
    PROVE  JobMoves /\ BundleMoves
<1>1. db'["job"] = db["job"] /\ db'["bundle"] = db["bundle"]
  BY StoreFacts, Names
<1>2. QED BY <1>1 DEF JobMoves, BundleMoves, Moves, Job

LEMMA TicketStored ==
    ASSUME RowLocks, NEW v, Store("ticket", v)
    PROVE  /\ Ticket' = v /\ JobMoves /\ BundleMoves /\ ChildrenMove
           /\ v.uses = Ticket.uses => UsesMove
<1>1. Ticket' = v /\ Children' = Children
  BY StoreFacts, Names DEF Ticket, Children
<1>2. JobMoves /\ BundleMoves
  BY JobKept, Names
<1>3. v.uses = Ticket.uses => UsesMove
  BY <1>1 DEF UsesMove
<1>4. QED BY <1>1, <1>2, <1>3 DEF ChildrenMove

LEMMA ApiCommits == ASSUME RowLocks, ApiNext PROVE DbMoves
<1>1. ASSUME NEW s \in AllSessions, ApiStep(s) PROVE DbMoves
  <2>1. CASE CancelQueued(s) \/ CancelRunning(s)
    <3>1. [Job EXCEPT !.status = "canceled"].status = "canceled"
          /\ [Job EXCEPT !.status = "canceling", !.cancel_requested = TRUE].status = "canceling"
      BY TypedJob DEF JobRows
    <3>2. \A from : from = "queued" => Moves(from, "canceled")
      BY DEF Moves
    <3>3. \A from : from = "running" => Moves(from, "canceling")
      BY DEF Moves, Statuses, Active
    <3>4. CASE UNCHANGED rows
      BY <3>4, SameDb DEF rows
    <3>5. CASE Job.status = "queued" /\ Store("job", [Job EXCEPT !.status = "canceled"])
      BY <3>1, <3>2, <3>5, JobStored
    <3>6. CASE /\ Job.status = "running"
               /\ Store("job", [Job EXCEPT !.status = "canceling", !.cancel_requested = TRUE])
      BY <3>1, <3>3, <3>6, JobStored
    <3>7. QED BY <2>1, <3>4, <3>5, <3>6 DEF CancelQueued, CancelRunning
  <2>2. CASE CommitChild(s)
    <3>1. at[s] = "commit_child" /\ s \in Clicks
      BY <2>2 DEF CommitChild, RowLocks, SessionsInv, ClickLabels
    <3>2. /\ draft["job"] = db["job"]
          /\ draft[s] = "queued" /\ Children = {}
      BY <3>1, StillRunning DEF RowLocks, Drafts, JobDraft, ChildDraft
    <3>3. /\ db'["job"] = db["job"] /\ db'["bundle"] = db["bundle"] /\ db'["ticket"] = db["ticket"]
          /\ \A c \in Clicks : db'[c] = IF c = s THEN "queued" ELSE db[c]
      BY <2>2, <3>1, <3>2, CommitFacts DEF CommitChild, BundleLabels
    <3>4. Children' = {s}
      BY <3>1, <3>2, <3>3 DEF Children
    <3>5. ChildrenMove
      BY <3>1, <3>2, <3>4 DEF ChildrenMove
    <3>6. JobMoves /\ BundleMoves
      BY <3>3 DEF JobMoves, BundleMoves, Moves, Job
    <3>7. UsesMove
      BY <3>3 DEF UsesMove, Ticket
    <3>8. QED BY <3>5, <3>6, <3>7 DEF DbMoves
  <2>3. CASE CreateTicket(s)
    <3>1. CASE Store("ticket", [Ticket EXCEPT !.issued = TRUE])
      <4>1. [Ticket EXCEPT !.issued = TRUE].uses = Ticket.uses
        BY TypedTicket DEF TicketRows
      <4>2. QED BY <3>1, <4>1, TicketStored DEF DbMoves
    <3>2. CASE UNCHANGED rows
      BY <3>2, SameDb DEF rows
    <3>3. QED BY <2>3, <3>1, <3>2 DEF CreateTicket
  <2>4. CASE Redeem(s)
    <3>1. CASE Redeemable
      <4>1. [Ticket EXCEPT !.uses = @ + 1].uses = Ticket.uses + 1
        BY TypedTicket DEF TicketRows
      <4>2. /\ Store("ticket", [Ticket EXCEPT !.uses = @ + 1])
            /\ at' = [at EXCEPT ![s] = "prepare"] /\ UNCHANGED answer
        BY <2>4, <3>1 DEF Redeem, Goto
      <4>3. /\ Ticket'.uses = Ticket.uses + 1
            /\ JobMoves /\ BundleMoves /\ ChildrenMove
        BY <4>1, <4>2, TicketStored
      <4>4. Redeems
        BY <4>2, <4>3 DEF Redeems
      <4>5. QED BY <4>3, <4>4 DEF DbMoves, UsesMove
    <3>2. CASE ~Redeemable
      BY <2>4, <3>2, SameDb DEF Redeem, rows
    <3>3. QED BY <3>1, <3>2
  <2>5. CASE \/ CancelRead(s) \/ LockParent(s) \/ InsertChild(s) \/ ByParent(s) \/ Download(s)
             \/ RequestFails(s)
    BY <2>5, SameDb DEF CancelRead, LockParent, InsertChild, ByParent, Download, RequestFails,
       Write, Rollback, rows
  <2>6. QED BY <1>1, <2>1, <2>2, <2>3, <2>4, <2>5 DEF ApiStep
<1>2. CASE ChildEnds
  <2>1. PICK c \in Children, status \in Terminal : Store(c, status)
    BY <1>2 DEF ChildEnds
  <2>2. c \in RowNames \ {"job", "bundle", "ticket"} /\ status # "absent"
    BY Names DEF Children, Terminal
  <2>3. /\ db'[c] = status /\ \A q \in RowNames : q # c => db'[q] = db[q]
    BY <2>1, <2>2, StoreFacts
  <2>4. Children' = Children /\ db'["ticket"] = db["ticket"]
    BY <2>2, <2>3, Names DEF Children
  <2>5. JobMoves /\ BundleMoves
    BY <2>1, <2>2, JobKept
  <2>6. UsesMove
    BY <2>4 DEF UsesMove, Ticket
  <2>7. QED BY <2>4, <2>5, <2>6 DEF DbMoves, ChildrenMove
<1>3. CASE TicketExpires
  <2>1. [Ticket EXCEPT !.expired = TRUE].uses = Ticket.uses
    BY TypedTicket DEF TicketRows
  <2>2. QED BY <1>3, <2>1, TicketStored DEF TicketExpires, DbMoves
<1>4. QED BY <1>1, <1>2, <1>3, Names DEF ApiNext

LEMMA SweepCommits ==
    ASSUME RowLocks, NEW s \in Sweepers,
           SelectCanceling(s) \/ SelectRunning(s) \/ CancelExpired(s) \/ ReclaimExpired(s)
    PROVE  DbMoves
<1>1. Closed(Job, "canceled").status = "canceled" /\ Closed(Job, "queued").status = "queued"
  BY TypedJob, ClosedIsAJob DEF Statuses, Terminal, Active
<1>2. CASE CancelExpired(s)
  <2>1. overtaken' \/ Moves(Job.status, "canceled")
    BY <1>2 DEF CancelExpired, Overdue, Moves
  <2>2. QED BY <1>1, <1>2, <2>1, JobStored DEF CancelExpired
<1>3. CASE ReclaimExpired(s)
  <2>1. overtaken' \/ Moves(Job.status, "queued")
    BY <1>3 DEF ReclaimExpired, Overdue, Moves, Statuses, Active
  <2>2. QED BY <1>1, <1>3, <2>1, JobStored DEF ReclaimExpired
<1>4. QED BY <1>2, <1>3, SameDb DEF SelectCanceling, SelectRunning, Select, rows

\* Every step commits a move of the job and of its bundle that keeps them together,
\* one child at most, and a use for a session; and no step clears overtaken.
LEMMA StepMoves ==
    ASSUME RowLocks, [SessionsNext]_sessionVars PROVE DbMoves /\ (overtaken => overtaken')
<1>1. CASE SessionsNext
  <2>1. CASE \E s \in Slots : SlotStep(s) /\ UNCHANGED <<answer, overtaken>>
    BY <2>1, SlotCommits DEF Quiet
  <2>2. CASE ApiNext /\ UNCHANGED overtaken
    BY <2>2, ApiCommits
  <2>3. CASE \E s \in Sweepers :
               SelectCanceling(s) \/ SelectRunning(s) \/ CancelExpired(s) \/ ReclaimExpired(s)
    <3>1. overtaken => overtaken'
      BY <2>3 DEF SelectCanceling, SelectRunning, Select, CancelExpired, ReclaimExpired
    <3>2. QED BY <2>3, <3>1, SweepCommits
  <2>4. CASE LeaseAges
    BY <2>4, SameDb DEF LeaseAges, rows
  <2>5. QED BY <1>1, <2>1, <2>2, <2>3, <2>4 DEF SessionsNext
<1>2. CASE UNCHANGED sessionVars
  BY <1>2, SameDb DEF sessionVars, rows
<1>3. QED BY <1>1, <1>2

---------------------------------------------------------------------------
(* What a step tells the users *)

\* The answers that say nothing of the rows.
Plain == {"none", "error", "ticket_invalid", "not_retryable"}

\* What an answer means when it is given.
Told(s) ==
    \/ answer'[s] \in Plain
    \/ answer'[s] = "canceled" /\ Job'.status = "canceled"
    \/ answer'[s] = "canceling" /\ Job'.status = "canceling"
    \/ /\ at[s] = "cancel_read" /\ Job' = Job /\ seen'[s] = seen[s]
       /\ answer'[s] = IF Job.status \in Terminal THEN "not_cancelable" ELSE Job.status
    \/ answer'[s] \in {"child", "active"} /\ Children' # {}
    \/ answer'[s] \in {"zip", "broken_zip", "not_found"} /\ at[s] = "prepare"

\* RequestCancel reads the status before its second statement, and not again.
Asks(s) ==
    /\ \/ seen'[s] = seen[s]
       \/ at[s] = "cancel_queued" /\ seen'[s] = Job.status
    /\ at'[s] = "cancel_running" =>
         \/ at[s] = "cancel_running" /\ seen'[s] = seen[s]
         \/ at[s] = "cancel_queued" /\ seen'[s] = Job.status /\ Job.status # "queued" /\ Job' = Job
    /\ at'[s] = "cancel_read" => at[s] \in {"cancel_running", "cancel_read"} /\ seen'[s] = seen[s]
    /\ at'[s] = "cancel_queued" => at[s] = "cancel_queued" /\ answer'[s] = answer[s]
    /\ at'[s] = "prepare" => at[s] = "prepare" \/ Redeems

Moved(s) == (answer'[s] = answer[s] \/ Told(s)) /\ Asks(s)

\* The statements of a worker are its own.
LEMMA SlotGoesElsewhere ==
    ASSUME NEW s \in Slots, SlotStep(s)
    PROVE  /\ seen' = seen
           /\ at' = at \/ \E label \in SlotLabels : at' = [at EXCEPT ![s] = label]
<1>1. /\ NotClaimed(s) \in SlotLabels /\ OrCancel(s) \in SlotLabels
      /\ AfterUndo(s) \in SlotLabels /\ OnError(s) \in SlotLabels
  BY DEF NotClaimed, OrCancel, AfterUndo, OnError, SlotLabels
<1>2. CASE \/ Claim(s) \/ ClaimRefused(s) \/ Convert(s) \/ RenewLease(s) \/ TouchJob(s)
           \/ TouchNoJob(s) \/ InsertBundle(s) \/ SelectBundle(s) \/ CommitClaim(s)
  BY <1>1, <1>2 DEF Claim, ClaimRefused, Convert, RenewLease, TouchJob, TouchNoJob, InsertBundle,
     SelectBundle, CommitClaim, Goto, SlotLabels
<1>3. CASE \/ PublishBundle(s) \/ PublishJob(s) \/ CommitPublish(s)
           \/ UndoSnapshot(s) \/ DeleteClaim(s) \/ LockJob(s)
  BY <1>1, <1>3 DEF PublishBundle, PublishJob, CommitPublish, UndoSnapshot, DeleteClaim, LockJob,
     Goto, SlotLabels
<1>4. CASE \/ Requeue(s) \/ MarkDead(s) \/ CommitJob(s) \/ Close(s) \/ FinishCanceled(s)
           \/ StatementFails(s) \/ Dies(s)
  BY <1>1, <1>4 DEF Requeue, MarkDead, CommitJob, Close, FinishCanceled, StatementFails, Dies,
     Goto, SlotLabels
<1>5. QED BY <1>2, <1>3, <1>4 DEF SlotStep

\* A session that a step does not concern.
LEMMA Untold ==
    ASSUME NEW t, at'[t] = at[t], seen'[t] = seen[t], answer'[t] = answer[t]
    PROVE  Moved(t)
  BY DEF Moved, Asks

LEMMA WorkMoves ==
    ASSUME RowLocks, NEW t \in AllSessions, UNCHANGED <<seen, answer>>,
           \/ UNCHANGED at
           \/ \E s \in AllSessions, label \in Labels :
                /\ at' = [at EXCEPT ![s] = label]
                /\ label \notin {"cancel_queued", "cancel_running", "cancel_read", "prepare"}
    PROVE  Moved(t)
<1>1. at'[t] = at[t] \/ at'[t] \notin {"cancel_queued", "cancel_running", "cancel_read", "prepare"}
  BY DEF RowLocks, SessionsInv
<1>2. QED BY <1>1 DEF Moved, Asks

LEMMA CancelMoves ==
    ASSUME RowLocks, NEW s \in AllSessions, CancelQueued(s) \/ CancelRunning(s) \/ CancelRead(s)
    PROVE  Moved(s)
<1>1. \A label : at' = [at EXCEPT ![s] = label] => at'[s] = label
  BY DEF RowLocks, SessionsInv
<1>2. \A what : answer' = [answer EXCEPT ![s] = what] => answer'[s] = what
  BY DEF RowLocks, SessionsInv
<1>3. \A what : seen' = [seen EXCEPT ![s] = what] => seen'[s] = what
  BY DEF RowLocks, SessionsInv
<1>4. UNCHANGED rows => Job' = Job
  BY DEF rows, Job
<1>5. CASE CancelQueued(s)
  <2>1. at[s] = "cancel_queued" /\ seen'[s] = Job.status
    BY <1>3, <1>5 DEF CancelQueued
  <2>2. CASE Job.status = "queued"
    <3>1. Job' = [Job EXCEPT !.status = "canceled"]
      BY <1>5, <2>2, StoreFacts, Names DEF CancelQueued, Job
    <3>2. Job'.status = "canceled"
      BY <3>1, TypedJob DEF JobRows
    <3>3. answer'[s] = "canceled" /\ at'[s] = "over"
      BY <1>1, <1>2, <1>5, <2>2 DEF CancelQueued, Answer, Goto
    <3>4. QED BY <2>1, <3>2, <3>3 DEF Moved, Told, Asks
  <2>3. CASE Job.status # "queued"
    <3>1. at'[s] = "cancel_running" /\ answer' = answer /\ Job' = Job
      BY <1>1, <1>4, <1>5, <2>3 DEF CancelQueued, Goto
    <3>2. QED BY <2>1, <2>3, <3>1 DEF Moved, Asks
  <2>4. QED BY <2>2, <2>3
<1>6. CASE CancelRunning(s)
  <2>1. at[s] = "cancel_running" /\ seen' = seen
    BY <1>6 DEF CancelRunning, apiUnchanged
  <2>2. CASE Job.status = "running"
    <3>1. Job' = [Job EXCEPT !.status = "canceling", !.cancel_requested = TRUE]
      BY <1>6, <2>2, StoreFacts, Names DEF CancelRunning, Job
    <3>2. Job'.status = "canceling"
      BY <3>1, TypedJob DEF JobRows
    <3>3. answer'[s] = "canceling" /\ at'[s] = "over"
      BY <1>1, <1>2, <1>6, <2>2 DEF CancelRunning, Answer, Goto
    <3>4. QED BY <2>1, <3>2, <3>3 DEF Moved, Told, Asks
  <2>3. CASE Job.status # "running"
    <3>1. at'[s] = "cancel_read" /\ answer' = answer
      BY <1>1, <1>6, <2>3 DEF CancelRunning, Goto
    <3>2. QED BY <2>1, <3>1 DEF Moved, Asks
  <2>4. QED BY <2>2, <2>3
<1>7. CASE CancelRead(s)
  <2>1. /\ at[s] = "cancel_read" /\ seen' = seen /\ Job' = Job /\ at'[s] = "over"
        /\ answer'[s] = IF Job.status \in Terminal THEN "not_cancelable" ELSE Job.status
    BY <1>1, <1>2, <1>4, <1>7 DEF CancelRead, apiUnchanged, Answer, Goto
  <2>2. QED BY <2>1 DEF Moved, Told, Asks
<1>8. QED BY <1>5, <1>6, <1>7

LEMMA OtherUsersMove ==
    ASSUME RowLocks, DbMoves, NEW s \in AllSessions,
           \/ LockParent(s) \/ InsertChild(s) \/ CommitChild(s) \/ ByParent(s)
           \/ CreateTicket(s) \/ Redeem(s) \/ Download(s) \/ RequestFails(s)
    PROVE  Moved(s)
<1>1. \A label : Goto(s, label) => at'[s] = label
  BY DEF Goto, RowLocks, SessionsInv
<1>2. \A what : Answer(s, what) => answer'[s] = what
  BY DEF Answer, RowLocks, SessionsInv
<1>3. seen' = seen
  BY DEF LockParent, InsertChild, CommitChild, ByParent, CreateTicket, Redeem, Download,
     RequestFails, apiUnchanged
<1>4. CASE Redeem(s)
  <2>1. CASE Redeemable
    <3>1. /\ Store("ticket", [Ticket EXCEPT !.uses = @ + 1])
          /\ at' = [at EXCEPT ![s] = "prepare"] /\ UNCHANGED answer
      BY <1>4, <2>1 DEF Redeem, Goto
    <3>2. [Ticket EXCEPT !.uses = @ + 1].uses = Ticket.uses + 1
      BY TypedTicket DEF TicketRows
    <3>3. Ticket'.uses = Ticket.uses + 1
      BY <3>1, <3>2, TicketStored
    <3>4. Redeems
      BY <3>1, <3>3 DEF Redeems
    <3>5. at'[s] = "prepare"
      BY <3>1 DEF RowLocks, SessionsInv
    <3>6. QED BY <1>3, <3>1, <3>4, <3>5 DEF Moved, Asks
  <2>2. CASE ~Redeemable
    <3>1. answer'[s] = "ticket_invalid" /\ at'[s] = "over"
      BY <1>1, <1>2, <1>4, <2>2 DEF Redeem
    <3>2. QED BY <1>3, <3>1 DEF Moved, Told, Asks, Plain
  <2>3. QED BY <2>1, <2>2
<1>5. CASE LockParent(s) \/ CreateTicket(s)
  <2>1. at'[s] \in {"insert_child", "over", "redeem"}
    BY <1>1, <1>5 DEF LockParent, CreateTicket
  <2>2. answer'[s] = answer[s] \/ answer'[s] = "not_retryable"
    BY <1>2, <1>5 DEF LockParent, CreateTicket
  <2>3. QED BY <1>3, <2>1, <2>2 DEF Moved, Told, Asks, Plain
<1>6. CASE InsertChild(s)
  <2>1. at'[s] \in {"commit_child", "over", "by_parent"}
    BY <1>1, <1>6 DEF InsertChild
  <2>2. answer'[s] = answer[s] \/ (answer'[s] = "active" /\ Children' # {})
    <3>1. CASE Conflict(s) = "jobs_active_per_document_uk" /\ Rollback(s) /\ Answer(s, "active")
      <4>1. Children' = Children
        BY <3>1 DEF Rollback, Children
      <4>2. Children # {}
        BY <3>1 DEF Conflict
      <4>3. QED BY <1>2, <3>1, <4>1, <4>2
    <3>2. CASE UNCHANGED answer
      BY <3>2
    <3>3. QED BY <1>6, <3>1, <3>2 DEF InsertChild
  <2>3. QED BY <1>3, <2>1, <2>2 DEF Moved, Told, Asks
<1>7. CASE CommitChild(s)
  <2>1. at[s] = "commit_child" /\ s \in Clicks
    BY <1>7 DEF CommitChild, RowLocks, SessionsInv, ClickLabels
  <2>2. draft[s] = "queued"
    BY <2>1 DEF RowLocks, Drafts, ChildDraft
  <2>3. db'[s] = "queued"
    BY <1>7, <2>1, <2>2, CommitFacts DEF CommitChild
  <2>4. Children' # {}
    BY <2>1, <2>3 DEF Children
  <2>5. at'[s] = "over" /\ answer'[s] \in {"child", "error"}
    BY <1>1, <1>2, <1>7 DEF CommitChild
  <2>6. QED BY <1>3, <2>4, <2>5 DEF Moved, Told, Asks, Plain
<1>8. CASE ByParent(s)
  <2>1. Children' = Children
    BY <1>8 DEF ByParent, rows, Children
  <2>2. at'[s] = "over" /\ answer'[s] = IF Children # {} THEN "child" ELSE "error"
    BY <1>1, <1>2, <1>8 DEF ByParent
  <2>3. QED BY <1>3, <2>1, <2>2 DEF Moved, Told, Asks, Plain
<1>9. CASE Download(s)
  <2>1. /\ at[s] = "prepare" /\ at'[s] = "over"
        /\ answer'[s] \in {"zip", "broken_zip", "not_found"}
    BY <1>1, <1>2, <1>9 DEF Download
  <2>2. QED BY <1>3, <2>1 DEF Moved, Told, Asks
<1>10. CASE RequestFails(s)
  <2>1. at'[s] = "over" /\ answer'[s] = "error"
    BY <1>1, <1>2, <1>10 DEF RequestFails
  <2>2. QED BY <1>3, <2>1 DEF Moved, Told, Asks, Plain
<1>11. QED BY <1>4, <1>5, <1>6, <1>7, <1>8, <1>9, <1>10

\* A step of one user is no step of another.
LEMMA OneUser ==
    ASSUME RowLocks, NEW s \in AllSessions, ApiStep(s), NEW t \in AllSessions, t # s
    PROVE  at'[t] = at[t] /\ seen'[t] = seen[t] /\ answer'[t] = answer[t]
<1>1. \E label : at' = [at EXCEPT ![s] = label]
  BY DEF ApiStep, CancelQueued, CancelRunning, CancelRead, LockParent, InsertChild, CommitChild,
     ByParent, CreateTicket, Redeem, Download, RequestFails, Goto
<1>2. answer' = answer \/ \E what : answer' = [answer EXCEPT ![s] = what]
  BY DEF ApiStep, CancelQueued, CancelRunning, CancelRead, LockParent, InsertChild, CommitChild,
     ByParent, CreateTicket, Redeem, Download, RequestFails, Answer
<1>3. seen' = seen \/ \E what : seen' = [seen EXCEPT ![s] = what]
  BY DEF ApiStep, CancelQueued, CancelRunning, CancelRead, LockParent, InsertChild, CommitChild,
     ByParent, CreateTicket, Redeem, Download, RequestFails, apiUnchanged
<1>4. QED BY <1>1, <1>2, <1>3 DEF RowLocks, SessionsInv

LEMMA StepTells ==
    ASSUME RowLocks, [SessionsNext]_sessionVars, NEW t \in AllSessions PROVE Moved(t)
<1>1. ASSUME NEW s \in Slots, SlotStep(s), UNCHANGED <<answer, overtaken>> PROVE Moved(t)
  <2>1. /\ seen' = seen
        /\ at' = at \/ \E label \in SlotLabels : at' = [at EXCEPT ![s] = label]
    BY <1>1, SlotGoesElsewhere
  <2>2. \A label \in SlotLabels :
          label \in Labels /\ label \notin {"cancel_queued", "cancel_running", "cancel_read", "prepare"}
    BY DEF SlotLabels, Labels, Holding, JobLabels, BundleLabels, Outside
  <2>3. QED BY <1>1, <2>1, <2>2, WorkMoves, Names
<1>2. ASSUME NEW s \in AllSessions, ApiStep(s), UNCHANGED overtaken PROVE Moved(t)
  <2>1. CASE t = s
    <3>1. DbMoves
      BY StepMoves
    <3>2. QED BY <1>2, <2>1, <3>1, CancelMoves, OtherUsersMove DEF ApiStep
  <2>2. CASE t # s
    BY <1>2, <2>2, OneUser, Untold
  <2>3. QED BY <2>1, <2>2
<1>3. CASE ChildEnds \/ TicketExpires \/ LeaseAges \/ UNCHANGED sessionVars
  BY <1>3, Untold DEF ChildEnds, TicketExpires, LeaseAges, sessionVars
<1>4. ASSUME NEW s \in Sweepers,
             SelectCanceling(s) \/ SelectRunning(s) \/ CancelExpired(s) \/ ReclaimExpired(s)
      PROVE  Moved(t)
  <2>1. PICK label \in {"cancel_expired", "select_running", "reclaim_expired", "select_canceling"} :
          at' = [at EXCEPT ![s] = label]
    BY <1>4 DEF SelectCanceling, SelectRunning, Select, CancelExpired, ReclaimExpired, Goto
  <2>2. UNCHANGED <<seen, answer>>
    BY <1>4 DEF SelectCanceling, SelectRunning, Select, CancelExpired, ReclaimExpired
  <2>3. label \in Labels
    BY DEF Labels, Outside
  <2>4. QED BY <2>1, <2>2, <2>3, WorkMoves, Names
<1>5. QED BY <1>1, <1>2, <1>3, <1>4, Names DEF SessionsNext, ApiNext

---------------------------------------------------------------------------
(* The answers stay true *)

LEMMA StatusesMove ==
    ASSUME RowLocks, [SessionsNext]_sessionVars, ~overtaken'
    PROVE  /\ Moves(Job.status, Job'.status) /\ Job.status \in Statuses /\ ~overtaken
           /\ Job.status \in Terminal => Job'.status = Job.status
           /\ Job.status \in {"canceling", "canceled"} => Job'.status \in {"canceling", "canceled"}
<1>1. Moves(Job.status, Job'.status) /\ ~overtaken
  BY StepMoves DEF DbMoves, JobMoves
<1>2. Job.status \in Statuses
  BY StatusTyped
<1>3. QED BY <1>1, <1>2 DEF Moves, Terminal

LEMMA PublishedStep ==
    ASSUME RowLocks, PublishedIsSucceeded, [SessionsNext]_sessionVars
    PROVE  PublishedIsSucceeded'
<1>1. BundleMoves /\ (overtaken => overtaken')
  BY StepMoves DEF DbMoves
<1>2. ~overtaken' => (Job.status = "succeeded" => Job'.status = "succeeded")
  BY StatusesMove DEF Terminal
<1>3. QED BY <1>1, <1>2 DEF PublishedIsSucceeded, BundleMoves, Job

LEMMA ReadsStep ==
    ASSUME RowLocks, Reads, [SessionsNext]_sessionVars PROVE Reads'
<1>1. ASSUME NEW s \in Cancels, at'[s] = "cancel_queued" PROVE answer'[s] = "none"
  BY <1>1, StepTells, Names DEF Moved, Asks, Reads
<1>2. ASSUME ~overtaken', NEW s \in Cancels, at'[s] \in {"cancel_running", "cancel_read"}
      PROVE  /\ seen'[s] \in Statuses \ {"queued"}
             /\ seen'[s] = "canceling" => Job'.status \in {"canceling", "canceled"}
             /\ seen'[s] \in Terminal => Job'.status = seen'[s]
  <2>1. Asks(s)
    BY StepTells, Names DEF Moved
  <2>2. /\ Job.status \in Statuses /\ ~overtaken
        /\ Job.status \in Terminal => Job'.status = Job.status
        /\ Job.status \in {"canceling", "canceled"} => Job'.status \in {"canceling", "canceled"}
    BY <1>2, StatusesMove
  <2>3. CASE at[s] \in {"cancel_running", "cancel_read"} /\ seen'[s] = seen[s]
    BY <2>2, <2>3 DEF Reads
  <2>4. CASE seen'[s] = Job.status /\ Job.status # "queued" /\ Job' = Job
    BY <2>2, <2>4
  <2>5. QED BY <1>2, <2>1, <2>3, <2>4 DEF Asks
<1>3. QED BY <1>1, <1>2 DEF Reads

LEMMA CancelIsTrueStep ==
    ASSUME RowLocks, Reads, CancelIsTrue, [SessionsNext]_sessionVars PROVE CancelIsTrue'
<1> SUFFICES ASSUME ~overtaken', NEW s \in Cancels
             PROVE  /\ answer'[s] = "canceled" => Job'.status = "canceled"
                    /\ answer'[s] = "canceling" => Job'.status \in {"canceling", "canceled"}
                    /\ answer'[s] = "not_cancelable" => Job'.status \in Terminal
                    /\ answer'[s] \in {"queued", "running"} => seen'[s] = "running"
  BY DEF CancelIsTrue
<1>1. Moved(s)
  BY StepTells, Names
<1>2. /\ Job.status \in Statuses /\ ~overtaken
      /\ Job.status \in Terminal => Job'.status = Job.status
      /\ Job.status \in {"canceling", "canceled"} => Job'.status \in {"canceling", "canceled"}
  BY StatusesMove
<1>3. CASE answer'[s] = answer[s]
  <2>1. seen'[s] = seen[s] \/ answer[s] = "none"
    BY <1>1 DEF Moved, Asks, Reads
  <2>2. /\ answer[s] = "canceled" => Job.status = "canceled"
        /\ answer[s] = "canceling" => Job.status \in {"canceling", "canceled"}
        /\ answer[s] = "not_cancelable" => Job.status \in Terminal
        /\ answer[s] \in {"queued", "running"} => seen[s] = "running"
    BY <1>2 DEF CancelIsTrue
  <2>3. QED BY <1>2, <1>3, <2>1, <2>2 DEF Terminal
<1>4. CASE Told(s)
  <2>1. CASE /\ at[s] = "cancel_read" /\ Job' = Job /\ seen'[s] = seen[s]
             /\ answer'[s] = IF Job.status \in Terminal THEN "not_cancelable" ELSE Job.status
    <3>1. /\ seen[s] \in Statuses \ {"queued"}
          /\ seen[s] = "canceling" => Job.status \in {"canceling", "canceled"}
          /\ seen[s] \in Terminal => Job.status = seen[s]
      BY <1>2, <2>1 DEF Reads
    <3>2. QED BY <1>2, <2>1, <3>1 DEF Statuses, Terminal, Active
  <2>2. CASE ~(at[s] = "cancel_read" /\ Job' = Job /\ seen'[s] = seen[s]
               /\ answer'[s] = IF Job.status \in Terminal THEN "not_cancelable" ELSE Job.status)
    BY <1>4, <2>2 DEF Told, Plain
  <2>3. QED BY <2>1, <2>2
<1>5. QED BY <1>1, <1>3, <1>4 DEF Moved

LEMMA OneChildStep ==
    ASSUME RowLocks, OneChild, [SessionsNext]_sessionVars PROVE OneChild'
<1>1. ChildrenMove
  BY StepMoves DEF DbMoves
<1>2. \A c, d \in Children' : c = d
  BY <1>1 DEF OneChild, ChildrenMove
<1>3. ASSUME NEW s \in Clicks, answer'[s] \in {"child", "active"} PROVE Children' # {}
  <2>1. Moved(s)
    BY StepTells, Names
  <2>2. Children # {} => Children' # {}
    BY <1>1 DEF ChildrenMove
  <2>3. CASE answer'[s] = answer[s]
    BY <1>3, <2>2, <2>3 DEF OneChild
  <2>4. CASE Told(s)
    BY <1>3, <2>4, StatusTyped DEF Told, Plain, Statuses, Terminal, Active
  <2>5. QED BY <2>1, <2>3, <2>4 DEF Moved
<1>4. QED BY <1>2, <1>3 DEF OneChild

LEMMA UsesStep ==
    ASSUME RowLocks, UsesInv, [SessionsNext]_sessionVars PROVE UsesInv'
<1>1. UsesMove
  BY StepMoves DEF DbMoves
<1>2. Ticket.uses \in Nat /\ IsFiniteSet(Spent) /\ Cardinality(Spent) <= Ticket.uses
  BY TypedTicket DEF TicketRows, UsesInv
<1>3. ASSUME NEW s \in Downloads,
             at'[s] = "prepare" \/ answer'[s] \in {"zip", "broken_zip", "not_found"}
      PROVE  s \in Spent \/ Redeems
  <2>1. Moved(s)
    BY StepTells, Names
  <2>2. CASE at'[s] = "prepare"
    BY <2>1, <2>2 DEF Moved, Asks, Spent
  <2>3. CASE answer'[s] \in {"zip", "broken_zip", "not_found"}
    BY <2>1, <2>3, StatusTyped DEF Moved, Told, Plain, Spent, Statuses, Terminal, Active
  <2>4. QED BY <1>3, <2>2, <2>3
<1>4. CASE Redeems
  <2>1. PICK s \in AllSessions : at' = [at EXCEPT ![s] = "prepare"] /\ UNCHANGED answer
    BY <1>4 DEF Redeems
  <2>2. Spent' \subseteq Spent \cup {s}
    BY <2>1 DEF Spent, RowLocks, SessionsInv
  <2>3. IsFiniteSet(Spent \cup {s}) /\ Cardinality(Spent \cup {s}) <= Cardinality(Spent) + 1
    BY <1>2, FS_AddElement, FS_CardinalityType
  <2>4. IsFiniteSet(Spent') /\ Cardinality(Spent') <= Cardinality(Spent \cup {s})
    BY <2>2, <2>3, FS_Subset
  <2>5. /\ Cardinality(Spent) \in Nat /\ Cardinality(Spent') \in Nat
        /\ Cardinality(Spent \cup {s}) \in Nat
    BY <1>2, <2>3, <2>4, FS_CardinalityType
  <2>6. Ticket'.uses = Ticket.uses + 1
    BY <1>4 DEF Redeems
  <2>7. PICK n \in Nat : n = Ticket.uses
    BY <1>2
  <2>8. Cardinality(Spent') <= n + 1
    BY <1>2, <2>3, <2>4, <2>5, <2>7
  <2>9. QED BY <2>4, <2>6, <2>7, <2>8 DEF UsesInv
<1>5. CASE ~Redeems
  <2>1. Spent' \subseteq Spent
    BY <1>3, <1>5 DEF Spent
  <2>2. IsFiniteSet(Spent') /\ Cardinality(Spent') <= Cardinality(Spent)
    BY <1>2, <2>1, FS_Subset
  <2>3. Cardinality(Spent) \in Nat /\ Cardinality(Spent') \in Nat
    BY <1>2, <2>2, FS_CardinalityType
  <2>4. Ticket'.uses = Ticket.uses
    BY <1>1, <1>5 DEF UsesMove
  <2>5. Cardinality(Spent') <= Ticket.uses
    BY <1>2, <2>2, <2>3
  <2>6. QED BY <2>2, <2>4, <2>5 DEF UsesInv
<1>6. QED BY <1>4, <1>5

---------------------------------------------------------------------------
(* The theorems *)

\* Nothing but a session that holds a row changes it, whatever breaks between two
\* statements of the others.
THEOREM SessionsInvariant == SessionsSpec => []SessionsIInv
<1>1. SessionsInit => SessionsIInv
  BY InitRowLocks, InitAnswers DEF SessionsIInv
<1>2. SessionsIInv /\ [SessionsNext]_sessionVars => SessionsIInv'
  BY RowLocksStep, PublishedStep, ReadsStep, CancelIsTrueStep, OneChildStep, UsesStep
  DEF SessionsIInv, AnswersInv
<1>3. QED BY <1>1, <1>2, PTL DEF SessionsSpec

\* The rows, the lease and the locks are what the schema and the transactions allow.
THEOREM SessionsTypeCorrect == SessionsSpec => []SessionsTypeOK
<1>1. SessionsIInv => SessionsTypeOK
  <2> SUFFICES ASSUME RowLocks PROVE SessionsTypeOK
    BY DEF SessionsIInv
  <2>1. \A s \in AllSessions : at[s] = "over" => Held(s) = {}
    <3> SUFFICES ASSUME NEW s \in AllSessions, at[s] = "over",
                        NEW r \in RowNames, lock[r] = s
                 PROVE  FALSE
      BY DEF Held, RowLocks, RowsInv
    <3>1. lock["job"] # s /\ lock["bundle"] # s /\ lock["ticket"] # s
      BY Names DEF RowLocks, Locks, JobLabels, BundleLabels
    <3>2. r \in Clicks
      BY <3>1 DEF RowNames
    <3>3. QED BY <3>2, Names DEF RowLocks, Locks
  <2>2. \A r \in RowNames : lock[r] = Nobody => draft[r] = db[r]
    BY DEF RowLocks, Drafts, Settled
  <2>3. QED
    BY <2>1, <2>2 DEF RowLocks, RowsInv, SessionsInv, Typed, JobRows, BundleRows, TicketRows,
                      ChildRows, SessionsTypeOK
<1>2. QED BY <1>1, SessionsInvariant, PTL

\* Publish and ClaimForPublish take the same two rows in opposite order.  Two of them
\* wait for each other only under one lease_owner: whoever holds the job at
\* ClaimForPublish runs it, and Publish waits for the job only if its own worker does.
THEOREM DeadlocksNeedOneIdentityHolds == SessionsSpec => []DeadlocksNeedOneIdentity
<1>1. SessionsIInv => DeadlocksNeedOneIdentity
  <2> SUFFICES ASSUME RowLocks, NEW s \in Slots, NEW t \in Slots, WaitsFor(s, t), WaitsFor(t, s)
               PROVE  Owner[s] = Owner[t]
    BY DEF SessionsIInv, DeadlocksNeedOneIdentity
  <2>1. ASSUME NEW a \in Slots, NEW b \in Slots, WaitsFor(a, b)
        PROVE  \/ at[a] \in {"insert_bundle", "select_bundle"} /\ at[b] \in BundleLabels
               \/ at[a] = "publish_job" /\ HoldsRunning(a) /\ at[b] \in JobLabels
    <3>1. CASE at[a] \in {"insert_bundle", "select_bundle"}
      BY <2>1, <3>1, Names DEF WaitsFor, Wants, RowLocks, Locks
    <3>2. CASE at[a] = "publish_job" /\ HoldsRunning(a)
      BY <2>1, <3>2, Names DEF WaitsFor, Wants, RowLocks, Locks
    <3>3. QED BY <2>1, <3>1, <3>2 DEF WaitsFor, Wants
  <2>2. ASSUME NEW a \in Slots, NEW b \in Slots,
               at[a] \in {"insert_bundle", "select_bundle"},
               at[b] = "publish_job" /\ HoldsRunning(b)
        PROVE  Owner[a] = Owner[b]
    <3>1. db["job"].lease_owner = Owner[a]
      BY <2>2, StillRunning, Names DEF JobDraft
    <3>2. Sees(b, "job") = db["job"]
      BY <2>2, SeesCommitted, Names DEF JobLabels
    <3>3. QED BY <2>2, <3>1, <3>2 DEF HoldsRunning
  <2>3. QED BY <2>1, <2>2, Names DEF JobLabels, BundleLabels
<1>2. QED BY <1>1, SessionsInvariant, PTL

\* Taken apart into statements, the functions still move a job as JobLifecycle does:
\* queued, running, canceling, and no way out of an end, but for a sweeper that was late.
THEOREM JobMovesForward == SessionsSpec => [][JobMoves]_sessionVars
<1>1. SessionsIInv /\ [SessionsNext]_sessionVars => [JobMoves]_sessionVars
  BY StepMoves DEF SessionsIInv, DbMoves
<1>2. QED BY <1>1, SessionsInvariant, PTL DEF SessionsSpec

\* A bundle is published exactly when its job succeeded, but for a sweeper that was late.
THEOREM PublishedIsSucceededHolds == SessionsSpec => []PublishedIsSucceeded
<1>1. SessionsIInv => PublishedIsSucceeded
  BY DEF SessionsIInv, AnswersInv
<1>2. QED BY <1>1, SessionsInvariant, PTL

\* What the users are told of a cancellation, a retry and a download stays true, for any
\* number of requests, workers and sweepers.
THEOREM AnswersAreTrueHolds == SessionsSpec => []AnswersAreTrue
<1>1. SessionsIInv => AnswersAreTrue
  <2> SUFFICES ASSUME SessionsIInv PROVE AnswersAreTrue
    OBVIOUS
  <2>1. RetryIsTrue
    <3>1. CASE Children = {}
      BY <3>1, FS_EmptySet DEF SessionsIInv, AnswersInv, OneChild, RetryIsTrue
    <3>2. CASE Children # {}
      <4>1. PICK c \in Children : Children = {c}
        BY <3>2 DEF SessionsIInv, AnswersInv, OneChild
      <4>2. Cardinality(Children) = 1
        BY <4>1, FS_Singleton
      <4>3. QED BY <4>2, <3>2 DEF RetryIsTrue
    <3>3. QED BY <3>1, <3>2
  <2>2. UsesPayDownloads
    <3> DEFINE paid == {s \in Downloads : answer[s] \in {"zip", "broken_zip", "not_found"}}
    <3>1. paid \subseteq Spent /\ IsFiniteSet(Spent) /\ Cardinality(Spent) <= Ticket.uses
      BY DEF Spent, SessionsIInv, AnswersInv, UsesInv
    <3>2. IsFiniteSet(paid) /\ Cardinality(paid) <= Cardinality(Spent)
      BY <3>1, FS_Subset
    <3>3. Cardinality(paid) \in Nat /\ Cardinality(Spent) \in Nat /\ Ticket.uses \in Nat
      BY <3>1, <3>2, FS_CardinalityType, TypedTicket DEF SessionsIInv, TicketRows
    <3>4. QED BY <3>1, <3>2, <3>3 DEF UsesPayDownloads
  <2>3. QED BY <2>1, <2>2 DEF AnswersAreTrue, SessionsIInv, AnswersInv
<1>2. QED BY <1>1, SessionsInvariant, PTL
=============================================================================
