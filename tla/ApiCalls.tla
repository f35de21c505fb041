------------------------------ MODULE ApiCalls ------------------------------
(***************************************************************************)
(* What the users ask of the same rows: RequestCancel and CreateRetry of    *)
(* jobs.go, and the download tickets of bundles.go.  Each session is one    *)
(* request; its answer is what the handler writes back.                     *)
(***************************************************************************)
EXTENDS WorkerCalls

CONSTANTS Cancels,   \* BOUND: requests to cancel the job
          Clicks,    \* BOUND: clicks on Retry; a click names the row of its child
          Downloads, \* BOUND: requests with the same download ticket
          MaxUses    \* download_tickets.max_uses

ASSUME UsesAssumption == MaxUses \in Nat \ {0}

VARIABLE answer  \* what each request was answered

Answer(s, what) == answer' = [answer EXCEPT ![s] = what]

Terminal == {"succeeded", "invalid", "failed", "dead", "canceled"}
Retryable == Terminal \ {"succeeded"}
Active == {"queued", "running", "canceling"}

apiUnchanged == <<seen, lease>>

---------------------------------------------------------------------------
(* JobRepo.RequestCancel: two statements and a read, no transaction *)

CancelQueued(s) ==
    /\ at[s] = "cancel_queued"
    /\ seen' = [seen EXCEPT ![s] = Job.status]
    /\ IF Job.status = "queued"
       THEN /\ Store("job", [Job EXCEPT !.status = "canceled"])
            /\ Answer(s, "canceled") /\ Goto(s, "over")
       ELSE UNCHANGED <<rows, answer>> /\ Goto(s, "cancel_running")
    /\ UNCHANGED lease

CancelRunning(s) ==
    /\ at[s] = "cancel_running"
    /\ IF Job.status = "running"
       THEN /\ Store("job", [Job EXCEPT !.status = "canceling", !.cancel_requested = TRUE])
            /\ Answer(s, "canceling") /\ Goto(s, "over")
       ELSE UNCHANGED <<rows, answer>> /\ Goto(s, "cancel_read")
    /\ UNCHANGED apiUnchanged

CancelRead(s) ==
    /\ at[s] = "cancel_read"
    /\ Answer(s, IF Job.status \in Terminal THEN "not_cancelable" ELSE Job.status)
    /\ Goto(s, "over")
    /\ UNCHANGED <<rows, apiUnchanged>>

---------------------------------------------------------------------------
(* JobRepo.CreateRetry: one transaction, the parent locked first *)

LockParent(s) ==
    /\ at[s] = "lock_parent"
    /\ Free(s, "job")
    /\ IF Job.status \in Retryable
       THEN Write(s, "job", Job) /\ UNCHANGED answer /\ Goto(s, "insert_child")
       ELSE UNCHANGED rows /\ Answer(s, "not_retryable") /\ Goto(s, "over")
    /\ UNCHANGED apiUnchanged

Children == {c \in Clicks : db[c] # "absent"}

\* PostgreSQL checks the unique indexes of a table in the order they were created.
Conflict(s) ==
    CASE \E c \in Children : db[c] \in Active -> "jobs_active_per_document_uk"
      [] Children # {} /\ \A c \in Children : db[c] \notin Active -> "jobs_single_retry_per_parent_uk"
      [] OTHER -> "none"

\* An insertion waits for the uncommitted one that it would conflict with.
InsertChild(s) ==
    /\ at[s] = "insert_child"
    /\ \A c \in Clicks : Free(s, c)
    /\ \/ /\ Conflict(s) = "none"
          /\ Write(s, s, "queued") /\ UNCHANGED answer /\ Goto(s, "commit_child")
       \/ /\ Conflict(s) = "jobs_active_per_document_uk"
          /\ Rollback(s) /\ Answer(s, "active") /\ Goto(s, "over")
       \/ /\ Conflict(s) = "jobs_single_retry_per_parent_uk"
          /\ Rollback(s) /\ UNCHANGED answer /\ Goto(s, "by_parent")
    /\ UNCHANGED apiUnchanged

\* The answer to COMMIT may be lost: the user is told of an error.
CommitChild(s) ==
    /\ at[s] = "commit_child"
    /\ Commit(s)
    /\ \E what \in {"child", "error"} : Answer(s, what)
    /\ Goto(s, "over")
    /\ UNCHANGED apiUnchanged

ByParent(s) ==
    /\ at[s] = "by_parent"
    /\ Answer(s, IF Children # {} THEN "child" ELSE "error")
    /\ Goto(s, "over")
    /\ UNCHANGED <<rows, apiUnchanged>>

\* The workers bring the child to its end.
ChildEnds ==
    \E c \in Children : \E status \in Terminal :
        /\ db[c] = "queued"
        /\ Store(c, status)
        /\ UNCHANGED <<at, seen, lease, answer>>

---------------------------------------------------------------------------
(* BundleRepo.CreateTicket and RedeemTicket, PrepareDownload *)

Ticket == db["ticket"]

\* GetPublished, then an INSERT.
CreateTicket(s) ==
    /\ at[s] = "create_ticket"
    /\ Goto(s, "redeem")
    /\ IF db["bundle"] = "published" /\ ~Ticket.issued
       THEN Store("ticket", [Ticket EXCEPT !.issued = TRUE])
       ELSE UNCHANGED rows
    /\ UNCHANGED <<apiUnchanged, answer>>

TicketExpires ==
    /\ Ticket.issued /\ ~Ticket.expired
    /\ Store("ticket", [Ticket EXCEPT !.expired = TRUE])
    /\ UNCHANGED <<at, seen, lease, answer>>

\* Seeded fault: the last use is taken to be uses = max_uses.
RedeemableOnceMore == Ticket.issued /\ ~Ticket.expired /\ Ticket.uses <= MaxUses

Redeemable == Ticket.issued /\ ~Ticket.expired /\ Ticket.uses < MaxUses

Redeem(s) ==
    /\ at[s] = "redeem"
    /\ IF Redeemable
       THEN /\ Store("ticket", [Ticket EXCEPT !.uses = @ + 1])
            /\ UNCHANGED answer /\ Goto(s, "prepare")
       ELSE UNCHANGED rows /\ Answer(s, "ticket_invalid") /\ Goto(s, "over")
    /\ UNCHANGED apiUnchanged

\* The plan is made from the published row before the first byte is sent; an object
\* or a connection that fails afterwards aborts the ZIP, and the use is spent.
Download(s) ==
    /\ at[s] = "prepare"
    /\ IF db["bundle"] = "published"
       THEN \E what \in {"zip", "broken_zip"} : Answer(s, what)
       ELSE Answer(s, "not_found")
    /\ Goto(s, "over")
    /\ UNCHANGED <<rows, apiUnchanged>>

---------------------------------------------------------------------------

\* A request that is cut short answers an error; what it had not committed is undone.
RequestFails(s) ==
    /\ at[s] # "over"
    /\ Rollback(s)
    /\ Answer(s, "error")
    /\ Goto(s, "over")
    /\ UNCHANGED apiUnchanged

ApiStep(s) ==
    \/ CancelQueued(s) \/ CancelRunning(s) \/ CancelRead(s)
    \/ LockParent(s) \/ InsertChild(s) \/ CommitChild(s) \/ ByParent(s)
    \/ CreateTicket(s) \/ Redeem(s) \/ Download(s)
    \/ RequestFails(s)

ApiNext ==
    \/ \E s \in Cancels \cup Clicks \cup Downloads : ApiStep(s)
    \/ ChildEnds \/ TicketExpires
=============================================================================
