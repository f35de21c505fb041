------------------------------- MODULE Broker -------------------------------
(***************************************************************************)
(* The message queue as the workers use it (queue.go, sweeper.go,           *)
(* cmd/worker): a process has two connections, one to publish what its      *)
(* sweeper finds in the outbox and one to consume.  Here are the            *)
(* connections, the confirms, the slots and the shutdown, which Delivery     *)
(* takes for granted; what a handler does to the job is there.              *)
(***************************************************************************)
EXTENDS Topology

CONSTANTS Prefetch,   \* the credit NewConsumer asks for
          Concurrency \* WORKER_CONCURRENCY: the slots of a process

ASSUME CreditAssumption == Prefetch \in Nat \ {0} /\ Concurrency \in Nat \ {0}

VARIABLES process,    \* consuming, stopping (SIGTERM), closing (nothing to consume), exited
          connected,  \* the consumer's connection
          stage,      \* the goroutine of a delivery: none, waiting, handling
          publisher,  \* the publisher's connection
          sending,    \* messages whose Publish has not returned
          result,     \* what Publish returned
          leaked      \* the replica with an idle connection that has the advisory lock

consumers == <<process, connected, stage>>
publishers == <<publisher, sending, result>>
brokerVars == <<topology, messages, faults, consumers, publishers, leaked>>

BrokerInit ==
    /\ TopologyInit
    /\ process = [r \in Replicas |-> "consuming"]
    /\ connected = [r \in Replicas |-> TRUE]
    /\ stage = [r \in Replicas |-> [c \in Copies |-> "none"]]
    /\ publisher = [r \in Replicas |-> TRUE]
    /\ sending = [r \in Replicas |-> {}]
    /\ result = [c \in Copies |-> "none"]
    /\ leaked = NoReplica

---------------------------------------------------------------------------
(* RunSweeper takes an advisory lock around sweepOnce; Publisher.publishTo *)

\* pg_try_advisory_lock.  The lock is its connection's, which may take it again.
GetsLock(r) == leaked \in {NoReplica, r} /\ \A q \in Replicas : sending[q] = {}

\* pg_advisory_unlock goes through whatever connection the pool hands out.  On another
\* one PostgreSQL warns, and the lock stays with an idle connection of the replica.
UnlockElsewhere(r) ==
    /\ process[r] # "exited" /\ GetsLock(r) /\ leaked = NoReplica
    /\ Fault
    /\ leaked' = r
    /\ UNCHANGED <<topology, messages, consumers, publishers>>

\* A closed channel is opened again; nothing opens the connection again.  While the
\* broker blocks its publishers, Publish refuses at once.
Send(r, c) ==
    /\ process[r] # "exited" /\ GetsLock(r)
    /\ where[c] = "unsent"
    /\ publisher[r]
    /\ sending' = [sending EXCEPT ![r] = {c}]
    /\ where' = [where EXCEPT ![c] = "wire"]
    /\ UNCHANGED <<topology, holder, orphan, exposed, faults, consumers, publisher, result, leaked>>

\* The broker takes a message off the wire.  One that no queue is bound for is
\* confirmed and dropped, for it is not published as mandatory; without the exchange
\* the channel is closed.
Route(c) ==
    /\ where[c] = "wire"
    /\ IF exchange = "absent"
       THEN /\ where' = [where EXCEPT ![c] = "unsent"]
            /\ sending' = [r \in Replicas |-> sending[r] \ {c}]
            /\ UNCHANGED exposed
       ELSE /\ where' = [where EXCEPT ![c] = IF bound THEN "queue" ELSE "dropped"]
            /\ exposed' = IF bound THEN exposed ELSE exposed \cup {c}
            /\ UNCHANGED sending
    /\ UNCHANGED <<topology, holder, orphan, faults, consumers, publisher, result, leaked>>

\* The confirm, after which the outbox row is marked as published.
Confirmed(r, c) ==
    /\ c \in sending[r] /\ Routed(c)
    /\ sending' = [sending EXCEPT ![r] = {}]
    /\ result' = [result EXCEPT ![c] = "ok"]
    /\ UNCHANGED <<topology, messages, faults, consumers, publisher, leaked>>

\* Five seconds without a confirm.  The message may yet arrive: the row is published
\* again, as another copy.
TimesOut(r, c) ==
    /\ c \in sending[r]
    /\ Fault
    /\ sending' = [sending EXCEPT ![r] = {}]
    /\ result' = [result EXCEPT ![c] = "error"]
    /\ UNCHANGED <<topology, messages, consumers, publisher, leaked>>

\* basic.nack, or the publisher's connection is lost with the message on the wire.
Rejected(r, c) ==
    /\ c \in sending[r] /\ where[c] = "wire"
    /\ Fault
    /\ where' = [where EXCEPT ![c] = "unsent"]
    /\ sending' = [sending EXCEPT ![r] = {}]
    /\ publisher' \in {publisher, [publisher EXCEPT ![r] = FALSE]}
    /\ UNCHANGED <<topology, holder, orphan, exposed, consumers, result, leaked>>

\* The publisher's connection is lost between two messages.
PublisherLost(r) ==
    /\ process[r] # "exited" /\ publisher[r] /\ sending[r] = {}
    /\ Fault
    /\ publisher' = [publisher EXCEPT ![r] = FALSE]
    /\ UNCHANGED <<topology, messages, consumers, sending, result, leaked>>

---------------------------------------------------------------------------
(* Consumer.Consume *)

HeldBy(r) == {c \in Copies : holder[c] = r}
Credit == IF Prefetch < Concurrency THEN Concurrency ELSE Prefetch
Handling(r) == {c \in Copies : stage[r][c] = "handling"}

Stage(r, c, what) == stage' = [stage EXCEPT ![r][c] = what]

\* The loop starts a goroutine for each delivery.
Deliver(r, c) ==
    /\ where[c] = "queue" /\ queue # "absent"
    /\ connected[r] /\ process[r] = "consuming"
    /\ stage[r][c] = "none"
    /\ Cardinality(HeldBy(r)) < Credit
    /\ where' = [where EXCEPT ![c] = "held"]
    /\ holder' = [holder EXCEPT ![c] = r]
    /\ Stage(r, c, "waiting")
    /\ UNCHANGED <<topology, orphan, exposed, faults, process, connected, publishers, leaked>>

\* slots <- struct{}{}: also when the loop is over, for the two channels of the select
\* may both be ready.
Start(r, c) ==
    /\ stage[r][c] = "waiting"
    /\ Cardinality(Handling(r)) < Concurrency
    /\ Stage(r, c, "handling")
    /\ UNCHANGED <<topology, messages, faults, process, connected, publishers, leaked>>

\* Seeded fault: a handler that has begun is asked as well.
PutBackStarted(r, c) ==
    /\ process[r] = "stopping"
    /\ stage[r][c] \in {"waiting", "handling"}
    /\ GiveBack({c} \cap HeldBy(r))
    /\ UNCHANGED <<topology, orphan, exposed, faults, consumers, publishers, leaked>>

\* <-ctx.Done(): Nack with requeue, lost if the connection is.
PutBack(r, c) ==
    /\ process[r] = "stopping"
    /\ stage[r][c] = "waiting"
    /\ Stage(r, c, "none")
    /\ GiveBack({c} \cap HeldBy(r))
    /\ UNCHANGED <<topology, orphan, exposed, faults, process, connected, publishers, leaked>>

\* Seeded fault: the slot is not given back.
FinishKeepsSlot(r, c) ==
    /\ stage[r][c] = "handling"
    /\ where' = [where EXCEPT ![c] = IF holder[c] = r THEN "acked" ELSE @]
    /\ holder' = [holder EXCEPT ![c] = IF @ = r THEN NoReplica ELSE @]
    /\ UNCHANGED <<topology, orphan, exposed, faults, consumers, publishers, leaked>>

\* handle: Ack, or Nack without requeue, which dead-letters nothing once the queue is
\* deleted.  Of no use if the delivery is no longer ours.
Finish(r, c) ==
    /\ stage[r][c] = "handling"
    /\ Stage(r, c, "none")
    /\ \E place \in {"acked", IF c \in orphan THEN "dropped" ELSE "dlq"} :
         where' = [where EXCEPT ![c] = IF holder[c] = r THEN place ELSE @]
    /\ holder' = [holder EXCEPT ![c] = IF @ = r THEN NoReplica ELSE @]
    /\ UNCHANGED <<topology, orphan, exposed, faults, process, connected, publishers, leaked>>

\* The queue is deleted under its consumers: deliveries is closed.
QueueDeleted ==
    /\ DeleteQueue
    /\ process' = [r \in Replicas |-> IF process[r] = "consuming" THEN "closing" ELSE process[r]]
    /\ UNCHANGED <<connected, stage, publishers, leaked>>

\* NotifyClose: what was delivered is somebody else's, and the goroutines go on.
ConsumerLost(r) ==
    /\ connected[r] /\ process[r] # "exited"
    /\ Fault
    /\ connected' = [connected EXCEPT ![r] = FALSE]
    /\ GiveBack(HeldBy(r))
    /\ process' = [process EXCEPT ![r] = IF @ = "consuming" THEN "closing" ELSE @]
    /\ UNCHANGED <<topology, orphan, exposed, stage, publishers, leaked>>

---------------------------------------------------------------------------
(* cmd/worker *)

\* SIGTERM cancels rootCtx, of use to wg.Wait as well; workCtx goes on.
Sigterm(r) ==
    /\ process[r] \in {"consuming", "closing"}
    /\ Fault
    /\ process' = [process EXCEPT ![r] = "stopping"]
    /\ UNCHANGED <<topology, messages, connected, stage, publishers, leaked>>

\* What the end of a process does to its connections.
Gone(r) ==
    /\ process' = [process EXCEPT ![r] = "exited"]
    /\ connected' = [connected EXCEPT ![r] = FALSE]
    /\ publisher' = [publisher EXCEPT ![r] = FALSE]
    /\ stage' = [stage EXCEPT ![r] = [c \in Copies |-> "none"]]
    /\ holder' = [c \in Copies |-> IF holder[c] = r THEN NoReplica ELSE holder[c]]
    /\ where' = [c \in Copies |->
                   CASE holder[c] = r -> IF c \in orphan THEN "dropped" ELSE "queue"
                     [] c \in sending[r] /\ where[c] = "wire" -> "unsent"
                     [] OTHER -> where[c]]
    /\ sending' = [sending EXCEPT ![r] = {}]
    /\ leaked' = IF leaked = r THEN NoReplica ELSE leaked
    /\ UNCHANGED <<topology, orphan, exposed, result>>

\* wg.Wait is over: run returns, and the deferred calls close everything.
Exit(r) ==
    /\ process[r] \in {"stopping", "closing"}
    /\ \A c \in Copies : stage[r][c] = "none"
    /\ Gone(r) /\ UNCHANGED faults

\* The process is killed, or its grace period runs out.
Kill(r) ==
    /\ process[r] # "exited"
    /\ Fault
    /\ Gone(r)

\* restart: unless-stopped; Consume fails while there is no queue.
Restart(r) ==
    /\ process[r] = "exited" /\ queue # "absent"
    /\ process' = [process EXCEPT ![r] = "consuming"]
    /\ connected' = [connected EXCEPT ![r] = TRUE]
    /\ publisher' = [publisher EXCEPT ![r] = TRUE]
    /\ UNCHANGED <<topology, messages, faults, stage, sending, result, leaked>>

---------------------------------------------------------------------------

Publishing(r, c) == Send(r, c) \/ Confirmed(r, c) \/ TimesOut(r, c) \/ Rejected(r, c)

Consuming(r, c) == Deliver(r, c) \/ Start(r, c) \/ PutBack(r, c) \/ Finish(r, c)

Living(r) ==
    UnlockElsewhere(r) \/ PublisherLost(r) \/ ConsumerLost(r)
    \/ Sigterm(r) \/ Exit(r) \/ Kill(r) \/ Restart(r)

BrokerNext ==
    \/ TopologyStep /\ UNCHANGED <<consumers, publishers, leaked>>
    \/ QueueDeleted
    \/ \E c \in Copies : Route(c)
    \/ \E r \in Replicas : Living(r) \/ \E c \in Copies : Publishing(r, c) \/ Consuming(r, c)

\* The broker, the goroutines and the restart policy keep going; nothing has to fail,
\* and nobody has to run DeclareTopology again.  Every sweep takes the oldest messages
\* it finds and every consumer is served, whatever others do in between.
BrokerFairness ==
    /\ \A c \in Copies :
         /\ WF_brokerVars(Route(c) \/ \E r \in Replicas : Confirmed(r, c))
         /\ SF_brokerVars(\E r \in Replicas : Send(r, c))
         /\ SF_brokerVars(\E r \in Replicas : Deliver(r, c))
    /\ \A r \in Replicas :
         WF_brokerVars(Exit(r) \/ Restart(r) \/ \E c \in Copies : Start(r, c) \/ Finish(r, c))

BrokerSpec == BrokerInit /\ [][BrokerNext]_brokerVars /\ BrokerFairness

---------------------------------------------------------------------------
(* Correctness *)

\* What DeclareTopology promises of both repairs: a message whose publication was
\* confirmed is not lost.  It does not hold.
RepairLosesNothing == \A c \in Copies : result[c] = "ok" => where[c] # "dropped"

\* A confirmed message is in the queue, with a replica or settled, and only the two ways
\* of a repair lose it: it was routed while the exchange had no binding, or it was with
\* a replica, not settled, when the queue was deleted.  No loss of a connection, death
\* or shutdown of a process, late confirm or repeated repair loses one.
LostOnlyByARepair ==
    \A c \in Copies :
        result[c] = "ok" => Routed(c) /\ (where[c] = "dropped" => c \in exposed)

\* While the connection lasts, what a replica handles is its own: a delivery that was
\* put back had not begun, and two replicas handle one message only after one of them
\* lost its connection.
HandledXorReturned ==
    \A r \in Replicas, c \in Copies :
        stage[r][c] # "none" /\ connected[r] => where[c] = "held" /\ holder[c] = r

Dispatchable(r) == publisher[r] /\ leaked \in {NoReplica, r}

Settled(c) == where[c] \in {"acked", "dlq", "dropped"}

\* A repair was given up without the exchange; or whatever replica can still get the
\* advisory lock has lost the connection of its publisher.
Undispatchable(c) ==
    /\ where[c] = "unsent"
    /\ exchange = "absent" \/ \A r \in Replicas : ~Dispatchable(r)

\* Time and again, every message is settled or cannot be published.  A lost connection
\* of a publisher, which nothing but a restart brings back, stops the outbox only if no
\* other replica can get the lock; all that is in the queue is settled.
EverythingIsDispatched == []<>(\A c \in Copies : Settled(c) \/ Undispatchable(c))
=============================================================================
