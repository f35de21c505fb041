------------------------------ MODULE Topology ------------------------------
(***************************************************************************)
(* The jobs exchange and its queue, as RabbitMQ keeps them, and              *)
(* DeclareTopology (queue.go), the one-shot that creates or repairs them     *)
(* while publishers and consumers may be at work.  The other two exchanges   *)
(* and queues go through the same steps and are left out.                    *)
(***************************************************************************)
EXTENDS Naturals, FiniteSets

CONSTANTS Copies,    \* BOUND: messages, one for each publication
          Replicas,  \* worker processes
          NoReplica, \* holds no delivery, no lock
          MaxFaults  \* BOUND: repairs, connections lost, processes killed, rejections

VARIABLES exchange, queue,  \* the definition each has: absent, old, declared
          bound,            \* the queue is bound to the exchange
          step,             \* the next request of DeclareTopology
          where,            \* where a message is
          holder,           \* the replica it is delivered to and not settled by
          orphan,           \* delivered from a queue that was deleted since
          exposed,          \* routed with no binding, or delivered when its queue went
          faults            \* faults so far

topology == <<exchange, queue, bound, step>>
messages == <<where, holder, orphan, exposed>>

Definition == {"absent", "old", "declared"}
Steps == {"exchange", "delete_exchange", "redeclare_exchange",
          "queue", "delete_queue", "redeclare_queue", "bind", "done", "failed"}
Places == {"unsent", "wire", "queue", "held", "acked", "dlq", "dropped"}

Routed(c) == where[c] \notin {"unsent", "wire"}

\* Volumes that the present code declared, or an older version of it.
TopologyInit ==
    /\ exchange \in {"old", "declared"} /\ queue \in {"old", "declared"}
    /\ bound = TRUE
    /\ IF {exchange, queue} = {"declared"}
       THEN step = "done" /\ faults = 0
       ELSE step = "exchange" /\ faults = 1
    /\ where = [c \in Copies |-> "unsent"]
    /\ holder = [c \in Copies |-> NoReplica]
    /\ orphan = {} /\ exposed = {}

Fault == faults < MaxFaults /\ faults' = faults + 1

\* What goes back to the queue, if the queue it came from is still there.
GiveBack(S) ==
    /\ where' = [c \in Copies |-> IF c \notin S THEN where[c]
                                  ELSE IF c \in orphan THEN "dropped" ELSE "queue"]
    /\ holder' = [c \in Copies |-> IF c \in S THEN NoReplica ELSE holder[c]]

---------------------------------------------------------------------------
(* DeclareTopology *)

\* declareExchange: PRECONDITION_FAILED if it exists with another definition.
DeclareExchange ==
    /\ step = "exchange"
    /\ IF exchange = "old"
       THEN step' = "delete_exchange" /\ UNCHANGED exchange
       ELSE step' = "queue" /\ exchange' = "declared"
    /\ UNCHANGED <<queue, bound, messages, faults>>

\* An exchange takes its bindings with it.
DeleteExchange ==
    /\ step = "delete_exchange"
    /\ exchange' = "absent" /\ bound' = FALSE
    /\ step' = "redeclare_exchange"
    /\ UNCHANGED <<queue, messages, faults>>

RedeclareExchange ==
    /\ step = "redeclare_exchange"
    /\ exchange' = "declared"
    /\ step' = "queue"
    /\ UNCHANGED <<queue, bound, messages, faults>>

DeclareQueue ==
    /\ step = "queue"
    /\ IF queue = "old"
       THEN step' = "delete_queue" /\ UNCHANGED queue
       ELSE step' = "bind" /\ queue' = "declared"
    /\ UNCHANGED <<exchange, bound, messages, faults>>

Ready == {c \in Copies : where[c] = "queue"}
Delivered == {c \in Copies : where[c] = "held"}

Bind ==
    /\ step = "bind"
    /\ bound' = TRUE
    /\ step' = "done"
    /\ UNCHANGED <<exchange, queue, messages, faults>>

RedeclareQueue ==
    /\ step = "redeclare_queue"
    /\ queue' = "declared"
    /\ step' = "bind"
    /\ UNCHANGED <<exchange, bound, messages, faults>>

\* It stops between two requests; the operator may run it again.
TopologyStops ==
    /\ step \notin {"done", "failed"}
    /\ Fault
    /\ step' = "failed"
    /\ UNCHANGED <<exchange, queue, bound, messages>>

TopologyAgain ==
    /\ step = "failed"
    /\ step' = "exchange"
    /\ UNCHANGED <<exchange, queue, bound, messages, faults>>

\* Not empty: the broker refuses, and DeclareTopology ends with instructions.
DeleteRefused ==
    /\ step = "delete_queue"
    /\ Ready # {}
    /\ step' = "failed"
    /\ UNCHANGED <<exchange, queue, bound, messages, faults>>

\* Seeded fault: ifEmpty=false.
DeletableAnyway == TRUE

\* ifEmpty counts the messages that wait in the queue, not the delivered ones.
Deletable == Ready = {}

DeleteQueue ==
    /\ step = "delete_queue"
    /\ Deletable
    /\ queue' = "absent" /\ bound' = FALSE
    /\ where' = [c \in Copies |-> IF c \in Ready THEN "dropped" ELSE where[c]]
    /\ orphan' = orphan \cup Delivered
    /\ exposed' = exposed \cup Delivered
    /\ step' = "redeclare_queue"
    /\ UNCHANGED <<exchange, holder, faults>>

TopologyStep ==
    \/ DeclareExchange \/ DeleteExchange \/ RedeclareExchange
    \/ DeclareQueue \/ DeleteRefused \/ RedeclareQueue \/ Bind
    \/ TopologyStops \/ TopologyAgain
=============================================================================
