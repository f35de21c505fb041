---------------------------- MODULE BrokerProofs ----------------------------
(***************************************************************************)
(* Proofs about Broker, for any number of messages, replicas, slots and    *)
(* faults: no confirmed message is lost but in the two ways a repair loses *)
(* one, and a connected replica handles nothing that is not its own.  Both *)
(* are parts of one inductive invariant, kept action by action.            *)
(***************************************************************************)
EXTENDS Broker, TLAPS

Lifetime == {"consuming", "stopping", "closing", "exited"}
Staging == {"none", "waiting", "handling"}

Typed ==
    /\ where \in [Copies -> Places]
    /\ holder \in [Copies -> Replicas \cup {NoReplica}]
    /\ result \in [Copies -> {"none", "ok", "error"}]
    /\ process \in [Replicas -> Lifetime]
    /\ connected \in [Replicas -> BOOLEAN]
    /\ stage \in [Replicas -> [Copies -> Staging]]

\* What a repair can lose is known before it is lost.
LossesExposed ==
    /\ orphan \subseteq exposed
    /\ \A c \in Copies : where[c] = "dropped" => c \in exposed

ExitedIdle == \A r \in Replicas : process[r] = "exited" => \A c \in Copies : stage[r][c] = "none"

BrokerInv == Typed /\ LossesExposed /\ LostOnlyByARepair /\ ExitedIdle /\ HandledXorReturned

\* What comes back to a queue, or is lost with it, leaves the messages of others alone.
LEMMA GivenBack ==
    ASSUME Typed, NEW S \in SUBSET Copies, GiveBack(S)
    PROVE  /\ where' \in [Copies -> Places]
           /\ holder' \in [Copies -> Replicas \cup {NoReplica}]
           /\ \A c \in Copies \ S : where'[c] = where[c] /\ holder'[c] = holder[c]
           /\ \A c \in S : where'[c] = "queue" \/ (where'[c] = "dropped" /\ c \in orphan)
  BY DEF Typed, GiveBack, Places

-----------------------------------------------------------------------------
(* One step of the broker, of a repair or of a replica.                      *)

\* The invariant holds of freshly started replicas and an empty queue.
LEMMA InvInit == BrokerInit => BrokerInv
<1> SUFFICES ASSUME BrokerInit PROVE BrokerInv
  OBVIOUS
<1> USE DEF BrokerInit, TopologyInit
<1>1. Typed
  BY DEF Typed, Places, Lifetime, Staging
<1>2. LossesExposed /\ LostOnlyByARepair
  BY DEF LossesExposed, LostOnlyByARepair
<1>3. ExitedIdle /\ HandledXorReturned
  BY DEF ExitedIdle, HandledXorReturned
<1>4. QED
  BY <1>1, <1>2, <1>3 DEF BrokerInv

\* It does not depend on the topology, the publishers, the faults or the lock.
LEMMA InvStutter ==
    ASSUME BrokerInv, UNCHANGED <<messages, consumers, result>> PROVE BrokerInv'
  BY DEF BrokerInv, Typed, LossesExposed, LostOnlyByARepair, Routed, ExitedIdle, HandledXorReturned,
         messages, consumers

\* What a repair does to the messages is to lose those that wait, of which there are
\* none, and to make orphans of those that are delivered, which it exposes.
LEMMA InvQueueDeleted ==
    ASSUME BrokerInv, QueueDeleted PROVE BrokerInv'
<1> USE DEF BrokerInv, QueueDeleted, DeleteQueue, Deletable, publishers
<1>1. where' = where
  BY DEF Typed
<1>2. Typed'
  BY <1>1 DEF Typed, Lifetime
<1>3. LossesExposed' /\ LostOnlyByARepair'
  BY <1>1 DEF LossesExposed, LostOnlyByARepair, Routed
<1>4. ExitedIdle'
  BY DEF Typed, ExitedIdle
<1>5. HandledXorReturned'
  BY <1>1 DEF HandledXorReturned
<1>6. QED
  BY <1>2, <1>3, <1>4, <1>5

\* A message that travels is neither settled nor with a replica.
LEMMA InvTravelling ==
    ASSUME BrokerInv, NEW c \in Copies, where[c] \in {"unsent", "wire"},
           NEW place \in {"unsent", "wire", "queue", "dropped"},
           where' = [where EXCEPT ![c] = place],
           exposed' = exposed \/ exposed' = exposed \cup {c},
           place = "dropped" => c \in exposed',
           UNCHANGED <<holder, orphan, consumers, result>>
    PROVE  BrokerInv'
<1> USE DEF BrokerInv, consumers
<1>1. Typed'
  BY DEF Typed, Places
<1>2. LossesExposed'
  BY DEF Typed, LossesExposed
<1>3. LostOnlyByARepair'
  BY <1>2 DEF Typed, LossesExposed, LostOnlyByARepair, Routed
<1>4. ExitedIdle' /\ HandledXorReturned'
  BY DEF Typed, ExitedIdle, HandledXorReturned
<1>5. QED
  BY <1>1, <1>2, <1>3, <1>4

\* The broker confirms what it has taken, and drops only what it found unbound.
LEMMA InvPublishing ==
    ASSUME BrokerInv, NEW r \in Replicas, NEW c \in Copies, Publishing(r, c) PROVE BrokerInv'
<1>1. CASE Send(r, c)
  BY <1>1, InvTravelling DEF Send, consumers
<1>2. CASE Confirmed(r, c)
  <2> USE <1>2 DEF Confirmed, BrokerInv, messages, consumers
  <2>1. Typed' /\ LossesExposed' /\ ExitedIdle' /\ HandledXorReturned'
    BY DEF Typed, LossesExposed, ExitedIdle, HandledXorReturned
  <2>2. LostOnlyByARepair'
    BY DEF Typed, LossesExposed, LostOnlyByARepair, Routed
  <2>3. QED
    BY <2>1, <2>2
<1>3. CASE TimesOut(r, c)
  <2> USE <1>3 DEF TimesOut, BrokerInv, messages, consumers
  <2>1. Typed' /\ LossesExposed' /\ ExitedIdle' /\ HandledXorReturned'
    BY DEF Typed, LossesExposed, ExitedIdle, HandledXorReturned
  <2>2. LostOnlyByARepair'
    BY DEF Typed, LossesExposed, LostOnlyByARepair, Routed
  <2>3. QED
    BY <2>1, <2>2
<1>4. CASE Rejected(r, c)
  BY <1>4, InvTravelling DEF Rejected, consumers
<1>5. QED
  BY <1>1, <1>2, <1>3, <1>4 DEF Publishing

LEMMA InvRoute ==
    ASSUME BrokerInv, NEW c \in Copies, Route(c) PROVE BrokerInv'
<1>1. CASE exchange = "absent"
  BY <1>1, InvTravelling DEF Route, consumers
<1>2. CASE exchange # "absent" /\ bound
  BY <1>2, InvTravelling DEF Route, consumers
<1>3. CASE exchange # "absent" /\ ~bound
  BY <1>3, InvTravelling DEF Route, consumers
<1>4. QED
  BY <1>1, <1>2, <1>3

\* A replica is given what nobody else has, and touches nothing but its own.
LEMMA InvConsuming ==
    ASSUME BrokerInv, NEW r \in Replicas, NEW c \in Copies, Consuming(r, c) PROVE BrokerInv'
<1> USE DEF BrokerInv, Stage
<1>1. CASE Deliver(r, c)
  <2> USE <1>1 DEF Deliver, publishers
  <2>1. Typed'
    BY DEF Typed, Places, Staging
  <2>2. LossesExposed' /\ LostOnlyByARepair'
    BY DEF Typed, LossesExposed, LostOnlyByARepair, Routed
  <2>3. ExitedIdle' /\ HandledXorReturned'
    BY DEF Typed, ExitedIdle, HandledXorReturned
  <2>4. QED
    BY <2>1, <2>2, <2>3
<1>2. CASE Start(r, c)
  <2> USE <1>2 DEF Start, messages, publishers
  <2>1. Typed' /\ LossesExposed' /\ LostOnlyByARepair'
    BY DEF Typed, LossesExposed, LostOnlyByARepair, Routed, Staging
  <2>2. ExitedIdle' /\ HandledXorReturned'
    BY DEF Typed, ExitedIdle, HandledXorReturned
  <2>3. QED
    BY <2>1, <2>2
<1>3. CASE PutBack(r, c)
  <2> DEFINE mine == {c} \cap HeldBy(r)
  <2> USE <1>3 DEF PutBack, publishers
  <2>1. /\ where' \in [Copies -> Places]
        /\ holder' \in [Copies -> Replicas \cup {NoReplica}]
        /\ \A d \in Copies \ mine : where'[d] = where[d] /\ holder'[d] = holder[d]
        /\ \A d \in mine : where'[d] = "queue" \/ (where'[d] = "dropped" /\ d \in orphan)
    BY GivenBack, mine \in SUBSET Copies
  <2>2. Typed'
    BY <2>1 DEF Typed, Staging
  <2>3. LossesExposed' /\ LostOnlyByARepair'
    BY <2>1 DEF Typed, LossesExposed, LostOnlyByARepair, Routed
  <2>4. ExitedIdle' /\ HandledXorReturned'
    BY <2>1 DEF Typed, ExitedIdle, HandledXorReturned, HeldBy
  <2>5. QED
    BY <2>2, <2>3, <2>4
<1>4. CASE Finish(r, c)
  <2> USE <1>4 DEF Finish, publishers
  <2>1. Typed'
    BY DEF Typed, Places, Staging
  <2>2. LossesExposed' /\ LostOnlyByARepair'
    BY DEF Typed, LossesExposed, LostOnlyByARepair, Routed
  <2>3. ExitedIdle' /\ HandledXorReturned'
    BY DEF Typed, ExitedIdle, HandledXorReturned
  <2>4. QED
    BY <2>1, <2>2, <2>3
<1>5. QED
  BY <1>1, <1>2, <1>3, <1>4 DEF Consuming

\* The end of a process, expected or not, gives back what it held.
LEMMA InvGone ==
    ASSUME BrokerInv, NEW r \in Replicas, Gone(r) PROVE BrokerInv'
<1> USE DEF BrokerInv
<1>1. Typed'
  BY DEF Gone, Typed, Places, Lifetime, Staging
<1>2. LossesExposed'
  BY DEF Gone, Typed, LossesExposed
<1>3. LostOnlyByARepair'
  BY <1>2 DEF Gone, Typed, LostOnlyByARepair, Routed, LossesExposed
<1>4. ExitedIdle' /\ HandledXorReturned'
  BY DEF Gone, Typed, ExitedIdle, HandledXorReturned
<1>5. QED
  BY <1>1, <1>2, <1>3, <1>4

\* What happens to a replica as a whole.
LEMMA InvLiving ==
    ASSUME BrokerInv, NEW r \in Replicas, Living(r) PROVE BrokerInv'
<1>1. CASE UnlockElsewhere(r)
  BY <1>1, InvStutter DEF UnlockElsewhere, publishers
<1>2. CASE PublisherLost(r)
  BY <1>2, InvStutter DEF PublisherLost
<1>3. CASE ConsumerLost(r)
  <2> USE <1>3 DEF ConsumerLost, BrokerInv, publishers
  <2>1. /\ where' \in [Copies -> Places]
        /\ holder' \in [Copies -> Replicas \cup {NoReplica}]
        /\ \A d \in Copies \ HeldBy(r) : where'[d] = where[d] /\ holder'[d] = holder[d]
        /\ \A d \in HeldBy(r) : where'[d] = "queue" \/ (where'[d] = "dropped" /\ d \in orphan)
    BY GivenBack, HeldBy(r) \in SUBSET Copies DEF HeldBy
  <2>2. Typed'
    BY <2>1 DEF Typed, Lifetime
  <2>3. LossesExposed' /\ LostOnlyByARepair'
    BY <2>1 DEF Typed, LossesExposed, LostOnlyByARepair, Routed
  <2>4. ExitedIdle' /\ HandledXorReturned'
    BY <2>1 DEF Typed, ExitedIdle, HandledXorReturned, HeldBy
  <2>5. QED
    BY <2>2, <2>3, <2>4
<1>4. CASE Sigterm(r)
  <2> USE <1>4 DEF Sigterm, BrokerInv, messages, publishers
  <2>1. Typed' /\ LossesExposed' /\ LostOnlyByARepair'
    BY DEF Typed, LossesExposed, LostOnlyByARepair, Routed, Lifetime
  <2>2. ExitedIdle' /\ HandledXorReturned'
    BY DEF Typed, ExitedIdle, HandledXorReturned
  <2>3. QED
    BY <2>1, <2>2
<1>5. CASE Exit(r)
  BY <1>5, InvGone DEF Exit
<1>6. CASE Kill(r)
  BY <1>6, InvGone DEF Kill
<1>7. CASE Restart(r)
  <2> USE <1>7 DEF Restart, BrokerInv, messages
  <2>1. Typed' /\ LossesExposed' /\ LostOnlyByARepair'
    BY DEF Typed, LossesExposed, LostOnlyByARepair, Routed, Lifetime
  <2>2. ExitedIdle' /\ HandledXorReturned'
    BY DEF Typed, ExitedIdle, HandledXorReturned
  <2>3. QED
    BY <2>1, <2>2
<1>8. QED
  BY <1>1, <1>2, <1>3, <1>4, <1>5, <1>6, <1>7 DEF Living

\* The steps of a repair but the deletion of the queue touch no message.
LEMMA TopologyKeepsMessages ==
    ASSUME TopologyStep PROVE UNCHANGED messages
  BY DEF TopologyStep, DeclareExchange, DeleteExchange, RedeclareExchange, DeclareQueue,
         DeleteRefused, RedeclareQueue, Bind, TopologyStops, TopologyAgain, messages

-----------------------------------------------------------------------------

\* The inductive invariant: the properties below, with the losses of a repair exposed
\* before they happen and nothing left of a process that has exited.
THEOREM BrokerInvariant == BrokerSpec => []BrokerInv
<1>1. BrokerInv /\ [BrokerNext]_brokerVars => BrokerInv'
  <2> SUFFICES ASSUME BrokerInv, [BrokerNext]_brokerVars PROVE BrokerInv'
    OBVIOUS
  <2>1. CASE TopologyStep /\ UNCHANGED <<consumers, publishers, leaked>>
    BY <2>1, TopologyKeepsMessages, InvStutter DEF publishers
  <2>2. CASE QueueDeleted
    BY <2>2, InvQueueDeleted
  <2>3. CASE \E c \in Copies : Route(c)
    BY <2>3, InvRoute
  <2>4. CASE \E r \in Replicas : Living(r) \/ \E c \in Copies : Publishing(r, c) \/ Consuming(r, c)
    BY <2>4, InvLiving, InvPublishing, InvConsuming
  <2>5. CASE UNCHANGED brokerVars
    BY <2>5, InvStutter DEF brokerVars, publishers
  <2>6. QED
    BY <2>1, <2>2, <2>3, <2>4, <2>5 DEF BrokerNext
<1>2. QED
  BY InvInit, <1>1, PTL DEF BrokerSpec

\* publishTo and DeclareTopology: a message whose publication was confirmed is never
\* lost, but for the two ways in which a repair of the topology loses one.
THEOREM LostOnlyByARepairHolds == BrokerSpec => []LostOnlyByARepair
<1>1. BrokerInv => LostOnlyByARepair
  BY DEF BrokerInv
<1>2. QED
  BY BrokerInvariant, <1>1, PTL

\* Consume: while its connection lasts, a replica has every delivery it waits for or
\* handles; a delivery is never both handled and returned.
THEOREM HandledXorReturnedHolds == BrokerSpec => []HandledXorReturned
<1>1. BrokerInv => HandledXorReturned
  BY DEF BrokerInv
<1>2. QED
  BY BrokerInvariant, <1>1, PTL
=============================================================================
