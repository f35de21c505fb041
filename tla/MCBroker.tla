------------------------------ MODULE MCBroker ------------------------------
(* Two replicas of a worker and two messages. *)
EXTENDS Broker, TLC

CONSTANTS c1, c2, r1, r2
=============================================================================
