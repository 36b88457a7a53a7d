------------------------------- MODULE Broker -------------------------------
(***************************************************************************)
(* RabbitMQ as dr_queues uses it: durable queues on the default exchange,  *)
(* manual acknowledgements, no publisher confirms.                         *)
(*                                                                         *)
(* ready[<<q, j>>] counts the messages of job j that wait in queue q.      *)
(* Their order is not kept: several consumers and requeued deliveries      *)
(* leave no order the code could rely on.  Unacknowledged deliveries are   *)
(* part of the consuming worker's state (StageExecution).                  *)
(***************************************************************************)
EXTENDS RunManifest

VARIABLE ready

BrokerTypeOK == ready \in [Queue \X Job -> Nat]

BrokerInit == ready = [qj \in Queue \X Job |-> 0]

\* basic_publish, and also the return of an unacknowledged delivery to the
\* queue (a nack with requeue, a closed channel, a lost connection).
Enqueue(q, j) == ready' = [ready EXCEPT ![<<q, j>>] = @ + 1]

\* basic_deliver to a consumer.
Dequeue(q, j) ==
    /\ ready[<<q, j>>] > 0
    /\ ready' = [ready EXCEPT ![<<q, j>>] = @ - 1]
=============================================================================
