---------------------------- MODULE RequestQueue ----------------------------
(***************************************************************************)
(* What the speech queue promises: a bounded queue in arrival order, in    *)
(* which a message can be put back at the front and from which the chat    *)
(* messages can be dropped.  RequestRing is the ring buffer that keeps it. *)
(***************************************************************************)
EXTENDS QueueOps

VARIABLE queue

TypeOK == queue \in Seq(Messages) /\ Len(queue) <= QueueSize

Init == queue = <<>>

Arrive(m)  == queue' = Enqueue(queue, m)
Requeue(m) == queue' = RequeueFront(queue, m)
Take       == queue # <<>> /\ queue' = Tail(queue)
ClearChat  == queue' \in RedemptionsOf(queue)

Next == \/ \E m \in Messages : Arrive(m) \/ Requeue(m)
        \/ Take
        \/ ClearChat

Spec == Init /\ [][Next]_queue
=============================================================================
