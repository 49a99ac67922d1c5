------------------------------ MODULE QueueOps ------------------------------
(***************************************************************************)
(* The queue of messages waiting to be spoken, as a sequence whose head is *)
(* the next one to speak, and the four things src/src/speak.c does to it.  *)
(* A message stands for a SpeakRequest; the only field an operation here   *)
(* looks at is from_chat, so FromChat is the set of messages that carry it *)
(* and every other message is a channel point redemption.                  *)
(***************************************************************************)
EXTENDS Integers, Sequences

CONSTANTS Messages,   \* the SpeakRequests that may be queued
          FromChat,   \* those whose from_chat is set
          QueueSize   \* SPEAK_QUEUE_SIZE

ASSUME QueueSizeAssumption == QueueSize \in Nat \ {0}
ASSUME FromChatAssumption == FromChat \subseteq Messages

Full(q) == Len(q) >= QueueSize

Queued(q) == {q[i] : i \in 1..Len(q)}

(* speak_queue: a full queue loses its oldest message to the new one. *)
Enqueue(q, m) == Append(IF Full(q) THEN Tail(q) ELSE q, m)

RequeueFront_Refuses(q, m) == IF Full(q) THEN q ELSE <<m>> \o q

(* requeue_front: a full queue loses its newest message to the one that
   goes back to the front. *)
RequeueFront(q, m) == <<m>> \o (IF Full(q) THEN SubSeq(q, 1, Len(q) - 1) ELSE q)

(* The ways to list a set of n positions in increasing order: one when the set
   has n elements, none otherwise. *)
InOrder(positions, n) ==
  {f \in [1..n -> positions] : /\ \A i, j \in 1..n : i < j => f[i] < f[j]
                              /\ \A p \in positions : \E i \in 1..n : f[i] = p}

(* speak_clear_chat: the redemptions, in the order they had.  The set holds
   exactly one sequence. *)
RedemptionsOf(q) ==
  LET kept == {i \in 1..Len(q) : q[i] \notin FromChat}
  IN  UNION {{[j \in 1..n |-> q[f[j]]] : f \in InOrder(kept, n)} : n \in 0..Len(q)}
=============================================================================
