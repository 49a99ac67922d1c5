---------------------------- MODULE RequestRing -----------------------------
(***************************************************************************)
(* The speech queue as src/src/speak.c keeps it: a ring of slots with the  *)
(* index of the oldest entry and a count.  A slot that was never written   *)
(* holds NoMessage, and a slot that is popped keeps its old value.         *)
(***************************************************************************)
EXTENDS QueueOps

CONSTANT NoMessage

ASSUME NoMessageAssumption == NoMessage \notin Messages

VARIABLES sQueue, sQueueHead, sQueueCount

vars == <<sQueue, sQueueHead, sQueueCount>>

Slots == 0..(QueueSize - 1)

TypeOK == /\ sQueue \in [Slots -> Messages \cup {NoMessage}]
          /\ sQueueHead \in Slots
          /\ sQueueCount \in 0..QueueSize

Init == /\ sQueue = [i \in Slots |-> NoMessage]
        /\ sQueueHead = 0
        /\ sQueueCount = 0

(* The slot i places after the head. *)
Slot(i) == (sQueueHead + i) % QueueSize

Contents == [i \in 1..sQueueCount |-> sQueue[Slot(i - 1)]]

(* A full ring that overwrites its oldest slot without moving the head on, so
   that the newest message comes out first. *)
speak_queue_HeadStays(m) ==
  /\ sQueue' = [sQueue EXCEPT ![Slot(sQueueCount)] = m]
  /\ sQueueCount' = IF sQueueCount = QueueSize THEN sQueueCount ELSE sQueueCount + 1
  /\ UNCHANGED sQueueHead

(* The new message always lands count places after the head; when the ring
   is full that slot is the head itself, which moves on. *)
speak_queue(m) ==
  /\ sQueue' = [sQueue EXCEPT ![Slot(sQueueCount)] = m]
  /\ IF sQueueCount = QueueSize
     THEN sQueueHead' = Slot(1) /\ UNCHANGED sQueueCount
     ELSE sQueueCount' = sQueueCount + 1 /\ UNCHANGED sQueueHead

(* The head moves back one slot, which is the newest one when the ring is full. *)
requeue_front(m) ==
  /\ sQueueHead' = Slot(QueueSize - 1)
  /\ sQueue' = [sQueue EXCEPT ![sQueueHead'] = m]
  /\ sQueueCount' = IF sQueueCount >= QueueSize THEN sQueueCount ELSE sQueueCount + 1

(* The two places speak_tick takes the head out: it was shown, or nothing in
   it could be drawn. *)
TakeHead ==
  /\ sQueueCount # 0
  /\ sQueueHead' = Slot(1)
  /\ sQueueCount' = sQueueCount - 1
  /\ UNCHANGED sQueue

(* The kept entries are copied back from slot 0 on. *)
speak_clear_chat ==
  \E kept \in RedemptionsOf(Contents) :
    /\ sQueue' = [i \in Slots |-> IF i < Len(kept) THEN kept[i + 1] ELSE sQueue[i]]
    /\ sQueueHead' = 0
    /\ sQueueCount' = Len(kept)

Next == \/ \E m \in Messages : speak_queue(m) \/ requeue_front(m)
        \/ TakeHead
        \/ speak_clear_chat

Spec == Init /\ [][Next]_vars

-----------------------------------------------------------------------------

Abstract == INSTANCE RequestQueue WITH queue <- Contents

(* No operation reads a slot that nothing was queued in: what the head and the
   count enclose is always a queue of messages, however the ring has wrapped. *)
EnclosesMessages == Abstract!TypeOK

(* The ring is a first-in first-out queue whatever its head: every operation
   of speak.c does to the ring's contents what RequestQueue says it does. *)
ImplementsQueue == Abstract!Spec
=============================================================================
