----------------------------- MODULE MessageRing -----------------------------
(***************************************************************************)
(* MessageRing of native/irc_client.h, which both readers push to and the  *)
(* game thread pops from, as the sequence of the messages in it.           *)
(***************************************************************************)
EXTENDS Integers, Sequences

CONSTANT RingSize      \* its Capacity

ASSUME RingSizeAssumption == RingSize \in Nat \ {0}

(* A full ring drops its oldest message. *)
Pushed(ring, m) == Append(IF Len(ring) = RingSize THEN Tail(ring) ELSE ring, m)
=============================================================================
