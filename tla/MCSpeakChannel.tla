--------------------------- MODULE MCSpeakChannel ---------------------------
(* A chat message, a redemption and one request of the game. *)
EXTENDS SpeakChannel, TLC

CONSTANTS c1, r1, brentilda, blubber, spiral, lair
=============================================================================
