------------------------------- MODULE MCSpeak -------------------------------
(* Small instances of Speak. *)
EXTENDS Speak, TLC

CONSTANTS c1, c2, r1, blubber, bottles, brentilda, spiral, lair

MCMaps == {spiral, lair}
MCSafeMaps == {spiral}
=============================================================================
