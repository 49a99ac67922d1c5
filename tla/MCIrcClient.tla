----------------------------- MODULE MCIrcClient -----------------------------
(* Two channels, a ring of two messages and at most two lines in a recv. *)
EXTENDS IrcClient

CONSTANTS vixen, otter

MCChannels == {vixen, otter}
=============================================================================
