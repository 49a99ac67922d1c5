---------------------------- MODULE SpeakChannel ----------------------------
(***************************************************************************)
(* Speak together with the channel its chat messages came from.  A change  *)
(* of channel reaches speak.c as a call of speak_clear_chat, after which   *)
(* no chat message of the old channel waits in the queue; the only one     *)
(* speak.c may still hold is the one it is showing.                        *)
(***************************************************************************)
EXTENDS Speak

VARIABLE leftShowing   \* sShowing came from a channel that was left (history)

ChannelInit == Init /\ leftShowing = FALSE

ChannelNext ==
  \/ /\ speak_clear_chat
     /\ leftShowing' = (leftShowing \/ (sOursShowing /\ sShowing \in FromChat))
  \/ /\ CallProceeds \/ (\E m \in Messages : speak_queue(m)) \/ Tick \/ Game
     /\ leftShowing' = (leftShowing /\ sShowing' = sShowing)

ChannelSpec == ChannelInit /\ [][ChannelNext]_<<vars, leftShowing>>

(* "So the channel you just left does not keep talking" (speak.h): once a
   channel was left, none of its messages waits to be spoken. *)
LeftChannelSilent == leftShowing => sShowing \notin Queued(sQueue)
=============================================================================
