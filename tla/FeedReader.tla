----------------------------- MODULE FeedReader -----------------------------
(***************************************************************************)
(* The redemption reader as the game thread knows it: started and stopped, *)
(* and popped before the chat.  MainTick is built on this contract;        *)
(* RedemptionClient, with its two threads, its socket and the name it      *)
(* sends, implements it.                                                   *)
(***************************************************************************)
EXTENDS MessageRing

CONSTANT Helper        \* where redemptions come from

VARIABLES helperOn, helperRing      \* whether it reads, and what can be popped

helperVars == <<helperOn, helperRing>>

Redemption == [from |-> Helper, kind |-> "plain"]

FeedInit == helperOn = FALSE /\ helperRing = <<>>

(* To start a reader that runs changes nothing; what it had received before it was
   stopped is gone when it starts again. *)
twitch_redemptions_start ==
  IF helperOn THEN UNCHANGED helperVars ELSE helperOn' = TRUE /\ helperRing' = <<>>

twitch_redemptions_stop == helperOn' = FALSE /\ UNCHANGED helperRing

FeedPopped == helperRing # <<>> /\ helperRing' = Tail(helperRing) /\ UNCHANGED helperOn

FeedPushed ==
  helperOn /\ helperRing' = Pushed(helperRing, Redemption) /\ UNCHANGED helperOn

FeedNext == twitch_redemptions_start \/ twitch_redemptions_stop \/ FeedPopped \/ FeedPushed

FeedSpec == FeedInit /\ [][FeedNext]_helperVars
=============================================================================
