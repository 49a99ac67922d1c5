----------------------------- MODULE ChatReader -----------------------------
(***************************************************************************)
(* The chat reader as the game thread knows it: twitch_chat_start,         *)
(* twitch_chat_stop, the state it can ask for and the messages it can pop. *)
(* MainTick is built on this contract; IrcClient, with its two threads and *)
(* its socket, implements it.                                              *)
(***************************************************************************)
EXTENDS MessageRing

CONSTANTS
  Channels, NoChannel,   \* names that survive normalize_channel; the empty one
  Kinds                  \* the kinds of chat message that arrive

VARIABLES
  chatFor,               \* the channel that is read, NoChannel if none is
  chatState, chatRing    \* what the game can ask for, and what it can pop

chatVars == <<chatFor, chatState, chatRing>>

States == {"Idle", "Connecting", "Connected", "Error"}

ChatInit == chatFor = NoChannel /\ chatState = "Idle" /\ chatRing = <<>>

-----------------------------------------------------------------------------
(* The calls.  To go on reading the channel that is read already changes nothing. *)
twitch_chat_start(c) ==
  IF chatFor = c THEN UNCHANGED chatVars
  ELSE chatFor' = c /\ chatState' = "Connecting" /\ chatRing' = <<>>

twitch_chat_stop == chatFor' = NoChannel /\ chatState' = "Idle" /\ UNCHANGED chatRing

Popped == chatRing # <<>> /\ chatRing' = Tail(chatRing) /\ UNCHANGED <<chatFor, chatState>>

-----------------------------------------------------------------------------
(* What the reader's thread does meanwhile: messages come only over a connection,
   and a reader that is wanted is never idle. *)
ChatPushed(k) ==
  /\ chatFor # NoChannel /\ chatState = "Connected"
  /\ chatRing' = Pushed(chatRing, [from |-> chatFor, kind |-> k])
  /\ UNCHANGED <<chatFor, chatState>>

StateChanged(s) ==
  /\ chatFor # NoChannel /\ s # "Idle" /\ s # chatState
  /\ chatState' = s /\ UNCHANGED <<chatFor, chatRing>>

ChatNext == \/ \E c \in Channels : twitch_chat_start(c)
            \/ twitch_chat_stop \/ Popped
            \/ \E k \in Kinds : ChatPushed(k)
            \/ \E s \in States : StateChanged(s)

ChatSpec == ChatInit /\ [][ChatNext]_chatVars
=============================================================================
