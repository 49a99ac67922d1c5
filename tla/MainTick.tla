------------------------------ MODULE MainTick ------------------------------
(***************************************************************************)
(* src/main.c: what the mod does on every frame, with the overlay and the  *)
(* two readers of the native library as main.c uses them.                  *)
(*                                                                         *)
(* The player changes settings while the mod polls them; the readers push  *)
(* messages and change state between any two steps of a frame.  Of speak.c *)
(* there is the queue and what it has on screen, a message being where it  *)
(* came from; Speak has the dialogue system that decides what comes next.  *)
(***************************************************************************)
EXTENDS Overlay, ChatReader, FeedReader

CONSTANTS
  Configs,               \* the settings the player can choose
  SettingsPoll,          \* SETTINGS_POLL_FRAMES
  ChannelPoll,           \* CHANNEL_POLL_FRAMES
  PerFrame,              \* MESSAGES_PER_FRAME
  SpeechSize,            \* SPEAK_QUEUE_SIZE
  Nothing                \* on screen, when speak.c has no message there

Triggers == {"off", "redeemed", "highlight", "command", "everything"}

(* What speakable_body and the bot-command filter tell apart.  "say" is a message
   that starts with !say and has a body, "modsay" one from a privileged chatter;
   "bot" is any other that starts with an exclamation mark. *)
AllKinds == {"plain", "highlighted", "say", "modsay", "bot"}

ASSUME ConfigsAssumption ==
  Configs \subseteq [channel : Channels \cup {NoChannel}, trigger : Triggers,
                     anyone : BOOLEAN, hide : BOOLEAN, enabled : BOOLEAN, lines : Nat]
ASSUME KindsAssumption == Kinds \subseteq AllKinds
ASSUME NamesAssumption ==
  NoChannel \notin Channels /\ Lines = Channels \cup {Helper} /\ Nothing \notin Lines
ASSUME FramesAssumption ==
  /\ {SettingsPoll, ChannelPoll, PerFrame, SpeechSize} \subseteq Nat \ {0}
  /\ ChannelPoll % SettingsPoll = 0

VARIABLES
  config,                     \* what the settings say now
  sFrame, pc, drained,        \* the frame counter, and where in the frame we are
  settings,                   \* what was last read of them
  sLastLines,                 \* sLastSettings, as far as the overlay is modelled
  sOverlayVisible,
  sRedemptionsWanted,         \* 1 or 0, -1 before the first poll
  sChannel, sPendingChannel, sLastState,
  speech, showing,            \* the speech queue, and sShowing while sOursShowing
  leftShowing                 \* history: what was on screen when the channel was changed last

mainVars   == <<settings, sLastLines, sOverlayVisible, sRedemptionsWanted, sChannel,
                sPendingChannel, sLastState>>
frameVars  == <<sFrame, pc, drained>>
speechVars == <<speech, showing, leftShowing>>
vars       == <<config, frameVars, mainVars, chatVars, helperVars, speechVars, overlayVars>>

Names     == Channels \cup {NoChannel}
Origins   == Channels \cup {Helper}
Messages  == [from : Origins, kind : AllKinds]

Waiting ==
  INSTANCE QueueOps WITH Messages <- Origins, FromChat <- Channels, QueueSize <- SpeechSize

TypeOK ==
  /\ OverlayTypeOK
  /\ config \in Configs /\ settings \in Configs
  /\ sFrame \in 0..(ChannelPoll - 1) /\ drained \in 0..PerFrame
  /\ pc \in {"frame", "settings", "channel", "report", "drain"}
  /\ sLastLines \in Nat /\ sOverlayVisible \in BOOLEAN
  /\ sRedemptionsWanted \in {-1, 0, 1}
  /\ {sChannel, sPendingChannel, chatFor} \subseteq Names
  /\ sLastState \in States \cup {"unset"} /\ chatState \in States
  /\ chatRing \in Seq(Messages) /\ Len(chatRing) <= RingSize
  /\ helperOn \in BOOLEAN /\ helperRing \in Seq(Messages) /\ Len(helperRing) <= RingSize
  /\ speech \in Seq(Origins) /\ Len(speech) <= SpeechSize
  /\ {showing, leftShowing} \subseteq Origins \cup {Nothing}

(* twitch_chat_init reads the channel once, which only makes it the pending one. *)
Init ==
  /\ OverlayInit
  /\ config \in Configs /\ settings = config
  /\ sFrame = 0 /\ pc = "frame" /\ drained = 0
  /\ sLastLines = 0 /\ sOverlayVisible = FALSE /\ sRedemptionsWanted = -1
  /\ sChannel = NoChannel /\ sPendingChannel = config.channel
  /\ sLastState = "unset" /\ ChatInit /\ FeedInit
  /\ speech = <<>> /\ showing = Nothing /\ leftShowing = Nothing

-----------------------------------------------------------------------------
(* apply_overlay_visibility, on the settings just read. *)
ApplyVisibility ==
  /\ sOverlayVisible' = config.enabled
  /\ CASE config.enabled = sOverlayVisible -> UNCHANGED sShown
       [] config.enabled                   -> overlay_show
       [] OTHER                            -> overlay_hide

BeginFrame ==
  /\ pc = "frame"
  /\ IF created THEN UNCHANGED <<overlayVars, settings, sLastLines, sOverlayVisible>>
     ELSE /\ settings' = config /\ sLastLines' = config.lines
          /\ overlay_create(config.lines) /\ ApplyVisibility
  /\ sFrame' = (sFrame + 1) % ChannelPoll
  /\ pc' = "settings"
  /\ UNCHANGED <<config, drained, sRedemptionsWanted, sChannel, sPendingChannel, sLastState,
                 chatVars, helperVars, speechVars>>

(* The redemption reader runs while it is the trigger; it is started and stopped
   only when that changes. *)
Wanted == IF config.trigger = "redeemed" THEN 1 ELSE 0

RunRedemptions_OnlyStarts(wanted) ==
  IF wanted = sRedemptionsWanted THEN UNCHANGED <<sRedemptionsWanted, helperVars>>
  ELSE /\ sRedemptionsWanted' = wanted
       /\ IF wanted = 1 THEN twitch_redemptions_start ELSE UNCHANGED helperVars

RunRedemptions(wanted) ==
  IF wanted = sRedemptionsWanted THEN UNCHANGED <<sRedemptionsWanted, helperVars>>
  ELSE /\ sRedemptionsWanted' = wanted
       /\ IF wanted = 1 THEN twitch_redemptions_start ELSE twitch_redemptions_stop

(* The overlay is touched only for settings that differ from the ones it was
   last told. *)
ApplyLines ==
  IF config.lines = sLastLines THEN UNCHANGED <<sLastLines, panelVars>>
  ELSE sLastLines' = config.lines /\ overlay_apply_settings(config.lines)

PollSettings ==
  /\ pc = "settings"
  /\ IF sFrame % SettingsPoll = 0
     THEN /\ settings' = config /\ ApplyVisibility
          /\ RunRedemptions(Wanted) /\ ApplyLines
     ELSE UNCHANGED <<settings, sOverlayVisible, sRedemptionsWanted, helperVars, sLastLines,
                      overlayVars>>
  /\ pc' = "channel"
  /\ UNCHANGED <<config, sFrame, drained, sChannel, sPendingChannel, sLastState,
                 chatVars, speechVars>>

(* refresh_channel: a new name is acted on when it is the pending one already. *)
Settled == config.channel # sChannel /\ config.channel = sPendingChannel

NotePending ==
  sPendingChannel' = IF config.channel = sChannel THEN sPendingChannel ELSE config.channel

speak_clear_chat_Nothing == UNCHANGED speech

speak_clear_chat == speech' \in Waiting!RedemptionsOf(speech)

ForgetLastState_Never == UNCHANGED sLastState

ForgetLastState == sLastState' = "unset"

ChangeChannel ==
  /\ sChannel' = config.channel
  /\ IF config.channel = NoChannel THEN twitch_chat_stop ELSE twitch_chat_start(config.channel)
  /\ speak_clear_chat /\ ForgetLastState
  /\ leftShowing' = showing
  /\ UNCHANGED <<sPendingChannel, showing>>

PollChannel ==
  /\ pc = "channel"
  /\ IF sFrame = 0 /\ Settled THEN ChangeChannel
     ELSE /\ IF sFrame = 0 THEN NotePending ELSE UNCHANGED sPendingChannel
          /\ UNCHANGED <<sChannel, sLastState, chatVars, speechVars>>
  /\ pc' = "report"
  /\ UNCHANGED <<config, sFrame, drained, settings, sLastLines, sOverlayVisible,
                 sRedemptionsWanted, helperVars, overlayVars>>

report_state ==
  /\ pc = "report"
  /\ IF chatState = sLastState THEN UNCHANGED <<sLastState, panelVars>>
     ELSE sLastState' = chatState /\ overlay_set_status
  /\ pc' = "drain"
  /\ UNCHANGED <<config, sFrame, drained, settings, sLastLines, sOverlayVisible,
                 sRedemptionsWanted, sChannel, sPendingChannel, chatVars, helperVars,
                 speechVars, sShown>>

-----------------------------------------------------------------------------
(* speakable_body: whether a message is to be spoken. *)
Speakable(m) ==
  CASE settings.trigger = "redeemed"   -> m.from = Helper
    [] settings.trigger = "highlight"  -> m.kind = "highlighted"
    [] settings.trigger = "everything" -> TRUE
    [] settings.trigger = "command"    -> \/ m.kind = "modsay"
                                          \/ m.kind = "say" /\ settings.anyone
    [] OTHER -> FALSE

Hidden(m) == settings.hide /\ m.kind \in {"say", "modsay", "bot"}

Deliver(m) ==
  /\ IF Hidden(m) THEN UNCHANGED panelVars ELSE overlay_push_line(m.from)
  /\ speech' = IF Speakable(m) THEN Waiting!Enqueue(speech, m.from) ELSE speech
  /\ UNCHANGED <<showing, leftShowing>>

(* twitch_chat_next_message: redemptions first. *)
DrainOne ==
  /\ pc = "drain" /\ drained < PerFrame
  /\ \/ FeedPopped /\ Deliver(Head(helperRing)) /\ UNCHANGED chatVars
     \/ helperRing = <<>> /\ Popped /\ Deliver(Head(chatRing)) /\ UNCHANGED helperVars
  /\ drained' = drained + 1
  /\ UNCHANGED <<config, sFrame, pc, mainVars, sShown>>

Drained == drained = PerFrame \/ (helperRing = <<>> /\ chatRing = <<>>)

(* What was on screen goes back to the head of the queue. *)
PutBack ==
  showing # Nothing /\ speech' = Waiting!RequeueFront(speech, showing) /\ showing' = Nothing

(* speak_tick: the box may be gone, a transition may take it away, and with none up
   the next message may be shown, or be dropped for having nothing printable. *)
speak_tick ==
  /\ \/ showing' \in {showing, Nothing} /\ UNCHANGED speech
     \/ PutBack
     \/ /\ showing = Nothing /\ speech # <<>>
        /\ speech' = Tail(speech) /\ showing' \in {Head(speech), Nothing}
  /\ UNCHANGED leftShowing

EndFrame ==
  /\ pc = "drain" /\ Drained
  /\ speak_tick
  /\ drained' = 0 /\ pc' = "frame"
  /\ UNCHANGED <<config, sFrame, mainVars, chatVars, helperVars, overlayVars>>

(* speak_yield_to_game: the game, which runs between two frames of the mod, asks for
   a box of its own. *)
GameInterrupts ==
  /\ pc = "frame" /\ PutBack
  /\ UNCHANGED <<config, frameVars, mainVars, chatVars, helperVars, leftShowing, overlayVars>>

-----------------------------------------------------------------------------
(* The player, and the readers' threads. *)

ChangeSettings(c) ==
  /\ c # config /\ config' = c
  /\ UNCHANGED <<frameVars, mainVars, chatVars, helperVars, speechVars, overlayVars>>

ChatArrives(k) ==
  /\ ChatPushed(k)
  /\ UNCHANGED <<config, frameVars, mainVars, helperVars, speechVars, overlayVars>>

ChatStateChanges(s) ==
  /\ StateChanged(s)
  /\ UNCHANGED <<config, frameVars, mainVars, helperVars, speechVars, overlayVars>>

RedemptionArrives ==
  /\ FeedPushed
  /\ UNCHANGED <<config, frameVars, mainVars, chatVars, speechVars, overlayVars>>

Tick == BeginFrame \/ PollSettings \/ PollChannel \/ report_state \/ DrainOne \/ EndFrame

Next == \/ Tick
        \/ \E c \in Configs : ChangeSettings(c)
        \/ \E k \in Kinds : ChatArrives(k)
        \/ \E s \in States : ChatStateChanges(s)
        \/ RedemptionArrives \/ GameInterrupts

Spec == Init /\ [][Next]_vars

(* The game calls its main loop for ever. *)
FairSpec == Spec /\ WF_vars(Tick)

-----------------------------------------------------------------------------
(* After a change of channel the panel shows no line of the channel that was left:
   the status line takes their place even when the new connection has reached the
   state that was reported last (sLastState = -1). *)
OverlayOwnChannel ==
  sChannel # NoChannel /\ pc # "report" =>
    \A i \in 1..Len(log) : log[i] \in {sChannel, Helper}

(* Of a channel that was left nothing is spoken any more but the message that was on
   screen when the channel was changed, which speak_clear_chat does not reach: it may
   be put back, and then waits at the head of the queue with nothing on screen.
   Neither a reader nor the queue brings anything else back. *)
Left(o) == o \notin {sChannel, Helper, Nothing}

SpeechOwnChannel ==
  sChannel # NoChannel =>
    /\ Left(showing) => showing = leftShowing
    /\ \A i \in 1..Len(speech) :
         Left(speech[i]) => i = 1 /\ speech[i] = leftShowing /\ showing = Nothing

(* Once the player leaves the settings alone, the mod does what they say: which
   channel is read, whether redemptions are, and what the panel shows. *)
Agrees(c) ==
  /\ chatFor = c.channel /\ sChannel = c.channel
  /\ helperOn = (c.trigger = "redeemed")
  /\ sShown = c.enabled /\ lineCount = Clamp(c.lines)

SettingsApply == \A c \in Configs : <>[](config = c) => <>[]Agrees(c)
=============================================================================
