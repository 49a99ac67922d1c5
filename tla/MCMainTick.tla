------------------------------ MODULE MCMainTick ------------------------------
(* Small instances of MainTick: two channels, and a settings poll and a channel poll
   on every frame. *)
EXTENDS MainTick

CONSTANTS vixen, otter, none, helper

MCChannels == {vixen, otter}
MCLines    == {vixen, otter, helper}

Setting(channel, trigger, hide, enabled, lines) ==
  [channel |-> channel, trigger |-> trigger, anyone |-> FALSE, hide |-> hide,
   enabled |-> enabled, lines |-> lines]

(* For the panel: the player types and clears a channel, switches redemptions on and
   off, and resizes or hides the panel. *)
MCConfigs == { Setting(none,  "redeemed", FALSE, TRUE,  2),
               Setting(vixen, "off",      FALSE, TRUE,  1),
               Setting(otter, "off",      TRUE,  FALSE, 2) }

(* For what is spoken: chat of either channel is, and redemptions are. *)
MCSpokenConfigs == { Setting(none,  "redeemed", TRUE, FALSE, 1),
                     Setting(vixen, "command",  TRUE, FALSE, 1),
                     Setting(otter, "command",  TRUE, FALSE, 1) }

(* The panel is explored while the game has no time for a box, so that what is queued
   only waits. *)
MCPanelNext == Next /\ showing' = Nothing

MCPanelSpec == Init /\ [][MCPanelNext]_vars /\ WF_vars(Tick)
=============================================================================
