-------------------------- MODULE MCChannelDebounce --------------------------
(* Two channels, and nothing but the channel to set. *)
EXTENDS ChannelDebounce

CONSTANTS vixen, otter, none, helper

MCChannels == {vixen, otter}
MCLines    == {vixen, otter, helper}
MCConfigs  ==
  [channel : {vixen, otter, none}, trigger : {"off"}, anyone : {FALSE}, hide : {FALSE},
   enabled : {TRUE}, lines : {1}]
=============================================================================
