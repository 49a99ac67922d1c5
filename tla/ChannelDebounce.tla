--------------------------- MODULE ChannelDebounce ---------------------------
(***************************************************************************)
(* MainTick together with what refresh_channel read the time before: the   *)
(* channel is a text field that is read while the player types in it.      *)
(***************************************************************************)
EXTENDS MainTick

VARIABLE lastRead   \* the channel the last channel poll read (history)

DebounceInit == Init /\ lastRead = config.channel

DebounceNext ==
  /\ Next
  /\ lastRead' = IF pc = "channel" /\ pc' = "report" /\ sFrame = 0 THEN config.channel ELSE lastRead

DebounceSpec == DebounceInit /\ [][DebounceNext]_<<vars, lastRead>>

(* "Waiting for the same value twice in a row means only what you actually finished
   typing is acted on" (main.c): a channel is taken over only when the poll before
   this one read the same name. *)
TwiceInARow == [][sChannel' # sChannel => lastRead = sChannel']_<<vars, lastRead>>
=============================================================================
