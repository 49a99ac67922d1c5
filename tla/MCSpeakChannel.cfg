SPECIFICATION ChannelSpec
CONSTANTS
  c1 = c1
  r1 = r1
  brentilda = brentilda
  blubber = blubber
  spiral = spiral
  lair = lair
  NoMessage = NoMessage
  NoAsk = NoAsk
  NoMap = NoMap
  Messages = {c1, r1}
  FromChat = {c1}
  Printable = {c1, r1}
  QueueSize = 2
  Asks = {blubber, brentilda}
  SelfQueues = {}
  Carrier = blubber
  IdleFrames = 1
  Maps = {spiral, lair}
  SafeMaps = {spiral}
INVARIANT LeftChannelSilent
