SPECIFICATION FairSpec
CONSTANTS
  c1 = c1
  c2 = c2
  r1 = r1
  blubber = blubber
  bottles = bottles
  brentilda = brentilda
  spiral = spiral
  lair = lair
  NoMessage = NoMessage
  NoAsk = NoAsk
  NoMap = NoMap
  Messages = {c1, c2, r1}
  FromChat = {c1, c2}
  Printable = {c1, r1}
  QueueSize = 2
  Asks = {blubber, bottles}
  SelfQueues = {bottles}
  Carrier = blubber
  IdleFrames = 1
  Maps <- MCMaps
  SafeMaps <- MCSafeMaps
INVARIANTS
  HijackConfined
  OwnTextOnly
  NoDuplicate
  LiveText
  StoryFirst
  DeferredFresh
  TransitionYields
PROPERTIES
  InterruptedKept
  DeferredAnswered
  QueueDrains
