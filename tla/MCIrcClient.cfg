SPECIFICATION FairSpec
CONSTANTS
  vixen = vixen
  otter = otter
  Channels <- MCChannels
  NoChannel = NoChannel
  RingSize = 2
  MaxLines = 2
  SilenceLimit = 3
INVARIANTS
  NoMissedWakeup
  PublishedIsOpen
  OnlyCurrentChannel
  StatusHonest
PROPERTIES
  ImplementsReader
  StopReturnsPromptly
  SilenceNoticed
