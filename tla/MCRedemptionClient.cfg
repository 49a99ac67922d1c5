SPECIFICATION FairSpec
CONSTANTS
  jig = jig
  honey = honey
  Titles = {jig, honey}
  NoTitle = NoTitle
  RingSize = 2
  MaxChanges = 3
INVARIANTS
  NoMissedWakeup
  PublishedIsOpen
  NoTitleMissed
PROPERTIES
  ImplementsFeed
  GameReturns
