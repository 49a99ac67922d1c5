SPECIFICATION FairSpec
CONSTANTS
  Interval = 1
  ExpiresIn = 3
  MaxExpiries = 2
  MaxFaults = 2
  MaxCrashes = 2
  MaxFlagged = 2
INVARIANT
  LoginKept
PROPERTY CallsRecover
