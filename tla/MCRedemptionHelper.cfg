SPECIFICATION MCSpec
CONSTANTS
  default = default
  custom = custom
  NoTitle = NoTitle
  MaxRedemptions = 3
  PageSize = 2
  MaxConns = 2
  Titles = {default, custom}
  DefaultTitle = default
  MaxFailures = 1
  MaxCrashes = 1
  MaxChanges = 1
  MaxDashboard = 1
INVARIANTS
  NoneThrownAway
  RedeemedOrder
  DeliveredOnce
PROPERTIES
  EventuallyServed
  OneReward
  TitleApplied
  NameNotLost
