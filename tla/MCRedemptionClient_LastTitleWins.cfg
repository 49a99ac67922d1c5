SPECIFICATION Spec
CONSTANTS
  jig = jig
  honey = honey
  Titles = {jig, honey}
  NoTitle = NoTitle
  RingSize = 2
  MaxChanges = 2
INVARIANT LastTitleWins
