SPECIFICATION MCSpec
CONSTANTS
  c1 = c1
  c2 = c2
  r1 = r1
  r2 = r2
  NoMessage = NoMessage
  Messages <- MCMessages
  FromChat <- MCFromChat
  QueueSize = 3
  HeadOf <- MCHeads
  Chunks <- MCChunks
  MaxArrived = 8
  BufferLimit = 6
  kMaxUserLen = 3
  kMaxTextLen = 5
  SPEAK_MAX_TEXT = 5
  SPEAK_MAX_WORD = 2
  SPEAK_TERMINATORS = 4
  SPEAK_MAX_PORTRAIT = 106
  FirstPortrait = 12
  sDefaultPortrait = 15
  PrefixWindow = 24
  IntRange = 256
  kPortraits <- MCPortraits
INVARIANTS
  Reassembled
  CleanTexts
  BlobWellFormed
  BoxShowsText
PROPERTY ImplementsQueue
CHECK_DEADLOCK FALSE
