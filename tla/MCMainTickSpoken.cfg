SPECIFICATION Spec
CONSTANTS
  vixen = vixen
  otter = otter
  none = none
  helper = helper
  MaxLines = 1
  Lines <- MCLines
  Blank = Blank
  Status = Status
  Channels <- MCChannels
  NoChannel = none
  Helper = helper
  Configs <- MCSpokenConfigs
  Kinds = {"modsay"}
  SettingsPoll = 1
  ChannelPoll = 1
  PerFrame = 1
  RingSize = 1
  SpeechSize = 2
  Nothing = Nothing
INVARIANTS
  SpeechOwnChannel
