SPECIFICATION DebounceSpec
CONSTANTS
  vixen = vixen
  otter = otter
  none = none
  helper = helper
  MaxLines = 2
  Lines <- MCLines
  Blank = Blank
  Status = Status
  Channels <- MCChannels
  NoChannel = none
  Helper = helper
  Configs <- MCConfigs
  Kinds = {"modsay"}
  SettingsPoll = 1
  ChannelPoll = 2
  PerFrame = 1
  RingSize = 1
  SpeechSize = 2
  Nothing = Nothing
PROPERTY TwiceInARow
