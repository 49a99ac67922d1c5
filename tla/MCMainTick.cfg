SPECIFICATION MCPanelSpec
CONSTANTS
  vixen = vixen
  otter = otter
  none = none
  helper = helper
  MaxLines = 2
  Lines <- MCLines
  Blank = Blank
  Status = Status
  Channels <- MCChannels
  NoChannel = none
  Helper = helper
  Configs <- MCConfigs
  Kinds = {"modsay"}
  SettingsPoll = 1
  ChannelPoll = 1
  PerFrame = 1
  RingSize = 1
  SpeechSize = 1
  Nothing = Nothing
INVARIANTS
  ShownIsNewest
  OverlayOwnChannel
PROPERTY SettingsApply
