SPECIFICATION ReplaySpec
CONSTANTS
  CharWidth <- McSpacedWidth
  ZWJ = "zwj"
  VS15 = "vs15"
  VS16 = "vs16"
  Space = "sp"
  NoClient = NoClient
  MaxJoiners = 3
  ScrollbackLimit = 2
  KittyCap = 2
  Scenes <- ReplayScenes
INVARIANT ReplayExact
