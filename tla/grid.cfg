SPECIFICATION ReplaySpec
CONSTANTS
  CharWidth <- McSpacedWidth
  ZWJ = "zwj"
  VS15 = "vs15"
  VS16 = "vs16"
  Space = "sp"
  NoClient = NoClient
  MaxJoiners = 3
  ScrollbackLimit = 2
  KittyCap = 2
  Scenes <- AllScenes
INVARIANTS TypeOK ParkedIffPending WidePairs UnmutatedIsBlank ViewsAgree
INVARIANTS ReplayReproduces DiffReproduces
PROPERTIES AlternateIsolated ScrollOpsExplain OtherRowsMarked
