SPECIFICATION Spec
CONSTANTS
  CharWidth <- McCharWidth
  ZWJ = "zwj"
  VS15 = "vs15"
  VS16 = "vs16"
  MaxJoiners = 2
  ScrollbackLimit = 2
  KittyCap = 2
  Scenes <- GridScenes
PROPERTIES DamageComplete
