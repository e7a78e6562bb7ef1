SPECIFICATION SliceSpec
CONSTANTS
  StageCount <- FiveStages
  TTS <- TTSPlace
  RENDER <- RENDERPlace
  Sided <- SidedStages
  None = None
  src = src
  cfg = cfg
  Publishers = {p1}
  w1 = w1
  w2 = w2
  Workspaces = {w1}
  Times = {t1}
  Voices = {v1}
  Calls <- JustOne
  MaxRuns = 3
  MaxFaults = 1
  MaxDamages = 0
INVARIANT
  WorkspaceSuffices
CHECK_DEADLOCK FALSE
