SPECIFICATION SliceSpec
CONSTANTS
  StageCount <- FiveStages
  TTS <- TTSPlace
  RENDER <- RENDERPlace
  Sided <- SidedStages
  None = None
  src = src
  cfg = cfg
  Publishers = {p1}
  w1 = w1
  w2 = w2
  Workspaces = {w1, w2}
  Times = {t1}
  Voices = {v1, v2}
  Calls <- Requests
  MaxRuns = 3
  MaxFaults = 1
  MaxDamages = 1
SYMMETRY Symmetry
INVARIANTS
  OwnedBySucceeded
  ManifestIsComplete
  RecordedIsRestorable
  OneVoice
  ReturnedIsDurable
  RestartResumes
PROPERTY
  PaidWorkIsKept
CHECK_DEADLOCK FALSE
