SPECIFICATION Spec
CONSTANTS
  Job = {j1}
  Worker = {w1, w2}
  Unstable = {j1}
  Content = {c1, c2}
  TTL = 2
  MaxFence = 2
  MaxInFlight = 1
  Reports = {"PASS"}
  Moves <- AllMoves
SYMMETRY Symmetry
INVARIANTS
  AttemptLedger
  FencesGrow
  PublishedIsTheEnd
  CancelSticks
PROPERTIES
  HistoryIsFinal
  
CHECK_DEADLOCK FALSE
