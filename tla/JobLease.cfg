SPECIFICATION Spec
CONSTANTS
  Job = {j1, j2}
  Worker = {w1, w2}
  Unstable = {}
  Content = {c1}
  TTL = 1
  MaxFence = 2
  MaxInFlight = 0
  Reports = {"PASS"}
  Moves <- BriefMoves
SYMMETRY Symmetry
INVARIANTS
  OneLiveLease
CHECK_DEADLOCK FALSE
