SPECIFICATION Spec
CONSTANTS
  Job = {j1}
  Worker = {w1, w2}
  Unstable = {}
  Content = {c1}
  TTL = 2
  MaxFence = 2
  MaxInFlight = 0
  Reports = {"PASS"}
  Moves <- CompletionMoves
SYMMETRY Symmetry
INVARIANTS
  EndedJobIsQuiet
CHECK_DEADLOCK FALSE
