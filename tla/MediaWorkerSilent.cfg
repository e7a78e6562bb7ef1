SPECIFICATION MWSpec
CONSTANTS
  Job = {j1}
  Worker = {w1}
  Unstable = {}
  Content = {c1}
  TTL = 2
  MaxFence = 2
  MaxInFlight = 0
  Reports = {"PASS"}
  Faults = {"MEDIA_ERROR"}
  MaxFaults = 1
  Moves <- ExecutorReports
SYMMETRY Symmetry
INVARIANTS
  FailureIsReported
CHECK_DEADLOCK FALSE
