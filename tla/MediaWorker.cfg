SPECIFICATION MWSpec
CONSTANTS
  Job = {j1}
  Worker = {w1, w2}
  Unstable = {j1}
  Content = {c1}
  TTL = 1
  MaxFence = 2
  MaxInFlight = 0
  Reports = {"PASS"}
  Faults = {"REPLY_LOST", "NETWORK_DOWN", "CRASH", "MEDIA_ERROR"}
  MaxFaults = 2
  Moves <- ExecutorReports
SYMMETRY Symmetry
INVARIANTS
  ReplyIsTrue
PROPERTIES
  EarlyCancelNeverCompletes
CHECK_DEADLOCK FALSE
