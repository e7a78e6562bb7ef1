SPECIFICATION TimelySpec
CONSTANTS
  Job = {j1}
  Worker = {w1, w2}
  Unstable = {}
  Content = {c1}
  TTL = 2
  MaxFence = 2
  MaxInFlight = 0
  Reports = {"PASS"}
  Faults = {"REPLY_LOST", "NETWORK_DOWN", "CRASH", "MEDIA_ERROR"}
  MaxFaults = 1
  Moves <- ExecutorReports
PROPERTIES
  CancelIsFinished
  QueuedJobIsWorkedOff
CHECK_DEADLOCK FALSE
