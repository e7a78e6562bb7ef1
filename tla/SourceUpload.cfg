SPECIFICATION SUSpec
CONSTANTS
    Reqs = {r1, r2}
    DriveFiles = {1, 2}
    Intents <- TwoIntents
    Faults = {}
    NoSource = NoSource
    NoReservation = NoReservation
    NoOne = NoOne
SYMMETRY ReqSymmetry
INVARIANTS
    ReadyKeepsItsFile
CHECK_DEADLOCK FALSE
