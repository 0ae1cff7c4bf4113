SPECIFICATION Spec
CONSTANTS
  AutoCommand = "R"
  AutoDuration = TRUE
  ResetDelay = TRUE
  Faults = {"write", "shutdown"}
  MaxPending = 3
INVARIANTS BeltIsAsTold NoOrphanRun
PROPERTIES MovementEnds
