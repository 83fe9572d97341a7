SPECIFICATION Spec
CONSTANTS
  Device = {d1, d2, d3}
  Watcher = w
  Missing = Missing
  Clash <- FirstTwoClash
  MaxPushes = 3
  MaxDeletes = 0
  MaxRepeats = 0
  MaxRetries = 2
  MaxFaults = 0
  Polling = FALSE
  TornReads = TRUE
SYMMETRY DeviceSymmetry
INVARIANT NothingLost
CHECK_DEADLOCK FALSE
