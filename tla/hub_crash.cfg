SPECIFICATION Spec
CONSTANTS
  Device = {d1, d2}
  Watcher = w
  Missing = Missing
  Clash <- FirstTwoClash
  MaxPushes = 2
  MaxDeletes = 0
  MaxRepeats = 1
  MaxRetries = 2
  MaxFaults = 1
  Polling = FALSE
  TornReads = FALSE
SYMMETRY DeviceSymmetry
INVARIANT Recoverable
CHECK_DEADLOCK FALSE
