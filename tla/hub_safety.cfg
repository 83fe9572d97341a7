SPECIFICATION Spec
CONSTANTS
  Device = {d1, d2, d3}
  Watcher = w
  Missing = Missing
  Clash <- FirstTwoClash
  MaxPushes = 3
  MaxDeletes = 2
  MaxRepeats = 0
  MaxRetries = 2
  MaxFaults = 0
  Polling = FALSE
  TornReads = FALSE
SYMMETRY DeviceSymmetry
INVARIANT TypeOK
INVARIANT NothingLost
INVARIANT WinnerReadable
CHECK_DEADLOCK FALSE
