SPECIFICATION FairSpec
CONSTANTS
  Device = {d1, d2}
  Watcher = w
  Missing = Missing
  Clash <- FirstTwoClash
  MaxPushes = 2
  MaxDeletes = 1
  MaxRepeats = 0
  MaxRetries = 2
  MaxFaults = 0
  Polling = TRUE
  TornReads = TRUE
PROPERTY ConflictsEnd
CHECK_DEADLOCK FALSE
