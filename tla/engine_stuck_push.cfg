SPECIFICATION FairSpec
CONSTANTS
  Edit = {e1, e2, e3}
  Absent = Absent
  Path = {a}
  NoPath = NoPath
  NHubs = 1
  Overlap = FALSE
  RecordCrash = FALSE
  Deleters = {"remote"}
  MaxDeletes = 1
  MaxFaults = 1
PROPERTY QueueDrains
