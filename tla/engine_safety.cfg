SPECIFICATION Spec
CONSTANTS
  Edit = {e1, e2, e3}
  Absent = Absent
  Path = {a, b}
  NoPath = NoPath
  NHubs = 1
  Overlap = FALSE
  RecordCrash = FALSE
  Deleters = {"local", "remote"}
  MaxDeletes = 1
  MaxFaults = 2
SYMMETRY PathSymmetry
INVARIANT TypeOK
INVARIANT CheckpointSound
INVARIANT LocalEditSafe
INVARIANT QueuedFileExists
