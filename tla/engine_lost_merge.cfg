SPECIFICATION Spec
CONSTANTS
  Edit = {e1, e2, e3}
  Absent = Absent
  Path = {a}
  NoPath = NoPath
  NHubs = 1
  Overlap = FALSE
  RecordCrash = FALSE
  Deleters = {}
  MaxDeletes = 0
  MaxFaults = 1
SYMMETRY EditSymmetry
INVARIANT NoEditLost
