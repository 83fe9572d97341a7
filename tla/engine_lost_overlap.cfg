SPECIFICATION Spec
CONSTANTS
  Edit = {e1, e2, e3}
  Absent = Absent
  Path = {a}
  NoPath = NoPath
  NHubs = 1
  Overlap = TRUE
  RecordCrash = FALSE
  Deleters = {}
  MaxDeletes = 0
  MaxFaults = 0
SYMMETRY EditSymmetry
INVARIANT LocalEditSafe
