SPECIFICATION Spec
CONSTANTS
  Edit = {e1, e2}
  Absent = Absent
  Path = {a}
  NoPath = NoPath
  NHubs = 2
  Overlap = TRUE
  RecordCrash = TRUE
  Deleters = {"remote"}
  MaxDeletes = 1
  MaxFaults = 1
SYMMETRY EditSymmetry
INVARIANT BatchDurable
PROPERTY FeedSpec
