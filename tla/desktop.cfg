SPECIFICATION FairSpec
CONSTANTS
  Path = {a}
  NoPath = NoPath
  MaxClock = 2
  MaxVersions = 2
  MaxDeletes = 1
  MaxTroubles = 1
CHECK_DEADLOCK FALSE
INVARIANT TypeOK
INVARIANT SavesKept
INVARIANT RestIsSynced
INVARIANT DeletesAreUsers
INVARIANT UploadsHaveFiles
PROPERTY Settles
