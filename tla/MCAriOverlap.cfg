SPECIFICATION Spec
CONSTANTS
  LastDate = 2
  WeekLength = 7
  LaneOrder <- OneRoom
  FieldOrder <- OneField
  AvailLanes <- Avail
  FieldsOf <- RoomField
  Values = {v1, v2}
  MaxEntries = 1
  j1 = j1
  j2 = j2
  Jobs = {j1, j2}
  Nightly = Nightly
  Free = Free
  Orphan = Orphan
  LeaseMayLapse = TRUE
  MayDelay = TRUE
  LastToday = 1
  MaxEdits = 1
  MaxQueued = 2
  MaxFaults = 2
  Verifying = {Nightly}
SYMMETRY Symmetry
INVARIANT SyncedIsAccepted
PROPERTY ImplementsPromise
CHECK_DEADLOCK FALSE
