SPECIFICATION Spec
CONSTANTS
  LastDate = 3
  WeekLength = 7
  LaneOrder <- OneRoom
  FieldOrder <- OneField
  AvailLanes <- Avail
  FieldsOf <- RoomField
  Values = {v1, v2}
  MaxEntries = 4
  j1 = j1
  j2 = j2
  Jobs = {j1, j2}
  Nightly = Nightly
  Free = Free
  Orphan = Orphan
  LeaseMayLapse = FALSE
  MayDelay = FALSE
  LastToday = 2
  MaxEdits = 2
  MaxQueued = 2
  MaxFaults = 2
  Verifying = {}
SYMMETRY Symmetry
INVARIANTS TypeOK SyncedIsHeld OnePush
CHECK_DEADLOCK FALSE
