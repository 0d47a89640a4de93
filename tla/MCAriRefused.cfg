SPECIFICATION Spec
CONSTANTS
  LastDate = 2
  WeekLength = 7
  LaneOrder <- OneRoom
  FieldOrder <- OneField
  AvailLanes <- Avail
  FieldsOf <- RoomField
  Values = {1, 2}
  MaxEntries = 4
  j1 = j1
  j2 = j2
  Jobs = {j1}
  Nightly = Nightly
  Free = Free
  Orphan = Orphan
  LeaseMayLapse = FALSE
  MayDelay = FALSE
  LastToday = 1
  MaxEdits = 1
  MaxQueued = 2
  MaxFaults = 1
  Verifying = {Nightly}
PROPERTY RefusedUntilEdited
CHECK_DEADLOCK FALSE
