SPECIFICATION Spec
CONSTANTS
  LastDate = 2
  WeekLength = 7
  LaneOrder <- OnePlan
  FieldOrder <- TwoFields
  AvailLanes <- NoRooms
  FieldsOf <- PlanFields
  Values = {v1, v2}
  MaxEntries = 4
  j1 = j1
  j2 = j2
  Jobs = {j1}
  Nightly = Nightly
  Free = Free
  Orphan = Orphan
  LeaseMayLapse = FALSE
  MayDelay = FALSE
  LastToday = 1
  MaxEdits = 2
  MaxQueued = 2
  MaxFaults = 1
  Verifying = {}
SYMMETRY Symmetry
INVARIANT SyncedIsHeld
CHECK_DEADLOCK FALSE
