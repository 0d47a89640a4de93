SPECIFICATION HouseSpec
CONSTANTS
  ann = ann
  ben = ben
  k1 = k1
  k2 = k2
  Guests = {ann, ben}
  Rooms = 1
  Casts <- EitherCast
  Keys <- TwoKeys
  Nights = {n1, n2}
  Extras = {e1, e2}
  Clerks = {c1, c2}
  Closers = {d1, d2}
  MaxInvoices = 3
  Editors = {ed1, ed2}
  Edits <- OneFieldEach
  BulkEdits <- BulkPatches
  Surcharge = 1
  MaxOps = 4
  LastPeriod = 3
  Prices = {0, 2}
  MaxRevisions = 2
  LastBilled = 2
  DunningDays = 1
  BillingFaults = 1
  MaxChoices = 2
  Members = {m1, m2, m3}
  MaxAudited = 5
  LastDate = 4
  WeekLength = 2
  LaneOrder <- OneLane
  FieldOrder <- TwoFields
  BatchValues = {1, 2}
  BatchSize = 2
  Stays = {s1, s2}
  DirectStays = {s1}
  StayDates <- TwoNights
  Consumers = {w1, w2}
  Console = Console
  MaxStayChanges = 3
  MaxConsole = 1
INVARIANTS HouseTypeOK RoundTrip NoRoomSoldTwice BookedIsCharged LineOnOneInvoice NightPostedOnce BilledWasEarned CollectedOnce AnOwnerRemains CodesFollowStays
PROPERTIES NoSilentOverwrite UndoGivesBack SentIsFrozen
CHECK_DEADLOCK FALSE
