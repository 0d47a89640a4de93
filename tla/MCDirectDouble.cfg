SPECIFICATION DirectSpec
CONSTANTS
  ann = ann
  ben = ben
  Guests = {ann, ben}
  Rooms = 1
  Casts <- DoubleClick
  k1 = k1
  k2 = k2
  Keys <- OneKey
INVARIANT OneBookingPerHold
CHECK_DEADLOCK FALSE
