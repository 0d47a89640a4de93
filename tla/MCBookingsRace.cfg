SPECIFICATION Spec
CONSTANTS
  Revisions <- Three
  Bookings <- TwoBookings
  Nights <- TwoNights
  bookingOf <- OneBooking
  insertedAt <- InsertedAt
  roomsOf <- Moved
  CountOfRooms = 1
  PageSize = 2
  Workers = {w1, w2}
  RetriesFailed = TRUE
  MaxFaults = 0
INVARIANT LatestWins
