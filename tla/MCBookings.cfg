SPECIFICATION FairSpec
CONSTANTS
  Revisions <- Three
  Bookings <- TwoBookings
  Nights <- TwoNights
  bookingOf <- BookingOf
  insertedAt <- InsertedAt
  roomsOf <- Moved
  CountOfRooms = 1
  PageSize = 2
  Workers = {w1}
  RetriesFailed = TRUE
  MaxFaults = 1
INVARIANTS TypeOK AckedIsStored LatestWins AvailabilityFollows
PROPERTY EveryRevisionLands
