SPECIFICATION Spec
CONSTANTS
  Revisions <- Three
  Bookings <- TwoBookings
  Nights <- TwoNights
  bookingOf <- BookingOf
  insertedAt <- InsertedAt
  roomsOf <- SecondRoom
  CountOfRooms = 2
  PageSize = 2
  Workers = {w1}
  RetriesFailed = TRUE
  MaxFaults = 0
INVARIANT AvailabilityFollows
