----------------------------- MODULE MCBookings -----------------------------
(***************************************************************************)
(* Values of the constants of Bookings for TLC.  Booking 1 has revisions 1  *)
(* and 2, inserted at the same time, booking 2 has revision 3; the room     *)
(* type has one room, so the two bookings overbook the night they share.    *)
(***************************************************************************)
EXTENDS Bookings

Three == 1 .. 3
TwoBookings == {1, 2}
TwoNights == {1, 2}
BookingOf == <<1, 1, 2>>
InsertedAt == <<1, 1, 2>>

\* All three are revisions of booking 1.
OneBooking == <<1, 1, 1>>

\* A modification moves booking 1 to the other night; booking 2 takes it as well.
Moved == <<<<1, 0>>, <<0, 1>>, <<0, 1>>>>

\* The modification takes a second room for the same night instead.
SecondRoom == <<<<1, 0>>, <<2, 0>>, <<0, 1>>>>
=============================================================================
