-------------------------- MODULE MCDirectBooking --------------------------
(***************************************************************************)
(* Values of the constants of DirectBooking for TLC: two guests, one room.  *)
(***************************************************************************)
EXTENDS DirectBooking, TLC

CONSTANTS ann, ben, k1, k2

\* Both guests pay, or one of them pays from two tabs and the other only holds.
BothPay == {<<ann, 1>>, <<ben, 1>>}
TwoTabs == {<<ann, 1>>, <<ann, 2>>}
EitherCast == {BothPay, TwoTabs}
TwoKeys == (ann :> {k1, k2}) @@ (ben :> {k1})

\* A double click: two requests of one page, which has one key.
DoubleClick == {TwoTabs}
OneKey == (ann :> {k1}) @@ (ben :> {k1})
=============================================================================
