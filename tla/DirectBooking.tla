--------------------------- MODULE DirectBooking ---------------------------
(***************************************************************************)
(* The direct booking engine (packages/jobs/src/booking-engine.ts and its  *)
(* repository): guests hold and confirm stays in one room type, while the  *)
(* sweep expires holds and the consumer of booking.revision_applied         *)
(* recomputes availability.  Every stay covers the same night, so the room  *)
(* type has one availability cell.                                          *)
(*                                                                         *)
(* A transaction is READ COMMITTED: it reads at one moment, drafting what   *)
(* it will write to the cell, and commits later; the others it overlaps     *)
(* with may commit in between.                                              *)
(***************************************************************************)
EXTENDS Integers, FiniteSets

CONSTANTS Guests,    \* each makes at most one hold
          Rooms,     \* count_of_rooms
          Casts,     \* bound: the sets of confirm requests, <<guest, tab>>, of a run
          Keys       \* bound: the idempotency keys (one per page shown) of each guest

\* The guest of a request, whose hold it confirms.
guestOf(r) == r[1]

ASSUME RoomsPositive == Rooms \in Nat \ {0}
ASSUME RequestsOfGuests == \A cast \in Casts : \A r \in cast : guestOf(r) \in Guests

VARIABLES
  holds,     \* booking_hold, by guest
  cell,      \* availability_day.available
  bookings,  \* the bookings made and not cancelled, by the request that made them
  intents,   \* the payment intents at the provider, by guest and key: their status
  confirms,  \* the confirm requests, by guest and tab
  open,      \* the transactions that have read and not committed
  derive,    \* booking.revision_applied events waiting for their consumer
  calm       \* history: none of the races NoRoomSoldTwice names has happened

payment == <<intents, confirms>>
directVars == <<holds, cell, bookings, open, derive, calm, payment>>

None == "none"

\* A row of booking_hold; due says that expires_at has passed, owes that its quote wants
\* something now (dueNowMinor): nothing, where guests pay at the property.
Hold(keys) == [state : {None, "held", "expired", "converted"}, due : BOOLEAN,
               owes : BOOLEAN, guest : BOOLEAN, intent : keys \cup {None}]

DirectInit ==
  /\ holds = [g \in Guests |-> [state |-> None, due |-> FALSE, owes |-> FALSE,
                                guest |-> FALSE, intent |-> None]]
  /\ cell = Rooms
  /\ bookings = {}
  /\ intents = [g \in Guests |-> [k \in Keys[g] |-> None]]
  /\ \E cast \in Casts : confirms = [r \in cast |-> [at |-> "idle"]]
  /\ open = {} /\ derive = 0
  /\ calm = TRUE

-----------------------------------------------------------------------------
(* Availability *)

\* activeHoldsByDate: the holds that count.
active == {g \in Guests : holds[g].state = "held" /\ ~holds[g].due}

\* Mutants of available: holds are not counted; more than all rooms may be taken.
availableUnheld(B, H) == IF Cardinality(B) >= Rooms THEN 0 ELSE Rooms - Cardinality(B)

availableUnclamped(B, H) == Rooms - (Cardinality(B) + Cardinality(H))

\* computeAvailable of the bookings B and the active holds H.
available(B, H) == LET taken == Cardinality(B) + Cardinality(H)
                   IN IF taken >= Rooms THEN 0 ELSE Rooms - taken

opened(who) == {t \in open : t.who = who}

\* The transaction of who reads: it will leave the bookings B and the holds H.
reads(who, B, H) ==
  /\ opened(who) = {}
  /\ open' = open \cup {[who |-> who, draft |-> available(B, H), clean |-> TRUE]}

\* Another commits: what these have read is no longer so.
overtaken(T) == {[t EXCEPT !.clean = FALSE] : t \in T}

\* It commits.
commits(t) ==
  /\ open' = overtaken(open \ {t})
  /\ cell' = t.draft

-----------------------------------------------------------------------------
(* Holds *)

\* createHold: the search still offers the room (priceHold).
SeeksHold(g) ==
  /\ holds[g].state = None /\ cell >= 1
  /\ reads(<<"hold", {g}>>, bookings, active \cup {g})
  /\ UNCHANGED <<holds, cell, bookings, derive, calm, payment>>

\* The quote is the hold's from now on.
PlacesHold(g) ==
  \E t \in opened(<<"hold", {g}>>), owes \in BOOLEAN :
    /\ commits(t)
    /\ holds' = [holds EXCEPT ![g].state = "held", ![g].owes = owes]
    /\ calm' = (calm /\ t.clean)
    /\ UNCHANGED <<bookings, derive, payment>>

\* Its 15 minutes pass (holdExpiry).
HoldFallsDue(g) ==
  /\ g \in active
  /\ holds' = [holds EXCEPT ![g].due = TRUE]
  /\ UNCHANGED <<cell, bookings, open, derive, calm, payment>>

saveHoldGuest(g) ==
  /\ holds[g].state = "held" /\ ~holds[g].guest
  /\ holds' = [holds EXCEPT ![g].guest = TRUE]
  /\ UNCHANGED <<cell, bookings, open, derive, calm, payment>>

expiredHolds == {g \in Guests : holds[g].state = "held" /\ holds[g].due}

\* The sweep runs every minute.
SweepSelects ==
  /\ expiredHolds # {}
  /\ \A t \in open : t.who[1] # "sweep"
  /\ reads(<<"sweep", expiredHolds>>, bookings, active)
  /\ UNCHANGED <<holds, cell, bookings, derive, calm, payment>>

releaseHold(G) == [g \in Guests |->
  IF g \in G /\ holds[g].state = "held" THEN [holds[g] EXCEPT !.state = "expired"]
                                        ELSE holds[g]]

\* expireHolds: each hold selected is released, unless it was converted meanwhile.
SweepReleases ==
  \E t \in {u \in open : u.who[1] = "sweep"} :
    /\ commits(t)
    /\ holds' = releaseHold(t.who[2])
    /\ calm' = (calm /\ t.clean)
    /\ UNCHANGED <<bookings, derive, payment>>

-----------------------------------------------------------------------------
(* confirmBooking *)

\* Phase 1: the claim.  The request keeps the row it read, and whether the hold was
\* still its guest's when it began.
Claims(r, key) ==
  /\ confirms[r].at = "idle"
  /\ holds[guestOf(r)].state = "held" /\ holds[guestOf(r)].guest
  /\ confirms' = [confirms EXCEPT ![r] =
       [at |-> "paying", key |-> key, intent |-> holds[guestOf(r)].intent,
        unexpired |-> ~holds[guestOf(r)].due]]
  /\ UNCHANGED <<holds, cell, bookings, intents, open, derive, calm>>

\* The intent it pays: the hold's, if it has one, or its own key's.
charging(r) == IF confirms[r].intent = None THEN confirms[r].key ELSE confirms[r].intent

\* What the provider says: createIntent answers a key it knows as before, and
\* confirmIntent settles what required action.
outcomes(r) ==
  LET c == confirms[r]
      was == intents[guestOf(r)][charging(r)]
  IN CASE was = None -> {"succeeded", "requires_action", "failed"}
       [] was = "requires_action" /\ c.intent # None -> {"succeeded", "failed"}
       [] OTHER -> {was}

\* Mutant of settled: an intent that still requires action will do.
settledSoon(status) == status # "failed"

settled(status) == status = "succeeded"

\* Phase 2 when nothing is due now: no intent, no charge.
PaysNothing(r) ==
  /\ confirms[r].at = "paying" /\ ~holds[guestOf(r)].owes
  /\ confirms' = [confirms EXCEPT ![r] = [at |-> "paid", unexpired |-> @.unexpired]]
  /\ UNCHANGED <<holds, cell, bookings, intents, open, derive, calm>>

\* Phase 2: the payment.  The hold remembers an intent that requires action and
\* forgets one that failed.
Pays(r) ==
  /\ confirms[r].at = "paying" /\ holds[guestOf(r)].owes
  /\ \E status \in outcomes(r) :
       /\ intents' = [intents EXCEPT ![guestOf(r)][charging(r)] = status]
       /\ IF settled(status)
          THEN /\ confirms' = [confirms EXCEPT
                              ![r] = [at |-> "paid", unexpired |-> @.unexpired]]
               /\ UNCHANGED holds
          ELSE /\ confirms' = [confirms EXCEPT ![r] = [at |-> "idle"]]
               /\ holds' = [holds EXCEPT ![guestOf(r)].intent =
                              IF status = "requires_action" THEN charging(r) ELSE None]
  /\ UNCHANGED <<cell, bookings, open, derive, calm>>

\* Phase 3, finalize: it prices the hold again, and the room that is no longer
\* offered is the hold's own only if the hold had not expired when the confirm began.
Finalizes(r) ==
  /\ confirms[r].at = "paid"
  /\ cell >= 1 \/ confirms[r].unexpired
  /\ reads(<<"confirm", r>>, bookings \cup {r}, active \ {guestOf(r)})
  /\ UNCHANGED <<holds, cell, bookings, derive, calm, payment>>

\* Otherwise it throws, though the card may have been charged; the guest may try again.
FinalizeThrows(r) ==
  /\ confirms[r].at = "paid"
  /\ cell = 0 /\ ~confirms[r].unexpired
  /\ opened(<<"confirm", r>>) = {}
  /\ confirms' = [confirms EXCEPT ![r] = [at |-> "idle"]]
  /\ UNCHANGED <<holds, cell, bookings, intents, open, derive, calm>>

\* The booking (applyDirectRevision) and convertHold, which asks nothing of the row.
Books(r) ==
  \E t \in opened(<<"confirm", r>>) :
    /\ commits(t)
    /\ bookings' = bookings \cup {r}
    /\ holds' = [holds EXCEPT ![guestOf(r)].state = "converted"]
    /\ confirms' = [confirms EXCEPT ![r] = [at |-> "booked"]]
    /\ derive' = derive + 1
    /\ calm' = (/\ calm /\ t.clean
                /\ holds[guestOf(r)].state # "converted"
                /\ cell >= 1 \/ guestOf(r) \in active)
    /\ UNCHANGED intents

-----------------------------------------------------------------------------
(* Around them *)

\* guestCancel: the cancelled booking is a revision like any other.  Neither this
\* transaction nor the next is split: what it would write late only ends the calm.
Cancels(r) ==
  /\ r \in bookings
  /\ bookings' = bookings \ {r}
  /\ cell' = available(bookings \ {r}, active)
  /\ open' = overtaken(open)
  /\ derive' = derive + 1
  /\ UNCHANGED <<holds, calm, payment>>

\* deriveAvailability, which counts bookings and passes no blocks and no holds.
Derives ==
  /\ derive > 0 /\ derive' = derive - 1
  /\ cell' = available(bookings, {})
  /\ open' = overtaken(open)
  /\ calm' = (calm /\ active = {})
  /\ UNCHANGED <<holds, bookings, payment>>

-----------------------------------------------------------------------------

HoldStep(g) == SeeksHold(g) \/ PlacesHold(g) \/ HoldFallsDue(g) \/ saveHoldGuest(g)

ConfirmStep(r) ==
  \/ \E key \in Keys[guestOf(r)] : Claims(r, key)
  \/ PaysNothing(r) \/ Pays(r) \/ Finalizes(r) \/ FinalizeThrows(r) \/ Books(r)
  \/ Cancels(r)

Sweep == SweepSelects \/ SweepReleases

DirectNext == \/ \E g \in Guests : HoldStep(g)
              \/ \E r \in DOMAIN confirms : ConfirmStep(r)
              \/ Sweep \/ Derives

DirectSpec == DirectInit /\ [][DirectNext]_directVars

-----------------------------------------------------------------------------
(* Properties *)

\* The type invariant: requests, transactions and rows are of the code's shapes.
DirectTypeOK ==
  /\ \A g \in Guests : holds[g] \in Hold(Keys[g])
  /\ cell \in 0..Rooms /\ DOMAIN confirms \in Casts
  /\ bookings \subseteq DOMAIN confirms
  /\ \A g \in Guests :
       intents[g] \in [Keys[g] -> {None, "succeeded", "requires_action", "failed"}]
  /\ \A r \in DOMAIN confirms : confirms[r].at \in {"idle", "paying", "paid", "booked"}
  /\ \A t \in open : t.draft \in 0..Rooms
  /\ derive \in Nat

\* BE-5: held and booked rooms never exceed the rooms there are, as long as no two
\* transactions on the cell overlapped, no revision was derived while a hold was
\* active, no payment outlived its hold once the room was gone, and no hold was
\* confirmed twice: the races by which the engine oversells are these four.
NoRoomSoldTwice == calm => Cardinality(bookings) + Cardinality(active) <= Rooms

\* A booking whose quote wanted something now is made only once a payment for its hold
\* has succeeded, whichever of the hold's requests and keys paid, and the hold of every
\* booking stays converted: the sweep that selected it before does not give its room back
\* (BE-6; confirmBooking's phases).
BookedIsCharged ==
  \A r \in bookings :
    LET hold == holds[guestOf(r)] IN
    /\ hold.state = "converted"
    /\ hold.owes => \E k \in Keys[guestOf(r)] : intents[guestOf(r)][k] = "succeeded"

\* BE-6, violated: "a double-clicked confirm button creates one booking".
OneBookingPerHold == \A r, q \in bookings : guestOf(r) = guestOf(q) => r = q
=============================================================================
