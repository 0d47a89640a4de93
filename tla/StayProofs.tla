----------------------------- MODULE StayProofs -----------------------------
(***************************************************************************)
(* Proofs about the stays of a property: the direct booking engine, for any *)
(* guests, requests, keys and number of rooms, and the turnover tasks and   *)
(* door codes that follow the stays, for any stays, dates and consumers.    *)
(***************************************************************************)
EXTENDS DirectBooking, Operations, FiniteSetTheorems, TLAPS

-----------------------------------------------------------------------------
(* Direct bookings: the invariant *)

Statuses == {None, "succeeded", "requires_action", "failed"}

Request(keys) ==
  [at : {"idle", "booked"}]
    \cup [at : {"paying"}, key : keys, intent : keys \cup {None}, unexpired : BOOLEAN]
    \cup [at : {"paid"}, unexpired : BOOLEAN]

Txn(requests) ==
  [who : ({"hold", "sweep"} \X SUBSET Guests) \cup ({"confirm"} \X requests),
   draft : 0..Rooms, clean : BOOLEAN]

\* The active holds among the rows.
activeIn(rows) == {g \in Guests : rows[g].state = "held" /\ ~rows[g].due}

DirectTyped ==
  /\ DOMAIN holds = Guests /\ \A g \in Guests : holds[g] \in Hold(Keys[g])
  /\ DOMAIN intents = Guests /\ \A g \in Guests : intents[g] \in [Keys[g] -> Statuses]
  /\ DOMAIN confirms \in Casts
  /\ \A r \in DOMAIN confirms : confirms[r] \in Request(Keys[guestOf(r)])
  /\ bookings \subseteq DOMAIN confirms /\ open \subseteq Txn(DOMAIN confirms)
  /\ IsFiniteSet(bookings) /\ IsFiniteSet(activeIn(holds))
  /\ cell \in 0..Rooms /\ derive \in Nat /\ calm \in BOOLEAN

\* A payment for the hold of g has succeeded, if it owes one.
Charged(rows, paid, g) == rows[g].owes => \E k \in Keys[g] : paid[g][k] = "succeeded"

\* A transaction is open once.
OpenOnce == \A t, u \in open : t.who = u.who => t = u

\* A hold that is being placed is not there yet; a request that got further than its
\* claim has a hold, and one past its payment has paid for it.
OpenFollows(T, rows, paid) ==
  /\ \A t \in T, g \in Guests : t.who = <<"hold", {g}>> => rows[g].state = None
  /\ \A t \in T, r \in DOMAIN confirms : t.who = <<"confirm", r>> =>
       rows[guestOf(r)].state # None /\ Charged(rows, paid, guestOf(r))

RequestFollows(request, rows, paid) ==
  \A r \in DOMAIN request :
    /\ request[r].at # "idle" => rows[guestOf(r)].state # None
    /\ request[r].at \in {"paid", "booked"} => Charged(rows, paid, guestOf(r))

BookingFollows(B, rows, paid) ==
  \A r \in B : rows[guestOf(r)].state = "converted" /\ Charged(rows, paid, guestOf(r))

DirectInv ==
  /\ DirectTyped /\ OpenOnce /\ OpenFollows(open, holds, intents)
  /\ RequestFollows(confirms, holds, intents) /\ BookingFollows(bookings, holds, intents)

-----------------------------------------------------------------------------
(* Direct bookings: lemmas *)

\* A payment that succeeded stays so; no hold appears, is forgotten or is taken back.
Onward(rows, paid, rows2, paid2) ==
  \A g \in Guests : /\ rows[g].state = None <=> rows2[g].state = None
                    /\ rows[g].state = "converted" => rows2[g].state = "converted"
                    /\ Charged(rows, paid, g) => Charged(rows2, paid2, g)

LEMMA OnwardFollows ==
  ASSUME DirectTyped, NEW rows, NEW paid, Onward(holds, intents, rows, paid)
  PROVE  /\ \A T : OpenFollows(T, holds, intents) => OpenFollows(T, rows, paid)
         /\ RequestFollows(confirms, holds, intents) => RequestFollows(confirms, rows, paid)
         /\ \A B \in SUBSET DOMAIN confirms :
              BookingFollows(B, holds, intents) => BookingFollows(B, rows, paid)
  <1>1. \A r \in DOMAIN confirms : guestOf(r) \in Guests
    BY RequestsOfGuests DEF DirectTyped
  <1> QED
    BY <1>1 DEF Onward, OpenFollows, RequestFollows, BookingFollows

\* Availability is between none and all the rooms.
LEMMA AvailableTyped ==
  ASSUME NEW B, NEW H, IsFiniteSet(B), IsFiniteSet(H)
  PROVE  /\ available(B, H) \in 0..Rooms
         /\ available(B, H) = 0 \/ Cardinality(B) + Cardinality(H) + available(B, H) <= Rooms
         /\ Cardinality(B) + Cardinality(H) <= Rooms
              => Cardinality(B) + Cardinality(H) + available(B, H) <= Rooms
  <1>1. Cardinality(B) \in Nat /\ Cardinality(H) \in Nat /\ Rooms \in Nat
    BY FS_CardinalityType, RoomsPositive
  <1> QED
    BY <1>1 DEF available

\* The transactions left open when one commits are among those there were.
LEMMA OvertakenOpen ==
  ASSUME DirectTyped, NEW T \in SUBSET open
  PROVE  /\ overtaken(T) \subseteq Txn(DOMAIN confirms)
         /\ \A u \in overtaken(T) :
              u.clean = FALSE /\ \E t \in T : /\ u.who = t.who /\ u.draft = t.draft
                                            /\ u = [t EXCEPT !.clean = FALSE]
  <1>1. ASSUME NEW t \in T
        PROVE  LET u == [t EXCEPT !.clean = FALSE]
               IN u \in Txn(DOMAIN confirms) /\ u.clean = FALSE /\ u.who = t.who /\ u.draft = t.draft
    <2>1. t \in Txn(DOMAIN confirms)
      BY DEF DirectTyped
    <2> QED
      BY <2>1 DEF Txn
  <1> QED
    BY <1>1 DEF overtaken

\* It opens no transaction.
NoneNew(new, old) == new \subseteq Txn(DOMAIN confirms) /\ \A u \in new : \E v \in old : u.who = v.who

LEMMA OvertakenWere ==
  ASSUME DirectTyped, NEW T \in SUBSET open
  PROVE  NoneNew(overtaken(T), T)
  <1>1. overtaken(T) \subseteq Txn(DOMAIN confirms)
    BY OvertakenOpen
  <1>2. ASSUME NEW u \in overtaken(T) PROVE \E v \in T : u.who = v.who
    <2>1. PICK v \in T : u = [v EXCEPT !.clean = FALSE]
      BY DEF overtaken
    <2>2. v \in Txn(DOMAIN confirms)
      BY DEF DirectTyped
    <2>3. u.who = v.who
      BY <2>1, <2>2 DEF Txn
    <2> QED
      BY <2>3
  <1> QED
    BY <1>1, <1>2 DEF NoneNew

\* Committing opens nothing.
LEMMA OvertakenOnce ==
  ASSUME DirectTyped, OpenOnce, NEW T \in SUBSET open
  PROVE  \A t, u \in overtaken(T) : t.who = u.who => t = u
  <1> SUFFICES ASSUME NEW t \in overtaken(T), NEW u \in overtaken(T), t.who = u.who PROVE t = u
    OBVIOUS
  <1>1. \E a \in T : t.who = a.who /\ t = [a EXCEPT !.clean = FALSE]
    BY OvertakenOpen
  <1>2. \E b \in T : u.who = b.who /\ u = [b EXCEPT !.clean = FALSE]
    BY OvertakenOpen
  <1>3. PICK a \in T : t.who = a.who /\ t = [a EXCEPT !.clean = FALSE]
    BY <1>1
  <1>4. PICK b \in T : u.who = b.who /\ u = [b EXCEPT !.clean = FALSE]
    BY <1>2
  <1>5. a = b
    BY <1>3, <1>4 DEF OpenOnce
  <1> QED
    BY <1>3, <1>4, <1>5

\* A transaction reads.
LEMMA Opens ==
  ASSUME DirectInv, NEW who, NEW B, NEW H, IsFiniteSet(B), IsFiniteSet(H), reads(who, B, H),
         who \in ({"hold", "sweep"} \X SUBSET Guests) \cup ({"confirm"} \X DOMAIN confirms),
         \A g \in Guests : who = <<"hold", {g}>> => holds[g].state = None,
         \A r \in DOMAIN confirms : who = <<"confirm", r>> =>
           holds[guestOf(r)].state # None /\ Charged(holds, intents, guestOf(r)),
         UNCHANGED <<holds, cell, bookings, derive, calm, payment>>
  PROVE  DirectInv'
  <1> DEFINE t == [who |-> who, draft |-> available(B, H), clean |-> TRUE]
  <1>1. t \in Txn(DOMAIN confirms) /\ t.who = who
    BY AvailableTyped DEF Txn
  <1>2. open' = open \cup {t} /\ \A u \in open : u.who # who
    BY DEF reads, opened
  <1> HIDE DEF t
  <1>3. UNCHANGED <<holds, cell, bookings, derive, calm, intents, confirms>>
    BY DEF payment
  <1>4. DirectTyped'
    BY <1>1, <1>2, <1>3 DEF DirectInv, DirectTyped, Txn, activeIn, Request, Hold
  <1>5. OpenOnce'
    BY <1>1, <1>2 DEF DirectInv, OpenOnce
  <1>6. OpenFollows(open', holds, intents)
    BY <1>1, <1>2 DEF DirectInv, OpenFollows
  <1> QED
    BY <1>3, <1>4, <1>5, <1>6
       DEF DirectInv, OpenFollows, RequestFollows, BookingFollows, Charged

\* A transaction commits.
LEMMA CommitKeeps ==
  ASSUME DirectInv, NEW t \in open, commits(t)
  PROVE  /\ open' \subseteq Txn(DOMAIN confirms) /\ cell' \in 0..Rooms
         /\ OpenOnce' /\ OpenFollows(open', holds, intents)
         /\ \A u \in open' : u.who # t.who
  <1> DEFINE rest == open \ {t}
  <1>1. /\ open' = overtaken(rest) /\ cell' = t.draft /\ t \in Txn(DOMAIN confirms)
        /\ rest \in SUBSET open /\ DirectTyped /\ OpenOnce
    BY DEF commits, DirectInv, DirectTyped
  <1>2. /\ open' \subseteq Txn(DOMAIN confirms)
        /\ \A u \in open' : \E v \in rest : u.who = v.who
    <2> HIDE DEF rest
    <2>1. rest \in SUBSET open /\ DirectTyped
      BY <1>1
    <2>2. NoneNew(overtaken(rest), rest)
      BY <2>1, OvertakenWere
    <2> QED
      BY <1>1, <2>2 DEF NoneNew
  <1>3. \A v, u \in open' : v.who = u.who => v = u
    <2> HIDE DEF rest
    <2> QED
      BY <1>1, OvertakenOnce
  <1>4. OpenFollows(open', holds, intents)
    BY <1>2 DEF DirectInv, OpenFollows
  <1>5. \A u \in open' : u.who # t.who
    BY <1>2 DEF DirectInv, OpenOnce
  <1> QED
    BY <1>1, <1>2, <1>3, <1>4, <1>5 DEF Txn, OpenOnce

\* A hold's row changes.
LEMMA RowChanges ==
  ASSUME DirectTyped, NEW g \in Guests, NEW row \in Hold(Keys[g]),
         holds' = [holds EXCEPT ![g] = row]
  PROVE  /\ DOMAIN holds' = Guests /\ \A h \in Guests : holds'[h] \in Hold(Keys[h])
         /\ IsFiniteSet(activeIn(holds')) /\ activeIn(holds') \subseteq activeIn(holds) \cup {g}
         /\ holds'[g] = row /\ \A h \in Guests \ {g} : holds'[h] = holds[h]
  <1>1. /\ DOMAIN holds' = Guests /\ \A h \in Guests : holds'[h] \in Hold(Keys[h])
        /\ holds'[g] = row /\ \A h \in Guests \ {g} : holds'[h] = holds[h]
    BY DEF DirectTyped
  <1>2. activeIn(holds') \subseteq activeIn(holds) \cup {g}
    BY <1>1 DEF activeIn
  <1>3. IsFiniteSet(activeIn(holds) \cup {g})
    BY FS_AddElement DEF DirectTyped
  <1>4. IsFiniteSet(activeIn(holds'))
    BY <1>2, <1>3, FS_Subset
  <1> QED
    BY <1>1, <1>2, <1>4

\* The hold is written.
LEMMA PlacesKeepsInv ==
  ASSUME DirectInv, NEW g \in Guests, PlacesHold(g)
  PROVE  DirectInv'
  <1>1. PICK t \in open, owes \in BOOLEAN :
                          /\ t.who = <<"hold", {g}>> /\ commits(t)
                          /\ holds' = [holds EXCEPT ![g].state = "held", ![g].owes = owes]
                          /\ calm' = (calm /\ t.clean)
                          /\ UNCHANGED <<bookings, derive, intents, confirms>>
    BY DEF PlacesHold, opened, payment
  <1> DEFINE row == [holds[g] EXCEPT !.state = "held", !.owes = owes]
  <1>2. holds[g] \in Hold(Keys[g]) /\ holds[g].state = None
    BY <1>1 DEF DirectInv, DirectTyped, OpenFollows
  <1>3. /\ row \in Hold(Keys[g]) /\ row.state = "held" /\ row.state # None
        /\ holds' = [holds EXCEPT ![g] = row]
    BY <1>1, <1>2 DEF Hold, None
  <1> HIDE DEF row
  <1>4. /\ DOMAIN holds' = Guests /\ \A h \in Guests : holds'[h] \in Hold(Keys[h])
        /\ IsFiniteSet(activeIn(holds'))
        /\ holds'[g] = row /\ \A h \in Guests \ {g} : holds'[h] = holds[h]
    BY <1>3, RowChanges DEF DirectInv
  <1>5. /\ open' \subseteq Txn(DOMAIN confirms) /\ cell' \in 0..Rooms
        /\ OpenOnce' /\ OpenFollows(open', holds, intents)
        /\ \A u \in open' : u.who # <<"hold", {g}>>
    BY <1>1, CommitKeeps
  <1>6. calm' \in BOOLEAN
    BY <1>1
  <1>7. DirectTyped'
    BY <1>1, <1>4, <1>5, <1>6 DEF DirectInv, DirectTyped, Txn, activeIn, Request, Hold
  <1>8. \A h \in Guests : holds[h].state # None => holds'[h] = holds[h]
    BY <1>2, <1>4
  <1>9. \A r \in DOMAIN confirms : guestOf(r) \in Guests
    BY RequestsOfGuests DEF DirectInv, DirectTyped
  <1>10. OpenFollows(open', holds', intents)
    <2>1. ASSUME NEW u \in open', NEW h \in Guests, u.who = <<"hold", {h}>>
          PROVE  holds'[h].state = None
      BY <1>4, <1>5, <2>1 DEF OpenFollows
    <2> QED
      BY <1>5, <1>8, <1>9, <2>1 DEF OpenFollows, Charged
  <1>11. RequestFollows(confirms, holds', intents)
    BY <1>8, <1>9 DEF DirectInv, RequestFollows, Charged
  <1>12. BookingFollows(bookings, holds', intents)
    BY <1>8, <1>9 DEF DirectInv, DirectTyped, BookingFollows, Charged, None
  <1>13. UNCHANGED <<bookings, intents, confirms>>
    BY <1>1
  <1>14. OpenFollows(open, holds, intents)'
    BY <1>10, <1>13 DEF OpenFollows, Charged
  <1>15. RequestFollows(confirms, holds, intents)'
    BY <1>11, <1>13 DEF RequestFollows, Charged
  <1>16. BookingFollows(bookings, holds, intents)'
    BY <1>12, <1>13 DEF BookingFollows, Charged
  <1> QED
    BY <1>5, <1>7, <1>14, <1>15, <1>16 DEF DirectInv

\* Rows that keep their states and what they owe disturb nothing.
LEMMA QuietRowsKeepInv ==
  ASSUME DirectInv, UNCHANGED <<cell, bookings, open, derive, calm, intents, confirms>>,
         DOMAIN holds' = Guests, \A h \in Guests : holds'[h] \in Hold(Keys[h]),
         IsFiniteSet(activeIn(holds')),
         \A h \in Guests : holds'[h].state = holds[h].state /\ holds'[h].owes = holds[h].owes
  PROVE  DirectInv'
  <1>1. Onward(holds, intents, holds', intents)
    BY DEF Onward, Charged
  <1>2. DirectTyped'
    BY DEF DirectInv, DirectTyped, Txn, activeIn, Request, Hold
  <1>3. /\ OpenFollows(open, holds', intents) /\ RequestFollows(confirms, holds', intents)
        /\ BookingFollows(bookings, holds', intents)
    BY <1>1, OnwardFollows DEF DirectInv, DirectTyped
  <1> QED
    BY <1>2, <1>3 DEF DirectInv, OpenOnce, OpenFollows, RequestFollows, BookingFollows, Charged

\* The hold falls due, or its guest is saved.
LEMMA RowStepKeepsInv ==
  ASSUME DirectInv, NEW g \in Guests, HoldFallsDue(g) \/ saveHoldGuest(g)
  PROVE  DirectInv'
  <1>1. PICK row \in Hold(Keys[g]) : /\ row.state = holds[g].state /\ row.owes = holds[g].owes
                                    /\ holds' = [holds EXCEPT ![g] = row]
    <2>1. holds[g] \in Hold(Keys[g])
      BY DEF DirectInv, DirectTyped
    <2>2. CASE HoldFallsDue(g)
      <3> DEFINE row == [holds[g] EXCEPT !.due = TRUE]
      <3>1. /\ row \in Hold(Keys[g]) /\ row.state = holds[g].state /\ row.owes = holds[g].owes
            /\ holds' = [holds EXCEPT ![g] = row]
        BY <2>1, <2>2 DEF HoldFallsDue, Hold
      <3> QED
        BY <3>1
    <2>3. CASE saveHoldGuest(g)
      <3> DEFINE row == [holds[g] EXCEPT !.guest = TRUE]
      <3>1. /\ row \in Hold(Keys[g]) /\ row.state = holds[g].state /\ row.owes = holds[g].owes
            /\ holds' = [holds EXCEPT ![g] = row]
        BY <2>1, <2>3 DEF saveHoldGuest, Hold
      <3> QED
        BY <3>1
    <2> QED
      BY <2>2, <2>3
  <1>2. /\ DOMAIN holds' = Guests /\ \A h \in Guests : holds'[h] \in Hold(Keys[h])
        /\ IsFiniteSet(activeIn(holds'))
        /\ holds'[g] = row /\ \A h \in Guests \ {g} : holds'[h] = holds[h]
    BY <1>1, RowChanges DEF DirectInv
  <1>3. UNCHANGED <<cell, bookings, open, derive, calm, intents, confirms>>
    BY DEF HoldFallsDue, saveHoldGuest, payment
  <1>4. \A h \in Guests : holds'[h].state = holds[h].state /\ holds'[h].owes = holds[h].owes
    BY <1>1, <1>2
  <1> QED
    BY <1>2, <1>3, <1>4, QuietRowsKeepInv

\* The sweep releases holds; one that was converted meanwhile it leaves alone.
LEMMA ReleasedRows ==
  ASSUME DirectTyped, NEW G, holds' = releaseHold(G)
  PROVE  /\ DOMAIN holds' = Guests /\ \A g \in Guests : holds'[g] \in Hold(Keys[g])
         /\ activeIn(holds') \subseteq activeIn(holds) /\ IsFiniteSet(activeIn(holds'))
         /\ \A g \in Guests : /\ holds[g].state = None <=> holds'[g].state = None
                              /\ holds[g].state = "converted" <=> holds'[g].state = "converted"
                              /\ holds'[g].owes = holds[g].owes
  <1>1. DOMAIN holds' = Guests
    BY DEF releaseHold
  <1>2. ASSUME NEW g \in Guests
        PROVE  /\ holds'[g] \in Hold(Keys[g])
               /\ \/ holds'[g] = holds[g]
                  \/ /\ holds[g].state = "held" /\ holds'[g].state = "expired"
                     /\ holds'[g].owes = holds[g].owes
    BY <1>2 DEF releaseHold, DirectTyped, Hold
  <1>3. activeIn(holds') \subseteq activeIn(holds)
    BY <1>2 DEF activeIn
  <1>4. IsFiniteSet(activeIn(holds'))
    BY <1>3, FS_Subset DEF DirectTyped
  <1> QED
    BY <1>1, <1>2, <1>3, <1>4 DEF None

LEMMA ReleasesKeepsInv ==
  ASSUME DirectInv, SweepReleases
  PROVE  DirectInv'
  <1>1. PICK t \in open : /\ commits(t) /\ holds' = releaseHold(t.who[2])
                          /\ calm' = (calm /\ t.clean)
                          /\ UNCHANGED <<bookings, derive, intents, confirms>>
    BY DEF SweepReleases, payment
  <1>2. /\ DOMAIN holds' = Guests /\ \A g \in Guests : holds'[g] \in Hold(Keys[g])
        /\ IsFiniteSet(activeIn(holds'))
        /\ \A g \in Guests : /\ holds[g].state = None <=> holds'[g].state = None
                             /\ holds[g].state = "converted" <=> holds'[g].state = "converted"
                             /\ holds'[g].owes = holds[g].owes
    BY <1>1, ReleasedRows DEF DirectInv
  <1>3. /\ open' \subseteq Txn(DOMAIN confirms) /\ cell' \in 0..Rooms
        /\ OpenOnce' /\ OpenFollows(open', holds, intents)
    BY <1>1, CommitKeeps
  <1>4. calm' \in BOOLEAN
    BY <1>1
  <1>5. DirectTyped'
    BY <1>1, <1>2, <1>3, <1>4 DEF DirectInv, DirectTyped, Txn, activeIn, Request, Hold
  <1>6. Onward(holds, intents, holds', intents)
    BY <1>2 DEF Onward, Charged
  <1>7. /\ OpenFollows(open', holds', intents) /\ RequestFollows(confirms, holds', intents)
        /\ BookingFollows(bookings, holds', intents)
    BY <1>3, <1>6, OnwardFollows DEF DirectInv, DirectTyped
  <1> QED
    BY <1>1, <1>3, <1>5, <1>7
       DEF DirectInv, OpenFollows, RequestFollows, BookingFollows, Charged

\* The claim.
LEMMA ClaimsKeepsInv ==
  ASSUME DirectInv, NEW r \in DOMAIN confirms, NEW key \in Keys[guestOf(r)], Claims(r, key)
  PROVE  DirectInv'
  <1> DEFINE g == guestOf(r)
             c == [at |-> "paying", key |-> key, intent |-> holds[g].intent,
                   unexpired |-> ~holds[g].due]
  <1>1. g \in Guests
    BY RequestsOfGuests DEF DirectInv, DirectTyped
  <1>2. /\ holds[g] \in Hold(Keys[g]) /\ holds[g].state = "held"
        /\ c \in Request(Keys[g]) /\ c.at = "paying"
    BY <1>1 DEF DirectInv, DirectTyped, Hold, Request, Claims
  <1>3. /\ confirms' = [confirms EXCEPT ![r] = c]
        /\ UNCHANGED <<holds, cell, bookings, intents, open, derive, calm>>
    BY DEF Claims
  <1> HIDE DEF c
  <1>4. /\ DOMAIN confirms' = DOMAIN confirms /\ confirms'[r] = c
        /\ \A q \in DOMAIN confirms \ {r} : confirms'[q] = confirms[q]
    BY <1>3
  <1>5. \A q \in DOMAIN confirms : confirms'[q] \in Request(Keys[guestOf(q)])
    BY <1>2, <1>4 DEF DirectInv, DirectTyped
  <1>6. RequestFollows(confirms', holds, intents)
    BY <1>2, <1>4 DEF DirectInv, RequestFollows, None
  <1> HIDE DEF g
  <1>7. DirectTyped'
    BY <1>3, <1>4, <1>5 DEF DirectInv, DirectTyped, Txn, activeIn, Request, Hold
  <1> QED
    BY <1>3, <1>4, <1>6, <1>7
       DEF DirectInv, OpenOnce, OpenFollows, RequestFollows, BookingFollows, Charged

\* A request that throws may be made again.
LEMMA ThrowsKeepsInv ==
  ASSUME DirectInv, NEW r \in DOMAIN confirms, FinalizeThrows(r)
  PROVE  DirectInv'
  <1> DEFINE c == [at |-> "idle"]
  <1>1. c \in Request(Keys[guestOf(r)]) /\ c.at = "idle"
    BY DEF Request
  <1>2. /\ confirms' = [confirms EXCEPT ![r] = c]
        /\ UNCHANGED <<holds, cell, bookings, intents, open, derive, calm>>
    BY DEF FinalizeThrows
  <1> HIDE DEF c
  <1>3. /\ DOMAIN confirms' = DOMAIN confirms /\ confirms'[r] = c
        /\ \A q \in DOMAIN confirms \ {r} : confirms'[q] = confirms[q]
    BY <1>2
  <1>4. \A q \in DOMAIN confirms : confirms'[q] \in Request(Keys[guestOf(q)])
    BY <1>1, <1>3 DEF DirectInv, DirectTyped
  <1>5. RequestFollows(confirms', holds, intents)
    BY <1>1, <1>3 DEF DirectInv, RequestFollows
  <1>6. DirectTyped'
    BY <1>2, <1>3, <1>4 DEF DirectInv, DirectTyped, Txn, activeIn, Request, Hold
  <1> QED
    BY <1>2, <1>3, <1>5, <1>6
       DEF DirectInv, OpenOnce, OpenFollows, RequestFollows, BookingFollows, Charged

\* With nothing due now the request goes on without a payment.
LEMMA PaysNothingKeepsInv ==
  ASSUME DirectInv, NEW r \in DOMAIN confirms, PaysNothing(r)
  PROVE  DirectInv'
  <1> DEFINE c == [at |-> "paid", unexpired |-> confirms[r].unexpired]
  <1>1. /\ confirms[r] \in Request(Keys[guestOf(r)]) /\ confirms[r].at = "paying"
        /\ holds[guestOf(r)].state # None /\ Charged(holds, intents, guestOf(r))
    BY DEF DirectInv, DirectTyped, RequestFollows, PaysNothing, Charged
  <1>2. confirms[r].unexpired \in BOOLEAN
    BY <1>1 DEF Request
  <1>3. c \in Request(Keys[guestOf(r)]) /\ c.at = "paid"
    BY <1>2 DEF Request
  <1>4. /\ confirms' = [confirms EXCEPT ![r] = c]
        /\ UNCHANGED <<holds, cell, bookings, intents, open, derive, calm>>
    BY DEF PaysNothing
  <1> HIDE DEF c
  <1>5. /\ DOMAIN confirms' = DOMAIN confirms /\ confirms'[r] = c
        /\ \A q \in DOMAIN confirms \ {r} : confirms'[q] = confirms[q]
    BY <1>4
  <1>6. \A q \in DOMAIN confirms : confirms'[q] \in Request(Keys[guestOf(q)])
    BY <1>3, <1>5 DEF DirectInv, DirectTyped
  <1>7. RequestFollows(confirms', holds, intents)
    BY <1>1, <1>3, <1>5 DEF DirectInv, RequestFollows
  <1>8. DirectTyped'
    BY <1>4, <1>5, <1>6 DEF DirectInv, DirectTyped, Txn, activeIn, Request, Hold
  <1> QED
    BY <1>4, <1>5, <1>7, <1>8
       DEF DirectInv, OpenOnce, OpenFollows, RequestFollows, BookingFollows, Charged

\* The payment: what has succeeded stays so.
LEMMA Charges ==
  ASSUME DirectInv, NEW r \in DOMAIN confirms, confirms[r].at = "paying",
         NEW status \in outcomes(r),
         intents' = [intents EXCEPT ![guestOf(r)][charging(r)] = status]
  PROVE  /\ DOMAIN intents' = Guests /\ \A g \in Guests : intents'[g] \in [Keys[g] -> Statuses]
         /\ \A g \in Guests : Charged(holds, intents, g) => Charged(holds, intents', g)
         /\ status = "succeeded" => Charged(holds, intents', guestOf(r))
         /\ charging(r) \in Keys[guestOf(r)]
  <1> DEFINE g == guestOf(r)
             k == charging(r)
             paid == [intents[g] EXCEPT ![k] = status]
  <1>1. g \in Guests
    BY RequestsOfGuests DEF DirectInv, DirectTyped
  <1>2. k \in Keys[g]
    BY DEF DirectInv, DirectTyped, Request, charging
  <1>3. intents[g] \in [Keys[g] -> Statuses] /\ DOMAIN intents = Guests
    BY <1>1 DEF DirectInv, DirectTyped
  <1>4. status \in Statuses /\ (intents[g][k] = "succeeded" => status = "succeeded")
    BY <1>2, <1>3 DEF outcomes, Statuses, None
  <1>5. intents' = [intents EXCEPT ![g] = paid]
    OBVIOUS
  <1>6. /\ paid \in [Keys[g] -> Statuses] /\ paid[k] = status
        /\ \A j \in Keys[g] : intents[g][j] = "succeeded" => paid[j] = "succeeded"
    BY <1>2, <1>3, <1>4
  <1> HIDE DEF paid, k
  <1>7. /\ DOMAIN intents' = Guests /\ intents'[g] = paid
        /\ \A h \in Guests \ {g} : intents'[h] = intents[h]
    BY <1>1, <1>3, <1>5
  <1>8. \A h \in Guests : intents'[h] \in [Keys[h] -> Statuses]
    BY <1>6, <1>7 DEF DirectInv, DirectTyped
  <1>9. ASSUME NEW h \in Guests, Charged(holds, intents, h) PROVE Charged(holds, intents', h)
    BY <1>6, <1>7, <1>9 DEF Charged
  <1>10. status = "succeeded" => Charged(holds, intents', g)
    BY <1>2, <1>6, <1>7 DEF Charged
  <1> QED
    BY <1>2, <1>7, <1>8, <1>9, <1>10 DEF k

LEMMA PaysKeepsInv ==
  ASSUME DirectInv, NEW r \in DOMAIN confirms, Pays(r)
  PROVE  DirectInv'
  <1> DEFINE g == guestOf(r)
  <1>1. /\ g \in Guests /\ holds[g] \in Hold(Keys[g]) /\ confirms[r].at = "paying"
        /\ holds[g].state # None /\ UNCHANGED <<cell, bookings, open, derive, calm>>
    BY RequestsOfGuests DEF DirectInv, DirectTyped, RequestFollows, Pays
  <1>2. PICK status \in outcomes(r) :
          /\ intents' = [intents EXCEPT ![g][charging(r)] = status]
          /\ \/ /\ settled(status)
                /\ confirms' = [confirms EXCEPT ![r] = [at |-> "paid", unexpired |-> @.unexpired]]
                /\ UNCHANGED holds
             \/ /\ confirms' = [confirms EXCEPT ![r] = [at |-> "idle"]]
                /\ holds' = [holds EXCEPT ![g].intent =
                               IF status = "requires_action" THEN charging(r) ELSE None]
    BY DEF Pays
  <1>3. /\ DOMAIN intents' = Guests /\ \A h \in Guests : intents'[h] \in [Keys[h] -> Statuses]
        /\ \A h \in Guests : Charged(holds, intents, h) => Charged(holds, intents', h)
        /\ status = "succeeded" => Charged(holds, intents', g)
        /\ charging(r) \in Keys[g]
    BY <1>1, <1>2, Charges
  <1>4. /\ DOMAIN holds' = Guests /\ \A h \in Guests : holds'[h] \in Hold(Keys[h])
        /\ IsFiniteSet(activeIn(holds'))
        /\ \A h \in Guests : holds'[h].state = holds[h].state /\ holds'[h].owes = holds[h].owes
    <2>1. CASE UNCHANGED holds
      BY <2>1 DEF DirectInv, DirectTyped, activeIn
    <2>2. CASE holds' = [holds EXCEPT ![g].intent =
                           IF status = "requires_action" THEN charging(r) ELSE None]
      <3> DEFINE next == IF status = "requires_action" THEN charging(r) ELSE None
                 row == [holds[g] EXCEPT !.intent = next]
      <3>1. next \in Keys[g] \cup {None}
        BY <1>3
      <3> HIDE DEF next
      <3>2. row \in Hold(Keys[g]) /\ row.state = holds[g].state /\ row.owes = holds[g].owes
        BY <1>1, <3>1 DEF Hold
      <3>3. holds' = [holds EXCEPT ![g] = row]
        BY <2>2 DEF next
      <3> HIDE DEF row
      <3> QED
        BY <1>1, <3>2, <3>3, RowChanges DEF DirectInv
    <2> QED
      BY <1>2, <2>1, <2>2
  <1>5. PICK c \in Request(Keys[g]) : /\ confirms' = [confirms EXCEPT ![r] = c]
                                      /\ c.at = "idle" \/ (c.at = "paid" /\ Charged(holds, intents', g))
    <2>1. ASSUME settled(status),
                 confirms' = [confirms EXCEPT ![r] = [at |-> "paid", unexpired |-> @.unexpired]]
          PROVE  \E c \in Request(Keys[g]) :
                   /\ confirms' = [confirms EXCEPT ![r] = c]
                   /\ c.at = "idle" \/ (c.at = "paid" /\ Charged(holds, intents', g))
      <3> DEFINE c == [at |-> "paid", unexpired |-> confirms[r].unexpired]
      <3>1. confirms[r] \in Request(Keys[g])
        BY DEF DirectInv, DirectTyped
      <3>2. confirms[r].unexpired \in BOOLEAN
        BY <1>1, <3>1 DEF Request
      <3>3. c \in Request(Keys[g]) /\ c.at = "paid"
        BY <3>2 DEF Request
      <3>4. confirms' = [confirms EXCEPT ![r] = c]
        BY <2>1
      <3>5. Charged(holds, intents', g)
        BY <1>3, <2>1 DEF settled
      <3> QED
        BY <3>3, <3>4, <3>5
    <2>2. ASSUME confirms' = [confirms EXCEPT ![r] = [at |-> "idle"]]
          PROVE  \E c \in Request(Keys[g]) :
                   /\ confirms' = [confirms EXCEPT ![r] = c]
                   /\ c.at = "idle" \/ (c.at = "paid" /\ Charged(holds, intents', g))
      <3>1. [at |-> "idle"] \in Request(Keys[g])
        BY DEF Request
      <3> QED
        BY <2>2, <3>1
    <2> QED
      BY <1>2, <2>1, <2>2
  <1> HIDE DEF g
  <1>6. Onward(holds, intents, holds', intents')
    BY <1>3, <1>4 DEF Onward, Charged
  <1>7. /\ DOMAIN confirms' = DOMAIN confirms /\ confirms'[r] = c
        /\ \A q \in DOMAIN confirms \ {r} : confirms'[q] = confirms[q]
    BY <1>5
  <1>8. /\ OpenFollows(open, holds', intents') /\ RequestFollows(confirms, holds', intents')
        /\ BookingFollows(bookings, holds', intents')
    BY <1>6, OnwardFollows DEF DirectInv, DirectTyped
  <1>9. RequestFollows(confirms', holds', intents')
    BY <1>1, <1>4, <1>5, <1>7, <1>8 DEF RequestFollows, Charged, g
  <1>10. \A q \in DOMAIN confirms : confirms'[q] \in Request(Keys[guestOf(q)])
    BY <1>5, <1>7 DEF DirectInv, DirectTyped, g
  <1>11. DirectTyped'
    BY <1>1, <1>3, <1>4, <1>7, <1>10
       DEF DirectInv, DirectTyped, Txn, activeIn, Hold, Request, Statuses
  <1> QED
    BY <1>1, <1>7, <1>8, <1>9, <1>11
       DEF DirectInv, OpenOnce, OpenFollows, RequestFollows, BookingFollows, Charged

\* The transactions that only read.
LEMMA OpeningsKeepInv ==
  ASSUME DirectInv,
         \/ \E g \in Guests : SeeksHold(g)
         \/ SweepSelects
         \/ \E r \in DOMAIN confirms : Finalizes(r)
  PROVE  DirectInv'
  <1>1. IsFiniteSet(bookings) /\ IsFiniteSet(active) /\ active \in SUBSET Guests
    BY DEF DirectInv, DirectTyped, activeIn, active
  <1>2. ASSUME NEW g \in Guests, SeeksHold(g) PROVE DirectInv'
    <2> DEFINE who == <<"hold", {g}>>
               H == active \cup {g}
    <2>1. /\ reads(who, bookings, H) /\ holds[g].state = None
          /\ UNCHANGED <<holds, cell, bookings, derive, calm, payment>>
      BY <1>2 DEF SeeksHold
    <2>2. IsFiniteSet(H)
      BY <1>1, FS_AddElement
    <2>3. /\ who \in ({"hold", "sweep"} \X SUBSET Guests) \cup ({"confirm"} \X DOMAIN confirms)
          /\ \A h \in Guests : who = <<"hold", {h}>> => h = g
          /\ \A r \in DOMAIN confirms : who # <<"confirm", r>>
      OBVIOUS
    <2>4. \A h \in Guests : who = <<"hold", {h}>> => holds[h].state = None
      BY <2>1, <2>3
    <2> HIDE DEF who, H
    <2> QED
      BY <1>1, <2>1, <2>2, <2>3, <2>4, Opens
  <1>3. CASE SweepSelects
    <2> DEFINE who == <<"sweep", expiredHolds>>
    <2>1. /\ reads(who, bookings, active)
          /\ UNCHANGED <<holds, cell, bookings, derive, calm, payment>>
      BY <1>3 DEF SweepSelects
    <2>2. /\ who \in ({"hold", "sweep"} \X SUBSET Guests) \cup ({"confirm"} \X DOMAIN confirms)
          /\ \A h \in Guests : who # <<"hold", {h}>>
          /\ \A r \in DOMAIN confirms : who # <<"confirm", r>>
      BY DEF expiredHolds
    <2> HIDE DEF who
    <2> QED
      BY <1>1, <2>1, <2>2, Opens
  <1>4. ASSUME NEW r \in DOMAIN confirms, Finalizes(r) PROVE DirectInv'
    <2> DEFINE who == <<"confirm", r>>
               B == bookings \cup {r}
               H == active \ {guestOf(r)}
    <2>1. /\ reads(who, B, H) /\ confirms[r].at = "paid"
          /\ UNCHANGED <<holds, cell, bookings, derive, calm, payment>>
      BY <1>4 DEF Finalizes
    <2>2. IsFiniteSet(B) /\ IsFiniteSet(H)
      BY <1>1, FS_AddElement, FS_Subset
    <2>3. /\ who \in ({"hold", "sweep"} \X SUBSET Guests) \cup ({"confirm"} \X DOMAIN confirms)
          /\ \A h \in Guests : who # <<"hold", {h}>>
          /\ \A q \in DOMAIN confirms : who = <<"confirm", q>> => q = r
      OBVIOUS
    <2>4. holds[guestOf(r)].state # None /\ Charged(holds, intents, guestOf(r))
      BY <2>1 DEF DirectInv, RequestFollows
    <2>5. \A q \in DOMAIN confirms : who = <<"confirm", q>> =>
            holds[guestOf(q)].state # None /\ Charged(holds, intents, guestOf(q))
      BY <2>3, <2>4
    <2> HIDE DEF who, B, H
    <2> QED
      BY <2>1, <2>2, <2>3, <2>5, Opens
  <1> QED
    BY <1>2, <1>3, <1>4

\* The booking: its hold has been paid for, and becomes it.
LEMMA BooksKeepsInv ==
  ASSUME DirectInv, NEW r \in DOMAIN confirms, Books(r)
  PROVE  DirectInv'
  <1> DEFINE g == guestOf(r)
             row == [holds[g] EXCEPT !.state = "converted"]
             c == [at |-> "booked"]
  <1>1. PICK t \in open : /\ t.who = <<"confirm", r>> /\ commits(t)
                          /\ bookings' = bookings \cup {r}
                          /\ holds' = [holds EXCEPT ![g].state = "converted"]
                          /\ confirms' = [confirms EXCEPT ![r] = c]
                          /\ derive' = derive + 1 /\ calm' \in BOOLEAN /\ UNCHANGED intents
    BY DEF Books, opened
  <1>2. /\ g \in Guests /\ holds[g] \in Hold(Keys[g]) /\ holds[g].state # None
        /\ Charged(holds, intents, g)
    BY <1>1, RequestsOfGuests DEF DirectInv, DirectTyped, OpenFollows
  <1>3. /\ row \in Hold(Keys[g]) /\ row.state = "converted" /\ row.owes = holds[g].owes
        /\ holds' = [holds EXCEPT ![g] = row]
        /\ c \in Request(Keys[g]) /\ c.at = "booked"
    BY <1>1, <1>2 DEF Hold, Request
  <1> HIDE DEF row, c
  <1>4. /\ DOMAIN holds' = Guests /\ \A h \in Guests : holds'[h] \in Hold(Keys[h])
        /\ IsFiniteSet(activeIn(holds'))
        /\ holds'[g] = row /\ \A h \in Guests \ {g} : holds'[h] = holds[h]
    BY <1>2, <1>3, RowChanges DEF DirectInv
  <1>5. /\ open' \subseteq Txn(DOMAIN confirms) /\ cell' \in 0..Rooms
        /\ OpenOnce' /\ OpenFollows(open', holds, intents)
    BY <1>1, CommitKeeps
  <1>6. Onward(holds, intents, holds', intents)
    BY <1>2, <1>3, <1>4 DEF Onward, Charged, None
  <1>7. /\ OpenFollows(open', holds', intents) /\ RequestFollows(confirms, holds', intents)
        /\ BookingFollows(bookings, holds', intents)
    BY <1>5, <1>6, OnwardFollows DEF DirectInv, DirectTyped
  <1>8. /\ DOMAIN confirms' = DOMAIN confirms /\ confirms'[r] = c
        /\ \A q \in DOMAIN confirms \ {r} : confirms'[q] = confirms[q]
    BY <1>1
  <1>9. RequestFollows(confirms', holds', intents)
    BY <1>2, <1>3, <1>4, <1>7, <1>8 DEF RequestFollows, Charged, None
  <1>10. BookingFollows(bookings', holds', intents)
    BY <1>1, <1>2, <1>3, <1>4, <1>7 DEF BookingFollows, Charged
  <1>11. \A q \in DOMAIN confirms : confirms'[q] \in Request(Keys[guestOf(q)])
    BY <1>3, <1>8 DEF DirectInv, DirectTyped
  <1>12. IsFiniteSet(bookings') /\ bookings' \subseteq DOMAIN confirms
    BY <1>1, FS_AddElement DEF DirectInv, DirectTyped
  <1> HIDE DEF g
  <1>13. DirectTyped'
    BY <1>1, <1>4, <1>5, <1>8, <1>11, <1>12
       DEF DirectInv, DirectTyped, Txn, activeIn, Hold, Request
  <1> QED
    BY <1>1, <1>5, <1>7, <1>8, <1>9, <1>10, <1>13
       DEF DirectInv, OpenFollows, RequestFollows, BookingFollows, Charged

\* A cancellation, and the availability derived from the bookings.
LEMMA DerivesKeepInv ==
  ASSUME DirectInv, (\E r \in DOMAIN confirms : Cancels(r)) \/ Derives
  PROVE  DirectInv'
  <1>1. /\ bookings' \subseteq bookings /\ open' = overtaken(open)
        /\ derive' \in Nat /\ calm' \in BOOLEAN /\ UNCHANGED <<holds, intents, confirms>>
    <2>1. derive \in Nat /\ calm \in BOOLEAN
      BY DEF DirectInv, DirectTyped
    <2>2. ASSUME NEW r \in DOMAIN confirms, Cancels(r)
          PROVE  /\ bookings' = bookings \ {r} /\ open' = overtaken(open)
                 /\ derive' = derive + 1 /\ calm' = calm
                 /\ UNCHANGED <<holds, intents, confirms>>
      BY <2>2 DEF Cancels, payment
    <2>3. CASE Derives
      <3>1. derive \in Nat /\ derive > 0 /\ derive' = derive - 1
        BY <2>1, <2>3 DEF Derives
      <3>2. calm' \in BOOLEAN
        BY <2>3 DEF Derives
      <3> QED
        BY <2>3, <3>1, <3>2 DEF Derives, payment
    <2> QED
      BY <2>1, <2>2, <2>3
  <1>2. IsFiniteSet(bookings') /\ IsFiniteSet(active) /\ IsFiniteSet({})
    BY <1>1, FS_Subset, FS_EmptySet DEF DirectInv, DirectTyped, active, activeIn
  <1>3. cell' \in 0..Rooms
    <2>1. ASSUME NEW r \in DOMAIN confirms, Cancels(r) PROVE cell' \in 0..Rooms
      <3>1. bookings' = bookings \ {r} /\ cell' = available(bookings', active)
        BY <2>1 DEF Cancels
      <3> QED
        BY <1>2, <3>1, AvailableTyped
    <2>2. CASE Derives
      <3>1. bookings' = bookings /\ cell' = available(bookings, {})
        BY <2>2 DEF Derives
      <3> QED
        BY <1>2, <3>1, AvailableTyped
    <2> QED
      BY <2>1, <2>2
  <1>4. /\ open' \subseteq Txn(DOMAIN confirms)
        /\ \A u \in open' : \E v \in open : u.who = v.who
    <2>1. open \in SUBSET open /\ DirectTyped
      BY DEF DirectInv
    <2>2. NoneNew(overtaken(open), open)
      BY <2>1, OvertakenWere
    <2> QED
      BY <1>1, <2>2 DEF NoneNew
  <1>5. OpenOnce'
    <2>1. \A t, u \in overtaken(open) : t.who = u.who => t = u
      BY OvertakenOnce DEF DirectInv
    <2> QED
      BY <1>1, <2>1 DEF OpenOnce
  <1>6. OpenFollows(open', holds, intents)
    BY <1>4 DEF DirectInv, OpenFollows
  <1>7. BookingFollows(bookings', holds, intents)
    BY <1>1 DEF DirectInv, BookingFollows
  <1>8. DirectTyped'
    BY <1>1, <1>2, <1>3, <1>4 DEF DirectInv, DirectTyped, Txn, activeIn, Request, Hold
  <1> QED
    BY <1>1, <1>5, <1>6, <1>7, <1>8
       DEF DirectInv, OpenFollows, RequestFollows, BookingFollows, Charged

LEMMA DirectInitInv == DirectInit => DirectInv
  <1> SUFFICES ASSUME DirectInit PROVE DirectInv
    OBVIOUS
  <1>1. PICK cast \in Casts : confirms = [r \in cast |-> [at |-> "idle"]]
    BY DEF DirectInit
  <1>2. activeIn(holds) = {}
    BY DEF DirectInit, activeIn, None
  <1>3. Rooms \in 0..Rooms
    BY RoomsPositive
  <1>4. DirectTyped
    BY <1>1, <1>2, <1>3, FS_EmptySet DEF DirectInit, DirectTyped, Hold, Request, Statuses, Txn
  <1> QED
    BY <1>1, <1>4 DEF DirectInit, DirectInv, OpenOnce, OpenFollows, RequestFollows, BookingFollows

\* Every step of the guests, the sweep and the consumer keeps the invariant.
LEMMA DirectStepInv == DirectInv /\ [DirectNext]_directVars => DirectInv'
  <1> SUFFICES ASSUME DirectInv, [DirectNext]_directVars PROVE DirectInv'
    OBVIOUS
  <1>1. ASSUME NEW g \in Guests, HoldStep(g) PROVE DirectInv'
    BY <1>1, OpeningsKeepInv, PlacesKeepsInv, RowStepKeepsInv DEF HoldStep
  <1>2. ASSUME NEW r \in DOMAIN confirms, ConfirmStep(r) PROVE DirectInv'
    BY <1>2, ClaimsKeepsInv, PaysNothingKeepsInv, PaysKeepsInv, OpeningsKeepInv, ThrowsKeepsInv, BooksKeepsInv,
       DerivesKeepInv DEF ConfirmStep
  <1>3. CASE Sweep \/ Derives
    BY <1>3, OpeningsKeepInv, ReleasesKeepsInv, DerivesKeepInv DEF Sweep
  <1>4. CASE UNCHANGED directVars
    BY <1>4 DEF directVars, payment, DirectInv, DirectTyped, OpenOnce, OpenFollows,
                RequestFollows, BookingFollows, Charged, activeIn, Txn, Request, Hold
  <1> QED
    BY <1>1, <1>2, <1>3, <1>4 DEF DirectNext

\* The invariant holds throughout.
LEMMA DirectInvariant == DirectSpec => []DirectInv
  BY DirectInitInv, DirectStepInv, PTL DEF DirectSpec

\* Holds, requests, payments and transactions have the types they are meant to have.
THEOREM DirectTypeCorrect == DirectSpec => []DirectTypeOK
  <1>1. DirectInv => DirectTypeOK
    <2> SUFFICES ASSUME DirectInv PROVE DirectTypeOK
      OBVIOUS
    <2>1. \A r \in DOMAIN confirms : confirms[r].at \in {"idle", "paying", "paid", "booked"}
      BY DEF DirectInv, DirectTyped, Request
    <2>2. \A t \in open : t.draft \in 0..Rooms
      BY DEF DirectInv, DirectTyped, Txn
    <2> QED
      BY <2>1, <2>2 DEF DirectInv, DirectTyped, DirectTypeOK, Statuses
  <1> QED
    BY <1>1, DirectInvariant, PTL

\* A booking that wanted a payment now has been paid for, and the hold of every booking
\* stays converted, whichever of the requests and keys paid and whatever the sweep had
\* selected before.
THEOREM BookingsAreCharged == DirectSpec => []BookedIsCharged
  <1>1. DirectInv => BookedIsCharged
    BY DEF DirectInv, BookingFollows, Charged, BookedIsCharged
  <1> QED
    BY <1>1, DirectInvariant, PTL

-----------------------------------------------------------------------------
(* Direct bookings: rooms *)

\* So many rooms may still be offered beside the bookings and the active holds.
Fits(B, A, n) == n = 0 \/ Cardinality(B) + Cardinality(A) + n <= Rooms

\* What an open transaction that nothing overtook drafted still fits what it will leave;
\* and a hold is placed only where a room was offered.
Sound(t, B, A, offered) ==
  /\ \A g \in Guests : t.who = <<"hold", {g}>> => offered >= 1 /\ Fits(B, A \cup {g}, t.draft)
  /\ t.who[1] = "sweep" => Fits(B, A, t.draft)
  /\ \A r \in DOMAIN confirms :
       t.who = <<"confirm", r>> => Fits(B \cup {r}, A \ {guestOf(r)}, t.draft)

\* In the calm, the rooms booked, held and offered are no more than there are.
Balanced(B, A, offered) == Cardinality(B) + Cardinality(A) + offered <= Rooms

RoomInv == calm => /\ Balanced(bookings, activeIn(holds), cell)
                   /\ \A t \in open : t.clean => Sound(t, bookings, activeIn(holds), cell)

\* Sizes of sets that lose and gain one element.
LEMMA OneMore ==
  ASSUME NEW S, NEW x, IsFiniteSet(S)
  PROVE  /\ IsFiniteSet(S \cup {x}) /\ Cardinality(S) \in Nat
         /\ Cardinality(S \cup {x}) \in Nat /\ Cardinality(S \cup {x}) <= Cardinality(S) + 1
  BY FS_AddElement, FS_CardinalityType

LEMMA OneLess ==
  ASSUME NEW S, NEW x, IsFiniteSet(S)
  PROVE  /\ IsFiniteSet(S \ {x}) /\ Cardinality(S \ {x}) \in Nat
         /\ Cardinality(S \ {x}) <= Cardinality(S)
         /\ x \in S => Cardinality(S \ {x}) <= Cardinality(S) - 1
  <1> DEFINE less == S \ {x}
  <1>1. /\ IsFiniteSet(less)
        /\ Cardinality(less) = IF x \in S THEN Cardinality(S) - 1 ELSE Cardinality(S)
    BY FS_RemoveElement
  <1> HIDE DEF less
  <1>2. Cardinality(less) \in Nat /\ Cardinality(S) \in Nat
    BY <1>1, FS_CardinalityType
  <1>3. /\ Cardinality(less) <= Cardinality(S)
        /\ x \in S => Cardinality(less) <= Cardinality(S) - 1
    BY <1>1, <1>2
  <1> QED
    BY <1>1, <1>2, <1>3 DEF less

\* What fits beside more fits beside fewer.
LEMMA FewerFits ==
  ASSUME NEW B, NEW A, NEW A2, NEW n \in Nat, IsFiniteSet(B), IsFiniteSet(A), A2 \subseteq A,
         Fits(B, A, n)
  PROVE  Fits(B, A2, n)
  <1>1. Cardinality(A2) <= Cardinality(A) /\ IsFiniteSet(A2)
    BY FS_Subset
  <1>2. Cardinality(A2) \in Nat /\ Cardinality(A) \in Nat /\ Cardinality(B) \in Nat
    BY <1>1, FS_CardinalityType
  <1> QED
    BY <1>1, <1>2, RoomsPositive DEF Fits

LEMMA FewerBalances ==
  ASSUME NEW B, NEW A, NEW A2, NEW n \in Nat, IsFiniteSet(B), IsFiniteSet(A), A2 \subseteq A,
         Balanced(B, A, n)
  PROVE  Balanced(B, A2, n)
  <1>1. Cardinality(A2) <= Cardinality(A) /\ IsFiniteSet(A2)
    BY FS_Subset
  <1>2. Cardinality(A2) \in Nat /\ Cardinality(A) \in Nat /\ Cardinality(B) \in Nat
    BY <1>1, FS_CardinalityType
  <1> QED
    BY <1>1, <1>2, RoomsPositive DEF Balanced

\* What an open transaction drafted stays sound when holds fall due.
LEMMA FewerSound ==
  ASSUME NEW B, NEW A, NEW A2, NEW n, NEW t, t.draft \in Nat,
         IsFiniteSet(B), IsFiniteSet(A), A2 \subseteq A, Sound(t, B, A, n)
  PROVE  Sound(t, B, A2, n)
  <1>1. ASSUME NEW g \in Guests, t.who = <<"hold", {g}>>
        PROVE  n >= 1 /\ Fits(B, A2 \cup {g}, t.draft)
    <2> DEFINE more == A \cup {g}
               fewer == A2 \cup {g}
    <2>1. IsFiniteSet(more) /\ fewer \subseteq more /\ n >= 1 /\ Fits(B, more, t.draft)
      BY <1>1, OneMore DEF Sound
    <2> HIDE DEF more, fewer
    <2>2. Fits(B, fewer, t.draft)
      BY <2>1, FewerFits
    <2> QED
      BY <2>1, <2>2 DEF fewer
  <1>2. t.who[1] = "sweep" => Fits(B, A2, t.draft)
    BY FewerFits DEF Sound
  <1>3. ASSUME NEW r \in DOMAIN confirms, t.who = <<"confirm", r>>
        PROVE  Fits(B \cup {r}, A2 \ {guestOf(r)}, t.draft)
    <2> DEFINE all == B \cup {r}
               more == A \ {guestOf(r)}
               fewer == A2 \ {guestOf(r)}
    <2>1. /\ IsFiniteSet(all) /\ IsFiniteSet(more) /\ fewer \subseteq more
          /\ Fits(all, more, t.draft)
      BY <1>3, OneMore, OneLess DEF Sound
    <2> HIDE DEF all, more, fewer
    <2>2. Fits(all, fewer, t.draft)
      BY <2>1, FewerFits
    <2> QED
      BY <2>2 DEF all, fewer
  <1> QED
    BY <1>1, <1>2, <1>3 DEF Sound

\* When nothing is written to the cell, the holds that fell due take nothing away.
LEMMA QuietKeepsRooms ==
  ASSUME DirectInv, RoomInv, UNCHANGED <<bookings, cell, open, calm>>,
         DOMAIN confirms' = DOMAIN confirms, activeIn(holds') \subseteq activeIn(holds)
  PROVE  RoomInv'
  <1> SUFFICES ASSUME calm
               PROVE  /\ Balanced(bookings, activeIn(holds'), cell)
                      /\ \A t \in open : t.clean => Sound(t, bookings, activeIn(holds'), cell)
    BY DEF RoomInv, Balanced, Sound, Fits, activeIn
  <1>1. /\ IsFiniteSet(bookings) /\ IsFiniteSet(activeIn(holds)) /\ cell \in Nat
        /\ \A t \in open : t.draft \in Nat
    BY RoomsPositive DEF DirectInv, DirectTyped, Txn
  <1>2. Balanced(bookings, activeIn(holds'), cell)
    BY <1>1, FewerBalances DEF RoomInv
  <1>3. ASSUME NEW t \in open, t.clean PROVE Sound(t, bookings, activeIn(holds'), cell)
    BY <1>1, <1>3, FewerSound DEF RoomInv
  <1> QED
    BY <1>2, <1>3

\* A transaction that reads drafts what will fit.
LEMMA OpeningsKeepRooms ==
  ASSUME DirectInv, RoomInv,
         \/ \E g \in Guests : SeeksHold(g)
         \/ SweepSelects
         \/ \E r \in DOMAIN confirms : Finalizes(r)
  PROVE  RoomInv'
  <1>1. /\ IsFiniteSet(bookings) /\ IsFiniteSet(active) /\ active = activeIn(holds)
    BY DEF DirectInv, DirectTyped, activeIn, active
  <1>2. ASSUME NEW t, open' = open \cup {t}, Sound(t, bookings, activeIn(holds), cell),
               UNCHANGED <<holds, cell, bookings, calm, confirms>>
        PROVE  RoomInv'
    <2> SUFFICES ASSUME calm PROVE RoomInv'
      BY <1>2 DEF RoomInv
    <2> DEFINE A == activeIn(holds)
    <2>1. activeIn(holds)' = A
      BY <1>2 DEF activeIn
    <2>2. Balanced(bookings, A, cell) /\ \A u \in open : u.clean => Sound(u, bookings, A, cell)
      BY DEF RoomInv
    <2>3. Sound(t, bookings, A, cell)
      BY <1>2
    <2> HIDE DEF A
    <2>4. \A u \in open' : u.clean => Sound(u, bookings, A, cell)
      BY <1>2, <2>2, <2>3
    <2>5. ASSUME NEW u PROVE Sound(u, bookings, activeIn(holds), cell)' <=> Sound(u, bookings, A, cell)
      BY <1>2, <2>1 DEF Sound
    <2>6. Balanced(bookings, activeIn(holds), cell)'
      BY <1>2, <2>1, <2>2 DEF Balanced
    <2>7. \A u \in open' : u.clean => Sound(u, bookings, activeIn(holds), cell)'
      BY <2>4, <2>5
    <2> QED
      BY <2>6, <2>7 DEF RoomInv
  <1>3. ASSUME NEW g \in Guests, SeeksHold(g) PROVE RoomInv'
    <2> DEFINE H == active \cup {g}
               t == [who |-> <<"hold", {g}>>, draft |-> available(bookings, H), clean |-> TRUE]
    <2>1. /\ open' = open \cup {t} /\ cell >= 1
          /\ UNCHANGED <<holds, cell, bookings, calm, confirms>>
      BY <1>3 DEF SeeksHold, reads, payment
    <2>2. Fits(bookings, H, t.draft)
      <3>1. IsFiniteSet(H)
        BY <1>1, OneMore
      <3> HIDE DEF H
      <3> QED
        BY <1>1, <3>1, AvailableTyped DEF Fits
    <2>3. /\ t.who[1] # "sweep" /\ \A h \in Guests : t.who = <<"hold", {h}>> => h = g
          /\ \A r \in DOMAIN confirms : t.who # <<"confirm", r>>
      OBVIOUS
    <2>4. Sound(t, bookings, activeIn(holds), cell)
      <3> HIDE DEF t
      <3> QED
        BY <1>1, <2>1, <2>2, <2>3 DEF Sound
    <2> HIDE DEF t, H
    <2> QED
      BY <1>2, <2>1, <2>4
  <1>4. CASE SweepSelects
    <2> DEFINE t == [who |-> <<"sweep", expiredHolds>>, draft |-> available(bookings, active),
                     clean |-> TRUE]
    <2>1. open' = open \cup {t} /\ UNCHANGED <<holds, cell, bookings, calm, confirms>>
      BY <1>4 DEF SweepSelects, reads, payment
    <2>2. Fits(bookings, active, t.draft)
      BY <1>1, AvailableTyped DEF Fits
    <2>3. /\ \A h \in Guests : t.who # <<"hold", {h}>>
          /\ \A r \in DOMAIN confirms : t.who # <<"confirm", r>>
      OBVIOUS
    <2>4. Sound(t, bookings, activeIn(holds), cell)
      <3> HIDE DEF t
      <3> QED
        BY <1>1, <2>2, <2>3 DEF Sound
    <2> HIDE DEF t
    <2> QED
      BY <1>2, <2>1, <2>4
  <1>5. ASSUME NEW r \in DOMAIN confirms, Finalizes(r) PROVE RoomInv'
    <2> DEFINE B == bookings \cup {r}
               H == active \ {guestOf(r)}
               t == [who |-> <<"confirm", r>>, draft |-> available(B, H), clean |-> TRUE]
    <2>1. open' = open \cup {t} /\ UNCHANGED <<holds, cell, bookings, calm, confirms>>
      BY <1>5 DEF Finalizes, reads, payment
    <2>2. Fits(B, H, t.draft)
      <3>1. IsFiniteSet(B) /\ IsFiniteSet(H)
        BY <1>1, OneMore, OneLess
      <3> HIDE DEF B, H
      <3> QED
        BY <3>1, AvailableTyped DEF Fits
    <2>3. /\ t.who[1] # "sweep" /\ \A h \in Guests : t.who # <<"hold", {h}>>
          /\ \A q \in DOMAIN confirms : t.who = <<"confirm", q>> => q = r
      OBVIOUS
    <2>4. Sound(t, bookings, activeIn(holds), cell)
      <3> HIDE DEF t
      <3> QED
        BY <1>1, <2>2, <2>3 DEF Sound
    <2> HIDE DEF t, B, H
    <2> QED
      BY <1>2, <2>1, <2>4
  <1> QED
    BY <1>3, <1>4, <1>5

\* After a commit none of the open transactions is clean, and only the sum matters.
LEMMA CommitBalances ==
  ASSUME DirectInv, NEW T \in SUBSET open, open' = overtaken(T),
         calm' => Balanced(bookings', activeIn(holds'), cell')
  PROVE  RoomInv'
  <1>1. \A u \in open' : u.clean = FALSE
    BY OvertakenOpen DEF DirectInv
  <1> QED
    BY <1>1 DEF RoomInv, Balanced, activeIn

\* A hold is placed where a room was offered and still is.
LEMMA PlacesKeepsRooms ==
  ASSUME DirectInv, RoomInv, NEW g \in Guests, PlacesHold(g)
  PROVE  RoomInv'
  <1>1. PICK t \in open, owes \in BOOLEAN :
                          /\ t.who = <<"hold", {g}>> /\ cell' = t.draft
                          /\ open' = overtaken(open \ {t})
                          /\ holds' = [holds EXCEPT ![g].state = "held", ![g].owes = owes]
                          /\ calm' = (calm /\ t.clean) /\ bookings' = bookings
    BY DEF PlacesHold, opened, commits
  <1> DEFINE A == activeIn(holds)
             more == A \cup {g}
             A2 == activeIn(holds')
             B == bookings
  <1>2. IsFiniteSet(B) /\ IsFiniteSet(A) /\ cell \in Nat /\ t.draft \in Nat
    BY RoomsPositive DEF DirectInv, DirectTyped, Txn
  <1>3. A2 \subseteq more
    BY <1>1 DEF DirectInv, DirectTyped, activeIn
  <1>4. ASSUME calm' PROVE Balanced(bookings', activeIn(holds'), cell')
    <2>1. Balanced(B, A, cell) /\ cell >= 1 /\ Fits(B, more, t.draft)
      BY <1>1, <1>4 DEF RoomInv, Sound
    <2>2. /\ IsFiniteSet(more) /\ Cardinality(more) \in Nat /\ Cardinality(A) \in Nat
          /\ Cardinality(more) <= Cardinality(A) + 1
      BY <1>2, OneMore
    <2>3. Cardinality(B) \in Nat
      BY <1>2, FS_CardinalityType
    <2> HIDE DEF A, more, A2, B
    <2>4. Balanced(B, more, t.draft)
      BY <1>2, <2>1, <2>2, <2>3, RoomsPositive DEF Balanced, Fits
    <2>5. Balanced(B, A2, t.draft)
      BY <1>2, <1>3, <2>2, <2>4, FewerBalances
    <2> QED
      BY <1>1, <2>5 DEF A2, B
  <1> HIDE DEF A, more, A2, B
  <1> DEFINE rest == open \ {t}
  <1>5. rest \in SUBSET open /\ open' = overtaken(rest)
    BY <1>1
  <1> HIDE DEF rest
  <1> QED
    BY <1>4, <1>5, CommitBalances

\* What the sweep releases no longer counted.
LEMMA ReleasesKeepsRooms ==
  ASSUME DirectInv, RoomInv, SweepReleases
  PROVE  RoomInv'
  <1>1. PICK t \in open : /\ t.who[1] = "sweep" /\ cell' = t.draft
                          /\ open' = overtaken(open \ {t})
                          /\ holds' = releaseHold(t.who[2])
                          /\ calm' = (calm /\ t.clean) /\ bookings' = bookings
    BY DEF SweepReleases, commits
  <1> DEFINE A == activeIn(holds)
             A2 == activeIn(holds')
             B == bookings
  <1>2. IsFiniteSet(B) /\ IsFiniteSet(A) /\ cell \in Nat /\ t.draft \in Nat
    BY RoomsPositive DEF DirectInv, DirectTyped, Txn
  <1>3. A2 \subseteq A
    BY <1>1, ReleasedRows DEF DirectInv
  <1>4. ASSUME calm' PROVE Balanced(bookings', activeIn(holds'), cell')
    <2>1. Balanced(B, A, cell) /\ Fits(B, A, t.draft)
      BY <1>1, <1>4 DEF RoomInv, Sound
    <2>2. Cardinality(B) \in Nat /\ Cardinality(A) \in Nat
      BY <1>2, FS_CardinalityType
    <2> HIDE DEF A, A2, B
    <2>3. Balanced(B, A, t.draft)
      BY <1>2, <2>1, <2>2, RoomsPositive DEF Balanced, Fits
    <2>4. Balanced(B, A2, t.draft)
      BY <1>2, <1>3, <2>3, FewerBalances
    <2> QED
      BY <1>1, <2>4 DEF A2, B
  <1> HIDE DEF A, A2, B
  <1> DEFINE rest == open \ {t}
  <1>5. rest \in SUBSET open /\ open' = overtaken(rest)
    BY <1>1
  <1> HIDE DEF rest
  <1> QED
    BY <1>4, <1>5, CommitBalances

\* A booking takes its hold's room, or one that is still offered.
LEMMA BooksKeepsRooms ==
  ASSUME DirectInv, RoomInv, NEW r \in DOMAIN confirms, Books(r)
  PROVE  RoomInv'
  <1> DEFINE g == guestOf(r)
             A == activeIn(holds)
             less == A \ {g}
             A2 == activeIn(holds')
             B == bookings
             all == B \cup {r}
  <1>1. PICK t \in open : /\ t.who = <<"confirm", r>> /\ cell' = t.draft
                          /\ open' = overtaken(open \ {t})
                          /\ holds' = [holds EXCEPT ![g].state = "converted"]
                          /\ bookings' = all
                          /\ calm' => calm /\ t.clean /\ (cell >= 1 \/ g \in A)
    BY DEF Books, opened, commits, active, activeIn
  <1>2. /\ IsFiniteSet(B) /\ IsFiniteSet(A) /\ cell \in Nat /\ t.draft \in Nat
        /\ g \in Guests /\ DOMAIN holds = Guests /\ holds[g] \in Hold(Keys[g])
    BY RequestsOfGuests, RoomsPositive DEF DirectInv, DirectTyped, Txn
  <1>3. A2 \subseteq less
    BY <1>1, <1>2 DEF activeIn, Hold
  <1>4. ASSUME calm' PROVE Balanced(bookings', activeIn(holds'), cell')
    <2>1. /\ Balanced(B, A, cell) /\ Fits(all, less, t.draft)
          /\ cell >= 1 \/ g \in A
      BY <1>1, <1>4 DEF RoomInv, Sound
    <2>2. /\ IsFiniteSet(all) /\ Cardinality(all) \in Nat /\ Cardinality(B) \in Nat
          /\ Cardinality(all) <= Cardinality(B) + 1
      BY <1>2, OneMore
    <2>3. /\ IsFiniteSet(less) /\ Cardinality(less) \in Nat
          /\ Cardinality(less) <= Cardinality(A)
          /\ g \in A => Cardinality(less) <= Cardinality(A) - 1
      BY <1>2, OneLess
    <2>4. Cardinality(A) \in Nat
      BY <1>2, FS_CardinalityType
    <2> HIDE DEF A, less, A2, B, all, g
    <2>5. Balanced(all, less, t.draft)
      BY <1>2, <2>1, <2>2, <2>3, <2>4, RoomsPositive DEF Balanced, Fits
    <2>6. Balanced(all, A2, t.draft)
      BY <1>2, <1>3, <2>2, <2>3, <2>5, FewerBalances
    <2> QED
      BY <1>1, <2>6 DEF A2
  <1> HIDE DEF A, less, A2, B, all, g
  <1> DEFINE rest == open \ {t}
  <1>5. rest \in SUBSET open /\ open' = overtaken(rest)
    BY <1>1
  <1> HIDE DEF rest
  <1> QED
    BY <1>4, <1>5, CommitBalances

\* A cancellation frees a room; what is derived from the bookings alone is right only
\* where there is no hold.
LEMMA DerivesKeepRooms ==
  ASSUME DirectInv, RoomInv, (\E r \in DOMAIN confirms : Cancels(r)) \/ Derives
  PROVE  RoomInv'
  <1>1. /\ IsFiniteSet(bookings) /\ IsFiniteSet(active) /\ active = activeIn(holds)
        /\ Cardinality(bookings) \in Nat /\ Cardinality(active) \in Nat /\ cell \in Nat
    BY FS_CardinalityType, RoomsPositive DEF DirectInv, DirectTyped, active, activeIn
  <1>2. open' = overtaken(open) /\ holds' = holds /\ open \in SUBSET open
    BY DEF Cancels, Derives
  <1>3. ASSUME NEW r \in DOMAIN confirms, Cancels(r), calm'
        PROVE  Balanced(bookings', activeIn(holds'), cell')
    <2> DEFINE less == bookings \ {r}
    <2>1. bookings' = less /\ cell' = available(less, active) /\ calm
      BY <1>3 DEF Cancels
    <2>2. /\ IsFiniteSet(less) /\ Cardinality(less) \in Nat
          /\ Cardinality(less) <= Cardinality(bookings)
      BY <1>1, OneLess
    <2> HIDE DEF less
    <2>3. Cardinality(bookings) + Cardinality(active) + cell <= Rooms
      BY <1>1, <2>1 DEF RoomInv, Balanced
    <2>4. Cardinality(less) + Cardinality(active) <= Rooms
      BY <1>1, <2>2, <2>3, RoomsPositive
    <2>5. Balanced(less, active, available(less, active))
      BY <1>1, <2>2, <2>4, AvailableTyped DEF Balanced
    <2> QED
      BY <1>1, <1>2, <2>1, <2>5
  <1>4. ASSUME Derives, calm' PROVE Balanced(bookings', activeIn(holds'), cell')
    <2>1. calm /\ active = {} /\ bookings' = bookings /\ cell' = available(bookings, {})
      BY <1>4 DEF Derives
    <2>2. Cardinality(bookings) + Cardinality(active) + cell <= Rooms
      BY <1>1, <2>1 DEF RoomInv, Balanced
    <2>3. Cardinality(bookings) + Cardinality(active) <= Rooms
      BY <1>1, <2>2, RoomsPositive
    <2>4. Balanced(bookings, active, available(bookings, active))
      BY <1>1, <2>3, AvailableTyped DEF Balanced
    <2> QED
      BY <1>1, <1>2, <2>1, <2>4
  <1> QED
    BY <1>2, <1>3, <1>4, CommitBalances

LEMMA RoomsInvariant == DirectSpec => []RoomInv
  <1>1. DirectInit => RoomInv
    <2> SUFFICES ASSUME DirectInit PROVE RoomInv
      OBVIOUS
    <2>1. activeIn(holds) = {} /\ bookings = {} /\ open = {} /\ cell = Rooms
      BY DEF DirectInit, activeIn, None
    <2>2. Cardinality({}) = 0
      BY FS_EmptySet
    <2> QED
      BY <2>1, <2>2, RoomsPositive DEF RoomInv, Balanced
  <1>2. DirectInv /\ RoomInv /\ [DirectNext]_directVars => RoomInv'
    <2> SUFFICES ASSUME DirectInv, RoomInv, [DirectNext]_directVars PROVE RoomInv'
      OBVIOUS
    <2>1. ASSUME NEW g \in Guests, HoldFallsDue(g) \/ saveHoldGuest(g) PROVE RoomInv'
      <3>1. holds[g] \in Hold(Keys[g]) /\ DOMAIN holds = Guests
        BY DEF DirectInv, DirectTyped
      <3>2. activeIn(holds') \subseteq activeIn(holds)
        BY <2>1, <3>1 DEF HoldFallsDue, saveHoldGuest, activeIn, Hold
      <3> QED
        BY <2>1, <3>2, QuietKeepsRooms DEF HoldFallsDue, saveHoldGuest, payment
    <2>2. ASSUME NEW g \in Guests, HoldStep(g) PROVE RoomInv'
      BY <2>1, <2>2, OpeningsKeepRooms, PlacesKeepsRooms DEF HoldStep
    <2>3. ASSUME NEW r \in DOMAIN confirms, NEW key, Claims(r, key) PROVE RoomInv'
      BY <2>3, QuietKeepsRooms DEF Claims
    <2>4. ASSUME NEW r \in DOMAIN confirms, FinalizeThrows(r) \/ PaysNothing(r) PROVE RoomInv'
      BY <2>4, QuietKeepsRooms DEF FinalizeThrows, PaysNothing
    <2>5. ASSUME NEW r \in DOMAIN confirms, Pays(r) PROVE RoomInv'
      <3>1. /\ holds[guestOf(r)] \in Hold(Keys[guestOf(r)]) /\ DOMAIN holds = Guests
            /\ guestOf(r) \in Guests
        BY RequestsOfGuests DEF DirectInv, DirectTyped
      <3>2. activeIn(holds') \subseteq activeIn(holds)
        BY <2>5, <3>1 DEF Pays, activeIn, Hold
      <3>3. /\ UNCHANGED <<bookings, cell, open, calm>>
            /\ DOMAIN confirms' = DOMAIN confirms
        BY <2>5 DEF Pays
      <3> QED
        BY <3>2, <3>3, QuietKeepsRooms
    <2>6. ASSUME NEW r \in DOMAIN confirms, ConfirmStep(r) PROVE RoomInv'
      BY <2>3, <2>4, <2>5, <2>6, OpeningsKeepRooms, BooksKeepsRooms, DerivesKeepRooms
         DEF ConfirmStep
    <2>7. CASE Sweep \/ Derives
      BY <2>7, OpeningsKeepRooms, ReleasesKeepsRooms, DerivesKeepRooms DEF Sweep
    <2>8. CASE UNCHANGED directVars
      BY <2>8, QuietKeepsRooms DEF directVars, payment
    <2> QED
      BY <2>2, <2>6, <2>7, <2>8 DEF DirectNext
  <1> QED
    BY <1>1, <1>2, DirectInvariant, PTL DEF DirectSpec

\* The rooms held and booked are never more than there are, for any number of guests,
\* rooms and tabs, until one of the four races happens.
THEOREM RoomsAreSoldOnce == DirectSpec => []NoRoomSoldTwice
  <1>1. DirectInv /\ RoomInv => NoRoomSoldTwice
    <2> SUFFICES ASSUME DirectInv, RoomInv, calm
                 PROVE  Cardinality(bookings) + Cardinality(active) <= Rooms
      BY DEF NoRoomSoldTwice
    <2>1. /\ Cardinality(bookings) \in Nat /\ Cardinality(active) \in Nat /\ cell \in Nat
          /\ active = activeIn(holds)
      BY FS_CardinalityType, RoomsPositive DEF DirectInv, DirectTyped, active, activeIn
    <2>2. Cardinality(bookings) + Cardinality(active) + cell <= Rooms
      BY <2>1 DEF RoomInv, Balanced
    <2> QED
      BY <2>1, <2>2, RoomsPositive
  <1> QED
    BY <1>1, DirectInvariant, RoomsInvariant, PTL

-----------------------------------------------------------------------------
(* Operations: the invariant *)

Status == {"none", "new", "modified", "cancelled"}

Code == [stay : Stays, dates : StayDates, by : {"engine", "desk", "inv14"},
         root : {"engine", "desk"}]

Event == [n : Nat, stay : SUBSET Stays, status : Status \cup {""}, moved : BOOLEAN,
          to : StayDates \cup {NoDates}]

Transaction ==
  [at : {"rest", "tasks", "codes", "replan", "reissue", "move", "issue"}, event : Event,
   plan : SUBSET TaskKeys, create : SUBSET TaskKeys, cancel : SUBSET TaskKeys,
   active : SUBSET Code, dates : StayDates \cup {NoDates}, key : SUBSET TaskKeys,
   to : TaskStates]

Workers == Consumers \cup {Console}

OpsTyped ==
  /\ stays \in [Stays -> [status : Status, dates : StayDates \cup {NoDates}]]
  /\ \A s \in Stays : stays[s].status # "none" => stays[s].dates \in StayDates
  /\ owed \subseteq Event /\ tasks \in [TaskKeys -> TaskStates] /\ credentials \subseteq Code
  /\ work \in [Workers -> Transaction] /\ overlapped \subseteq Stays
  /\ stayChanges \in 0..MaxStayChanges /\ consoleRuns \in 0..MaxConsole

\* Events are numbered; the console's transaction has none, and a consumer's is a replan.
EventsNumbered ==
  /\ \A e \in owed : e.n >= 1 /\ e.n <= stayChanges
  /\ \A p \in Workers : work[p].event.n <= stayChanges
  /\ work[Console].event = NoEvent
  /\ \A w \in Consumers : /\ work[w].at \in {"rest", "tasks", "codes", "replan", "reissue"}
                          /\ work[w].at # "rest" => work[w].event.n >= 1
                          /\ work[w].at \notin {"replan", "reissue"} => work[w].active = {}
                          /\ work[w].at = "reissue" => work[w].dates \in StayDates
                          /\ \A c \in work[w].active : c.stay \in work[w].event.stay

\* Codes, and those a transaction has read, are of stays there are.
CodesKnown(row) ==
  /\ \A c \in credentials : row[c.stay].status # "none"
  /\ \A p \in Workers : \A c \in work[p].active : row[c.stay].status # "none"

\* An event is a stay's.
ofStay(e, row) == \E s \in Stays : e.stay = {s} /\ row[s].status # "none"

EventsKnown(row) ==
  /\ \A e \in owed : ofStay(e, row)
  /\ \A w \in Consumers : work[w].at # "rest" => ofStay(work[w].event, row)

\* No task is moved back to being none.
MovesOn == work[Console].at = "move" => work[Console].to # "none"

OpsInv ==
  OpsTyped /\ EventsNumbered /\ CodesKnown(stays) /\ EventsKnown(stays) /\ MovesOn

-----------------------------------------------------------------------------
(* Operations: lemmas *)

LEMMA RestTyped == Rest \in Transaction /\ Rest.event = NoEvent /\ Rest.at = "rest"
                   /\ Rest.active = {} /\ NoEvent \in Event /\ NoEvent.n = 0
  BY DEF Rest, Transaction, NoEvent, NoDates, Event, TaskStates, Status

\* A plan has a task for every day somebody leaves.
LEMMA PlanTyped == OpsTyped => planTurnovers \subseteq TaskKeys
  <1> SUFFICES ASSUME OpsTyped, NEW s \in activeStays
               PROVE  <<stays[s].dates.departure, "changeover">> \in TaskKeys
                      /\ <<stays[s].dates.departure, "departure">> \in TaskKeys
    BY DEF planTurnovers
  <1>1. stays[s].dates \in StayDates
    BY DEF activeStays, OpsTyped
  <1> QED
    BY <1>1 DEF TaskKeys

LEMMA ReplannedTyped ==
  ASSUME OpsTyped, NEW create, NEW cancel
  PROVE  /\ replanned(create, cancel) \in [TaskKeys -> TaskStates]
         /\ \A k \in TaskKeys :
              /\ tasks[k] # "none" => replanned(create, cancel)[k] # "none"
              /\ k \in create => replanned(create, cancel)[k] # "none"
  BY DEF OpsTyped, replanned, TaskStates

LEMMA TransitionsMoveOn ==
  \A from \in TaskStates : TRANSITIONS[from] \subseteq TaskStates \ {"none"}
  BY DEF TRANSITIONS, TaskStates

\* One worker's transaction goes on.
LEMMA WorkGoesOn ==
  ASSUME OpsInv, NEW p \in Workers, NEW d \in Transaction, work' = [work EXCEPT ![p] = d]
  PROVE  /\ work' \in [Workers -> Transaction] /\ work'[p] = d
         /\ \A q \in Workers \ {p} : work'[q] = work[q]
  BY DEF OpsInv, OpsTyped

\* A worker's transaction that follows its worker, and what the rows it leaves are.
Follows(p, d) ==
  /\ d \in Transaction /\ d.event.n <= stayChanges
  /\ \A c \in d.active : stays[c.stay].status # "none"
  /\ p = Console => d.event = NoEvent /\ (d.at = "move" => d.to # "none")
  /\ p \in Consumers => /\ d.at \in {"rest", "tasks", "codes", "replan", "reissue"}
                        /\ d.at # "rest" => d.event.n >= 1
                        /\ d.at \notin {"replan", "reissue"} => d.active = {}
                        /\ d.at = "reissue" => d.dates \in StayDates
                        /\ d.at # "rest" => ofStay(d.event, stays)
                        /\ \A c \in d.active : c.stay \in d.event.stay

LEMMA WorkKeepsInv ==
  ASSUME OpsInv, NEW p \in Workers, NEW d, Follows(p, d), work' = [work EXCEPT ![p] = d],
         UNCHANGED <<stays, stayChanges>>, owed' \subseteq owed,
         tasks' \in [TaskKeys -> TaskStates],
         \A c \in credentials' : c \in Code /\ stays[c.stay].status # "none",
         overlapped' \subseteq Stays, consoleRuns' \in 0..MaxConsole
  PROVE  OpsInv'
  <1>1. d \in Transaction
    BY DEF Follows
  <1>2. /\ work' \in [Workers -> Transaction] /\ work'[p] = d
        /\ \A q \in Workers \ {p} : work'[q] = work[q]
    BY <1>1, WorkGoesOn
  <1>3. OpsTyped'
    <2>1. credentials' \subseteq Code
      OBVIOUS
    <2> QED
      BY <1>2, <2>1 DEF OpsInv, OpsTyped, Workers, Transaction, Code, Event, Status,
                        TaskKeys, TaskStates
  <1>4. EventsNumbered'
    <2>1. Console \in Workers /\ Console \notin Consumers /\ Consumers \subseteq Workers
      BY OperationsBounds DEF Workers
    <2>2. \A q \in Workers : work'[q].event.n <= stayChanges
      BY <1>2 DEF OpsInv, EventsNumbered, Follows
    <2>3. work'[Console].event = NoEvent
      BY <1>2, <2>1 DEF OpsInv, EventsNumbered, Follows
    <2>4. \A w \in Consumers : /\ work'[w].at \in {"rest", "tasks", "codes", "replan", "reissue"}
                               /\ work'[w].at # "rest" => work'[w].event.n >= 1
                               /\ work'[w].at \notin {"replan", "reissue"}
                                    => work'[w].active = {}
                               /\ work'[w].at = "reissue" => work'[w].dates \in StayDates
                               /\ \A c \in work'[w].active : c.stay \in work'[w].event.stay
      BY <1>2, <2>1 DEF OpsInv, EventsNumbered, Follows
    <2> QED
      BY <2>2, <2>3, <2>4 DEF OpsInv, EventsNumbered, Workers, NoEvent, NoDates
  <1>5. CodesKnown(stays)'
    BY <1>2 DEF OpsInv, CodesKnown, Follows, Workers
  <1>6. EventsKnown(stays)'
    <2>1. EventsKnown(stays) /\ \A w \in Consumers : work'[w] = work[w] \/ w = p
      BY <1>2 DEF OpsInv, Workers
    <2>2. p \in Consumers /\ d.at # "rest" => ofStay(d.event, stays)
      BY DEF Follows
    <2>3. \A e : ofStay(e, stays) => ofStay(e, stays')
      BY DEF ofStay
    <2> QED
      BY <1>2, <2>1, <2>2, <2>3 DEF EventsKnown
  <1>7. MovesOn'
    BY <1>2 DEF OpsInv, MovesOn, Follows, Workers
  <1> QED
    BY <1>3, <1>4, <1>5, <1>6, <1>7 DEF OpsInv

\* A transaction that ended, committed or rolled back.
LEMMA RestFollows == \A p : OpsInv => Follows(p, Rest)
  BY RestTyped DEF OpsInv, OpsTyped, Follows

LEMMA TakesKeepsInv ==
  ASSUME OpsInv, NEW w \in Consumers, NEW e \in owed, TakesRevision(w, e)
  PROVE  OpsInv'
  <1> DEFINE d == [Rest EXCEPT !.at = "tasks", !.event = e, !.plan = planTurnovers]
  <1>1. planTurnovers \subseteq TaskKeys /\ e \in Event /\ e.n >= 1 /\ e.n <= stayChanges
    BY PlanTyped DEF OpsInv, OpsTyped, EventsNumbered
  <1>2. d \in Transaction /\ d.event = e /\ d.at = "tasks" /\ d.active = {}
    BY <1>1, RestTyped DEF Transaction
  <1>3. work' = [work EXCEPT ![w] = d]
    BY DEF TakesRevision
  <1> HIDE DEF d
  <1>4. Follows(w, d)
    BY <1>1, <1>2, OperationsBounds DEF Follows, OpsInv, EventsKnown
  <1> QED
    BY <1>3, <1>4, WorkKeepsInv DEF TakesRevision, OpsInv, OpsTyped, CodesKnown, Workers

LEMMA ReadsTasksKeepsInv ==
  ASSUME OpsInv, NEW p \in Workers, ReadsTasks(p)
  PROVE  OpsInv'
  <1> DEFINE x == work[p]
             d == [x EXCEPT !.plan = {}, !.create = toCreate(x.plan),
                            !.cancel = toCancel(x.plan),
                            !.at = IF p = Console THEN "replan" ELSE "codes"]
  <1>1. x \in Transaction /\ x.at = "tasks"
    BY DEF OpsInv, OpsTyped, ReadsTasks
  <1>2. toCreate(x.plan) \subseteq TaskKeys /\ toCancel(x.plan) \subseteq TaskKeys
    BY <1>1 DEF toCreate, toCancel, Transaction
  <1>3. /\ d \in Transaction /\ d.event = x.event /\ d.active = x.active
        /\ d.at = IF p = Console THEN "replan" ELSE "codes"
    BY <1>1, <1>2 DEF Transaction
  <1>4. work' = [work EXCEPT ![p] = d]
    BY DEF ReadsTasks
  <1> HIDE DEF d
  <1>5. Follows(p, d)
    BY <1>1, <1>3, OperationsBounds DEF Follows, OpsInv, EventsNumbered, CodesKnown, EventsKnown,
                                           Workers
  <1> QED
    BY <1>4, <1>5, WorkKeepsInv DEF ReadsTasks, OpsInv, OpsTyped, CodesKnown

LEMMA ReadsCodesKeepsInv ==
  ASSUME OpsInv, NEW w \in Consumers, ReadsCodes(w)
  PROVE  OpsInv'
  <1> DEFINE x == work[w]
             seen == {c \in credentials : c.stay \in x.event.stay}
             d == [x EXCEPT !.active = seen, !.at = "replan"]
  <1>1. x \in Transaction /\ x.at = "codes" /\ seen \subseteq Code /\ seen \subseteq credentials
    BY DEF OpsInv, OpsTyped, ReadsCodes, Workers
  <1>2. d \in Transaction /\ d.event = x.event /\ d.active = seen /\ d.at = "replan"
    BY <1>1 DEF Transaction
  <1>3. work' = [work EXCEPT ![w] = d]
    BY DEF ReadsCodes
  <1>4. \A c \in seen : c.stay \in x.event.stay
    OBVIOUS
  <1> HIDE DEF d, seen
  <1>5. Follows(w, d)
    BY <1>1, <1>2, <1>4, OperationsBounds DEF Follows, OpsInv, EventsNumbered, CodesKnown, EventsKnown,
                                           Workers
  <1> QED
    BY <1>3, <1>5, WorkKeepsInv DEF ReadsCodes, OpsInv, OpsTyped, CodesKnown, Workers

\* What is issued instead of a code.
LEMMA ReissuedTyped ==
  ASSUME OpsInv, NEW p \in Workers, NEW c \in work[p].active, NEW dates \in StayDates
  PROVE  /\ reissued(c, dates) \in Code /\ reissued(c, dates).stay = c.stay
         /\ reissued(c, dates).dates = dates /\ reissued(c, dates).root = c.root
         /\ stays[c.stay].status # "none"
  <1>1. c \in Code /\ stays[c.stay].status # "none"
    BY DEF OpsInv, OpsTyped, Transaction, CodesKnown
  <1> QED
    BY <1>1 DEF reissued, code, Code

\* The dates of the booking of a consumer's event.
LEMMA BookedTyped ==
  ASSUME OpsInv, NEW w \in Consumers, work[w].at # "rest", NEW s \in work[w].event.stay
  PROVE  /\ work[w].event.stay = {s} /\ s \in Stays /\ stays[s].status # "none"
         /\ bookedDates(s, work[w].event) = stays[s].dates /\ stays[s].dates \in StayDates
  <1>1. work[w].event.stay = {s} /\ s \in Stays /\ stays[s].status # "none"
    BY DEF OpsInv, EventsKnown, ofStay
  <1> QED
    BY <1>1 DEF bookedDates, OpsInv, OpsTyped

\* The dates are read: they are a booking's.
LEMMA ReadsDatesKeepsInv ==
  ASSUME OpsInv, NEW w \in Consumers, ReadsDates(w)
  PROVE  OpsInv'
  <1> DEFINE x == work[w]
  <1>1. PICK s \in x.event.stay :
          work' = [work EXCEPT ![w] = [x EXCEPT !.dates = bookedDates(s, x.event),
                                                !.at = "reissue"]]
    BY DEF ReadsDates
  <1> DEFINE d == [x EXCEPT !.dates = bookedDates(s, x.event), !.at = "reissue"]
  <1>2. x \in Transaction /\ x.at = "replan"
    BY DEF OpsInv, OpsTyped, ReadsDates, Workers
  <1>3. bookedDates(s, x.event) \in StayDates
    BY <1>2, BookedTyped
  <1>4. d \in Transaction /\ d.event = x.event /\ d.active = x.active /\ d.at = "reissue"
        /\ d.dates \in StayDates
    BY <1>2, <1>3 DEF Transaction
  <1>5. work' = [work EXCEPT ![w] = d]
    BY <1>1
  <1> HIDE DEF d
  <1>6. Follows(w, d)
    BY <1>2, <1>4, OperationsBounds DEF Follows, OpsInv, EventsNumbered, CodesKnown, EventsKnown,
                                           Workers
  <1> QED
    BY <1>5, <1>6, WorkKeepsInv DEF ReadsDates, OpsInv, OpsTyped, CodesKnown, Workers

\* The console's transaction has no event, and mends no code.
LEMMA ReissuesAreConsumers ==
  ASSUME OpsInv, NEW p \in Workers, action(p) # "none"
  PROVE  p \in Consumers
  <1>1. \A b : credentialActionForDiff(NoEvent, b) = "none"
    BY DEF credentialActionForDiff, NoEvent
  <1>2. work[Console].event = NoEvent
    BY DEF OpsInv, EventsNumbered
  <1>3. p # Console
    BY <1>1, <1>2 DEF action
  <1> QED
    BY <1>3 DEF Workers

LEMMA ReplansKeepsInv ==
  ASSUME OpsInv, NEW p \in Workers, Replans(p)
  PROVE  OpsInv'
  <1>1. /\ tasks' = replanned(work[p].create, work[p].cancel)
        /\ owed' = owed \ {work[p].event} /\ work' = [work EXCEPT ![p] = Rest]
        /\ overlapped' = overlapped \cup mendedTwice(p)
        /\ UNCHANGED <<stays, stayChanges, consoleRuns>>
    BY DEF Replans
  <1>2. tasks' \in [TaskKeys -> TaskStates]
    BY <1>1, ReplannedTyped DEF OpsInv
  <1>3. overlapped' \subseteq Stays
    BY <1>1 DEF mendedTwice, OpsInv, OpsTyped, Transaction, Event
  <1>4. \A c \in credentials' : c \in Code /\ stays[c.stay].status # "none"
    <2>1. CASE action(p) = "reissue"
      <3>1. work[p].at = "reissue" /\ p \in Consumers
        BY <2>1, ReissuesAreConsumers DEF Replans
      <3>2. work[p].dates \in StayDates
        BY <3>1 DEF OpsInv, EventsNumbered
      <3>3. \A c \in credentials' :
              c \in credentials \/ \E b \in work[p].active : c = reissued(b, work[p].dates)
        BY <2>1 DEF Replans
      <3> QED
        BY <3>2, <3>3, ReissuedTyped DEF OpsInv, OpsTyped, CodesKnown
    <2>2. CASE action(p) # "reissue"
      <3>1. credentials' \subseteq credentials
        BY <2>2 DEF Replans, action, credentialActionForDiff
      <3> QED
        BY <3>1 DEF OpsInv, OpsTyped, CodesKnown
    <2> QED
      BY <2>1, <2>2
  <1> QED
    BY <1>1, <1>2, <1>3, <1>4, RestFollows, WorkKeepsInv DEF OpsInv, OpsTyped

\* The console looks at something, and will write later.
LEMMA ConsoleLooks ==
  ASSUME OpsInv, ConsoleBegins,
         NEW d, Follows(Console, d), work' = [work EXCEPT ![Console] = d],
         UNCHANGED <<stays, owed, tasks, credentials, overlapped, stayChanges>>
  PROVE  OpsInv'
  <1>1. consoleRuns' \in 0..MaxConsole
    BY OperationsBounds DEF ConsoleBegins, OpsInv, OpsTyped
  <1> QED
    BY <1>1, WorkKeepsInv DEF OpsInv, OpsTyped, CodesKnown, Workers

LEMMA ConsoleKeepsInv ==
  ASSUME OpsInv,
         \/ DeskReplans \/ MovesTask \/ DeskIssues
         \/ \E k \in TaskKeys : \E to \in TRANSITIONS[tasks[k]] : LooksAtTask(k, to)
         \/ \E s \in Stays : ReadsStay(s)
         \/ \E c \in credentials : DeskRevokes(c)
  PROVE  OpsInv'
  <1>1. CASE DeskReplans
    <2> DEFINE d == [Rest EXCEPT !.at = "tasks", !.plan = planTurnovers]
    <2>1. d \in Transaction /\ d.at = "tasks" /\ d.event = NoEvent /\ d.active = {}
      BY PlanTyped, RestTyped DEF OpsInv, Transaction
    <2>2. work' = [work EXCEPT ![Console] = d]
      BY <1>1 DEF DeskReplans
    <2> HIDE DEF d
    <2>3. Follows(Console, d)
      BY <2>1, RestTyped, OperationsBounds DEF Follows, OpsInv, OpsTyped
    <2> QED
      BY <1>1, <2>2, <2>3, ConsoleLooks DEF DeskReplans
  <1>2. ASSUME NEW k \in TaskKeys, NEW to \in TRANSITIONS[tasks[k]], LooksAtTask(k, to)
        PROVE  OpsInv'
    <2> DEFINE d == [Rest EXCEPT !.at = "move", !.key = {k}, !.to = to]
    <2>1. to \in TaskStates \ {"none"}
      BY TransitionsMoveOn DEF OpsInv, OpsTyped
    <2>2. d \in Transaction /\ d.to = to /\ d.event = NoEvent /\ d.active = {}
      BY <2>1, RestTyped DEF Transaction
    <2>3. work' = [work EXCEPT ![Console] = d]
      BY <1>2 DEF LooksAtTask
    <2> HIDE DEF d
    <2>4. Follows(Console, d)
      BY <2>1, <2>2, RestTyped, OperationsBounds DEF Follows, OpsInv, OpsTyped
    <2> QED
      BY <1>2, <2>3, <2>4, ConsoleLooks DEF LooksAtTask
  <1>3. ASSUME NEW s \in Stays, ReadsStay(s) PROVE OpsInv'
    <2> DEFINE c == code(s, stays[s].dates, "desk", "desk")
               d == [Rest EXCEPT !.at = "issue", !.active = {c}]
    <2>1. stays[s].status # "none" /\ stays[s].dates \in StayDates
      BY <1>3 DEF ReadsStay, OpsInv, OpsTyped
    <2>2. c \in Code /\ c.stay = s
      BY <2>1 DEF code, Code
    <2> HIDE DEF c
    <2>3. d \in Transaction /\ d.at = "issue" /\ d.event = NoEvent /\ d.active = {c}
      BY <2>2, RestTyped DEF Transaction
    <2>4. work' = [work EXCEPT ![Console] = d]
      BY <1>3 DEF ReadsStay, c
    <2> HIDE DEF d
    <2>5. Follows(Console, d)
      BY <2>1, <2>2, <2>3, RestTyped, OperationsBounds DEF Follows, OpsInv, OpsTyped
    <2> QED
      BY <1>3, <2>4, <2>5, ConsoleLooks DEF ReadsStay
  <1>4. CASE MovesTask
    <2>1. tasks' \in [TaskKeys -> TaskStates]
      BY <1>4 DEF MovesTask, OpsInv, OpsTyped, Transaction, Workers
    <2> QED
      BY <1>4, <2>1, RestFollows, WorkKeepsInv
         DEF MovesTask, OpsInv, OpsTyped, CodesKnown, Workers
  <1>5. CASE DeskIssues
    <2>1. \A c \in work[Console].active : c \in Code /\ stays[c.stay].status # "none"
      BY DEF OpsInv, OpsTyped, CodesKnown, Transaction, Workers
    <2>2. \A c \in credentials' : c \in Code /\ stays[c.stay].status # "none"
      BY <1>5, <2>1 DEF DeskIssues, OpsInv, OpsTyped, CodesKnown
    <2> QED
      BY <1>5, <2>2, RestFollows, WorkKeepsInv DEF DeskIssues, OpsInv, OpsTyped, Workers
  <1>6. ASSUME NEW c \in credentials, DeskRevokes(c) PROVE OpsInv'
    <2>1. consoleRuns' \in 0..MaxConsole
      BY <1>6, OperationsBounds DEF DeskRevokes, ConsoleBegins, OpsInv, OpsTyped
    <2>2. /\ credentials' \subseteq credentials
          /\ UNCHANGED <<stays, owed, tasks, work, overlapped, stayChanges>>
      BY <1>6 DEF DeskRevokes
    <2> QED
      BY <2>1, <2>2 DEF OpsInv, OpsTyped, EventsNumbered, CodesKnown, EventsKnown, ofStay, MovesOn
  <1> QED
    BY <1>1, <1>2, <1>3, <1>4, <1>5, <1>6

\* A revision and its event.
LEMMA RevisesKeepsInv ==
  ASSUME OpsInv, NEW s \in Stays, NEW dates \in StayDates,
         NEW status \in {"new", "modified", "cancelled"}, Revises(s, status, dates)
  PROVE  OpsInv'
  <1> DEFINE row == [status |-> status, dates |-> dates]
             change == IF status = stays[s].status THEN "" ELSE status
             moved == stays[s].status # "none" /\ dates # stays[s].dates
             e == [n |-> stayChanges + 1, stay |-> {s}, status |-> change, moved |-> moved,
                   to |-> dates]
  <1>1. /\ stayChanges \in Nat /\ stayChanges' = stayChanges + 1
        /\ stayChanges' \in 0..MaxStayChanges
        /\ stays' = [stays EXCEPT ![s] = row] /\ owed' = owed \cup {e}
        /\ UNCHANGED <<tasks, work, overlapped, consoleRuns>>
    <2>1. stayChanges \in Nat /\ stayChanges + 1 \in 0..MaxStayChanges
      <3>1. MaxStayChanges \in Nat
        BY OperationsBounds
      <3>2. stayChanges \in 0..MaxStayChanges /\ stayChanges < MaxStayChanges
        BY DEF Revises, OpsInv, OpsTyped
      <3> QED
        BY <3>1, <3>2
    <2> QED
      BY <2>1 DEF Revises
  <1>2. row.status = status /\ row.dates = dates /\ row \in [status : Status, dates : StayDates]
    BY DEF Status
  <1>3. change \in Status \cup {""} /\ moved \in BOOLEAN
    BY DEF Status
  <1> HIDE DEF change, moved
  <1>4. e \in Event /\ e.n = stayChanges + 1 /\ e.stay = {s}
    <2>1. stayChanges + 1 \in Nat /\ {s} \in SUBSET Stays
      BY <1>1
    <2> QED
      BY <1>3, <2>1 DEF Event
  <1> HIDE DEF row, e
  <1>5. /\ stays' \in [Stays -> [status : Status, dates : StayDates \cup {NoDates}]]
        /\ stays'[s] = row /\ \A q \in Stays \ {s} : stays'[q] = stays[q]
    BY <1>1, <1>2 DEF OpsInv, OpsTyped
  <1>6. \A q \in Stays : stays'[q].status # "none" => stays'[q].dates \in StayDates
    BY <1>2, <1>5 DEF OpsInv, OpsTyped
  <1>7. \A q \in Stays : stays[q].status # "none" => stays'[q].status # "none"
    BY <1>2, <1>5
  <1>8. /\ credentials' \subseteq Code
        /\ \A c \in credentials' : c \in credentials \/ c.stay = s
    <2>1. code(s, dates, "engine", "engine") \in Code /\ code(s, dates, "engine", "engine").stay = s
      BY DEF code, Code
    <2> QED
      BY <2>1 DEF Revises, OpsInv, OpsTyped
  <1>9. OpsTyped'
    <2>1. owed' \subseteq Event
      BY <1>1, <1>4 DEF OpsInv, OpsTyped
    <2>2. /\ tasks' \in [TaskKeys -> TaskStates] /\ work' \in [Workers -> Transaction]
          /\ overlapped' \subseteq Stays /\ consoleRuns' \in 0..MaxConsole
      BY <1>1 DEF OpsInv, OpsTyped
    <2> QED
      BY <1>1, <1>5, <1>6, <1>8, <2>1, <2>2 DEF OpsTyped, Workers
  <1>10. EventsNumbered'
    <2>1. \A x \in owed' : x.n >= 1 /\ x.n <= stayChanges'
      <3>1. \A x \in owed : x.n \in Nat /\ x.n >= 1 /\ x.n <= stayChanges
        BY DEF OpsInv, OpsTyped, EventsNumbered, Event
      <3> QED
        BY <1>1, <1>4, <3>1
    <2>2. \A p \in Workers : work[p].event.n <= stayChanges'
      <3>1. \A p \in Workers : work[p].event.n \in Nat /\ work[p].event.n <= stayChanges
        BY DEF OpsInv, OpsTyped, EventsNumbered, Event, Transaction
      <3> QED
        BY <1>1, <3>1
    <2> QED
      BY <1>1, <2>1, <2>2 DEF OpsInv, EventsNumbered, Workers, NoEvent, NoDates
  <1>11. CodesKnown(stays)'
    <2>1. \A c \in credentials' : c.stay \in Stays /\ stays'[c.stay].status # "none"
      BY <1>2, <1>5, <1>7, <1>8 DEF OpsInv, OpsTyped, CodesKnown, Code
    <2>2. \A p \in Workers : \A c \in work[p].active : stays'[c.stay].status # "none"
      <3>1. \A p \in Workers : \A c \in work[p].active :
              c.stay \in Stays /\ stays[c.stay].status # "none"
        BY DEF OpsInv, OpsTyped, CodesKnown, Transaction, Code
      <3> QED
        BY <1>7, <3>1
    <2> QED
      BY <1>1, <2>1, <2>2 DEF CodesKnown, Workers
  <1>12. EventsKnown(stays)'
    <2>1. \A x : ofStay(x, stays) => ofStay(x, stays')
      BY <1>7 DEF ofStay
    <2>2. ofStay(e, stays')
      BY <1>2, <1>4, <1>5 DEF ofStay
    <2> QED
      BY <1>1, <2>1, <2>2 DEF OpsInv, EventsKnown
  <1>13. MovesOn'
    BY <1>1 DEF OpsInv, MovesOn
  <1> QED
    BY <1>9, <1>10, <1>11, <1>12, <1>13 DEF OpsInv, CodesKnown, EventsKnown, ofStay

LEMMA OpsInitInv == OpsInit => OpsInv
  <1> SUFFICES ASSUME OpsInit PROVE OpsInv
    OBVIOUS
  <1>1. OpsTyped
    BY RestTyped, OperationsBounds DEF OpsInit, OpsTyped, Workers, Status, TaskStates
  <1>2. EventsNumbered /\ CodesKnown(stays) /\ EventsKnown(stays) /\ MovesOn
    BY RestTyped DEF OpsInit, EventsNumbered, CodesKnown, EventsKnown, MovesOn, Workers
  <1> QED
    BY <1>1, <1>2 DEF OpsInv

\* Every step of the revisions, the consumers and the console keeps the invariant.
LEMMA OpsStepInv == OpsInv /\ [OpsNext]_opsVars => OpsInv'
  <1> SUFFICES ASSUME OpsInv, [OpsNext]_opsVars PROVE OpsInv'
    OBVIOUS
  <1>1. ASSUME NEW p \in Workers, RollsBackOps(p) PROVE OpsInv'
    BY <1>1, RestFollows, WorkKeepsInv DEF RollsBackOps, OpsInv, OpsTyped, CodesKnown
  <1>2. CASE UNCHANGED opsVars
    BY <1>2 DEF opsVars, OpsInv, OpsTyped, EventsNumbered, CodesKnown, EventsKnown, ofStay,
                MovesOn
  <1>3. CASE OpsNext
    BY <1>1, <1>3, RevisesKeepsInv, TakesKeepsInv, ReadsCodesKeepsInv, ReadsDatesKeepsInv,
       ReadsTasksKeepsInv, ReplansKeepsInv, ConsoleKeepsInv DEF OpsNext, Workers
  <1> QED
    BY <1>2, <1>3

\* The invariant holds throughout.
LEMMA OpsInvariant == OpsSpec => []OpsInv
  BY OpsInitInv, OpsStepInv, PTL DEF OpsSpec

\* Stays, tasks, codes and transactions have the types they are meant to have.
THEOREM OpsTypeCorrect == OpsSpec => []OpsTypeOK
  <1>1. OpsInv => OpsTypeOK
    BY DEF OpsInv, OpsTyped, OpsTypeOK, Status, Code, Transaction, Workers
  <1> QED
    BY <1>1, OpsInvariant, PTL

-----------------------------------------------------------------------------
(* Operations: tasks *)

\* A transaction that will make the task k.
Prepared(d, k) == \/ d.at = "tasks" /\ k \in d.plan
                  \/ d.at \in {"codes", "replan", "reissue"} /\ k \in d.create

\* An event is owed that will make it, whoever consumes it.
Coming(k, owes, works) ==
  \E e \in owes : \A w \in Consumers : works[w].event = e => Prepared(works[w], k)

\* Each day the unit is left has its task, or an event owed brings it.
TasksCome == \A k \in planTurnovers : tasks[k] = "none" => Coming(k, owed, work)

\* What is owed is still owed when a transaction goes on that will make the task too.
LEMMA ComesStill ==
  ASSUME OpsInv, NEW k, Coming(k, owed, work), NEW p \in Workers, NEW d \in Transaction,
         work' = [work EXCEPT ![p] = d],
         \A e \in owed : work[p].event = e /\ Prepared(work[p], k) => e \in owed',
         \A e \in owed : work[p].event # e => e \in owed',
         p \in Consumers => \/ d.event = NoEvent
                            \/ Prepared(d, k)
                            \/ d.event = work[p].event /\ ~Prepared(work[p], k)
  PROVE  Coming(k, owed', work')
  <1>1. PICK e \in owed : \A w \in Consumers : work[w].event = e => Prepared(work[w], k)
    BY DEF Coming
  <1>2. /\ work'[p] = d /\ \A q \in Workers \ {p} : work'[q] = work[q]
    BY WorkGoesOn
  <1>3. e # NoEvent
    <2>1. e.n >= 1 /\ NoEvent.n = 0
      BY RestTyped DEF OpsInv, EventsNumbered
    <2>2. ASSUME e = NoEvent PROVE FALSE
      <3>1. e.n = 0
        BY <2>1, <2>2
      <3> QED
        BY <2>1, <3>1
    <2> QED
      BY <2>2
  <1>4. e \in owed'
    <2>1. CASE p = Console
      BY <1>1, <1>3, <2>1 DEF OpsInv, EventsNumbered
    <2>2. CASE p \in Consumers
      BY <1>1, <2>2
    <2> QED
      BY <2>1, <2>2 DEF Workers
  <1>5. ASSUME NEW w \in Consumers, work'[w].event = e PROVE Prepared(work'[w], k)
    <2>1. CASE w = p
      BY <1>1, <1>2, <1>3, <1>5, <2>1
    <2>2. CASE w # p
      BY <1>1, <1>2, <1>5, <2>2 DEF Workers
    <2> QED
      BY <2>1, <2>2
  <1> QED
    BY <1>4, <1>5 DEF Coming

\* A transaction of a consumer goes on, and no event is consumed.
LEMMA TasksComeStill ==
  ASSUME OpsInv, TasksCome, NEW p \in Workers, NEW d \in Transaction,
         work' = [work EXCEPT ![p] = d], UNCHANGED <<stays, owed>>,
         \A k \in planTurnovers : tasks'[k] = "none" => tasks[k] = "none",
         \A k \in planTurnovers : tasks[k] = "none" /\ p \in Consumers =>
           \/ d.event = NoEvent
           \/ Prepared(d, k)
           \/ d.event = work[p].event /\ ~Prepared(work[p], k)
  PROVE  TasksCome'
  <1>1. planTurnovers' = planTurnovers
    BY DEF planTurnovers, activeStays
  <1>2. ASSUME NEW k \in planTurnovers, tasks'[k] = "none" PROVE Coming(k, owed', work')
    <2>1. tasks[k] = "none" /\ Coming(k, owed, work)
      BY <1>2 DEF TasksCome
    <2> QED
      BY <2>1, ComesStill
  <1> QED
    BY <1>1, <1>2 DEF TasksCome, Coming, Prepared

LEMMA TakesTasks ==
  ASSUME OpsInv, TasksCome, NEW w \in Consumers, NEW e \in owed, TakesRevision(w, e)
  PROVE  TasksCome'
  <1> DEFINE d == [Rest EXCEPT !.at = "tasks", !.event = e, !.plan = planTurnovers]
  <1>1. planTurnovers \subseteq TaskKeys /\ e \in Event
    BY PlanTyped DEF OpsInv, OpsTyped
  <1>2. d \in Transaction /\ d.at = "tasks" /\ d.plan = planTurnovers
    BY <1>1, RestTyped DEF Transaction
  <1>3. work' = [work EXCEPT ![w] = d] /\ UNCHANGED <<stays, owed, tasks>>
    BY DEF TakesRevision
  <1> HIDE DEF d
  <1>4. \A k \in planTurnovers : Prepared(d, k)
    BY <1>2 DEF Prepared
  <1> QED
    BY <1>2, <1>3, <1>4, TasksComeStill DEF Workers

LEMMA ReadsTasksTasks ==
  ASSUME OpsInv, TasksCome, NEW p \in Workers, ReadsTasks(p)
  PROVE  TasksCome'
  <1> DEFINE x == work[p]
             d == [x EXCEPT !.plan = {}, !.create = toCreate(x.plan),
                            !.cancel = toCancel(x.plan),
                            !.at = IF p = Console THEN "replan" ELSE "codes"]
  <1>1. x \in Transaction /\ x.at = "tasks"
    BY DEF OpsInv, OpsTyped, ReadsTasks
  <1>2. toCreate(x.plan) \subseteq TaskKeys /\ toCancel(x.plan) \subseteq TaskKeys
    BY <1>1 DEF toCreate, toCancel, Transaction
  <1>3. /\ d \in Transaction /\ d.event = x.event /\ d.create = toCreate(x.plan)
        /\ d.at = IF p = Console THEN "replan" ELSE "codes"
    BY <1>1, <1>2 DEF Transaction
  <1>4. work' = [work EXCEPT ![p] = d] /\ UNCHANGED <<stays, owed, tasks>>
    BY DEF ReadsTasks
  <1> HIDE DEF d
  <1>5. ASSUME NEW k \in planTurnovers, tasks[k] = "none", Prepared(work[p], k)
        PROVE  Prepared(d, k)
    BY <1>1, <1>3, <1>5 DEF Prepared, toCreate
  <1> QED
    BY <1>3, <1>4, <1>5, TasksComeStill

LEMMA ReadsCodesTasks ==
  ASSUME OpsInv, TasksCome, NEW w \in Consumers, ReadsCodes(w)
  PROVE  TasksCome'
  <1> DEFINE x == work[w]
             seen == {c \in credentials : c.stay \in x.event.stay}
             d == [x EXCEPT !.active = seen, !.at = "replan"]
  <1>1. x \in Transaction /\ x.at = "codes" /\ seen \subseteq Code
    BY DEF OpsInv, OpsTyped, ReadsCodes, Workers
  <1>2. d \in Transaction /\ d.event = x.event /\ d.create = x.create /\ d.at = "replan"
    BY <1>1 DEF Transaction
  <1>3. work' = [work EXCEPT ![w] = d] /\ UNCHANGED <<stays, owed, tasks>>
    BY DEF ReadsCodes
  <1> HIDE DEF d, seen
  <1>4. \A k : Prepared(work[w], k) => Prepared(d, k)
    BY <1>1, <1>2 DEF Prepared
  <1> QED
    BY <1>2, <1>3, <1>4, TasksComeStill DEF Workers

LEMMA ReadsDatesTasks ==
  ASSUME OpsInv, TasksCome, NEW w \in Consumers, ReadsDates(w)
  PROVE  TasksCome'
  <1> DEFINE x == work[w]
  <1>1. PICK s \in x.event.stay :
          work' = [work EXCEPT ![w] = [x EXCEPT !.dates = bookedDates(s, x.event),
                                                !.at = "reissue"]]
    BY DEF ReadsDates
  <1> DEFINE d == [x EXCEPT !.dates = bookedDates(s, x.event), !.at = "reissue"]
  <1>2. x \in Transaction /\ x.at = "replan" /\ bookedDates(s, x.event) \in StayDates
    BY BookedTyped DEF OpsInv, OpsTyped, ReadsDates, Workers
  <1>3. d \in Transaction /\ d.event = x.event /\ d.create = x.create /\ d.at = "reissue"
    BY <1>2 DEF Transaction
  <1>4. work' = [work EXCEPT ![w] = d] /\ UNCHANGED <<stays, owed, tasks>>
    BY <1>1 DEF ReadsDates
  <1> HIDE DEF d
  <1>5. \A k : Prepared(work[w], k) => Prepared(d, k)
    BY <1>2, <1>3 DEF Prepared
  <1> QED
    BY <1>3, <1>4, <1>5, TasksComeStill DEF Workers

LEMMA ReplansTasks ==
  ASSUME OpsInv, TasksCome, NEW p \in Workers, Replans(p)
  PROVE  TasksCome'
  <1>1. /\ tasks' = replanned(work[p].create, work[p].cancel)
        /\ work[p].at \in {"replan", "reissue"}
        /\ owed' = owed \ {work[p].event} /\ work' = [work EXCEPT ![p] = Rest]
        /\ stays' = stays
    BY DEF Replans
  <1>2. planTurnovers' = planTurnovers /\ planTurnovers \subseteq TaskKeys
    BY <1>1, PlanTyped DEF planTurnovers, activeStays, OpsInv
  <1>3. ASSUME NEW k \in planTurnovers, tasks'[k] = "none" PROVE Coming(k, owed', work')
    <2>1. tasks[k] = "none" /\ k \notin work[p].create
      BY <1>1, <1>2, <1>3, ReplannedTyped DEF OpsInv
    <2>2. Coming(k, owed, work) /\ ~Prepared(work[p], k)
      BY <1>1, <2>1 DEF TasksCome, Prepared
    <2> QED
      BY <1>1, <2>2, ComesStill, RestTyped
  <1> QED
    BY <1>2, <1>3 DEF TasksCome, Coming, Prepared

\* The event e of a revision of the stay s, which no consumer has yet.
RevisionOf(e, s, status, dates, row, works) ==
  /\ e.stay = {s} /\ \A w \in Consumers : works[w].event # e
  /\ e.status = IF status = row.status THEN "" ELSE status
  /\ e.moved = (row.status # "none" /\ dates # row.dates)

LEMMA RevisionIsOwed ==
  ASSUME OpsInv, NEW s \in Stays, NEW dates, NEW status, Revises(s, status, dates)
  PROVE  \E e \in owed' : RevisionOf(e, s, status, dates, stays[s], work')
  <1> DEFINE change == IF status = stays[s].status THEN "" ELSE status
             moved == stays[s].status # "none" /\ dates # stays[s].dates
             e == [n |-> stayChanges + 1, stay |-> {s}, status |-> change, moved |-> moved,
                   to |-> dates]
  <1>1. e \in owed' /\ work' = work
    BY DEF Revises
  <1>2. /\ e.n = stayChanges + 1 /\ e.stay = {s} /\ e.status = change
    OBVIOUS
  <1>3. e.moved = moved
    OBVIOUS
  <1> HIDE DEF e
  <1>4. \A w \in Consumers : work'[w].event # e
    <2>1. \A w \in Consumers : work[w].event.n \in Nat /\ work[w].event.n <= stayChanges
      BY DEF OpsInv, OpsTyped, EventsNumbered, Transaction, Event, Workers
    <2>2. stayChanges \in Nat
      <3>1. MaxStayChanges \in Nat /\ stayChanges \in 0..MaxStayChanges
        BY OperationsBounds DEF OpsInv, OpsTyped
      <3> QED
        BY <3>1
    <2>3. ASSUME NEW w \in Consumers, work[w].event = e PROVE FALSE
      <3>1. work[w].event.n = stayChanges + 1
        BY <1>2, <2>3
      <3> QED
        BY <2>1, <2>2, <3>1
    <2> QED
      BY <1>1, <2>3
  <1> QED
    BY <1>1, <1>2, <1>3, <1>4 DEF RevisionOf

\* It brings every task.
LEMMA RevisesTasks ==
  ASSUME OpsInv, NEW s \in Stays, NEW dates \in StayDates,
         NEW status \in {"new", "modified", "cancelled"}, Revises(s, status, dates)
  PROVE  TasksCome'
  <1>1. \E e \in owed' : \A w \in Consumers : work'[w].event # e
    BY RevisionIsOwed DEF RevisionOf
  <1>2. \A k : Coming(k, owed', work')
    BY <1>1 DEF Coming
  <1> QED
    BY <1>2 DEF TasksCome, Coming, Prepared

\* The console's transactions are none of the consumers', and consume no event.
LEMMA ConsoleAlone ==
  ASSUME OpsInv,
         \/ DeskReplans \/ MovesTask \/ DeskIssues
         \/ \E k \in TaskKeys : \E to \in TRANSITIONS[tasks[k]] : LooksAtTask(k, to)
         \/ \E s \in Stays : ReadsStay(s)
         \/ \E c \in credentials : DeskRevokes(c)
  PROVE  UNCHANGED <<stays, owed, overlapped>> /\ \A w \in Consumers : work'[w] = work[w]
  <1>1. UNCHANGED <<stays, owed, overlapped>>
    BY DEF DeskReplans, MovesTask, DeskIssues, LooksAtTask, ReadsStay, DeskRevokes
  <1>2. work' = work \/ \E d : work' = [work EXCEPT ![Console] = d]
    BY DEF DeskReplans, MovesTask, DeskIssues, LooksAtTask, ReadsStay, DeskRevokes
  <1>3. ASSUME NEW w \in Consumers PROVE work'[w] = work[w]
    BY <1>2, OperationsBounds DEF OpsInv, OpsTyped, Workers
  <1> QED
    BY <1>1, <1>3

LEMMA ConsoleTasks ==
  ASSUME OpsInv, TasksCome,
         \/ DeskReplans \/ MovesTask \/ DeskIssues
         \/ \E k \in TaskKeys : \E to \in TRANSITIONS[tasks[k]] : LooksAtTask(k, to)
         \/ \E s \in Stays : ReadsStay(s)
         \/ \E c \in credentials : DeskRevokes(c)
  PROVE  TasksCome'
  <1>1. /\ UNCHANGED <<stays, owed>>
        /\ \A w \in Consumers : work'[w] = work[w]
    BY ConsoleAlone
  <1>2. planTurnovers' = planTurnovers /\ planTurnovers \subseteq TaskKeys
    BY <1>1, PlanTyped DEF planTurnovers, activeStays, OpsInv
  <1>3. \A k \in TaskKeys : tasks'[k] = "none" => tasks[k] = "none"
    <2>1. CASE MovesTask
      BY <2>1 DEF MovesTask, OpsInv, MovesOn
    <2>2. CASE tasks' = tasks
      BY <2>2
    <2> QED
      BY <2>1, <2>2 DEF DeskReplans, DeskIssues, LooksAtTask, ReadsStay, DeskRevokes
  <1>4. ASSUME NEW k \in planTurnovers, tasks'[k] = "none" PROVE Coming(k, owed', work')
    <2>1. Coming(k, owed, work)
      BY <1>2, <1>3, <1>4 DEF TasksCome
    <2> QED
      BY <1>1, <2>1 DEF Coming
  <1> QED
    BY <1>2, <1>4 DEF TasksCome, Coming, Prepared

\* OPS-1: once every revision is consumed, each day the unit is left has its task,
\* however many consumers and the console replan from what they read earlier.
THEOREM DeparturesHaveTasks == OpsSpec => []DeparturesAreTasked
  <1>1. OpsInit => TasksCome
    BY DEF OpsInit, TasksCome, planTurnovers, activeStays
  <1>2. OpsInv /\ TasksCome /\ [OpsNext]_opsVars => TasksCome'
    <2> SUFFICES ASSUME OpsInv, TasksCome, [OpsNext]_opsVars PROVE TasksCome'
      OBVIOUS
    <2>1. ASSUME NEW p \in Workers, RollsBackOps(p) PROVE TasksCome'
      BY <2>1, RestTyped, TasksComeStill DEF RollsBackOps
    <2>2. CASE UNCHANGED opsVars
      BY <2>2 DEF opsVars, TasksCome, Coming, Prepared, planTurnovers, activeStays
    <2>3. CASE OpsNext
      BY <2>1, <2>3, RevisesTasks, TakesTasks, ReadsCodesTasks, ReadsDatesTasks,
         ReadsTasksTasks, ReplansTasks, ConsoleTasks DEF OpsNext, Workers
    <2> QED
      BY <2>2, <2>3
  <1>3. TasksCome => DeparturesAreTasked
    BY DEF TasksCome, Coming, DeparturesAreTasked
  <1> QED
    BY <1>1, <1>2, <1>3, OpsInvariant, PTL DEF OpsSpec

-----------------------------------------------------------------------------
(* Operations: codes *)

\* What an event does to the codes of its stay.
deed(e) == credentialActionForDiff(e, TRUE)

\* A consumer that has read the codes, and has yet to end.
mending(d) == d.at \in {"replan", "reissue"}

\* Nobody who consumes the event e has missed the code c.
Seen(e, c, works) ==
  \A w \in Consumers : works[w].event = e /\ mending(works[w]) => c \in works[w].active

\* An event is owed that will replace the code, or take it away.
Mended(c, owes, works) ==
  \E e \in owes : c.stay \in e.stay /\ deed(e) # "none" /\ Seen(e, c, works)

Revoked(c, owes, works) ==
  \E e \in owes : c.stay \in e.stay /\ e.status = "cancelled" /\ Seen(e, c, works)

CodesMended(codes, rows, owes, works, tangled) ==
  \A c \in codes : c.stay \notin tangled =>
    /\ c.by # "desk" /\ c.dates # rows[c.stay].dates => Mended(c, owes, works)
    /\ c.root # "desk" /\ rows[c.stay].status = "cancelled" => Revoked(c, owes, works)

\* What a transaction d that reissues codes will leave behind is owed another event, which
\* nobody may consume meanwhile without tangling with it.
Succeeded(d, rows, owes, tangled) ==
  mending(d) /\ deed(d.event) = "reissue" =>
    \A b \in d.active : b.stay \notin tangled =>
      /\ d.at = "reissue" /\ d.dates # rows[b.stay].dates =>
           \E f \in owes : f # d.event /\ b.stay \in f.stay /\ deed(f) # "none"
      /\ b.root # "desk" /\ rows[b.stay].status = "cancelled" =>
           \E f \in owes : b.stay \in f.stay /\ f.status = "cancelled"

CodesCome ==
  /\ CodesMended(credentials, stays, owed, work, overlapped)
  /\ \A w \in Consumers : Succeeded(work[w], stays, owed, overlapped)

\* A cancellation takes codes away.
LEMMA CancelsRevoke ==
  ASSUME NEW f, f.status = "cancelled"
  PROVE  deed(f) = "revoke"
  BY DEF deed, credentialActionForDiff

\* Steps that write no code, or only the desk's.
LEMMA QuietCodes ==
  ASSUME OpsInv, CodesCome, UNCHANGED <<stays, owed, overlapped>>,
         \A c \in credentials' : c \in credentials \/ (c.by = "desk" /\ c.root = "desk"),
         \A w \in Consumers : work'[w] = work[w] \/ ~mending(work'[w])
  PROVE  CodesCome'
  <1>1. \A e, c : Seen(e, c, work) => Seen(e, c, work')
    BY DEF Seen
  <1>2. \A c : /\ Mended(c, owed, work) => Mended(c, owed, work')
               /\ Revoked(c, owed, work) => Revoked(c, owed, work')
    BY <1>1 DEF Mended, Revoked
  <1>3. CodesMended(credentials', stays, owed, work', overlapped)
    BY <1>2 DEF CodesCome, CodesMended
  <1>4. \A w \in Consumers : Succeeded(work'[w], stays, owed, overlapped)
    BY DEF CodesCome, Succeeded
  <1> QED
    BY <1>3, <1>4 DEF CodesCome, CodesMended, Mended, Revoked, Seen, Succeeded, deed, mending,
                      credentialActionForDiff

LEMMA TakesCodes ==
  ASSUME OpsInv, CodesCome, NEW w \in Consumers, NEW e \in owed, TakesRevision(w, e)
  PROVE  CodesCome'
  <1> DEFINE d == [Rest EXCEPT !.at = "tasks", !.event = e, !.plan = planTurnovers]
  <1>1. d \in Transaction /\ d.at = "tasks"
    BY PlanTyped, RestTyped DEF Transaction, OpsInv, OpsTyped
  <1>2. work' = [work EXCEPT ![w] = d] /\ UNCHANGED <<stays, owed, credentials, overlapped>>
    BY DEF TakesRevision
  <1> HIDE DEF d
  <1>3. /\ work'[w] = d /\ \A v \in Workers \ {w} : work'[v] = work[v]
    BY <1>1, <1>2, WorkGoesOn DEF Workers
  <1>4. ~mending(d)
    BY <1>1 DEF mending
  <1> QED
    BY <1>2, <1>3, <1>4, QuietCodes DEF Workers

LEMMA ReadsTasksCodes ==
  ASSUME OpsInv, CodesCome, NEW p \in Workers, ReadsTasks(p)
  PROVE  CodesCome'
  <1> DEFINE x == work[p]
             d == [x EXCEPT !.plan = {}, !.create = toCreate(x.plan),
                            !.cancel = toCancel(x.plan),
                            !.at = IF p = Console THEN "replan" ELSE "codes"]
  <1>1. x \in Transaction
    BY DEF OpsInv, OpsTyped
  <1>2. toCreate(x.plan) \subseteq TaskKeys /\ toCancel(x.plan) \subseteq TaskKeys
    BY <1>1 DEF toCreate, toCancel, Transaction
  <1>3. d \in Transaction /\ d.at = IF p = Console THEN "replan" ELSE "codes"
    BY <1>1, <1>2 DEF Transaction
  <1>4. work' = [work EXCEPT ![p] = d] /\ UNCHANGED <<stays, owed, credentials, overlapped>>
    BY DEF ReadsTasks
  <1> HIDE DEF d
  <1>5. /\ work'[p] = d /\ \A v \in Workers \ {p} : work'[v] = work[v]
    BY <1>3, <1>4, WorkGoesOn
  <1>6. Console \notin Consumers
    BY OperationsBounds
  <1>7. p \in Consumers => ~mending(d)
    BY <1>3, <1>6 DEF mending
  <1> QED
    BY <1>4, <1>5, <1>7, QuietCodes DEF Workers

\* Who reads the codes has missed none.
LEMMA ReadsCodesCodes ==
  ASSUME OpsInv, CodesCome, NEW w \in Consumers, ReadsCodes(w)
  PROVE  CodesCome'
  <1> DEFINE x == work[w]
             seen == {c \in credentials : c.stay \in x.event.stay}
             d == [x EXCEPT !.active = seen, !.at = "replan"]
  <1>1. x \in Transaction /\ x.at = "codes" /\ seen \subseteq Code
    BY DEF OpsInv, OpsTyped, ReadsCodes, Workers
  <1>2. d \in Transaction /\ d.event = x.event /\ d.active = seen /\ d.at = "replan"
    BY <1>1 DEF Transaction
  <1>3. work' = [work EXCEPT ![w] = d] /\ UNCHANGED <<stays, owed, credentials, overlapped>>
    BY DEF ReadsCodes
  <1>4. \A c \in credentials : c.stay \in x.event.stay => c \in seen
    OBVIOUS
  <1>5. seen \subseteq credentials
    OBVIOUS
  <1> HIDE DEF d, seen
  <1>6. work'[w] = d /\ \A v \in Consumers \ {w} : work'[v] = work[v]
    BY <1>2, <1>3, WorkGoesOn DEF Workers
  <1>7. ASSUME NEW e, NEW c \in credentials, c.stay \in e.stay, Seen(e, c, work)
        PROVE  Seen(e, c, work')
    BY <1>2, <1>4, <1>6, <1>7 DEF Seen
  <1>8. CodesMended(credentials, stays, owed, work', overlapped)
    <2>1. \A c \in credentials : /\ Mended(c, owed, work) => Mended(c, owed, work')
                                 /\ Revoked(c, owed, work) => Revoked(c, owed, work')
      BY <1>7 DEF Mended, Revoked
    <2> QED
      BY <2>1 DEF CodesCome, CodesMended
  <1>9. \A v \in Consumers : Succeeded(work'[v], stays, owed, overlapped)
    <2>1. Succeeded(d, stays, owed, overlapped)
      BY <1>2, <1>5 DEF CodesCome, CodesMended, Revoked, Succeeded
    <2> QED
      BY <1>6, <2>1 DEF CodesCome
  <1> QED
    BY <1>3, <1>8, <1>9 DEF CodesCome, CodesMended, Mended, Revoked, Seen, Succeeded, deed,
                            mending, credentialActionForDiff

\* Who reads the dates will issue what is right, until the next revision.
LEMMA ReadsDatesCodes ==
  ASSUME OpsInv, CodesCome, NEW w \in Consumers, ReadsDates(w)
  PROVE  CodesCome'
  <1> DEFINE x == work[w]
  <1>1. PICK s \in x.event.stay :
          work' = [work EXCEPT ![w] = [x EXCEPT !.dates = bookedDates(s, x.event),
                                                !.at = "reissue"]]
    BY DEF ReadsDates
  <1> DEFINE d == [x EXCEPT !.dates = bookedDates(s, x.event), !.at = "reissue"]
  <1>2. /\ x \in Transaction /\ x.at = "replan"
        /\ bookedDates(s, x.event) = stays[s].dates /\ stays[s].dates \in StayDates
        /\ \A b \in x.active : b.stay = s
    BY BookedTyped DEF OpsInv, OpsTyped, EventsNumbered, ReadsDates, Workers
  <1>3. /\ d \in Transaction /\ d.event = x.event /\ d.active = x.active /\ d.at = "reissue"
        /\ d.dates = stays[s].dates
    BY <1>2 DEF Transaction
  <1>4. work' = [work EXCEPT ![w] = d] /\ UNCHANGED <<stays, owed, credentials, overlapped>>
    BY <1>1 DEF ReadsDates
  <1> HIDE DEF d
  <1>5. work'[w] = d /\ \A v \in Consumers \ {w} : work'[v] = work[v]
    BY <1>3, <1>4, WorkGoesOn DEF Workers
  <1>6. \A e, c : Seen(e, c, work) => Seen(e, c, work')
    BY <1>2, <1>3, <1>5 DEF Seen, mending
  <1>7. CodesMended(credentials, stays, owed, work', overlapped)
    <2>1. \A c : /\ Mended(c, owed, work) => Mended(c, owed, work')
                 /\ Revoked(c, owed, work) => Revoked(c, owed, work')
      BY <1>6 DEF Mended, Revoked
    <2> QED
      BY <2>1 DEF CodesCome, CodesMended
  <1>8. \A v \in Consumers : Succeeded(work'[v], stays, owed, overlapped)
    <2>1. Succeeded(x, stays, owed, overlapped)
      BY DEF CodesCome
    <2>2. Succeeded(d, stays, owed, overlapped)
      BY <1>2, <1>3, <2>1 DEF Succeeded, mending
    <2> QED
      BY <1>5, <2>2 DEF CodesCome
  <1> QED
    BY <1>4, <1>7, <1>8 DEF CodesCome, CodesMended, Mended, Revoked, Seen, Succeeded, deed,
                            mending, credentialActionForDiff

\* Who ends, and does something to the codes of a stay that is not tangled, has nobody
\* beside it that would reissue them, or miss what it reissues.
LEMMA Untangled ==
  ASSUME NEW p \in Workers, NEW s \in work[p].event.stay, s \notin mendedTwice(p),
         NEW v \in Consumers \ {p}, mending(work[v]), s \in work[v].event.stay
  PROVE  /\ deed(work[p].event) = "reissue" => deed(work[v].event) = "none"
         /\ deed(work[p].event) # "none" => deed(work[v].event) # "reissue"
  <1>1. ~tangle(work[p].event, work[v].event)
    BY DEF mendedTwice, mending
  <1> QED
    BY <1>1 DEF tangle, deed

\* The end of a replan: the codes it read are gone, or have the dates it read.
LEMMA ReplansCodes ==
  ASSUME OpsInv, CodesCome, NEW p \in Workers, Replans(p)
  PROVE  CodesCome'
  <1> DEFINE x == work[p]
             e == x.event
  <1>1. /\ mending(x) /\ owed' = owed \ {e} /\ work' = [work EXCEPT ![p] = Rest]
        /\ overlapped' = overlapped \cup mendedTwice(p) /\ stays' = stays
    BY DEF Replans, mending
  <1>2. /\ work'[p] = Rest /\ \A v \in Workers \ {p} : work'[v] = work[v]
    BY <1>1, RestTyped, WorkGoesOn
  <1>3. \A f \in owed : f # NoEvent
    BY RestTyped DEF OpsInv, EventsNumbered
  <1>4. ~mending(Rest)
    BY RestTyped DEF mending
  <1>5. \A f, c : Seen(f, c, work) => Seen(f, c, work')
    BY <1>2, <1>4 DEF Seen, Workers
  <1>6. \A c \in credentials' :
          \/ c \in credentials /\ (action(p) # "none" => c \notin x.active)
          \/ /\ action(p) = "reissue" /\ x.at = "reissue"
             /\ \E b \in x.active : c = reissued(b, x.dates)
    BY DEF Replans, action, credentialActionForDiff
  <1>7. action(p) # "none" => p \in Consumers /\ x.active # {} /\ action(p) = deed(e)
    BY ReissuesAreConsumers DEF action, deed, credentialActionForDiff
  \* An event that mends a code that stays is not the one that was consumed.
  <1>8. ASSUME NEW c \in credentials, action(p) # "none" => c \notin x.active,
               NEW f \in owed, deed(f) # "none", Seen(f, c, work)
        PROVE  f \in owed'
    <2>1. CASE p \notin Consumers
      <3>1. e = NoEvent
        BY <2>1 DEF OpsInv, EventsNumbered, Workers
      <3> QED
        BY <1>1, <1>3, <3>1
    <2>2. CASE p \in Consumers
      <3>1. ASSUME f = e PROVE FALSE
        <4>1. c \in x.active
          BY <1>1, <1>8, <2>2, <3>1 DEF Seen
        <4>2. action(p) # "none"
          BY <1>8, <3>1, <4>1 DEF action, deed
        <4> QED
          BY <1>8, <4>1, <4>2
      <3> QED
        BY <1>1, <3>1
    <2> QED
      BY <2>1, <2>2
  \* Nobody has read the codes of an event that comes after a reissue.
  <1>9. ASSUME action(p) = "reissue", NEW b \in x.active, b.stay \notin overlapped',
               NEW f \in owed, f # e, b.stay \in f.stay, deed(f) # "none", NEW c
        PROVE  f \in owed' /\ Seen(f, c, work')
    <2>1. deed(e) = "reissue" /\ b.stay \in e.stay /\ b.stay \notin mendedTwice(p)
      BY <1>1, <1>7, <1>9 DEF OpsInv, EventsNumbered
    <2>2. ASSUME NEW v \in Consumers, work'[v].event = f, mending(work'[v]) PROVE FALSE
      <3>1. v # p /\ work'[v] = work[v]
        BY <1>2, <1>4, <2>2 DEF Workers
      <3>2. deed(work[v].event) = "none"
        BY <1>9, <2>1, <2>2, <3>1, Untangled
      <3> QED
        BY <1>9, <2>2, <3>1, <3>2
    <2> QED
      BY <1>1, <1>9, <2>2 DEF Seen
  <1>10. Succeeded(x, stays, owed, overlapped) \/ p \notin Consumers
    BY DEF CodesCome
  <1>11. ASSUME action(p) = "reissue" PROVE x.at = "reissue" /\ x.dates \in StayDates
    BY <1>7, <1>11 DEF Replans, OpsInv, EventsNumbered
  <1>12. CodesMended(credentials', stays, owed', work', overlapped')
    <2>1. ASSUME NEW c \in credentials', c.stay \notin overlapped', c.by # "desk",
                 c.dates # stays[c.stay].dates
          PROVE  Mended(c, owed', work')
      <3>1. CASE c \in credentials /\ (action(p) # "none" => c \notin x.active)
        <4>1. PICK f \in owed : c.stay \in f.stay /\ deed(f) # "none" /\ Seen(f, c, work)
          BY <1>1, <2>1, <3>1 DEF CodesCome, CodesMended, Mended
        <4> QED
          BY <1>5, <1>8, <3>1, <4>1 DEF Mended
      <3>2. ASSUME action(p) = "reissue", NEW b \in x.active, c = reissued(b, x.dates)
            PROVE  Mended(c, owed', work')
        <4>1. c.stay = b.stay /\ c.dates = x.dates
          BY <1>11, <3>2, ReissuedTyped
        <4>2. PICK f \in owed : f # e /\ b.stay \in f.stay /\ deed(f) # "none"
          BY <1>1, <1>7, <1>10, <1>11, <2>1, <3>2, <4>1 DEF Succeeded
        <4> QED
          BY <1>9, <2>1, <3>2, <4>1, <4>2 DEF Mended
      <3> QED
        BY <1>6, <3>1, <3>2
    <2>2. ASSUME NEW c \in credentials', c.stay \notin overlapped', c.root # "desk",
                 stays[c.stay].status = "cancelled"
          PROVE  Revoked(c, owed', work')
      <3>1. CASE c \in credentials /\ (action(p) # "none" => c \notin x.active)
        <4>1. PICK f \in owed : c.stay \in f.stay /\ f.status = "cancelled" /\ Seen(f, c, work)
          BY <1>1, <2>2, <3>1 DEF CodesCome, CodesMended, Revoked
        <4>2. deed(f) # "none"
          BY <4>1, CancelsRevoke
        <4> QED
          BY <1>5, <1>8, <3>1, <4>1, <4>2 DEF Revoked
      <3>2. ASSUME action(p) = "reissue", NEW b \in x.active, c = reissued(b, x.dates)
            PROVE  Revoked(c, owed', work')
        <4>1. c.stay = b.stay /\ c.root = b.root
          BY <1>11, <3>2, ReissuedTyped
        <4>2. PICK f \in owed : b.stay \in f.stay /\ f.status = "cancelled"
          BY <1>1, <1>7, <1>10, <2>2, <3>2, <4>1 DEF Succeeded
        <4>3. deed(f) = "revoke" /\ f # e
          BY <1>7, <3>2, <4>2, CancelsRevoke
        <4> QED
          BY <1>9, <2>2, <3>2, <4>1, <4>2, <4>3 DEF Revoked
      <3> QED
        BY <1>6, <3>1, <3>2
    <2> QED
      BY <2>1, <2>2 DEF CodesMended
  <1>13. ASSUME NEW v \in Consumers PROVE Succeeded(work'[v], stays, owed', overlapped')
    <2>1. CASE v = p
      BY <1>2, <1>4, <2>1 DEF Succeeded
    <2>2. CASE v # p
      <3>1. work'[v] = work[v] /\ Succeeded(work[v], stays, owed, overlapped)
        BY <1>2, <2>2 DEF CodesCome, Workers
      <3>2. ASSUME mending(work[v]), deed(work[v].event) = "reissue", NEW b \in work[v].active,
                   b.stay \notin overlapped', NEW f \in owed, b.stay \in f.stay,
                   deed(f) # "none"
            PROVE  f \in owed'
        <4>1. b.stay \in work[v].event.stay /\ b.stay \notin mendedTwice(p)
          BY <1>1, <3>2 DEF OpsInv, EventsNumbered
        <4>2. f # e
          BY <2>2, <3>2, <4>1, Untangled
        <4> QED
          BY <1>1, <4>2
      <3>3. \A f : f.status = "cancelled" => deed(f) # "none"
        BY CancelsRevoke
      <3> QED
        BY <1>1, <3>1, <3>2, <3>3 DEF Succeeded
    <2> QED
      BY <2>1, <2>2
  <1> QED
    BY <1>1, <1>12, <1>13 DEF CodesCome, CodesMended, Mended, Revoked, Seen, Succeeded, deed,
                              mending, credentialActionForDiff

\* The event of a revision mends every code it leaves behind, and succeeds every reissue.
LEMMA RevisesCodes ==
  ASSUME OpsInv, CodesCome, NEW s \in Stays, NEW dates \in StayDates,
         NEW status \in {"new", "modified", "cancelled"}, Revises(s, status, dates)
  PROVE  CodesCome'
  <1> DEFINE row == [status |-> status, dates |-> dates]
             issued == code(s, dates, "engine", "engine")
  <1>1. /\ stays' = [stays EXCEPT ![s] = row] /\ owed \subseteq owed' /\ work' = work
        /\ overlapped' = overlapped
        /\ status = "new" <=> stays[s].status = "none"
        /\ \A c \in credentials' : c \in credentials \/ (status = "new" /\ c = issued)
    BY DEF Revises
  <1>2. row.status = status /\ row.dates = dates /\ issued.stay = s /\ issued.dates = dates
    BY DEF code
  <1>3. PICK e \in owed' : RevisionOf(e, s, status, dates, stays[s], work')
    BY RevisionIsOwed
  <1> HIDE DEF row, issued
  <1>4. stays'[s] = row /\ \A q \in Stays \ {s} : stays'[q] = stays[q]
    BY <1>1 DEF OpsInv, OpsTyped
  <1>5. /\ \A c : Seen(e, c, work)
        /\ e.stay = {s} /\ \A w \in Consumers : work[w].event # e
    BY <1>1, <1>3 DEF Seen, RevisionOf
  <1>6. \A c : /\ Mended(c, owed, work) => Mended(c, owed', work)
               /\ Revoked(c, owed, work) => Revoked(c, owed', work)
    BY <1>1 DEF Mended, Revoked
  \* What it does to the stay's dates and status, it says.
  <1>7. ASSUME NEW q \in Stays, stays[q].status # "none"
        PROVE  /\ stays'[q].dates = stays[q].dates \/ (q = s /\ deed(e) # "none")
               /\ \/ stays'[q].status = "cancelled" => stays[q].status = "cancelled"
                  \/ q = s /\ e.status = "cancelled"
    <2>1. CASE q # s
      BY <1>4, <2>1
    <2>2. CASE q = s
      <3>1. stays'[q].dates = dates /\ stays'[q].status = status
        BY <1>2, <1>4, <2>2
      <3>2. /\ e.moved = (dates # stays[q].dates)
            /\ e.status = IF status = stays[q].status THEN "" ELSE status
        BY <1>3, <1>7, <2>2 DEF RevisionOf
      <3>3. e.moved => deed(e) # "none"
        BY DEF deed, credentialActionForDiff
      <3> QED
        BY <2>2, <3>1, <3>2, <3>3
    <2> QED
      BY <2>1, <2>2
  <1>8. ASSUME NEW c \in credentials', c.by # "desk", c.dates # stays'[c.stay].dates,
               c.stay \notin overlapped
        PROVE  Mended(c, owed', work)
    <2>1. c \in credentials /\ c.stay \in Stays /\ stays[c.stay].status # "none"
      <3>1. c # issued
        BY <1>2, <1>4, <1>8
      <3> QED
        BY <1>1, <1>8, <3>1 DEF OpsInv, OpsTyped, CodesKnown, Code
    <2>2. CASE c.stay = s /\ deed(e) # "none"
      BY <1>5, <2>2 DEF Mended
    <2>3. CASE stays'[c.stay].dates = stays[c.stay].dates
      BY <1>6, <1>8, <2>1, <2>3 DEF CodesCome, CodesMended
    <2> QED
      BY <1>7, <2>1, <2>2, <2>3
  <1>9. ASSUME NEW c \in credentials', c.root # "desk", stays'[c.stay].status = "cancelled",
               c.stay \notin overlapped
        PROVE  Revoked(c, owed', work)
    <2>1. c \in credentials /\ c.stay \in Stays /\ stays[c.stay].status # "none"
      <3>1. ~(status = "new" /\ c = issued)
        BY <1>2, <1>4, <1>9
      <3> QED
        BY <1>1, <1>9, <3>1 DEF OpsInv, OpsTyped, CodesKnown, Code
    <2>2. CASE c.stay = s /\ e.status = "cancelled"
      BY <1>5, <2>2 DEF Revoked
    <2>3. CASE stays[c.stay].status = "cancelled"
      BY <1>6, <1>9, <2>1, <2>3 DEF CodesCome, CodesMended
    <2> QED
      BY <1>7, <1>9, <2>1, <2>2, <2>3
  <1>10. ASSUME NEW w \in Consumers PROVE Succeeded(work[w], stays', owed', overlapped)
    <2>1. \A b \in work[w].active : b.stay \in Stays /\ stays[b.stay].status # "none"
      BY DEF OpsInv, OpsTyped, CodesKnown, Transaction, Code, Workers
    <2>2. Succeeded(work[w], stays, owed, overlapped)
      BY DEF CodesCome
    <2>3. ASSUME NEW b \in work[w].active, b.stay \notin overlapped, mending(work[w]),
                 deed(work[w].event) = "reissue", work[w].at = "reissue",
                 work[w].dates # stays'[b.stay].dates
          PROVE  \E f \in owed' : f # work[w].event /\ b.stay \in f.stay /\ deed(f) # "none"
      <3>1. CASE b.stay = s /\ deed(e) # "none"
        BY <1>5, <3>1
      <3>2. CASE stays'[b.stay].dates = stays[b.stay].dates
        BY <1>1, <2>2, <2>3, <3>2 DEF Succeeded
      <3> QED
        BY <1>7, <2>1, <3>1, <3>2
    <2>4. ASSUME NEW b \in work[w].active, b.stay \notin overlapped, mending(work[w]),
                 deed(work[w].event) = "reissue", b.root # "desk",
                 stays'[b.stay].status = "cancelled"
          PROVE  \E f \in owed' : b.stay \in f.stay /\ f.status = "cancelled"
      <3>1. CASE b.stay = s /\ e.status = "cancelled"
        BY <1>5, <3>1
      <3>2. CASE stays[b.stay].status = "cancelled"
        BY <1>1, <2>2, <2>4, <3>2 DEF Succeeded
      <3> QED
        BY <1>7, <2>1, <2>4, <3>1, <3>2
    <2> QED
      BY <2>3, <2>4 DEF Succeeded
  <1>11. CodesMended(credentials', stays', owed', work, overlapped)
    <2> SUFFICES ASSUME NEW c \in credentials', c.stay \notin overlapped
                 PROVE  /\ c.by # "desk" /\ c.dates # stays'[c.stay].dates
                             => Mended(c, owed', work)
                        /\ c.root # "desk" /\ stays'[c.stay].status = "cancelled"
                             => Revoked(c, owed', work)
      BY DEF CodesMended
    <2> QED
      BY <1>8, <1>9
  <1>12. work' = work /\ overlapped' = overlapped
    BY <1>1
  <1>13. CodesMended(credentials', stays', owed', work', overlapped')
    BY <1>11, <1>12
  <1>14. \A w \in Consumers : Succeeded(work'[w], stays', owed', overlapped')
    BY <1>10, <1>12
  <1> QED
    BY <1>13, <1>14 DEF CodesCome, CodesMended, Mended, Revoked, Seen, Succeeded, deed,
                              mending, credentialActionForDiff

LEMMA ConsoleCodes ==
  ASSUME OpsInv, CodesCome,
         \A c \in work[Console].active : work[Console].at = "issue" =>
           c.by = "desk" /\ c.root = "desk",
         \/ DeskReplans \/ MovesTask \/ DeskIssues
         \/ \E k \in TaskKeys : \E to \in TRANSITIONS[tasks[k]] : LooksAtTask(k, to)
         \/ \E s \in Stays : ReadsStay(s)
         \/ \E c \in credentials : DeskRevokes(c)
  PROVE  CodesCome'
  <1>1. UNCHANGED <<stays, owed, overlapped>> /\ \A w \in Consumers : work'[w] = work[w]
    BY ConsoleAlone
  <1>2. \A c \in credentials' : c \in credentials \/ (c.by = "desk" /\ c.root = "desk")
    BY DEF DeskReplans, MovesTask, DeskIssues, LooksAtTask, ReadsStay, DeskRevokes
  <1> QED
    BY <1>1, <1>2, QuietCodes

\* What the desk is about to issue is the desk's.
DeskIssuesItsOwn ==
  work[Console].at = "issue" => \A c \in work[Console].active : c.by = "desk" /\ c.root = "desk"

LEMMA DeskInvariant == OpsSpec => []DeskIssuesItsOwn
  <1>1. OpsInit => DeskIssuesItsOwn
    BY RestTyped DEF OpsInit, DeskIssuesItsOwn
  <1>2. OpsInv /\ DeskIssuesItsOwn /\ [OpsNext]_opsVars => DeskIssuesItsOwn'
    <2> SUFFICES ASSUME OpsInv, DeskIssuesItsOwn, [OpsNext]_opsVars PROVE DeskIssuesItsOwn'
      OBVIOUS
    <2>1. Console \in Workers /\ Console \notin Consumers /\ work \in [Workers -> Transaction]
      BY OperationsBounds DEF OpsInv, OpsTyped, Workers
    <2>2. ASSUME NEW p \in Workers, NEW d, work' = [work EXCEPT ![p] = d],
                 p = Console => d.at # "issue"
          PROVE  DeskIssuesItsOwn'
      BY <2>1, <2>2 DEF DeskIssuesItsOwn
    <2>3. ASSUME NEW s \in Stays, ReadsStay(s) PROVE DeskIssuesItsOwn'
      <3> DEFINE c == code(s, stays[s].dates, "desk", "desk")
                 d == [Rest EXCEPT !.at = "issue", !.active = {c}]
      <3>1. c.by = "desk" /\ c.root = "desk"
        BY DEF code
      <3>2. d.active = {c}
        BY RestTyped DEF Transaction
      <3>3. work' = [work EXCEPT ![Console] = d]
        BY <2>3 DEF ReadsStay
      <3> HIDE DEF c, d
      <3> QED
        BY <2>1, <3>1, <3>2, <3>3 DEF DeskIssuesItsOwn
    <2>4. ASSUME NEW p \in Workers, Replans(p) \/ RollsBackOps(p) PROVE DeskIssuesItsOwn'
      <3>1. work' = [work EXCEPT ![p] = Rest] /\ Rest.at # "issue"
        BY <2>4, RestTyped DEF Replans, RollsBackOps
      <3> QED
        BY <2>2, <3>1
    <2>5. ASSUME NEW p \in Workers, ReadsTasks(p) PROVE DeskIssuesItsOwn'
      <3> DEFINE x == work[p]
                 d == [x EXCEPT !.plan = {}, !.create = toCreate(x.plan),
                                !.cancel = toCancel(x.plan),
                                !.at = IF p = Console THEN "replan" ELSE "codes"]
      <3>1. work' = [work EXCEPT ![p] = d] /\ x \in Transaction
        BY <2>1, <2>5 DEF ReadsTasks
      <3>2. p = Console => d.at = "replan"
        BY <3>1 DEF Transaction
      <3> HIDE DEF d
      <3> QED
        BY <2>2, <3>1, <3>2
    <2>6. ASSUME NEW w \in Consumers,
                 ReadsCodes(w) \/ ReadsDates(w) \/ \E e \in owed : TakesRevision(w, e)
          PROVE  DeskIssuesItsOwn'
      <3>1. \E d : work' = [work EXCEPT ![w] = d]
        BY <2>6 DEF ReadsCodes, ReadsDates, TakesRevision
      <3> QED
        BY <2>1, <2>2, <3>1 DEF Workers
    <2>7. CASE DeskReplans \/ MovesTask \/ DeskIssues
      <3>1. \E d : work' = [work EXCEPT ![Console] = d] /\ d.at # "issue"
        <4> DEFINE d == [Rest EXCEPT !.at = "tasks", !.plan = planTurnovers]
        <4>1. d.at = "tasks" /\ Rest.at = "rest"
          BY RestTyped DEF Transaction
        <4>2. CASE DeskReplans
          BY <4>1, <4>2 DEF DeskReplans
        <4>3. CASE MovesTask \/ DeskIssues
          BY <4>1, <4>3 DEF MovesTask, DeskIssues
        <4> QED
          BY <2>7, <4>2, <4>3
      <3> QED
        BY <2>1, <2>2, <3>1
    <2>8. ASSUME NEW k \in TaskKeys, NEW to, LooksAtTask(k, to) PROVE DeskIssuesItsOwn'
      <3> DEFINE d == [Rest EXCEPT !.at = "move", !.key = {k}, !.to = to]
      <3>1. d.at = "move" /\ work' = [work EXCEPT ![Console] = d]
        BY <2>8, RestTyped DEF LooksAtTask, Transaction
      <3> HIDE DEF d
      <3> QED
        BY <2>1, <2>2, <3>1
    <2>9. ASSUME work' = work PROVE DeskIssuesItsOwn'
      BY <2>9 DEF DeskIssuesItsOwn
    <2>10. ASSUME UNCHANGED opsVars \/ (\E c \in credentials : DeskRevokes(c))
                  \/ \E s \in Stays, d \in StayDates, status \in {"new", "modified", "cancelled"} :
                       Revises(s, status, d)
           PROVE  DeskIssuesItsOwn'
      BY <2>9, <2>10 DEF opsVars, DeskRevokes, Revises
    <2> QED
      BY <2>3, <2>4, <2>5, <2>6, <2>7, <2>8, <2>10 DEF OpsNext, Workers
  <1> QED
    BY <1>1, <1>2, OpsInvariant, PTL DEF OpsSpec

\* INV-14, for any number of consumers: once the revisions of a stay are consumed, and no two
\* of them tangled over its codes, no code is left for dates it no longer has, nor for a
\* cancelled stay, however often and in whatever order they were tried and whatever the desk
\* issues, revokes and replans.
THEOREM CodesFollow == OpsSpec => []CodesFollowStays
  <1>1. OpsInit => CodesCome
    BY RestTyped DEF OpsInit, CodesCome, CodesMended, Succeeded, mending, Workers
  <1>2. OpsInv /\ DeskIssuesItsOwn /\ CodesCome /\ [OpsNext]_opsVars => CodesCome'
    <2> SUFFICES ASSUME OpsInv, DeskIssuesItsOwn, CodesCome, [OpsNext]_opsVars PROVE CodesCome'
      OBVIOUS
    <2>1. ASSUME NEW p \in Workers, RollsBackOps(p) PROVE CodesCome'
      <3>1. /\ work' = [work EXCEPT ![p] = Rest]
            /\ UNCHANGED <<stays, owed, credentials, overlapped>>
        BY <2>1 DEF RollsBackOps
      <3>2. /\ work'[p] = Rest /\ ~mending(Rest)
            /\ \A v \in Workers \ {p} : work'[v] = work[v]
        BY <3>1, RestTyped, WorkGoesOn DEF mending
      <3> QED
        BY <3>1, <3>2, QuietCodes DEF Workers
    <2>2. CASE UNCHANGED opsVars
      BY <2>2, QuietCodes DEF opsVars
    <2>3. CASE OpsNext
      BY <2>1, <2>3, RevisesCodes, TakesCodes, ReadsCodesCodes, ReadsDatesCodes,
         ReadsTasksCodes, ReplansCodes, ConsoleCodes DEF OpsNext, Workers, DeskIssuesItsOwn
    <2> QED
      BY <2>2, <2>3
  <1>3. CodesCome => CodesFollowStays
    BY DEF CodesCome, CodesMended, Mended, Revoked, CodesFollowStays
  <1> QED
    BY <1>1, <1>2, <1>3, OpsInvariant, DeskInvariant, PTL DEF OpsSpec
=============================================================================
