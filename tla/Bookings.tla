------------------------------ MODULE Bookings ------------------------------
(***************************************************************************)
(* Bookings of one property, from the channel manager's feed to the        *)
(* availability they leave: ingestProperty and ackSweep                    *)
(* (packages/core/src/reservations/ingest.ts), the tables they write, the  *)
(* outbox, and deriveAvailability, its consumer.                           *)
(*                                                                         *)
(* Every repository call is a transaction of its own, so a pull is a       *)
(* sequence of steps that other workers, the sweep and the provider        *)
(* interleave with.  Revisions are numbered by their system id; a booking  *)
(* is, for availability, the rooms of one room type it takes each night.   *)
(* Five minutes pass at some point; times are not modelled otherwise.      *)
(***************************************************************************)
EXTENDS Integers, FiniteSets

CONSTANTS Revisions,     \* system ids
          Bookings,
          Nights,        \* the dates of the room type
          bookingOf,     \* the booking of a revision
          insertedAt,    \* when the provider inserted a revision
          roomsOf,       \* the rooms a revision books on a night: none if it cancels
          CountOfRooms,
          PageSize,      \* revisions in a page of the feed
          Workers,       \* consumers of the queue booking.process
          RetriesFailed, \* a job that throws is tried again: by Cloudflare Queues; not by
                         \* BullMQ, whose events are added without attempts
          MaxFaults      \* bound: errors, crashes and repeated deliveries

None == 0

ASSUME RevisionsAssumption ==
  /\ Revisions \subseteq Nat \ {None}
  /\ bookingOf \in [Revisions -> Bookings]
  /\ insertedAt \in [Revisions -> Nat]
  /\ IsFiniteSet(Bookings)
ASSUME RoomsAssumption ==
  /\ roomsOf \in [Revisions -> [Nights -> Nat]]
  /\ CountOfRooms \in Nat
  /\ PageSize \in Nat \ {0} /\ MaxFaults \in Nat /\ RetriesFailed \in BOOLEAN

VARIABLES emitted,     \* provider: revisions it has put in the feed
          unacked,     \* provider: those of them that are still there
          stored,      \* booking_revision: the rows
          marked,      \* booking_revision: the rows with an acked_at
          old,         \* booking_revision: the rows received five minutes ago
          projection,  \* booking: the revision each one shows
          available,   \* availability_day
          outbox,      \* booking.revision_applied: events not published
          queue,       \* and events published, not taken by a worker
          claimed,     \* processed_event: revisions whose event has been consumed
          job,         \* what each worker is doing
          sweep,       \* what booking.ack_sweep is doing
          faults,
          overtaken,   \* history: bookings written over a projection nobody had compared with
          disturbed    \* history: nights whose availability may be left wrong, and how:
                       \* see `missed', `crossed' and Throws

provider == <<emitted, unacked>>
tables == <<stored, marked, old, projection>>
derived == <<available, claimed>>
events == <<outbox, queue>>
history == <<overtaken, disturbed>>
vars == <<provider, tables, derived, events, job, sweep, faults, history>>

Events == [rev : Revisions, nights : SUBSET Nights]

\* A worker's job: `at' is the call it makes next.  A pull holds the page's
\* revisions it has yet to see, those it has seen, the page it reads next (none:
\* the feed ends here), its revision and the projection it loaded for it; a
\* derivation holds its event and the booked nights it read.
Jobs == [at : {"idle", "list", "find", "load", "apply", "ack", "mark", "derive", "write"},
         page : SUBSET Revisions, seen : SUBSET Revisions, next : Nat,
         rev : Revisions \cup {None}, prev : Revisions \cup {None},
         nights : SUBSET Nights, booked : [Nights -> Nat]]
Idle == [at |-> "idle", page |-> {}, seen |-> {}, next |-> 0, rev |-> None, prev |-> None,
         nights |-> {}, booked |-> [n \in Nights |-> 0]]

Sweeps == [at : {"idle", "ack", "mark"}, left : SUBSET Revisions, rev : Revisions \cup {None}]
NoSweep == [at |-> "idle", left |-> {}, rev |-> None]

Init ==
  /\ emitted = {} /\ unacked = {}
  /\ stored = {} /\ marked = {} /\ old = {}
  /\ projection = [b \in Bookings |-> None]
  /\ available = [n \in Nights |-> CountOfRooms]
  /\ outbox = {} /\ queue = {} /\ claimed = {}
  /\ job = [w \in Workers |-> Idle] /\ sweep = NoSweep
  /\ faults = 0 /\ overtaken = {} /\ disturbed = {}

-----------------------------------------------------------------------------
(* Operators *)

\* Mutant of isNewerThan: a revision inserted at the same time is not newer.
isNewerByTime(r, prev) == prev # None => insertedAt[r] > insertedAt[prev]

\* isNewerThan: by (inserted_at, system_id); any revision is newer than no booking.
isNewerThan(r, prev) ==
  prev # None => \/ insertedAt[r] > insertedAt[prev]
                 \/ insertedAt[r] = insertedAt[prev] /\ r > prev

rooms(r, n) == IF r = None THEN 0 ELSE roomsOf[r][n]

\* bookedNights of a projection; the same night of two rooms is one element.
bookedNights(r) == {n \in Nights : rooms(r, n) > 0}

\* Mutant of touched: the nights a modification gives back are forgotten.
nightsAdded(prev, r) == bookedNights(r) \ bookedNights(prev)

\* diffProjection's nightsAdded and nightsRemoved together, what deriveAvailability
\* takes of the diff.
touched(prev, r) ==
  (bookedNights(r) \ bookedNights(prev)) \cup (bookedNights(prev) \ bookedNights(r))

\* booking_room_day: the confirmed rows of a night, one for each room of each booking, as
\* the transaction that wrote the projection left them.
bookingRoomDay(n) == UNION {{b} \X (1 .. rooms(projection[b], n)) : b \in Bookings}

\* bookedNightsByRoomType: the rows counted.
bookedNightsByRoomType == [n \in Nights |-> Cardinality(bookingRoomDay(n))]

\* History: the nights that a transaction which puts revision r in the place of the booking's
\* projection changes and its event, made with the projection it had loaded, does not name.
missed(prev, r) ==
  {n \in Nights : rooms(projection[bookingOf[r]], n) # rooms(r, n)} \ touched(prev, r)

\* History: the nights worker w writes while another one is to write what it read before.
crossed(w) ==
  {n \in job[w].nights : \E v \in Workers \ {w} : job[v].at = "write" /\ n \in job[v].nights}

\* Mutant of computeAvailable: the clamp at zero is missing.
computeUnclamped(booked) == CountOfRooms - booked

\* computeAvailable, as deriveAvailability calls it: nothing but bookings counts.
computeAvailable(booked) == IF booked > CountOfRooms THEN 0 ELSE CountOfRooms - booked

\* listBookingRevisions: the feed holds the unacked revisions, the oldest first.
Before(q, r) == insertedAt[q] < insertedAt[r] \/ (insertedAt[q] = insertedAt[r] /\ q < r)
Place(r) == Cardinality({q \in unacked : Before(q, r)})
FeedPage(page) == {r \in unacked : (page - 1) * PageSize <= Place(r) /\ Place(r) < page * PageSize}
NextPage(page) == IF page * PageSize < Cardinality(unacked) THEN page + 1 ELSE 0

\* Mutant of listUnacked: the comparison with five minutes ago is turned around.
listUnackedRecent == (stored \ marked) \ old

\* listUnacked, five minutes ago.
listUnacked == (stored \ marked) \cap old

Becomes(w, j) == job' = [job EXCEPT ![w] = j]
Fault == faults < MaxFaults /\ faults' = faults + 1

-----------------------------------------------------------------------------
(* The provider *)

\* A revision appears in the feed; revisions may appear out of their order.
Emit(r) ==
  /\ r \notin emitted
  /\ emitted' = emitted \cup {r} /\ unacked' = unacked \cup {r}
  /\ UNCHANGED <<tables, derived, events, job, sweep, faults, history>>

\* ackBookingRevisions for one revision: it leaves the feed, or the call fails before
\* or after that.  Acking twice is no error.
AckedByProvider(r) == unacked' = unacked \ {r} /\ UNCHANGED <<emitted, faults>>
AckFails(r) == Fault /\ unacked' \in {unacked, unacked \ {r}} /\ UNCHANGED emitted

-----------------------------------------------------------------------------
(* ingestProperty *)

\* A poll or a webhook starts a pull; the feed is read from its first page.
Pull(w) ==
  /\ job[w].at = "idle"
  /\ Becomes(w, [job[w] EXCEPT !.at = "list", !.next = 1])
  /\ UNCHANGED <<provider, tables, derived, events, sweep, faults, history>>

\* A page of the feed, less what this pull has seen.
List(w) ==
  /\ job[w].at = "list"
  /\ Becomes(w, [job[w] EXCEPT !.at = "find", !.page = FeedPage(job[w].next) \ job[w].seen,
                               !.next = NextPage(job[w].next)])
  /\ UNCHANGED <<provider, tables, derived, events, sweep, faults, history>>

\* findRevisionBySystemId for the next revision of the page: acked is skipped, stored is
\* acked again, new is applied.  A page that brings a revision this pull has not seen
\* sends it back to the first page, if there is another one.
Find(w, r) ==
  /\ job[w].at = "find" /\ r \in job[w].page
  /\ \A q \in job[w].page : ~Before(q, r)
  /\ Becomes(w, [job[w] EXCEPT !.at = IF r \in marked THEN "find"
                                       ELSE IF r \in stored THEN "ack" ELSE "load",
                               !.page = @ \ {r}, !.seen = @ \cup {r},
                               !.next = IF @ = 0 THEN 0 ELSE 1, !.rev = r])
  /\ UNCHANGED <<provider, tables, derived, events, sweep, faults, history>>

\* The page is done: on to the next one, or the pull ends.
PageDone(w) ==
  /\ job[w].at = "find" /\ job[w].page = {}
  /\ Becomes(w, IF job[w].next = 0 THEN Idle ELSE [job[w] EXCEPT !.at = "list"])
  /\ UNCHANGED <<provider, tables, derived, events, sweep, faults, history>>

\* applyOne: loadProjection.
Load(w) ==
  /\ job[w].at = "load"
  /\ Becomes(w, [job[w] EXCEPT !.at = "apply", !.prev = projection[bookingOf[job[w].rev]]])
  /\ UNCHANGED <<provider, tables, derived, events, sweep, faults, history>>

\* What makes applyRevision's transaction fail: system_id is unique, and the rooms of a
\* booking that another transaction has created since would carry an id it does not have.
Rejected(w) ==
  LET r == job[w].rev IN
  \/ r \in stored
  \/ job[w].prev = None /\ projection[bookingOf[r]] # None

\* applyOne: applyRevision with a newer revision, which rewrites the booking and its
\* nights and enqueues the diff from the projection that was loaded ...
Apply(w) ==
  LET r == job[w].rev IN
  /\ job[w].at = "apply" /\ ~Rejected(w) /\ isNewerThan(r, job[w].prev)
  /\ stored' = stored \cup {r}
  /\ projection' = [projection EXCEPT ![bookingOf[r]] = r]
  /\ outbox' = outbox \cup {[rev |-> r, nights |-> touched(job[w].prev, r)]}
  /\ Becomes(w, [job[w] EXCEPT !.at = "ack", !.prev = None])
  /\ overtaken' = IF job[w].prev = projection[bookingOf[r]] THEN overtaken
                   ELSE overtaken \cup {bookingOf[r]}
  /\ disturbed' = disturbed \cup missed(job[w].prev, r)
  /\ UNCHANGED <<provider, marked, old, derived, queue, sweep, faults>>

\* ... or with a stale one, which is kept for the history only.
ApplyStale(w) ==
  LET r == job[w].rev IN
  /\ job[w].at = "apply" /\ ~Rejected(w) /\ ~isNewerThan(r, job[w].prev)
  /\ stored' = stored \cup {r}
  /\ Becomes(w, [job[w] EXCEPT !.at = "ack", !.prev = None])
  /\ UNCHANGED <<provider, marked, old, projection, derived, events, sweep, faults, history>>

\* Mutant of ApplyRejected: the error is swallowed and the revision acked.
ApplyRejectedQuietly(w) ==
  /\ job[w].at = "apply"
  /\ \/ Rejected(w) /\ UNCHANGED faults
     \/ Fault
  /\ Becomes(w, [job[w] EXCEPT !.at = "ack", !.prev = None])
  /\ UNCHANGED <<provider, tables, derived, events, sweep, history>>

\* The transaction fails, or the database does: the job fails, the next pull tries again.
ApplyRejected(w) ==
  /\ job[w].at = "apply"
  /\ \/ Rejected(w) /\ UNCHANGED faults
     \/ Fault
  /\ Becomes(w, Idle)
  /\ UNCHANGED <<provider, tables, derived, events, sweep, history>>

\* ack: the provider first, then markAcked; a failure of either is logged.
Ack(w) ==
  /\ job[w].at = "ack"
  /\ \/ AckedByProvider(job[w].rev) /\ Becomes(w, [job[w] EXCEPT !.at = "mark"])
     \/ AckFails(job[w].rev) /\ Becomes(w, [job[w] EXCEPT !.at = "find", !.rev = None])
  /\ UNCHANGED <<tables, derived, events, sweep, history>>

Mark(w) ==
  /\ job[w].at = "mark"
  /\ \/ marked' = marked \cup {job[w].rev} /\ UNCHANGED faults
     \/ Fault /\ UNCHANGED marked
  /\ Becomes(w, [job[w] EXCEPT !.at = "find", !.rev = None])
  /\ UNCHANGED <<provider, stored, old, projection, derived, events, sweep, history>>

-----------------------------------------------------------------------------
(* ackSweep *)

\* Time passes: every revision stored so far was received five minutes ago.
FiveMinutes ==
  /\ old # stored
  /\ old' = stored
  /\ UNCHANGED <<provider, stored, marked, projection, derived, events, job, sweep, faults,
                 history>>

SweepStarts ==
  /\ sweep.at = "idle" /\ listUnacked # {}
  /\ sweep' = [NoSweep EXCEPT !.at = "ack", !.left = listUnacked]
  /\ UNCHANGED <<provider, tables, derived, events, job, faults, history>>

\* One revision of the list: the provider, then markAcked; a failure goes on to the next.
NextRevision(left) == IF left = {} THEN NoSweep ELSE [at |-> "ack", left |-> left, rev |-> None]

SweepAcks(r) ==
  /\ sweep.at = "ack" /\ r \in sweep.left
  /\ \/ AckedByProvider(r) /\ sweep' = [at |-> "mark", left |-> sweep.left \ {r}, rev |-> r]
     \/ AckFails(r) /\ sweep' = NextRevision(sweep.left \ {r})
  /\ UNCHANGED <<tables, derived, events, job, history>>

SweepMarks ==
  /\ sweep.at = "mark"
  /\ \/ marked' = marked \cup {sweep.rev} /\ UNCHANGED faults
     \/ Fault /\ UNCHANGED marked
  /\ sweep' = NextRevision(sweep.left)
  /\ UNCHANGED <<provider, stored, old, projection, derived, events, job, history>>

-----------------------------------------------------------------------------
(* The outbox and deriveAvailability *)

\* drainOutbox: the event is published; if marking it fails it stays to be published again.
Publish(e) ==
  /\ e \in outbox
  /\ queue' = queue \cup {e}
  /\ \/ outbox' = outbox \ {e} /\ UNCHANGED faults
     \/ Fault /\ UNCHANGED outbox
  /\ UNCHANGED <<provider, tables, derived, job, sweep, history>>

\* A worker takes an event; one whose diff touches no night needs nothing derived.
Take(w, e) ==
  /\ job[w].at = "idle" /\ e \in queue
  /\ queue' = queue \ {e}
  /\ IF e.nights = {} THEN UNCHANGED job
     ELSE Becomes(w, [job[w] EXCEPT !.at = "derive", !.rev = e.rev, !.nights = e.nights])
  /\ UNCHANGED <<provider, tables, derived, outbox, sweep, faults, history>>

\* claimEvent: another transaction that claims the event is waited for; then the booked
\* nights are read as they are committed now.
Derive(w) ==
  /\ job[w].at = "derive"
  /\ \A v \in Workers : ~(job[v].at = "write" /\ job[v].rev = job[w].rev)
  /\ Becomes(w, IF job[w].rev \in claimed THEN Idle
                ELSE [job[w] EXCEPT !.at = "write", !.booked = bookedNightsByRoomType])
  /\ UNCHANGED <<provider, tables, derived, events, sweep, faults, history>>

\* setAvailability for every touched night, and the transaction commits.
Write(w) ==
  /\ job[w].at = "write"
  /\ available' = [n \in Nights |-> IF n \in job[w].nights THEN computeAvailable(job[w].booked[n])
                                    ELSE available[n]]
  /\ claimed' = claimed \cup {job[w].rev}
  /\ Becomes(w, Idle)
  /\ disturbed' = disturbed \cup crossed(w)
  /\ UNCHANGED <<provider, tables, events, sweep, faults, overtaken>>

\* The queue with a worker's event in it again; a pull is left to the next poll.
HandedBack(w) ==
  IF job[w].at \in {"derive", "write"}
  THEN queue \cup {[rev |-> job[w].rev, nights |-> job[w].nights]} ELSE queue

\* A worker stops: its transaction is rolled back and its job delivered again.
Crash(w) ==
  /\ job[w].at # "idle" /\ Fault
  /\ queue' = HandedBack(w)
  /\ Becomes(w, Idle)
  /\ UNCHANGED <<provider, tables, derived, outbox, sweep, history>>

\* A call throws and the job fails: one queue tries it again, the other one does not.
Throws(w) ==
  /\ job[w].at \in {"list", "find", "load", "derive", "write"} /\ Fault
  /\ queue' = IF RetriesFailed THEN HandedBack(w) ELSE queue
  /\ disturbed' = IF RetriesFailed \/ job[w].at \notin {"derive", "write"} THEN disturbed
                  ELSE disturbed \cup job[w].nights
  /\ Becomes(w, Idle)
  /\ UNCHANGED <<provider, tables, derived, outbox, sweep, overtaken>>

-----------------------------------------------------------------------------
Pulling(w) ==
  List(w) \/ (\E r \in Revisions : Find(w, r)) \/ PageDone(w) \/ Load(w) \/ Apply(w)
    \/ ApplyStale(w) \/ ApplyRejected(w) \/ Ack(w) \/ Mark(w)
Deriving(w) == Derive(w) \/ Write(w)
Sweeping == SweepStarts \/ (\E r \in Revisions : SweepAcks(r)) \/ SweepMarks

Next ==
  \/ \E r \in Revisions : Emit(r)
  \/ \E w \in Workers : Pull(w) \/ Pulling(w) \/ Deriving(w) \/ Crash(w) \/ Throws(w)
  \/ \E w \in Workers, e \in queue : Take(w, e)
  \/ FiveMinutes \/ Sweeping
  \/ \E e \in outbox : Publish(e)

Spec == Init /\ [][Next]_vars

\* Every job that starts goes on; polls start pulls, the queue does not overlook an event,
\* the schedule runs the sweep and the publisher its loop; time passes.
FairSpec ==
  /\ Spec
  /\ \A w \in Workers : WF_vars(Pulling(w)) /\ WF_vars(Deriving(w)) /\ SF_vars(Pull(w))
  /\ SF_vars(\E w \in Workers, e \in queue : Take(w, e))
  /\ WF_vars(\E e \in outbox : Publish(e))
  /\ WF_vars(FiveMinutes) /\ WF_vars(Sweeping)

-----------------------------------------------------------------------------
(* Properties *)

\* Every variable has its type; available_day stays between none and all the rooms (INV-2).
TypeOK ==
  /\ unacked \subseteq emitted /\ emitted \subseteq Revisions
  /\ stored \subseteq Revisions /\ marked \subseteq Revisions /\ old \subseteq stored
  /\ projection \in [Bookings -> Revisions \cup {None}]
  /\ available \in [Nights -> 0 .. CountOfRooms]
  /\ outbox \subseteq Events /\ queue \subseteq Events
  /\ claimed \subseteq Revisions
  /\ job \in [Workers -> Jobs] /\ sweep \in Sweeps
  /\ faults \in 0 .. MaxFaults
  /\ overtaken \subseteq Bookings /\ disturbed \subseteq Nights

\* A revision is acked, at the provider or here, only once it is committed: BK-1 and CX-6,
\* ack in ingest.ts.  Nothing the provider stops serving is lost.
AckedIsStored == (emitted \ unacked) \cup marked \subseteq stored

\* A booking shows the newest of its revisions that were stored, whatever order they came
\* in, by (inserted_at, system_id): BK-5, isNewerThan and its use in applyOne.
ShowsLatest(b) ==
  \A r \in stored : bookingOf[r] = b => projection[b] # None /\ ~Before(projection[b], r)
LatestWins == \A b \in Bookings : ShowsLatest(b)

\* An event on its way to availability_day, and the nights it is about.
Underway(n) ==
  \/ \E e \in outbox \cup queue : n \in e.nights
  \/ \E w \in Workers : job[w].at \in {"derive", "write"} /\ n \in job[w].nights

\* A night no event is underway for has the availability its bookings leave: spec 05
\* 5.4.2, deriveAvailability and the diff it follows.
Follows(n) == ~Underway(n) => available[n] = computeAvailable(bookedNightsByRoomType[n])
AvailabilityFollows == \A n \in Nights : Follows(n)

\* Every revision the provider emits ends up stored, out of its feed and marked acked,
\* whatever fails in between: the poll, the sweep and the duplicate check together.
EveryRevisionLands ==
  \A r \in Revisions : r \in emitted ~> r \in stored /\ r \in marked /\ r \notin unacked
=============================================================================
