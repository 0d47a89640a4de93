--------------------------- MODULE BookingsProofs ---------------------------
(***************************************************************************)
(* Proofs about the ingestion of bookings, for any revisions, bookings,     *)
(* nights, rooms, page size, number of workers and number of faults, and    *)
(* for a queue that tries failed jobs again or does not.  The last two      *)
(* theorems say of what has come between two workers, booking by booking    *)
(* and night by night, that nothing else breaks what they promise.          *)
(***************************************************************************)
EXTENDS Bookings, FiniteSetTheorems, TLAPS

USE DEF None

-----------------------------------------------------------------------------
(* Types *)

\* A booking takes some number of rooms on a night.
LEMMA RoomsTyped ==
  ASSUME NEW r \in Revisions \cup {None}, NEW n \in Nights
  PROVE  rooms(r, n) \in Nat
  BY RevisionsAssumption, RoomsAssumption DEF rooms

\* The count of a night's rows is a number, for there are finitely many rows.
LEMMA CountTyped ==
  ASSUME projection \in [Bookings -> Revisions \cup {None}]
  PROVE  bookedNightsByRoomType \in [Nights -> Nat]
  <1> SUFFICES ASSUME NEW n \in Nights PROVE Cardinality(bookingRoomDay(n)) \in Nat
    BY DEF bookedNightsByRoomType
  <1> DEFINE Rows(b) == {b} \X (1 .. rooms(projection[b], n))
             All == {Rows(b) : b \in Bookings}
             f == [b \in Bookings |-> Rows(b)]
  <1>1. IsFiniteSet(All)
    <2>1. f \in Surjection(Bookings, All)
      BY DEF Surjection
    <2> QED
      BY <2>1, FS_Surjection, RevisionsAssumption
  <1>2. ASSUME NEW b \in Bookings PROVE IsFiniteSet(Rows(b))
    <2>1. IsFiniteSet(1 .. rooms(projection[b], n))
      BY RoomsTyped, FS_Interval
    <2>2. IsFiniteSet({b})
      BY FS_Singleton
    <2> QED
      BY <2>1, <2>2, FS_Product
  <1>3. IsFiniteSet(UNION All)
    BY <1>1, <1>2, FS_UNION
  <1> QED
    BY <1>3, FS_CardinalityType DEF bookingRoomDay

\* computeAvailable stays between none and all the rooms.
LEMMA AvailableTyped ==
  ASSUME NEW k \in Nat
  PROVE  computeAvailable(k) \in 0 .. CountOfRooms
  BY RoomsAssumption DEF computeAvailable

\* A job that works on a revision has one.
HasRevision(j) ==
  j.at \in {"load", "apply", "ack", "mark", "derive", "write"} => j.rev # None

\* The types are inductive once a revision is known to be there when it is used.
Typed ==
  /\ TypeOK
  /\ \A w \in Workers : HasRevision(job[w])
  /\ sweep.at = "mark" => sweep.rev # None

\* Nothing has happened and nobody works on a revision.
LEMMA InitTyped == Init => Typed
  <1> SUFFICES ASSUME Init PROVE Typed
    OBVIOUS
  <1> USE RevisionsAssumption, RoomsAssumption DEF Init
  <1>1. Idle \in Jobs
    BY DEF Jobs, Idle
  <1>2. NoSweep \in Sweeps
    BY DEF Sweeps, NoSweep
  <1> QED
    BY <1>1, <1>2 DEF Typed, TypeOK, HasRevision, Idle, NoSweep

\* A worker's step leaves the jobs typed if its own job is.
LEMMA BecomesTyped ==
  ASSUME Typed, NEW w \in Workers, NEW j \in Jobs, HasRevision(j), Becomes(w, j)
  PROVE  job' \in [Workers -> Jobs] /\ \A v \in Workers : HasRevision(job'[v])
  BY DEF Typed, TypeOK, Becomes

\* The jobs stay typed.
LEMMA StepJobs ==
  ASSUME Typed, [Next]_vars
  PROVE  job' \in [Workers -> Jobs] /\ \A v \in Workers : HasRevision(job'[v])
  <1> DEFINE Goal == job' \in [Workers -> Jobs] /\ \A v \in Workers : HasRevision(job'[v])
  <1>a. ASSUME job' = job PROVE Goal
    BY <1>a DEF Typed, TypeOK, HasRevision
  <1>b. Idle \in Jobs /\ HasRevision(Idle)
    BY DEF Jobs, Idle, HasRevision
  <1>c. ASSUME NEW w \in Workers PROVE job[w] \in Jobs /\ HasRevision(job[w])
    BY DEF Typed, TypeOK
  <1>d. /\ unacked \subseteq Revisions /\ projection \in [Bookings -> Revisions \cup {None}]
        /\ queue \subseteq Events
    BY DEF Typed, TypeOK
  <1> HIDE DEF Goal
  <1>2. ASSUME NEW w \in Workers, Pull(w) PROVE Goal
    <2> DEFINE k == job[w]
               j == [k EXCEPT !.at = "list", !.next = 1]
    <2>1. k \in Jobs
      BY <1>c
    <2>2. Becomes(w, j)
      BY <1>2 DEF Pull
    <2> HIDE DEF k
    <2>3. j \in Jobs /\ HasRevision(j)
      BY <2>1 DEF Jobs, HasRevision
    <2> HIDE DEF j
    <2> QED
      BY <2>2, <2>3, BecomesTyped DEF Goal
  <1>3. ASSUME NEW w \in Workers, List(w) PROVE Goal
    <2> DEFINE k == job[w]
               page == FeedPage(k.next) \ k.seen
               next == NextPage(k.next)
               j == [k EXCEPT !.at = "find", !.page = page, !.next = next]
    <2>1. k \in Jobs
      BY <1>c
    <2>2. Becomes(w, j)
      BY <1>3 DEF List
    <2> HIDE DEF k
    <2>3. page \subseteq Revisions
      BY <1>d, Zenon DEF FeedPage
    <2>4. next \in Nat
      <3>1. k.next \in Nat
        BY <2>1 DEF Jobs
      <3> QED
        BY <3>1 DEF NextPage
    <2> HIDE DEF page, next
    <2>5. j \in Jobs /\ HasRevision(j)
      BY <2>1, <2>3, <2>4 DEF Jobs, HasRevision
    <2> HIDE DEF j
    <2> QED
      BY <2>2, <2>5, BecomesTyped DEF Goal
  <1>4. ASSUME NEW w \in Workers, NEW r \in Revisions, Find(w, r) PROVE Goal
    <2> DEFINE k == job[w]
               at == IF r \in marked THEN "find" ELSE IF r \in stored THEN "ack" ELSE "load"
               j == [k EXCEPT !.at = at, !.page = @ \ {r}, !.seen = @ \cup {r},
                              !.next = IF @ = 0 THEN 0 ELSE 1, !.rev = r]
    <2>1. k \in Jobs
      BY <1>c
    <2>2. Becomes(w, j)
      BY <1>4 DEF Find
    <2>3. at \in {"find", "ack", "load"}
      OBVIOUS
    <2>4. r # None
      BY RevisionsAssumption
    <2> HIDE DEF k, at
    <2>5. j \in Jobs
      BY <2>1, <2>3 DEF Jobs
    <2>6. HasRevision(j)
      BY <2>1, <2>4 DEF Jobs, HasRevision
    <2> HIDE DEF j
    <2> QED
      BY <2>2, <2>5, <2>6, BecomesTyped DEF Goal
  <1>5. ASSUME NEW w \in Workers, PageDone(w) PROVE Goal
    <2> DEFINE k == job[w]
               listing == [k EXCEPT !.at = "list"]
               j == IF k.next = 0 THEN Idle ELSE listing
    <2>1. k \in Jobs
      BY <1>c
    <2>2. Becomes(w, j)
      BY <1>5 DEF PageDone
    <2> HIDE DEF k
    <2>3. listing \in Jobs /\ HasRevision(listing)
      BY <2>1 DEF Jobs, HasRevision
    <2> HIDE DEF listing
    <2>4. j \in Jobs /\ HasRevision(j)
      BY <1>b, <2>3
    <2> HIDE DEF j
    <2> QED
      BY <2>2, <2>4, BecomesTyped DEF Goal
  <1>6. ASSUME NEW w \in Workers, Load(w) PROVE Goal
    <2> DEFINE k == job[w]
               prev == projection[bookingOf[k.rev]]
               j == [k EXCEPT !.at = "apply", !.prev = prev]
    <2>1. k \in Jobs /\ k.rev # None
      BY <1>6, <1>c DEF Load, HasRevision
    <2>2. Becomes(w, j)
      BY <1>6 DEF Load
    <2> HIDE DEF k
    <2>3. prev \in Revisions \cup {None}
      <3>1. k.rev \in Revisions
        BY <2>1 DEF Jobs
      <3> QED
        BY <1>d, <3>1, RevisionsAssumption
    <2> HIDE DEF prev
    <2>4. j \in Jobs /\ HasRevision(j)
      BY <2>1, <2>3 DEF Jobs, HasRevision
    <2> HIDE DEF j
    <2> QED
      BY <2>2, <2>4, BecomesTyped DEF Goal
  <1>7. ASSUME NEW w \in Workers, Apply(w) \/ ApplyStale(w) PROVE Goal
    <2> DEFINE k == job[w]
               j == [k EXCEPT !.at = "ack", !.prev = None]
    <2>1. k \in Jobs /\ k.rev # None
      BY <1>7, <1>c DEF Apply, ApplyStale, HasRevision
    <2>2. Becomes(w, j)
      BY <1>7 DEF Apply, ApplyStale
    <2> HIDE DEF k
    <2>3. j \in Jobs /\ HasRevision(j)
      BY <2>1 DEF Jobs, HasRevision
    <2> HIDE DEF j
    <2> QED
      BY <2>2, <2>3, BecomesTyped DEF Goal
  <1>8. ASSUME NEW w \in Workers, ApplyRejected(w) \/ Write(w) \/ Crash(w) \/ Throws(w) PROVE Goal
    <2>1. Becomes(w, Idle)
      BY <1>8 DEF ApplyRejected, Write, Crash, Throws
    <2> QED
      BY <1>b, <2>1, BecomesTyped DEF Goal
  <1>9. ASSUME NEW w \in Workers, Ack(w) \/ Mark(w) PROVE Goal
    <2> DEFINE k == job[w]
               marks == [k EXCEPT !.at = "mark"]
               done == [k EXCEPT !.at = "find", !.rev = None]
    <2>1. k \in Jobs /\ (Ack(w) => k.rev # None)
      BY <1>c DEF Ack, HasRevision
    <2>2. (Ack(w) /\ Becomes(w, marks)) \/ Becomes(w, done)
      BY <1>9 DEF Ack, Mark
    <2> HIDE DEF k
    <2>3. done \in Jobs /\ HasRevision(done)
      BY <2>1 DEF Jobs, HasRevision
    <2>4. marks \in Jobs /\ (k.rev # None => HasRevision(marks))
      BY <2>1 DEF Jobs, HasRevision
    <2> HIDE DEF marks, done
    <2> QED
      BY <2>1, <2>2, <2>3, <2>4, BecomesTyped DEF Goal
  <1>10. ASSUME NEW w \in Workers, Derive(w) PROVE Goal
    <2> DEFINE k == job[w]
               booked == bookedNightsByRoomType
               writes == [k EXCEPT !.at = "write", !.booked = booked]
               j == IF k.rev \in claimed THEN Idle ELSE writes
    <2>1. k \in Jobs /\ k.rev # None
      BY <1>10, <1>c DEF Derive, HasRevision
    <2>2. Becomes(w, j)
      BY <1>10 DEF Derive
    <2>3. booked \in [Nights -> Nat]
      BY <1>d, CountTyped
    <2> HIDE DEF k, booked
    <2>4. writes \in Jobs /\ HasRevision(writes)
      BY <2>1, <2>3 DEF Jobs, HasRevision
    <2> HIDE DEF writes
    <2>5. j \in Jobs /\ HasRevision(j)
      BY <1>b, <2>4
    <2> HIDE DEF j
    <2> QED
      BY <2>2, <2>5, BecomesTyped DEF Goal
  <1>11. ASSUME NEW w \in Workers, NEW e \in queue, Take(w, e) PROVE Goal
    <2> DEFINE k == job[w]
               j == [k EXCEPT !.at = "derive", !.rev = e.rev, !.nights = e.nights]
    <2>1. k \in Jobs
      BY <1>c
    <2>2. job' = job \/ Becomes(w, j)
      BY <1>11 DEF Take
    <2>3. e.rev \in Revisions /\ e.nights \subseteq Nights /\ e.rev # None
      BY <1>d, RevisionsAssumption DEF Events
    <2> HIDE DEF k
    <2>4. j \in Jobs /\ HasRevision(j)
      BY <2>1, <2>3 DEF Jobs, HasRevision
    <2> HIDE DEF j
    <2> QED
      BY <1>a, <2>2, <2>4, BecomesTyped DEF Goal
  <1>12. ASSUME NEW r \in Revisions, Emit(r) PROVE Goal
    BY <1>12, <1>a DEF Emit
  <1>13. CASE FiveMinutes \/ Sweeping
    <2>1. job' = job
      BY <1>13 DEF FiveMinutes, Sweeping, SweepStarts, SweepAcks, SweepMarks
    <2> QED
      BY <2>1, <1>a DEF Goal
  <1>14. ASSUME NEW e \in outbox, Publish(e) PROVE Goal
    BY <1>14, <1>a DEF Publish
  <1>15. CASE UNCHANGED vars
    <2>1. job' = job
      BY <1>15 DEF vars
    <2> QED
      BY <2>1, <1>a DEF Goal
  <1> QED
    BY <1>2, <1>3, <1>4, <1>5, <1>6, <1>7, <1>8, <1>9, <1>10, <1>11, <1>12, <1>13, <1>14,
       <1>15 DEF Next, Pulling, Deriving, Goal

\* Every step keeps the types.
LEMMA StepTyped == Typed /\ [Next]_vars => Typed'
  <1> SUFFICES ASSUME Typed, [Next]_vars PROVE Typed'
    OBVIOUS
  <1> DEFINE Goal == /\ unacked' \subseteq emitted' /\ emitted' \subseteq Revisions
                     /\ stored' \subseteq Revisions /\ marked' \subseteq Revisions
                     /\ old' \subseteq stored'
                     /\ projection' \in [Bookings -> Revisions \cup {None}]
                     /\ available' \in [Nights -> 0 .. CountOfRooms]
                     /\ outbox' \subseteq Events /\ queue' \subseteq Events
                     /\ claimed' \subseteq Revisions
                     /\ sweep' \in Sweeps /\ (sweep'.at = "mark" => sweep'.rev # None)
                     /\ faults' \in 0 .. MaxFaults
                     /\ overtaken' \subseteq Bookings /\ disturbed' \subseteq Nights
  <1>a. Goal => Typed'
    BY StepJobs DEF Typed, TypeOK
  <1>b. ASSUME NEW w \in Workers
        PROVE  /\ job[w].rev \in Revisions \cup {None} /\ job[w].nights \subseteq Nights
               /\ job[w].prev \in Revisions \cup {None} /\ job[w].booked \in [Nights -> Nat]
               /\ HasRevision(job[w])
    BY DEF Typed, TypeOK, Jobs
  <1> USE RevisionsAssumption, RoomsAssumption
      DEF Typed, TypeOK, provider, tables, derived, events, history
  <1>1. ASSUME NEW r \in Revisions, Emit(r) PROVE Goal
    BY <1>1 DEF Emit
  <1>2. ASSUME NEW w \in Workers,
               Pull(w) \/ List(w) \/ (\E r \in Revisions : Find(w, r)) \/ PageDone(w)
                 \/ Load(w) \/ Derive(w)
        PROVE  Goal
    BY <1>2 DEF Pull, List, Find, PageDone, Load, Derive
  <1>7. ASSUME NEW w \in Workers, Apply(w) PROVE Goal
    BY <1>7, <1>b DEF Apply, HasRevision, Events, touched, bookedNights, missed
  <1>8. ASSUME NEW w \in Workers, ApplyStale(w) PROVE Goal
    BY <1>8, <1>b DEF ApplyStale, HasRevision
  <1>9. ASSUME NEW w \in Workers, ApplyRejected(w) PROVE Goal
    BY <1>9 DEF ApplyRejected, Fault
  <1>10. ASSUME NEW w \in Workers, Ack(w) PROVE Goal
    BY <1>10 DEF Ack, AckedByProvider, AckFails, Fault
  <1>11. ASSUME NEW w \in Workers, Mark(w) PROVE Goal
    BY <1>11, <1>b DEF Mark, Fault, HasRevision
  <1>13. ASSUME NEW w \in Workers, Write(w) PROVE Goal
    BY <1>13, <1>b, AvailableTyped DEF Write, HasRevision, crossed
  <1>14. ASSUME NEW w \in Workers, Crash(w) \/ Throws(w) PROVE Goal
    <2>1. HandedBack(w) \subseteq Events
      BY <1>b DEF HandedBack, Events, HasRevision
    <2>2. queue' \in {queue, HandedBack(w)}
      BY <1>14 DEF Crash, Throws
    <2>3. Fault /\ UNCHANGED <<provider, tables, derived, outbox, sweep, overtaken>>
      BY <1>14 DEF Crash, Throws
    <2>4. disturbed' \in {disturbed, disturbed \cup job[w].nights}
      BY <1>14 DEF Crash, Throws
    <2> QED
      BY <1>b, <2>1, <2>2, <2>3, <2>4 DEF Fault
  <1>15. ASSUME NEW w \in Workers, NEW e \in queue, Take(w, e) PROVE Goal
    BY <1>15 DEF Take
  <1>16. ASSUME FiveMinutes PROVE Goal
    BY <1>16 DEF FiveMinutes
  <1>17. ASSUME SweepStarts PROVE Goal
    BY <1>17 DEF SweepStarts, listUnacked, NoSweep, Sweeps
  <1>18. ASSUME NEW r \in Revisions, SweepAcks(r) PROVE Goal
    <2>1. NextRevision(sweep.left \ {r}) \in Sweeps /\ NextRevision(sweep.left \ {r}).at # "mark"
      BY DEF NextRevision, NoSweep, Sweeps
    <2>2. [at |-> "mark", left |-> sweep.left \ {r}, rev |-> r] \in Sweeps
      BY DEF Sweeps
    <2>3. CASE AckedByProvider(r) /\ sweep' = [at |-> "mark", left |-> sweep.left \ {r}, rev |-> r]
      BY <1>18, <2>2, <2>3 DEF SweepAcks, AckedByProvider
    <2>4. CASE AckFails(r) /\ sweep' = NextRevision(sweep.left \ {r})
      <3>1. unacked' \subseteq emitted' /\ emitted' \subseteq Revisions /\ faults' \in 0 .. MaxFaults
        BY <2>4 DEF AckFails, Fault
      <3> QED
        BY <1>18, <2>1, <2>4, <3>1 DEF SweepAcks
    <2> QED
      BY <1>18, <2>3, <2>4 DEF SweepAcks
  <1>19. ASSUME SweepMarks PROVE Goal
    <2>1. sweep.rev \in Revisions /\ sweep.left \in SUBSET Revisions
      BY <1>19 DEF SweepMarks, Sweeps
    <2>2. sweep' \in Sweeps /\ sweep'.at # "mark"
      BY <1>19, <2>1 DEF SweepMarks, NextRevision, NoSweep, Sweeps
    <2>3. marked' \subseteq Revisions /\ faults' \in 0 .. MaxFaults
      <3>1. CASE marked' = marked \cup {sweep.rev} /\ UNCHANGED faults
        BY <2>1, <3>1
      <3>2. CASE Fault /\ UNCHANGED marked
        BY <3>2 DEF Fault
      <3> QED
        BY <1>19, <3>1, <3>2 DEF SweepMarks
    <2>4. UNCHANGED <<provider, stored, old, projection, derived, events, history>>
      BY <1>19 DEF SweepMarks
    <2> QED
      BY <2>2, <2>3, <2>4
  <1>20. ASSUME NEW e \in outbox, Publish(e) PROVE Goal
    BY <1>20 DEF Publish, Fault
  <1>21. CASE UNCHANGED vars
    BY <1>21 DEF vars
  <1> HIDE DEF Goal
  <1> QED
    BY <1>a, <1>1, <1>2, <1>7, <1>8, <1>9, <1>10, <1>11, <1>13, <1>14, <1>15, <1>16, <1>17,
       <1>18, <1>19, <1>20, <1>21 DEF Next, Pulling, Deriving, Sweeping

\* Every variable keeps its type, whatever the revisions, rooms and workers are.
THEOREM TypeCorrect == Spec => []TypeOK
  <1>1. Typed => TypeOK
    BY DEF Typed
  <1> QED
    BY InitTyped, StepTyped, <1>1, PTL DEF Spec

-----------------------------------------------------------------------------
(* Acked revisions are stored *)

\* Whoever is about to ack or mark a revision has it stored, and stored revisions stay.
AckInv ==
  /\ Typed
  /\ AckedIsStored
  /\ \A w \in Workers : job[w].at \in {"ack", "mark"} => job[w].rev \in stored
  /\ sweep.left \subseteq stored
  /\ sweep.at = "mark" => sweep.rev \in stored

\* At first nothing is acked.
LEMMA InitAck == Init => AckInv
  BY InitTyped DEF Init, AckInv, AckedIsStored, Idle, NoSweep

\* Only Apply and ApplyStale lead a worker to the ack, and both store the revision.
LEMMA StepAck == AckInv /\ [Next]_vars => AckInv'
  <1> SUFFICES ASSUME AckInv, [Next]_vars PROVE AckInv'
    OBVIOUS
  <1> DEFINE Goal == /\ AckedIsStored'
                     /\ \A v \in Workers : job'[v].at \in {"ack", "mark"} => job'[v].rev \in stored'
                     /\ sweep'.left \subseteq stored'
                     /\ sweep'.at = "mark" => sweep'.rev \in stored'
  <1>a. Goal => AckInv'
    BY StepTyped DEF AckInv
  <1>b. job \in [Workers -> Jobs]
    BY DEF AckInv, Typed, TypeOK
  <1> USE <1>b DEF AckInv, AckedIsStored, Becomes, Jobs, Idle, provider, tables, derived, events
  <1>1. ASSUME NEW r \in Revisions, Emit(r) PROVE Goal
    BY <1>1 DEF Emit
  <1>2. ASSUME NEW w \in Workers, Pull(w) \/ List(w) \/ PageDone(w) \/ Load(w) PROVE Goal
    <2>1. ASSUME Pull(w) PROVE Goal
      BY <2>1 DEF Pull
    <2>2. ASSUME List(w) PROVE Goal
      BY <2>2 DEF List
    <2>3. ASSUME PageDone(w) PROVE Goal
      BY <2>3 DEF PageDone
    <2>4. ASSUME Load(w) PROVE Goal
      BY <2>4 DEF Load
    <2> HIDE DEF Goal
    <2> QED
      BY <1>2, <2>1, <2>2, <2>3, <2>4
  <1>3. ASSUME NEW w \in Workers, NEW r \in Revisions, Find(w, r) PROVE Goal
    BY <1>3 DEF Find
  <1>4. ASSUME NEW w \in Workers, Apply(w) \/ ApplyStale(w) PROVE Goal
    <2>1. ASSUME Apply(w) PROVE Goal
      BY <2>1 DEF Apply
    <2>2. ASSUME ApplyStale(w) PROVE Goal
      BY <2>2 DEF ApplyStale
    <2> HIDE DEF Goal
    <2> QED
      BY <1>4, <2>1, <2>2
  <1>5. ASSUME NEW w \in Workers, ApplyRejected(w) PROVE Goal
    BY <1>5 DEF ApplyRejected
  <1>6. ASSUME NEW w \in Workers, Ack(w) PROVE Goal
    <2>1. unacked \ {job[w].rev} \subseteq unacked' /\ UNCHANGED <<emitted, tables, sweep>>
      BY <1>6 DEF Ack, AckedByProvider, AckFails
    <2>2. AckedIsStored'
      BY <1>6, <2>1 DEF Ack
    <2>3. \A v \in Workers : job'[v].at \in {"ack", "mark"} => job'[v].rev \in stored
      <3>1. job[w].at = "ack"
        BY <1>6 DEF Ack
      <3>2. CASE job' = [job EXCEPT ![w] = [job[w] EXCEPT !.at = "mark"]]
        BY <3>1, <3>2
      <3>3. CASE job' = [job EXCEPT ![w] = [job[w] EXCEPT !.at = "find", !.rev = None]]
        BY <3>1, <3>3
      <3> QED
        BY <1>6, <3>2, <3>3 DEF Ack
    <2> QED
      BY <2>1, <2>2, <2>3
  <1>7. ASSUME NEW w \in Workers, Mark(w) PROVE Goal
    BY <1>7 DEF Mark
  <1>8. ASSUME NEW w \in Workers, Derive(w) \/ Write(w) PROVE Goal
    <2>1. ASSUME Derive(w) PROVE Goal
      BY <2>1 DEF Derive
    <2>2. ASSUME Write(w) PROVE Goal
      BY <2>2 DEF Write
    <2> HIDE DEF Goal
    <2> QED
      BY <1>8, <2>1, <2>2
  <1>9. ASSUME NEW w \in Workers, Crash(w) \/ Throws(w) PROVE Goal
    BY <1>9 DEF Crash, Throws
  <1>10. ASSUME NEW w \in Workers, NEW e \in queue, Take(w, e) PROVE Goal
    <2>1. UNCHANGED <<provider, tables, sweep>>
      BY <1>10 DEF Take
    <2>2. CASE UNCHANGED job
      BY <2>1, <2>2
    <2>3. CASE job' = [job EXCEPT ![w] = [job[w] EXCEPT !.at = "derive", !.rev = e.rev,
                                                        !.nights = e.nights]]
      BY <2>1, <2>3
    <2> QED
      BY <1>10, <2>2, <2>3 DEF Take
  <1>11. ASSUME FiveMinutes PROVE Goal
    BY <1>11 DEF FiveMinutes
  <1>12. ASSUME SweepStarts PROVE Goal
    BY <1>12 DEF SweepStarts, listUnacked, NoSweep
  <1>13. ASSUME NEW r \in Revisions, SweepAcks(r) PROVE Goal
    BY <1>13 DEF SweepAcks, NextRevision, NoSweep, AckedByProvider, AckFails
  <1>14. ASSUME SweepMarks PROVE Goal
    BY <1>14 DEF SweepMarks, NextRevision, NoSweep
  <1>15. ASSUME NEW e \in outbox, Publish(e) PROVE Goal
    BY <1>15 DEF Publish
  <1>16. ASSUME UNCHANGED vars PROVE Goal
    BY <1>16 DEF vars
  <1> HIDE DEF Goal
  <1> QED
    BY <1>a, <1>1, <1>2, <1>3, <1>4, <1>5, <1>6, <1>7, <1>8, <1>9, <1>10, <1>11, <1>12,
       <1>13, <1>14, <1>15, <1>16 DEF Next, Pulling, Deriving, Sweeping

\* BK-1 and CX-6: whatever the workers, the sweep and the faults do, no revision is acked,
\* at the provider or in the tables, before the transaction that stores it has committed.
THEOREM AckedRevisionsAreStored == Spec => []AckedIsStored
  <1>1. AckInv => AckedIsStored
    BY DEF AckInv
  <1> QED
    BY InitAck, StepAck, <1>1, PTL DEF Spec

-----------------------------------------------------------------------------
(* The newest revision wins *)

\* Where a derivation is.
DerivesAt == {"derive", "write"}

\* A step that leaves the bookings, the events and the derivations alone; a job that comes
\* to apply a revision has just loaded its booking.
Quiet ==
  /\ UNCHANGED <<stored, projection, available, claimed, outbox, queue, overtaken, disturbed>>
  /\ \A v \in Workers :
       /\ job'[v].at = "apply" =>
            \/ job'[v] = job[v]
            \/ job'[v].prev = projection[bookingOf[job'[v].rev]]
       /\ job[v].at \in DerivesAt <=> job'[v].at \in DerivesAt
       /\ job'[v].at \in DerivesAt => job'[v] = job[v]

\* Every step is quiet but those that store a revision or move, take or consume an event.
LEMMA Steps ==
  ASSUME Typed, [Next]_vars
  PROVE  \/ Quiet
         \/ \E w \in Workers : Apply(w) \/ ApplyStale(w) \/ Derive(w) \/ Write(w) \/ Crash(w)
                                 \/ Throws(w)
         \/ \E w \in Workers, e \in queue : Take(w, e)
         \/ \E e \in outbox : Publish(e)
  <1>a. job \in [Workers -> Jobs]
    BY DEF Typed, TypeOK
  <1> USE <1>a DEF Quiet, DerivesAt, Becomes, Jobs, Idle, provider, tables, derived, events,
                   history
  <1>1. ASSUME NEW r \in Revisions, Emit(r) PROVE Quiet
    BY <1>1 DEF Emit
  <1>2. ASSUME NEW w \in Workers, Pull(w) PROVE Quiet
    BY <1>2 DEF Pull
  <1>3. ASSUME NEW w \in Workers, List(w) PROVE Quiet
    BY <1>3 DEF List
  <1>4. ASSUME NEW w \in Workers, NEW r \in Revisions, Find(w, r) PROVE Quiet
    BY <1>4 DEF Find
  <1>5. ASSUME NEW w \in Workers, PageDone(w) PROVE Quiet
    BY <1>5 DEF PageDone
  <1>6. ASSUME NEW w \in Workers, Load(w) PROVE Quiet
    BY <1>6 DEF Load
  <1>7. ASSUME NEW w \in Workers, ApplyRejected(w) PROVE Quiet
    BY <1>7 DEF ApplyRejected
  <1>8. ASSUME NEW w \in Workers, Ack(w) PROVE Quiet
    <2>1. job[w].at = "ack" /\ UNCHANGED <<tables, derived, events, history>>
      BY <1>8 DEF Ack
    <2>2. CASE job' = [job EXCEPT ![w] = [job[w] EXCEPT !.at = "mark"]]
      BY <2>1, <2>2
    <2>3. CASE job' = [job EXCEPT ![w] = [job[w] EXCEPT !.at = "find", !.rev = None]]
      BY <2>1, <2>3
    <2> QED
      BY <1>8, <2>2, <2>3 DEF Ack
  <1>9. ASSUME NEW w \in Workers, Mark(w) PROVE Quiet
    BY <1>9 DEF Mark
  <1>10. ASSUME FiveMinutes \/ Sweeping PROVE Quiet
    BY <1>10 DEF FiveMinutes, Sweeping, SweepStarts, SweepAcks, SweepMarks
  <1>11. ASSUME UNCHANGED vars PROVE Quiet
    BY <1>11 DEF vars
  <1> QED
    <2> HIDE DEF Quiet
    <2> QED
      BY <1>1, <1>2, <1>3, <1>4, <1>5, <1>6, <1>7, <1>8, <1>9, <1>10, <1>11
         DEF Next, Pulling, Deriving

\* The order of the feed: nothing that does not come after p comes after a newer r.
LEMMA NewerIsAfter ==
  ASSUME NEW p \in Revisions, NEW r \in Revisions, isNewerThan(r, p), NEW q \in Revisions,
         ~Before(p, q)
  PROVE  ~Before(r, q)
  BY RevisionsAssumption DEF isNewerThan, Before

\* A revision that is not newer than one that does not come after p does not come after p.
LEMMA StaleIsBefore ==
  ASSUME NEW q \in Revisions \cup {None}, NEW r \in Revisions, ~isNewerThan(r, q),
         NEW p \in Revisions, q # None => ~Before(p, q)
  PROVE  q # None /\ ~Before(p, r)
  BY RevisionsAssumption DEF isNewerThan, Before

LEMMA NeverBeforeItself == ASSUME NEW r \in Revisions PROVE ~Before(r, r)
  BY RevisionsAssumption DEF Before

\* What a worker is about to compare with does not come after what the booking shows.
LoadedBefore(w) ==
  LET b == bookingOf[job[w].rev] IN
  job[w].at = "apply" /\ b \notin overtaken /\ job[w].prev # None =>
    projection[b] # None /\ ~Before(projection[b], job[w].prev)

LatestInv ==
  /\ Typed
  /\ \A b \in Bookings \ overtaken : ShowsLatest(b)
  /\ \A w \in Workers : LoadedBefore(w)

\* A step that changes neither the rows nor the bookings, and brings a worker to "apply"
\* only with the projection it has just loaded.
LEMMA LatestKept ==
  ASSUME LatestInv, Typed', UNCHANGED <<stored, projection, overtaken>>,
         \A v \in Workers : job'[v].at = "apply" =>
            \/ job'[v] = job[v]
            \/ job'[v].prev = projection[bookingOf[job'[v].rev]]
  PROVE  LatestInv'
  <1>1. ASSUME NEW v \in Workers PROVE LoadedBefore(v)'
    <2>1. CASE job'[v] = job[v]
      BY <2>1 DEF LatestInv, LoadedBefore, Before
    <2>2. CASE job'[v].at = "apply" /\ job'[v].prev = projection[bookingOf[job'[v].rev]]
      <3>1. job'[v].prev \in Revisions \cup {None}
        BY DEF Typed, TypeOK, Jobs
      <3>2. job'[v].prev # None => ~Before(job'[v].prev, job'[v].prev)
        BY <3>1, NeverBeforeItself
      <3> QED
        BY <2>2, <3>2 DEF LoadedBefore, Before
    <2> QED
      BY <2>1, <2>2 DEF LoadedBefore
  <1>2. \A b \in Bookings \ overtaken' : ShowsLatest(b)'
    BY DEF LatestInv, ShowsLatest, Before
  <1> QED
    BY <1>1, <1>2 DEF LatestInv

\* A booking that is not overtaken is written over what the worker compared with.
LEMMA StepLatest ==
  ASSUME LatestInv, [Next]_vars
  PROVE  LatestInv'
  <1>a. Typed'
    BY StepTyped DEF LatestInv
  <1>b. /\ job \in [Workers -> Jobs] /\ \A w \in Workers : HasRevision(job[w])
        /\ projection \in [Bookings -> Revisions \cup {None}]
        /\ stored \subseteq Revisions
    BY DEF LatestInv, Typed, TypeOK
  <1>1. CASE Quiet
    BY <1>1, <1>a, LatestKept DEF Quiet
  <1>2. ASSUME NEW w \in Workers, Apply(w) PROVE LatestInv'
    <2> DEFINE r == job[w].rev
               b == bookingOf[r]
    <2>1. /\ r \in Revisions /\ r # None /\ b \in Bookings
          /\ isNewerThan(r, job[w].prev) /\ job[w].prev \in Revisions \cup {None}
      BY <1>2, <1>b, RevisionsAssumption DEF Apply, HasRevision, Jobs
    <2>2. /\ stored' = stored \cup {r} /\ projection' = [projection EXCEPT ![b] = r]
          /\ overtaken \subseteq overtaken'
          /\ job[w].prev # projection[b] => b \in overtaken'
      BY <1>2 DEF Apply
    <2>3. /\ job'[w].at = "ack"
          /\ \A v \in Workers : v # w => job'[v] = job[v]
      BY <1>2, <1>b DEF Apply, Becomes, Jobs
    <2>4. ASSUME NEW c \in Bookings, c \notin overtaken', NEW q \in stored', bookingOf[q] = c
          PROVE  projection'[c] # None /\ ~Before(projection'[c], q)
      <3>1. q \in Revisions /\ c \notin overtaken
        BY <2>1, <2>2, <2>4, <1>b
      <3>2. CASE c # b
        BY <2>1, <2>2, <2>4, <3>1, <3>2, <1>b DEF LatestInv, ShowsLatest
      <3>3. CASE c = b /\ q = r
        <4>1. projection'[c] = r
          BY <2>1, <2>2, <3>3, <1>b
        <4> QED
          BY <2>1, <3>3, <4>1, NeverBeforeItself
      <3>4. CASE c = b /\ q # r
        <4>1. projection[b] \in Revisions /\ ~Before(projection[b], q)
          BY <2>1, <2>2, <2>4, <3>1, <3>4, <1>b DEF LatestInv, ShowsLatest
        <4>2. isNewerThan(r, projection[b])
          BY <2>1, <2>2, <2>4, <3>4
        <4> QED
          BY <2>1, <2>2, <3>1, <3>4, <4>1, <4>2, <1>b, NewerIsAfter
      <3> QED
        BY <3>2, <3>3, <3>4
    <2>5. ASSUME NEW v \in Workers PROVE LoadedBefore(v)'
      <3> DEFINE p == job[v].prev
                 c == bookingOf[job[v].rev]
      <3> SUFFICES ASSUME v # w, job[v].at = "apply", c \notin overtaken', p # None
                   PROVE  projection'[c] # None /\ ~Before(projection'[c], p)
        BY <2>3 DEF LoadedBefore, Before
      <3>1. /\ p \in Revisions /\ c \in Bookings /\ projection[c] \in Revisions
            /\ projection[c] # None /\ ~Before(projection[c], p)
        <4>1. p \in Revisions /\ job[v].rev \in Revisions
          BY <1>b DEF Jobs, HasRevision
        <4>2. projection[c] # None /\ ~Before(projection[c], p)
          BY <2>2 DEF LatestInv, LoadedBefore
        <4> QED
          BY <4>1, <4>2, <1>b, RevisionsAssumption
      <3>2. CASE c # b
        BY <2>1, <2>2, <3>1, <3>2, <1>b
      <3>3. CASE c = b
        <4>1. isNewerThan(r, projection[b])
          BY <2>1, <2>2, <3>3
        <4>2. projection'[c] = r
          BY <2>1, <2>2, <3>3, <1>b
        <4> QED
          BY <2>1, <3>1, <3>3, <4>1, <4>2, NewerIsAfter
      <3> QED
        BY <3>2, <3>3
    <2> QED
      BY <1>a, <2>4, <2>5 DEF LatestInv, ShowsLatest, Before
  <1>3. ASSUME NEW w \in Workers, ApplyStale(w) PROVE LatestInv'
    <2> DEFINE r == job[w].rev
               b == bookingOf[r]
    <2>1. /\ r \in Revisions /\ b \in Bookings /\ job[w].at = "apply"
          /\ ~isNewerThan(r, job[w].prev) /\ job[w].prev \in Revisions \cup {None}
      BY <1>3, <1>b, RevisionsAssumption DEF ApplyStale, HasRevision, Jobs
    <2>2. stored' = stored \cup {r} /\ UNCHANGED <<projection, overtaken>>
      BY <1>3 DEF ApplyStale, history
    <2>3. /\ job'[w].at = "ack"
          /\ \A v \in Workers : v # w => job'[v] = job[v]
      BY <1>3, <1>b DEF ApplyStale, Becomes, Jobs
    <2>4. ASSUME b \notin overtaken PROVE projection[b] # None /\ ~Before(projection[b], r)
      <3>1. job[w].prev # None
        BY <2>1 DEF isNewerThan
      <3>2. projection[b] # None /\ ~Before(projection[b], job[w].prev)
        BY <2>1, <2>4, <3>1 DEF LatestInv, LoadedBefore
      <3> QED
        BY <2>1, <3>2, <1>b, StaleIsBefore
    <2>5. \A c \in Bookings \ overtaken' : ShowsLatest(c)'
      BY <2>2, <2>4 DEF LatestInv, ShowsLatest, Before
    <2>6. \A v \in Workers : LoadedBefore(v)'
      BY <2>2, <2>3 DEF LatestInv, LoadedBefore, Before
    <2> QED
      BY <1>a, <2>5, <2>6 DEF LatestInv
  <1>4. ASSUME NEW w \in Workers, Derive(w) \/ Write(w) \/ Crash(w) \/ Throws(w)
        PROVE  LatestInv'
    <2>1. UNCHANGED <<stored, projection, overtaken>>
      BY <1>4 DEF Derive, Write, Crash, Throws, tables, history
    <2>2. \A v \in Workers : job'[v].at = "apply" => job'[v] = job[v]
      <3>1. CASE job' = [job EXCEPT ![w] = Idle]
        BY <3>1, <1>b DEF Idle
      <3>2. CASE job' = [job EXCEPT ![w] = [job[w] EXCEPT !.at = "write",
                                                          !.booked = bookedNightsByRoomType]]
        BY <3>2, <1>b DEF Jobs
      <3> QED
        BY <1>4, <3>1, <3>2 DEF Derive, Write, Crash, Throws, Becomes
    <2> QED
      BY <1>a, <2>1, <2>2, LatestKept
  <1>5. ASSUME NEW w \in Workers, NEW e \in queue, Take(w, e) PROVE LatestInv'
    <2>1. UNCHANGED <<stored, projection, overtaken>>
      BY <1>5 DEF Take, tables, history
    <2>2. \A v \in Workers : job'[v].at = "apply" => job'[v] = job[v]
      <3>1. CASE Becomes(w, [job[w] EXCEPT !.at = "derive", !.rev = e.rev, !.nights = e.nights])
        BY <3>1, <1>b DEF Becomes, Jobs
      <3> QED
        BY <1>5, <3>1 DEF Take
    <2> QED
      BY <1>a, <2>1, <2>2, LatestKept
  <1>6. ASSUME NEW e \in outbox, Publish(e) PROVE LatestInv'
    BY <1>6, <1>a, LatestKept DEF Publish, tables, history
  <1> QED
    BY <1>1, <1>2, <1>3, <1>4, <1>5, <1>6, Steps DEF LatestInv

\* BK-5, for any number of workers: a booking shows the newest of its stored revisions, in
\* whatever order they arrived, whichever transactions failed and wherever a pull broke off,
\* unless it has been written over a projection other than the one the worker had compared
\* with.  Two workers pulling one property can do that; nothing else breaks the promise.
THEOREM NewestRevisionWins ==
  Spec => [](/\ \A b \in Bookings \ overtaken : ShowsLatest(b)
             /\ overtaken = {} => LatestWins)
  <1>1. Init => LatestInv
    BY InitTyped DEF Init, LatestInv, ShowsLatest, LoadedBefore, Idle
  <1>2. LatestInv /\ [Next]_vars => LatestInv'
    BY StepLatest
  <1>3. LatestInv => /\ \A b \in Bookings \ overtaken : ShowsLatest(b)
                     /\ overtaken = {} => LatestWins
    BY DEF LatestInv, LatestWins
  <1> QED
    BY <1>1, <1>2, <1>3, PTL DEF Spec

-----------------------------------------------------------------------------
(* Availability follows the bookings *)

\* The event a derivation is about.
EventOf(w) == [rev |-> job[w].rev, nights |-> job[w].nights]

\* An event that has not been consumed for the last time.
Known(e) ==
  \/ e \in outbox \cup queue
  \/ \E w \in Workers : job[w].at \in DerivesAt /\ e = EventOf(w)

\* A night is settled unless an event that nobody has claimed is about it.
Settled(n) == \A e \in Events : Known(e) /\ e.rev \notin claimed => n \notin e.nights

\* What worker w has read of night n is still so, or an event that is not its own will have
\* the night derived again.
ReadIsCurrent(w, n) ==
  \/ job[w].booked[n] = bookedNightsByRoomType[n]
  \/ \E e \in Events : Known(e) /\ e.rev \notin claimed /\ e.rev # job[w].rev /\ n \in e.nights

\* A worker that is to write holds an unclaimed event that no other worker is to write.
Alone(w) ==
  job[w].at = "write" =>
    /\ job[w].rev \notin claimed
    /\ \A v \in Workers : job[v].at = "write" /\ job[v].rev = job[w].rev => v = w

\* Repeated deliveries repeat the same event; a claimed one may be dropped, because every
\* change since has an event of its own.  Of a disturbed night nothing is said.
FollowsInv ==
  /\ Typed
  /\ claimed \subseteq stored
  /\ \A e \in Events : Known(e) => e.rev \in stored
  /\ \A e, f \in Events : Known(e) /\ Known(f) /\ e.rev = f.rev => e = f
  /\ \A w \in Workers : Alone(w)
  /\ \A w \in Workers : job[w].at = "write" =>
        \A n \in job[w].nights \ disturbed : ReadIsCurrent(w, n)
  /\ \A n \in Nights \ disturbed :
        Settled(n) => available[n] = computeAvailable(bookedNightsByRoomType[n])

\* Without bookings every night has all its rooms.
LEMMA InitFollows == Init => FollowsInv
  <1> SUFFICES ASSUME Init PROVE FollowsInv
    OBVIOUS
  <1>1. Typed
    BY InitTyped
  <1>2. \A e : ~Known(e)
    BY DEF Init, Known, DerivesAt, Idle
  <1>3. ASSUME NEW n \in Nights PROVE available[n] = computeAvailable(bookedNightsByRoomType[n])
    <2>1. bookingRoomDay(n) = {}
      BY DEF Init, bookingRoomDay, rooms
    <2>2. bookedNightsByRoomType[n] = 0
      BY <2>1, FS_EmptySet DEF bookedNightsByRoomType
    <2> QED
      BY <2>2, RoomsAssumption DEF Init, computeAvailable
  <1>4. \A w \in Workers : job[w].at # "write"
    BY DEF Init, Idle
  <1> QED
    BY <1>1, <1>2, <1>3, <1>4 DEF FollowsInv, Alone, Init

\* A worker's event is one.
LEMMA EventTyped ==
  ASSUME Typed, NEW w \in Workers, job[w].at \in DerivesAt
  PROVE  EventOf(w) \in Events
  BY DEF Typed, TypeOK, Jobs, HasRevision, DerivesAt, EventOf, Events

\* A night that neither the event names nor the transaction changes unnamed keeps its rows.
LEMMA UntouchedNight ==
  ASSUME Typed, NEW r \in Revisions, NEW prev,
         projection' = [projection EXCEPT ![bookingOf[r]] = r],
         NEW n \in Nights, n \notin touched(prev, r), n \notin missed(prev, r)
  PROVE  bookedNightsByRoomType'[n] = bookedNightsByRoomType[n]
  <1>1. rooms(projection[bookingOf[r]], n) = rooms(r, n)
    BY DEF missed
  <1>2. \A c \in Bookings : rooms(projection'[c], n) = rooms(projection[c], n)
    BY <1>1, RevisionsAssumption DEF Typed, TypeOK
  <1>3. bookingRoomDay(n)' = bookingRoomDay(n)
    BY <1>2 DEF bookingRoomDay
  <1> QED
    BY <1>3 DEF bookedNightsByRoomType

\* Steps that neither book nor write: no event becomes known, one is forgotten only when it
\* is claimed or its nights are disturbed, and who comes to write has just read.
LEMMA FollowsKept ==
  ASSUME FollowsInv, Typed', UNCHANGED <<projection, available, claimed>>,
         stored \subseteq stored', disturbed \subseteq disturbed',
         \A e \in Events : Known(e)' => Known(e),
         \A e \in Events : Known(e) =>
            Known(e)' \/ e.rev \in claimed \/ e.nights \subseteq disturbed',
         \A w \in Workers : job'[w].at = "write" =>
            \/ job'[w] = job[w]
            \/ /\ job'[w].rev \notin claimed /\ job'[w].booked = bookedNightsByRoomType
               /\ \A v \in Workers \ {w} : /\ job'[v] = job[v]
                                           /\ ~(job[v].at = "write" /\ job[v].rev = job'[w].rev)
  PROVE  FollowsInv'
  <1>1. \A n : bookingRoomDay(n)' = bookingRoomDay(n)
    BY DEF bookingRoomDay
  <1>2. bookedNightsByRoomType' = bookedNightsByRoomType
    BY <1>1 DEF bookedNightsByRoomType
  <1>3. ASSUME NEW n \in Nights, n \notin disturbed', Settled(n)' PROVE Settled(n)
    BY <1>3 DEF Settled
  <1>4. ASSUME NEW w \in Workers PROVE Alone(w)'
    BY DEF FollowsInv, Alone
  <1>5. ASSUME NEW w \in Workers, job'[w].at = "write", NEW n \in job'[w].nights,
               n \notin disturbed'
        PROVE  ReadIsCurrent(w, n)'
    <2>1. CASE job'[w].booked = bookedNightsByRoomType
      BY <1>2, <2>1 DEF ReadIsCurrent
    <2>2. CASE job'[w] = job[w]
      <3>1. ReadIsCurrent(w, n)
        BY <1>5, <2>2 DEF FollowsInv
      <3>2. ASSUME NEW e \in Events, Known(e), e.rev \notin claimed, n \in e.nights
            PROVE  Known(e)'
        BY <1>5, <3>2
      <3> QED
        BY <1>2, <2>2, <3>1, <3>2 DEF ReadIsCurrent
    <2> QED
      BY <1>5, <2>1, <2>2
  <1>6. \A n \in Nights \ disturbed' :
          Settled(n)' => available'[n] = computeAvailable(bookedNightsByRoomType'[n])
    BY <1>2, <1>3 DEF FollowsInv
  <1>7. /\ claimed' \subseteq stored'
        /\ \A e \in Events : Known(e)' => e.rev \in stored'
        /\ \A e, f \in Events : Known(e)' /\ Known(f)' /\ e.rev = f.rev => e = f
    BY DEF FollowsInv
  <1> QED
    BY <1>4, <1>5, <1>6, <1>7 DEF FollowsInv, computeAvailable

\* Apply unsettles the nights of its diff and gives them an event of their own.
LEMMA ApplyFollows ==
  ASSUME FollowsInv, Typed', NEW w \in Workers, Apply(w)
  PROVE  FollowsInv'
  <1> DEFINE r == job[w].rev
             new == [rev |-> r, nights |-> touched(job[w].prev, r)]
  <1>1. /\ Typed /\ job \in [Workers -> Jobs] /\ HasRevision(job[w])
        /\ claimed \subseteq stored
    BY DEF FollowsInv, Typed, TypeOK
  <1>2. /\ r \in Revisions /\ r \notin stored /\ stored' = stored \cup {r}
        /\ projection' = [projection EXCEPT ![bookingOf[r]] = r]
        /\ outbox' = outbox \cup {new} /\ UNCHANGED <<queue, available, claimed>>
        /\ disturbed' = disturbed \cup missed(job[w].prev, r)
    BY <1>1 DEF Apply, Rejected, HasRevision, Jobs, derived
  <1>3. new \in Events
    BY <1>2 DEF Events, touched, bookedNights
  <1>4. /\ job[w].at = "apply" /\ job'[w].at = "ack"
        /\ \A v \in Workers : v # w => job'[v] = job[v]
    BY <1>1 DEF Apply, Becomes, Jobs
  <1>5. \A e : Known(e)' <=> Known(e) \/ e = new
    BY <1>2, <1>4 DEF Known, DerivesAt, EventOf
  <1>6. \A e \in Events : Known(e) => e.rev # r
    BY <1>2 DEF FollowsInv
  \* A night keeps its rows, is disturbed, or has the new event.
  <1>7. ASSUME NEW n \in Nights, n \notin disturbed', n \notin new.nights
        PROVE  bookedNightsByRoomType'[n] = bookedNightsByRoomType[n]
    BY <1>1, <1>2, <1>7, UntouchedNight
  <1>8. ASSUME NEW n \in Nights, n \notin disturbed', Settled(n)'
        PROVE  available'[n] = computeAvailable(bookedNightsByRoomType'[n])
    <2>1. Settled(n)
      BY <1>2, <1>5, <1>8 DEF Settled
    <2>2. n \notin new.nights
      BY <1>1, <1>2, <1>3, <1>5, <1>8 DEF Settled
    <2> QED
      BY <1>2, <1>7, <1>8, <2>1, <2>2 DEF FollowsInv
  <1>9. ASSUME NEW v \in Workers, job'[v].at = "write", NEW n \in job'[v].nights,
               n \notin disturbed'
        PROVE  ReadIsCurrent(v, n)'
    <2>1. v # w /\ job'[v] = job[v] /\ n \in Nights
      BY <1>1, <1>4, <1>9 DEF Jobs
    <2>2. CASE n \in new.nights
      <3>1. EventOf(v) \in Events /\ Known(EventOf(v))
        BY <1>1, <1>9, <2>1, EventTyped DEF DerivesAt, Known
      <3>2. job[v].rev # r
        BY <1>6, <3>1 DEF EventOf
      <3> QED
        BY <1>1, <1>2, <1>3, <1>5, <2>1, <2>2, <3>2 DEF ReadIsCurrent
    <2>3. CASE n \notin new.nights
      <3>1. ReadIsCurrent(v, n)
        BY <1>2, <1>9, <2>1 DEF FollowsInv
      <3>2. bookedNightsByRoomType'[n] = bookedNightsByRoomType[n]
        BY <1>7, <1>9, <2>1, <2>3
      <3> QED
        BY <1>2, <1>5, <2>1, <3>1, <3>2 DEF ReadIsCurrent
    <2> QED
      BY <2>2, <2>3
  <1>10. \A v \in Workers : Alone(v)'
    BY <1>2, <1>4 DEF FollowsInv, Alone
  <1>11. /\ claimed' \subseteq stored'
         /\ \A e \in Events : Known(e)' => e.rev \in stored'
         /\ \A e, f \in Events : Known(e)' /\ Known(f)' /\ e.rev = f.rev => e = f
    BY <1>1, <1>2, <1>5, <1>6 DEF FollowsInv
  <1> QED
    BY <1>8, <1>9, <1>10, <1>11 DEF FollowsInv, computeAvailable

\* Write settles the nights of its event, unless another worker is to write one of them too.
LEMMA WriteFollows ==
  ASSUME FollowsInv, Typed', NEW w \in Workers, Write(w)
  PROVE  FollowsInv'
  <1> DEFINE r == job[w].rev
  <1>1. Typed /\ job \in [Workers -> Jobs] /\ claimed \subseteq stored
    BY DEF FollowsInv, Typed, TypeOK
  <1>2. /\ UNCHANGED <<stored, projection, outbox, queue>> /\ job[w].at = "write"
        /\ claimed' = claimed \cup {r} /\ job' = [job EXCEPT ![w] = Idle]
        /\ available' = [n \in Nights |-> IF n \in job[w].nights
                                         THEN computeAvailable(job[w].booked[n]) ELSE available[n]]
        /\ disturbed' = disturbed \cup crossed(w)
    BY DEF Write, tables, events, Becomes
  <1>3. EventOf(w) \in Events /\ Known(EventOf(w)) /\ EventOf(w).rev = r
    BY <1>1, <1>2, EventTyped DEF DerivesAt, Known, EventOf
  <1>4. job'[w].at = "idle" /\ \A v \in Workers : v # w => job'[v] = job[v]
    BY <1>1, <1>2 DEF Idle
  <1>5. \A e : Known(e)' => Known(e)
    BY <1>2, <1>4 DEF Known, DerivesAt, EventOf
  <1>6. ASSUME NEW e \in Events, Known(e), e.rev # r PROVE Known(e)'
    BY <1>2, <1>3, <1>4, <1>6 DEF Known, EventOf
  <1>7. ASSUME NEW e \in Events, Known(e), e.rev = r PROVE e.nights = job[w].nights
    <2>1. e = EventOf(w)
      BY <1>3, <1>7 DEF FollowsInv
    <2> QED
      BY <2>1 DEF EventOf
  <1>8. \A n : bookingRoomDay(n)' = bookingRoomDay(n)
    BY <1>2 DEF bookingRoomDay
  <1>9. bookedNightsByRoomType' = bookedNightsByRoomType
    BY <1>8 DEF bookedNightsByRoomType
  <1>10. ASSUME NEW n \in Nights, n \notin disturbed', Settled(n)'
         PROVE  available'[n] = computeAvailable(bookedNightsByRoomType'[n])
    <2>1. ~\E e \in Events : Known(e) /\ e.rev \notin claimed /\ e.rev # r /\ n \in e.nights
      BY <1>2, <1>6, <1>10 DEF Settled
    <2>2. CASE n \in job[w].nights
      <3>1. ReadIsCurrent(w, n)
        BY <1>2, <1>10, <2>2 DEF FollowsInv
      <3>2. job[w].booked[n] = bookedNightsByRoomType[n]
        BY <2>1, <3>1 DEF ReadIsCurrent
      <3> QED
        BY <1>2, <1>9, <2>2, <3>2
    <2>3. CASE n \notin job[w].nights
      <3>1. Settled(n)
        BY <1>7, <2>1, <2>3 DEF Settled
      <3> QED
        BY <1>2, <1>9, <1>10, <2>3, <3>1 DEF FollowsInv
    <2> QED
      BY <2>2, <2>3
  <1>11. ASSUME NEW v \in Workers, job'[v].at = "write", NEW n \in job'[v].nights,
                n \notin disturbed'
         PROVE  ReadIsCurrent(v, n)'
    <2>1. v # w /\ job'[v] = job[v] /\ ReadIsCurrent(v, n)
      BY <1>2, <1>4, <1>11 DEF FollowsInv
    <2>2. n \notin job[w].nights
      BY <1>2, <1>11, <2>1 DEF crossed
    <2>3. \A e \in Events : Known(e) /\ n \in e.nights => e.rev # r
      BY <1>7, <2>2
    <2> QED
      BY <1>2, <1>6, <1>9, <2>1, <2>3 DEF ReadIsCurrent
  <1>12. ASSUME NEW v \in Workers PROVE Alone(v)'
    <2> SUFFICES ASSUME job'[v].at = "write"
                 PROVE  /\ job'[v].rev \notin claimed'
                        /\ \A u \in Workers :
                             job'[u].at = "write" /\ job'[u].rev = job'[v].rev => u = v
      BY DEF Alone
    <2>1. v # w /\ job'[v] = job[v] /\ Alone(v)
      BY <1>4 DEF FollowsInv
    <2> QED
      BY <1>2, <1>4, <2>1 DEF Alone
  <1>13. /\ claimed' \subseteq stored'
         /\ \A e \in Events : Known(e)' => e.rev \in stored'
         /\ \A e, f \in Events : Known(e)' /\ Known(f)' /\ e.rev = f.rev => e = f
    BY <1>1, <1>2, <1>3, <1>5 DEF FollowsInv
  <1> QED
    BY <1>10, <1>11, <1>12, <1>13 DEF FollowsInv, computeAvailable

\* Every other step moves an event, takes one that is claimed, or loses one of nights it
\* says are disturbed.
LEMMA StepFollows ==
  ASSUME FollowsInv, [Next]_vars
  PROVE  FollowsInv'
  <1>a. Typed'
    BY StepTyped DEF FollowsInv
  <1>b. /\ Typed /\ job \in [Workers -> Jobs] /\ queue \subseteq Events
    BY DEF FollowsInv, Typed, TypeOK
  <1>1. CASE Quiet
    <2>1. \A e : Known(e)' <=> Known(e)
      BY <1>1 DEF Quiet, Known, EventOf
    <2>2. \A w \in Workers : job'[w].at = "write" => job'[w] = job[w]
      BY <1>1 DEF Quiet, DerivesAt
    <2> QED
      BY <1>1, <1>a, <2>1, <2>2, FollowsKept DEF Quiet
  <1>2. ASSUME NEW w \in Workers, ApplyStale(w) PROVE FollowsInv'
    <2>1. /\ stored \subseteq stored'
          /\ UNCHANGED <<projection, available, claimed, outbox, queue, disturbed>>
      BY <1>2 DEF ApplyStale, derived, events, history
    <2>2. /\ job[w].at = "apply" /\ job'[w].at = "ack"
          /\ \A v \in Workers : v # w => job'[v] = job[v]
      BY <1>2, <1>b DEF ApplyStale, Becomes, Jobs
    <2>3. \A e : Known(e)' <=> Known(e)
      BY <2>1, <2>2 DEF Known, DerivesAt, EventOf
    <2>4. \A v \in Workers : job'[v].at = "write" => job'[v] = job[v]
      BY <2>2
    <2> QED
      BY <1>a, <2>1, <2>3, <2>4, FollowsKept
  <1>3. ASSUME NEW w \in Workers, Derive(w) PROVE FollowsInv'
    <2>1. /\ UNCHANGED <<projection, available, claimed, outbox, queue, stored, disturbed>>
          /\ job[w].at = "derive"
          /\ \A v \in Workers : ~(job[v].at = "write" /\ job[v].rev = job[w].rev)
      BY <1>3 DEF Derive, tables, derived, events, history
    <2>2. \A v \in Workers : v # w => job'[v] = job[v]
      BY <1>3, <1>b DEF Derive, Becomes
    <2>3. CASE job[w].rev \in claimed /\ job' = [job EXCEPT ![w] = Idle]
      <3>1. job'[w].at = "idle"
        BY <2>3, <1>b DEF Idle
      <3>2. \A e \in Events : Known(e)' => Known(e)
        BY <2>1, <2>2, <3>1 DEF Known, DerivesAt, EventOf
      <3>3. \A e \in Events : Known(e) => Known(e)' \/ e.rev \in claimed
        BY <2>1, <2>2, <2>3 DEF Known, EventOf
      <3>4. \A v \in Workers : job'[v].at = "write" => job'[v] = job[v]
        BY <2>2, <3>1
      <3> QED
        BY <1>a, <2>1, <3>2, <3>3, <3>4, FollowsKept
    <2>4. CASE /\ job[w].rev \notin claimed
               /\ job' = [job EXCEPT ![w] = [job[w] EXCEPT !.at = "write",
                                                           !.booked = bookedNightsByRoomType]]
      <3>1. /\ job'[w].at = "write" /\ job'[w].rev = job[w].rev
            /\ job'[w].nights = job[w].nights /\ job'[w].booked = bookedNightsByRoomType
        BY <2>4, <1>b DEF Jobs
      <3>2. \A e : Known(e)' <=> Known(e)
        BY <2>1, <2>2, <3>1 DEF Known, DerivesAt, EventOf
      <3>3. \A v \in Workers : v # w => job'[v] = job[v]
        BY <2>2
      <3> QED
        BY <1>a, <2>1, <2>4, <3>1, <3>2, <3>3, FollowsKept
    <2> QED
      BY <1>3, <2>3, <2>4 DEF Derive, Becomes
  <1>4. ASSUME NEW w \in Workers, Crash(w) \/ Throws(w) PROVE FollowsInv'
    <2>1. /\ UNCHANGED <<stored, projection, available, claimed, outbox>>
          /\ job' = [job EXCEPT ![w] = Idle]
          /\ disturbed \subseteq disturbed'
          /\ \/ queue' = IF job[w].at \in DerivesAt THEN queue \cup {EventOf(w)} ELSE queue
             \/ /\ queue' = queue
                /\ job[w].at \in DerivesAt => job[w].nights \subseteq disturbed'
      BY <1>4 DEF Crash, Throws, HandedBack, tables, derived, history, Becomes, DerivesAt, EventOf
    <2>2. job'[w].at = "idle" /\ \A v \in Workers : v # w => job'[v] = job[v]
      BY <2>1, <1>b DEF Idle
    <2>3. \A e : Known(e)' => Known(e)
      BY <2>1, <2>2 DEF Known, DerivesAt, EventOf
    <2>4. \A e : Known(e) => Known(e)' \/ e.nights \subseteq disturbed'
      BY <2>1, <2>2 DEF Known, DerivesAt, EventOf
    <2>5. \A v \in Workers : job'[v].at = "write" => job'[v] = job[v]
      BY <2>2
    <2> QED
      BY <1>a, <2>1, <2>3, <2>4, <2>5, FollowsKept
  <1>5. ASSUME NEW w \in Workers, NEW e \in queue, Take(w, e) PROVE FollowsInv'
    <2>1. /\ UNCHANGED <<stored, projection, available, claimed, outbox, disturbed>>
          /\ queue' = queue \ {e} /\ job[w].at = "idle" /\ e \in Events
      BY <1>5, <1>b DEF Take, tables, derived, history
    <2>2. CASE e.nights = {} /\ UNCHANGED job
      <3>1. \A f \in Events : Known(f)' => Known(f)
        BY <2>1, <2>2 DEF Known, EventOf
      <3>2. \A f \in Events : Known(f) => Known(f)' \/ f.nights \subseteq disturbed'
        BY <2>1, <2>2 DEF Known, EventOf
      <3>3. \A v \in Workers : job'[v] = job[v]
        BY <2>2
      <3> QED
        BY <1>a, <2>1, <3>1, <3>2, <3>3, FollowsKept
    <2>3. CASE job' = [job EXCEPT ![w] = [job[w] EXCEPT !.at = "derive", !.rev = e.rev,
                                                        !.nights = e.nights]]
      <3>1. /\ job'[w].at = "derive" /\ job'[w].rev = e.rev /\ job'[w].nights = e.nights
            /\ \A v \in Workers : v # w => job'[v] = job[v]
        BY <2>3, <1>b DEF Jobs
      <3>2. EventOf(w)' = e
        BY <2>1, <3>1 DEF EventOf, Events
      <3>3. \A f \in Events : Known(f)' <=> Known(f)
        BY <2>1, <3>1, <3>2 DEF Known, DerivesAt, EventOf
      <3>4. \A v \in Workers : job'[v].at = "write" => job'[v] = job[v]
        BY <3>1
      <3> QED
        BY <1>a, <2>1, <3>3, <3>4, FollowsKept
    <2> QED
      BY <1>5, <2>2, <2>3 DEF Take, Becomes
  <1>6. ASSUME NEW e \in outbox, Publish(e) PROVE FollowsInv'
    <2>1. UNCHANGED <<stored, projection, available, claimed, job, disturbed>>
      BY <1>6 DEF Publish, tables, derived, history
    <2>2. outbox' \cup queue' = outbox \cup queue
      BY <1>6 DEF Publish
    <2>3. \A f : Known(f)' <=> Known(f)
      BY <2>1, <2>2 DEF Known, EventOf
    <2> QED
      BY <1>a, <2>1, <2>3, FollowsKept
  <1> QED
    BY <1>a, <1>b, <1>1, <1>2, <1>3, <1>4, <1>5, <1>6, ApplyFollows, WriteFollows, Steps

\* INV-2 and spec 05 5.4.2, for any rooms, any number of workers and either queue: a night
\* that no event is underway for shows the rooms its bookings leave, whatever failed or was
\* delivered twice on the way, unless a transaction changed it without its event saying so,
\* two derivations of it crossed, or a queue without retries dropped one.
THEOREM AvailabilityFollowsBookings ==
  Spec => [](/\ \A n \in Nights \ disturbed : Follows(n)
             /\ disturbed = {} => AvailabilityFollows)
  <1>1. FollowsInv /\ [Next]_vars => FollowsInv'
    BY StepFollows
  <1>2. ASSUME FollowsInv PROVE \A n \in Nights \ disturbed : Follows(n)
    <2> SUFFICES ASSUME NEW n \in Nights, ~Underway(n) PROVE Settled(n)
      BY <1>2 DEF FollowsInv, Follows
    <2> QED
      BY DEF Settled, Underway, Known, EventOf, DerivesAt
  <1>3. FollowsInv => /\ \A n \in Nights \ disturbed : Follows(n)
                      /\ disturbed = {} => AvailabilityFollows
    BY <1>2 DEF AvailabilityFollows
  <1> QED
    BY InitFollows, <1>1, <1>3, PTL DEF Spec
=============================================================================
