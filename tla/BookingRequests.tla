-------------------------- MODULE BookingRequests --------------------------
(***************************************************************************)
(* Airbnb booking requests (docs/specs/09, 9.8): the mirror of the live     *)
(* feed, the console's answer and the job that carries it to Airbnb         *)
(* (packages/jobs/src/messaging.ts, db/repositories/messaging.ts).          *)
(*                                                                         *)
(* A sync reads the feed outside any transaction and writes what it read    *)
(* later; the worker runs two at a time, so one may write what another has  *)
(* already overtaken.                                                      *)
(***************************************************************************)
EXTENDS Integers, FiniteSets

CONSTANTS LastRequest,   \* the requests are numbered in the order Airbnb made them
          FeedSyncs,     \* the syncs that may run at once
          MaxResolves    \* attempts of the request.resolve job

ASSUME RequestBounds == LastRequest \in Nat \ {0} /\ MaxResolves \in Nat \ {0}

VARIABLES
  request,   \* booking_request.state, and in resolution what the console decided
  airbnb,    \* what Airbnb holds of each
  answering, \* the request the console's transaction under way found open
  resolving, \* the attempts left of the resolve jobs, 0 when there is none
  feed       \* what each sync has read and not written

requestVars == <<request, airbnb, answering, resolving, feed>>

Requests == 1..LastRequest

Decisions == {"accepted", "declined"}

\* The words a resolved event carries (requestOutcome): a decision, or the window closed.
Outcomes == Decisions \cup {"expired"}

NoRow == [state |-> "none", decided |-> "none"]

RequestInit ==
  /\ request = [r \in Requests |-> NoRow]
  /\ airbnb = [r \in Requests |-> "none"]
  /\ answering = {}
  /\ resolving = [r \in Requests |-> 0]
  /\ feed = [s \in FeedSyncs |-> <<>>]

held(state) == {r \in Requests : request[r].state = state}

-----------------------------------------------------------------------------
(* Airbnb *)

\* A guest asks; the host answers in Airbnb's own app, or the window closes.
GuestAsks(r) ==
  /\ airbnb[r] = "none" /\ \A q \in 1..(r - 1) : airbnb[q] # "none"
  /\ airbnb' = [airbnb EXCEPT ![r] = "open"]
  /\ UNCHANGED <<request, answering, resolving, feed>>

DecidesThere(r) ==
  /\ airbnb[r] = "open"
  /\ \E outcome \in Outcomes : airbnb' = [airbnb EXCEPT ![r] = outcome]
  /\ UNCHANGED <<request, answering, resolving, feed>>

-----------------------------------------------------------------------------
(* The mirror *)

\* Mutant of since: only from the newest request held (requestCursor alone).
sinceCursor ==
  LET newest == Requests \ held("none")
  IN IF newest = {} THEN 1 ELSE CHOOSE r \in newest : \A q \in newest : q <= r

\* The feed is read from the newest request held, or from the oldest still open if
\* that is earlier.
since ==
  LET known == Requests \ held("none")
      newest == CHOOSE r \in known : \A q \in known : q <= r
      starts == held("open") \cup {newest}
  IN IF known = {} THEN 1 ELSE CHOOSE r \in starts : \A q \in starts : r <= q

\* syncRequests: the feed is read ...
ReadsFeed(s) ==
  /\ feed[s] = <<>>
  /\ feed' = [feed EXCEPT ![s] = [r \in {q \in Requests : q >= since /\ airbnb[q] # "none"}
                                    |-> airbnb[r]]]
  /\ UNCHANGED <<request, airbnb, answering, resolving>>

\* Mutant of upsertRequest: the row follows the feed whatever it says.
upsertAlways(row, word) == [row EXCEPT !.state = word]

\* upsertRequest: a new row takes Airbnb's word, and so does a row that is open; one
\* that we decided, or that is settled, stays.
upsertRequest(row, word) ==
  IF row.state \in {"none", "open"} THEN [row EXCEPT !.state = word] ELSE row

\* ... and mirrored later.
Mirrors(s) ==
  /\ feed[s] # <<>>
  /\ request' = [r \in Requests |->
       IF r \in DOMAIN feed[s] THEN upsertRequest(request[r], feed[s][r]) ELSE request[r]]
  /\ feed' = [feed EXCEPT ![s] = <<>>]
  /\ UNCHANGED <<airbnb, answering, resolving>>

-----------------------------------------------------------------------------
(* The console's answer *)

\* resolveRequestAction refuses a request it does not find open; it is audited, so two
\* of one organization follow one another (the audit chain's lock) ...
Answers(r) ==
  /\ request[r].state = "open" /\ answering = {}
  /\ answering' = {r}
  /\ UNCHANGED <<request, airbnb, resolving, feed>>

markRequestDeciding(row, d) ==
  IF row.state = "open" THEN [state |-> "deciding", decided |-> d] ELSE row

\* ... records the answer and queues request.resolve, whether the row was still open
\* or not; the event's dedupe key is the request, so it is queued once.
Records(r) ==
  /\ r \in answering
  /\ \E d \in Decisions : request' = [request EXCEPT ![r] = markRequestDeciding(@, d)]
  /\ answering' = {}
  /\ resolving' = [resolving EXCEPT ![r] = MaxResolves]
  /\ UNCHANGED <<airbnb, feed>>

\* resolveLiveFeedEvent: a decision is final, resolving again returns the event as it is.
resolved(r) == IF airbnb[r] = "open" THEN request[r].decided ELSE airbnb[r]

\* deliverRequestDecision: Airbnb is asked, and the row settles with what WE decided.
Resolves(r) ==
  /\ resolving[r] > 0 /\ request[r].state = "deciding"
  /\ airbnb' = [airbnb EXCEPT ![r] = resolved(r)]
  /\ request' = [request EXCEPT ![r].state = request[r].decided]
  /\ resolving' = [resolving EXCEPT ![r] = 0]
  /\ UNCHANGED <<answering, feed>>

\* The call fails, before or after Airbnb took it, and the queue tries again.
ResolveFails(r) ==
  /\ resolving[r] > 0 /\ request[r].state = "deciding"
  /\ airbnb' \in {airbnb, [airbnb EXCEPT ![r] = resolved(r)]}
  /\ resolving' = [resolving EXCEPT ![r] = @ - 1]
  /\ UNCHANGED <<request, answering, feed>>

\* A row that is not deciding is left as it is.
ResolveIsDone(r) ==
  /\ resolving[r] > 0 /\ request[r].state # "deciding"
  /\ resolving' = [resolving EXCEPT ![r] = 0]
  /\ UNCHANGED <<request, airbnb, answering, feed>>

-----------------------------------------------------------------------------

SyncsRequests(s) == ReadsFeed(s) \/ Mirrors(s)

RequestNext ==
  \/ \E r \in Requests : \/ GuestAsks(r) \/ DecidesThere(r)
                         \/ Answers(r) \/ Records(r)
                         \/ Resolves(r) \/ ResolveFails(r) \/ ResolveIsDone(r)
  \/ \E s \in FeedSyncs : SyncsRequests(s)

RequestSpec == RequestInit /\ [][RequestNext]_requestVars

\* The poll runs every two minutes; a console's transaction ends.
RequestFairness == \A s \in FeedSyncs : WF_requestVars(SyncsRequests(s))

RequestFairSpec == RequestSpec /\ RequestFairness

-----------------------------------------------------------------------------
(* Properties *)

RequestTypeOK ==
  /\ \A r \in Requests :
       /\ request[r].state \in {"none", "open", "deciding"} \cup Outcomes
       /\ request[r].decided \in Decisions \cup {"none"}
       /\ airbnb[r] \in {"none", "open"} \cup Outcomes
       /\ resolving[r] \in 0..MaxResolves
  /\ answering \subseteq Requests

\* A row that settled, here or on Airbnb, never changes again, and an answer on its way
\* is not replaced: not by a sync that read the feed earlier, not by a second console
\* (upsertRequest: "our own decision is never overwritten").
DecisionStands ==
  [][\A r \in Requests :
       /\ request[r].state \in Outcomes => request'[r] = request[r]
       /\ request[r].state = "deciding" =>
            /\ request'[r].decided = request[r].decided
            /\ request'[r].state \in {"deciding", request[r].decided}]_requestVars

\* What happened on Airbnb closes an open row, however many newer requests came since:
\* open requests are read again every time.
OtaDecisionLands ==
  \A r \in Requests : (airbnb[r] \in Outcomes) ~> (request[r].state # "open")
=============================================================================
