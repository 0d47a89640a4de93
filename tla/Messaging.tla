----------------------------- MODULE Messaging -----------------------------
(***************************************************************************)
(* Outbound guest messages of one provider thread: queued by the console    *)
(* and by automations, delivered by deliverOutbound (packages/jobs/src/      *)
(* messaging.ts), which several jobs may run at once, and met again by the   *)
(* pull of the thread (syncThreads, upsertFromProvider).                    *)
(*                                                                         *)
(* The provider is asked outside any transaction: between the call and its   *)
(* mark another job may deliver the same message, the pull may store it, or  *)
(* the worker may stop.                                                     *)
(***************************************************************************)
EXTENDS Integers, Sequences, FiniteSets

CONSTANTS LastReply,    \* the replies are numbered in the order they are sent_at
          Deliverers,   \* jobs that deliver at once
          MaxTries,     \* MAX_ATTEMPTS
          MaxFaults,    \* bound: calls that fail, workers that stop, retries asked for
          MaxPulls      \* bound: pulls that find something new

ASSUME DeliveryBounds == /\ LastReply \in Nat /\ MaxTries \in Nat \ {0}
                         /\ MaxFaults \in Nat /\ MaxPulls \in Nat

VARIABLES
  rows,    \* message: delivery_state, attempts and provider_message_id of each reply
  posted,  \* the messages the provider has taken, in order: the reply each came from
  copies,  \* the messages of the provider the pull stored as rows of their own
  jobs,    \* the delivery jobs
  pull,    \* how much of the thread a pull has read and not stored, none when idle
  spent    \* bound: the faults and the pulls there have been

messagingVars == <<rows, posted, copies, jobs, pull, spent>>

Replies == 1..LastReply
NoId == 0

\* A job between two calls: what it has to do, and how often each was tried.
between(todo, tries) == [todo |-> todo, result |-> "none", id |-> NoId, tries |-> tries]

IdleJob == between({}, <<>>)

MessagingInit ==
  /\ rows = [m \in Replies |-> [state |-> "draft", attempts |-> 0, id |-> NoId]]
  /\ posted = <<>> /\ copies = {}
  /\ jobs = [w \in Deliverers |-> IdleJob]
  /\ pull = NoId
  /\ spent = [faults |-> 0, pulls |-> 0]

-----------------------------------------------------------------------------
(* The console and the automations *)

queueGuestMessage(m) ==
  /\ rows[m].state = "draft" /\ \A k \in 1..(m - 1) : rows[k].state # "draft"
  /\ rows' = [rows EXCEPT ![m].state = "queued"]
  /\ UNCHANGED <<posted, copies, jobs, pull, spent>>

\* retry: a failed message is queued again on request.
retry(m) ==
  /\ rows[m].state = "failed" /\ spent.faults < MaxFaults
  /\ rows' = [rows EXCEPT ![m].state = "queued"]
  /\ spent' = [spent EXCEPT !.faults = @ + 1]
  /\ UNCHANGED <<posted, copies, jobs, pull>>

-----------------------------------------------------------------------------
(* deliverOutbound *)

\* Mutant of queuedOutbound: only messages never tried.
queuedFresh == {m \in Replies : rows[m].state = "queued" /\ rows[m].attempts = 0}

queuedOutbound == {m \in Replies : rows[m].state = "queued"}

\* The messages are worked through in the order they were sent_at.
oldest(todo) == {m \in todo : \A k \in todo : m <= k}

\* A job selects what is queued, with its attempts so far.
Selects(w) ==
  /\ jobs[w] = IdleJob /\ queuedOutbound # {}
  /\ jobs' = [jobs EXCEPT ![w] =
                 between(queuedOutbound, [m \in queuedOutbound |-> rows[m].attempts])]
  /\ UNCHANGED <<rows, posted, copies, pull, spent>>

\* sendMessage: the provider takes it and its answer arrives, or does not, or it
\* fails without having taken it, for now or for good.
Sends(w) ==
  /\ jobs[w].result = "none"
  /\ \E m \in oldest(jobs[w].todo), taken \in BOOLEAN,
        answer \in {"sent", "transient", "refused"} :
       /\ answer = "sent" => taken
       /\ answer = "refused" => ~taken
       /\ answer # "sent" => spent.faults < MaxFaults
       /\ posted' = IF taken THEN Append(posted, m) ELSE posted
       /\ jobs' = [jobs EXCEPT ![w] =
            [todo |-> @.todo, result |-> answer, tries |-> @.tries,
             id |-> IF answer = "sent" THEN Len(posted') ELSE NoId]]
       /\ spent' = [spent EXCEPT !.faults = IF answer = "sent" THEN @ ELSE @ + 1]
  /\ UNCHANGED <<rows, copies, pull>>

\* Mutant of markedAs: a call whose answer never came counts as sent.
markedAsHoped(result, tries) == IF result = "refused" THEN "failed" ELSE "sent"

\* The state the row is marked with: a transient failure is tried again, so many times.
markedAs(result, tries) ==
  CASE result = "sent" -> "sent"
    [] result = "transient" /\ tries + 1 < MaxTries -> "queued"
    [] OTHER -> "failed"

\* The job goes on with the next message it selected.
goesOn(w, m) ==
  jobs' = [jobs EXCEPT ![w] = IF @.todo = {m} THEN IdleJob ELSE between(@.todo \ {m}, @.tries)]

\* markDelivery, whatever the row has become since it was selected.
Marks(w) ==
  /\ jobs[w].result # "none" /\ jobs[w].id \notin copies
  /\ \E m \in oldest(jobs[w].todo) :
       /\ rows' = [rows EXCEPT ![m] =
            [state |-> markedAs(jobs[w].result, jobs[w].tries[m]), attempts |-> @.attempts + 1,
             id |-> IF jobs[w].id = NoId THEN @.id ELSE jobs[w].id]]
       /\ goesOn(w, m)
  /\ UNCHANGED <<posted, copies, pull, spent>>

\* The pull has stored the provider's id already: the mark breaks message_provider_idx,
\* rolls back and ends the job with the rest of its messages.
MarkClashes(w) ==
  /\ jobs[w].id \in copies
  /\ jobs' = [jobs EXCEPT ![w] = IdleJob]
  /\ UNCHANGED <<rows, posted, copies, pull, spent>>

\* The worker stops.
Stops(w) ==
  /\ jobs[w] # IdleJob /\ spent.faults < MaxFaults
  /\ jobs' = [jobs EXCEPT ![w] = IdleJob]
  /\ spent' = [spent EXCEPT !.faults = @ + 1]
  /\ UNCHANGED <<rows, posted, copies, pull>>

-----------------------------------------------------------------------------
(* The pull *)

known == copies \cup {rows[m].id : m \in Replies}

\* syncThreads reads the thread ...
Reads ==
  /\ pull = NoId /\ spent.pulls < MaxPulls
  /\ 1..Len(posted) \ known # {}
  /\ pull' = Len(posted)
  /\ spent' = [spent EXCEPT !.pulls = @ + 1]
  /\ UNCHANGED <<rows, posted, copies, jobs>>

\* ... and upsertFromProvider stores what it does not know.  It means to find one of
\* ours by its sealed body, which is sealed with a fresh nonce each time, so it finds
\* none and stores a row of its own.
StoresThread ==
  /\ pull # NoId
  /\ copies' = copies \cup ((1..pull) \ known)
  /\ pull' = NoId
  /\ UNCHANGED <<rows, posted, jobs, spent>>

-----------------------------------------------------------------------------

Delivers(w) == Selects(w) \/ Sends(w) \/ Marks(w) \/ MarkClashes(w)

MessagingNext ==
  \/ \E m \in Replies : queueGuestMessage(m) \/ retry(m)
  \/ \E w \in Deliverers : Delivers(w) \/ Stops(w)
  \/ Reads \/ StoresThread

MessagingSpec == MessagingInit /\ [][MessagingNext]_messagingVars

\* message.deliver and the sweep of the messages left queued (deliverOutbox).
MessagingFairness == \A w \in Deliverers : WF_messagingVars(Delivers(w))

MessagingFairSpec == MessagingSpec /\ MessagingFairness

-----------------------------------------------------------------------------
(* Properties *)

MessagingTypeOK ==
  /\ \A m \in Replies : /\ rows[m].state \in {"draft", "queued", "sent", "failed"}
                        /\ rows[m].attempts \in Nat /\ rows[m].id \in 0..Len(posted)
  /\ posted \in Seq(Replies) /\ copies \subseteq 1..Len(posted)
  /\ \A w \in Deliverers : /\ jobs[w].todo \subseteq Replies
                           /\ jobs[w].id \in 0..Len(posted)
  /\ pull \in 0..Len(posted)

\* "Nothing undelivered is ever rendered as delivered" (docs/specs/09, 9.10): a row marked
\* sent, and every row that carries a provider's id, is held by the provider under that id.
SentIsHeld ==
  \A m \in Replies : /\ rows[m].state = "sent" => rows[m].id # NoId
                     /\ rows[m].id # NoId => posted[rows[m].id] = m

\* Whatever fails, stops or collides, a queued message ends up sent or failed as long as
\* the provider, the worker and the pull do not disturb it for ever.
DeliveryEnds == \A m \in Replies : rows[m].state = "queued" ~> rows[m].state # "queued"
=============================================================================
