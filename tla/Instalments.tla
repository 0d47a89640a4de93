---------------------------- MODULE Instalments ----------------------------
(***************************************************************************)
(* payments.collect (packages/jobs/src/payments.ts): the job that charges   *)
(* the instalments payment rules scheduled for a booking.  Several runs of  *)
(* the job may be under way, each works through the instalments it selected *)
(* one by one, and a run may end anywhere and is started again.             *)
(***************************************************************************)
EXTENDS Integers, FiniteSets

CONSTANTS Items,        \* the booking's instalments, rows of payment_schedule
          Runs,         \* runs of the job that may be under way at once
          MaxCollects,  \* the attempt cap of duePayments (6)
          MaxStops      \* bound: runs that end before they are done

ASSUME MaxCollectsPositive == MaxCollects \in Nat \ {0}

VARIABLES
  schedule,     \* payment_schedule: the state and the attempts of each instalment
  stay,         \* the booking: booked or cancelled
  charges,      \* the provider: what it answered to each idempotency key
  recorded,     \* the payments on the folio, counted by instalment
  runs,         \* the runs: what each still has to do, and the item it is at
  stops,        \* runs that ended before they were done
  crossed       \* history: two runs have had the same instalment to do

instVars == <<schedule, stay, charges, recorded, runs, stops, crossed>>

idleRun == [todo |-> {}, at |-> "none"]

InstInit ==
  /\ schedule = [i \in Items |-> [state |-> "scheduled", attempts |-> 0]]
  /\ stay = "booked"
  /\ charges = [k \in {} |-> "none"]
  /\ recorded = [i \in Items |-> 0]
  /\ runs = [w \in Runs |-> idleRun]
  /\ stops = 0 /\ crossed = FALSE

-----------------------------------------------------------------------------

\* duePayments: the instalments whose day has come, decided ones left out.
duePayments == {i \in Items : schedule[i].state = "scheduled"
                              /\ schedule[i].attempts < MaxCollects}

\* The run selects, across tenants, what is due.
SelectsDue(w) ==
  /\ runs[w].at = "none" /\ runs[w].todo = {} /\ duePayments # {}
  /\ runs' = [runs EXCEPT ![w].todo = duePayments]
  /\ crossed' = (crossed \/ \E v \in Runs \ {w} : runs[v].todo \cap duePayments # {})
  /\ UNCHANGED <<schedule, stay, charges, recorded, stops>>

\* It looks at the next instalment's booking.  Those of a cancelled booking are
\* cancelled (cancelSchedule); otherwise it goes on to the charge.
Looks(w, i) ==
  /\ runs[w].at = "none" /\ i \in runs[w].todo
  /\ \/ /\ stay = "booked"
        /\ runs' = [runs EXCEPT ![w] = [todo |-> @.todo, at |-> "charge", item |-> i]]
        /\ UNCHANGED schedule
     \/ /\ stay = "cancelled"
        /\ schedule' = [j \in Items |->
             IF schedule[j].state = "scheduled"
             THEN [schedule[j] EXCEPT !.state = "cancelled"] ELSE schedule[j]]
        /\ runs' = [runs EXCEPT ![w].todo = @ \ {i}]
  /\ UNCHANGED <<stay, charges, recorded, stops, crossed>>

\* Mutant of chargeKey: a key per attempt.
chargeKeyOfAttempt(i) == <<i, schedule[i].attempts>>

\* The idempotency key, schedule:<id>.
chargeKey(i) == <<i>>

\* createIntent: the provider takes the money or declines, and answers a key it knows
\* as it did before.  The answer may be lost, and then the call throws.
Charges(w) ==
  LET key == chargeKey(runs[w].item)
      answers == IF key \in DOMAIN charges THEN {charges[key]} ELSE {"succeeded", "failed"}
  IN /\ runs[w].at = "charge"
     /\ \E a \in answers : \E heard \in {a, "error"} :
          /\ charges' = [k \in DOMAIN charges \cup {key} |->
                           IF k = key THEN a ELSE charges[k]]
          /\ runs' = [runs EXCEPT ![w].at = heard]
     /\ UNCHANGED <<schedule, stay, recorded, stops, crossed>>

\* The call does not reach the provider, or the provider fails.
ChargeFails(w) ==
  /\ runs[w].at = "charge"
  /\ runs' = [runs EXCEPT ![w].at = "error"]
  /\ UNCHANGED <<schedule, stay, charges, recorded, stops, crossed>>

\* Mutant of settledAs: an error is recorded like a decline.
settledAsFailed(answer, state) == IF answer = "succeeded" THEN "paid" ELSE "failed"

\* The state an answer leaves an instalment in; an error leaves it as it is.
settledAs(answer, state) == CASE answer = "succeeded" -> "paid"
                              [] answer = "failed" -> "failed"
                              [] answer = "error" -> state

\* The answer is recorded in one transaction, with the payment if there is one.
RecordsPayment(w) ==
  LET i == runs[w].item
  IN /\ runs[w].at \in {"succeeded", "failed", "error"}
     /\ schedule' = [schedule EXCEPT ![i] =
          [state |-> settledAs(runs[w].at, @.state), attempts |-> @.attempts + 1]]
     /\ recorded' = IF runs[w].at = "succeeded" THEN [recorded EXCEPT ![i] = @ + 1]
                                                ELSE recorded
     /\ runs' = [runs EXCEPT ![w] = [todo |-> @.todo \ {i}, at |-> "none"]]
     /\ UNCHANGED <<stay, charges, stops, crossed>>

-----------------------------------------------------------------------------

\* The worker stops in the middle of a run.
StopsRun(w) ==
  /\ runs[w] # idleRun /\ stops < MaxStops
  /\ stops' = stops + 1
  /\ runs' = [runs EXCEPT ![w] = idleRun]
  /\ UNCHANGED <<schedule, stay, charges, recorded, crossed>>

StayIsCancelled ==
  /\ stay = "booked" /\ stay' = "cancelled"
  /\ UNCHANGED <<schedule, charges, recorded, runs, stops, crossed>>

Collects(w) == \/ SelectsDue(w) \/ \E i \in Items : Looks(w, i)
               \/ Charges(w) \/ ChargeFails(w) \/ RecordsPayment(w)

InstNext == (\E w \in Runs : Collects(w) \/ StopsRun(w)) \/ StayIsCancelled

InstSpec == InstInit /\ [][InstNext]_instVars

\* The sweep of due instalments is repeated.
InstFairness == \A w \in Runs : WF_instVars(Collects(w))

InstFairSpec == InstSpec /\ InstFairness

-----------------------------------------------------------------------------
(* Properties *)

\* The type invariant.
InstTypeOK ==
  /\ \A i \in Items : /\ schedule[i].state \in {"scheduled", "paid", "failed", "cancelled"}
                      /\ schedule[i].attempts \in Nat
  /\ \A w \in Runs : runs[w].todo \subseteq Items
  /\ \A k \in DOMAIN charges : charges[k] \in {"succeeded", "failed"}

\* However often an instalment is tried, by however many runs, the guest is charged
\* for it at most once (payments.ts:61, "one charge per instalment, whatever happens
\* to this job").
OneChargePerInstalment ==
  \A i \in Items : Cardinality({k \in DOMAIN charges : k[1] = i /\ charges[k] = "succeeded"}) <= 1

\* The folio shows an instalment's payment once, and only if the provider took it;
\* two runs at the same instalment may show it twice.
PaymentIsReal ==
  \A i \in Items : /\ recorded[i] > 0 => \E k \in DOMAIN charges :
                                           k[1] = i /\ charges[k] = "succeeded"
                   /\ ~crossed => recorded[i] <= 1

\* A charge the provider took ends up on the folio, through lost answers and stopped
\* runs, unless the booking is cancelled or the attempts are used up before.
ChargeLands ==
  \A i \in Items :
    (\E k \in DOMAIN charges : k[1] = i /\ charges[k] = "succeeded")
      ~> (recorded[i] > 0 \/ stay = "cancelled" \/ schedule[i].attempts >= MaxCollects)
=============================================================================
