--------------------------- MODULE DeliveryProofs ---------------------------
(***************************************************************************)
(* Proofs about what the jobs carry to a provider that may take it and not  *)
(* answer: the instalments of a booking, the decision on a booking request, *)
(* the messages to a guest, and the events a plugin is called with, for any *)
(* number of each and of the jobs that work on them at once.                *)
(***************************************************************************)
EXTENDS Instalments, BookingRequests, Messaging, Plugins, SequenceTheorems, FiniteSetTheorems,
        TLAPS

(* Instalments: the invariant *)

Instalment == [state : {"scheduled", "paid", "failed", "cancelled"}, attempts : Nat]

\* What a run is at, and which instalment it is at.
Resting == [todo : SUBSET Items, at : {"none"}]
Charging == [todo : SUBSET Items, at : {"charge", "succeeded", "failed", "error"}, item : Items]

\* The variables' types; the provider has been asked under keys of instalments only.
InstTyped ==
  /\ schedule \in [Items -> Instalment] /\ recorded \in [Items -> Nat]
  /\ DOMAIN charges \subseteq {<<i>> : i \in Items}
  /\ \A k \in DOMAIN charges : charges[k] \in {"succeeded", "failed"}
  /\ runs \in [Runs -> Resting \cup Charging] /\ crossed \in BOOLEAN

\* By what the provider answered, it has taken the money of the instalment.
took(answers, i) == <<i>> \in DOMAIN answers /\ answers[<<i>>] = "succeeded"

\* A run is at an instalment it has to do, and was told what the provider did.
AnswersAreTrue ==
  \A w \in Runs : runs[w].at # "none" =>
    /\ runs[w].item \in runs[w].todo
    /\ runs[w].at = "succeeded" => took(charges, runs[w].item)

\* As long as no two runs had the same instalment to do, one that is on the folio is
\* there once, is decided, and is nobody's to do.
RecordedOnce ==
  ~crossed => /\ \A w, v \in Runs : w # v => runs[w].todo \cap runs[v].todo = {}
              /\ \A i \in Items : recorded[i] > 0 =>
                   /\ recorded[i] = 1 /\ schedule[i].state # "scheduled"
                   /\ \A w \in Runs : i \notin runs[w].todo

InstInv == /\ InstTyped /\ AnswersAreTrue /\ RecordedOnce
           /\ \A i \in Items : recorded[i] > 0 => took(charges, i)

-----------------------------------------------------------------------------

\* Nothing is charged, and nobody has anything to do.
LEMMA InstInitInv == InstInit => InstInv
  <1> SUFFICES ASSUME InstInit PROVE InstInv
    OBVIOUS
  <1>1. idleRun \in Resting /\ idleRun.at = "none" /\ idleRun.todo = {}
    BY DEF idleRun, Resting
  <1>2. DOMAIN charges = {}
    BY DEF InstInit
  <1>3. crossed \in BOOLEAN
    BY Zenon DEF InstInit
  <1>4. InstTyped
    BY <1>1, <1>2, <1>3 DEF InstInit, InstTyped, Instalment
  <1> QED
    BY <1>1, <1>2, <1>4 DEF InstInit, InstInv, AnswersAreTrue, RecordedOnce

\* What one run's step makes of the runs.
LEMMA RunBecomes ==
  ASSUME InstInv, NEW w \in Runs, NEW d \in Resting \cup Charging,
         runs' = [runs EXCEPT ![w] = d]
  PROVE  /\ runs' \in [Runs -> Resting \cup Charging] /\ runs'[w] = d
         /\ \A v \in Runs \ {w} : runs'[v] = runs[v]
  BY DEF InstInv, InstTyped

\* A run selects what is due; what it shares with another run counts as crossed.
LEMMA SelectsKeepsInv ==
  ASSUME InstInv, NEW w \in Runs, SelectsDue(w)
  PROVE  InstInv'
  <1> DEFINE d == [runs[w] EXCEPT !.todo = duePayments]
  <1>1. /\ runs[w] \in Resting /\ duePayments \subseteq Items
        /\ \A i \in duePayments : schedule[i].state = "scheduled"
    BY DEF SelectsDue, InstInv, InstTyped, Resting, Charging, duePayments
  <1>2. d \in Resting /\ d.at = "none" /\ d.todo = duePayments
    BY <1>1 DEF Resting
  <1>3. runs' = [runs EXCEPT ![w] = d] /\ UNCHANGED <<schedule, charges, recorded>>
    BY DEF SelectsDue
  <1> HIDE DEF d
  <1>4. /\ runs' \in [Runs -> Resting \cup Charging] /\ runs'[w] = d
        /\ \A v \in Runs \ {w} : runs'[v] = runs[v]
    BY <1>2, <1>3, RunBecomes
  <1>5. /\ crossed' \in BOOLEAN
        /\ ~crossed' => ~crossed /\ \A v \in Runs \ {w} : runs[v].todo \cap duePayments = {}
    BY DEF SelectsDue, InstInv, InstTyped
  <1>6. InstTyped'
    BY <1>3, <1>4, <1>5 DEF InstInv, InstTyped
  <1>7. AnswersAreTrue'
    BY <1>2, <1>3, <1>4 DEF InstInv, AnswersAreTrue, took
  <1>8. RecordedOnce'
    <2> SUFFICES ASSUME ~crossed'
                 PROVE  /\ \A u, v \in Runs : u # v => runs'[u].todo \cap runs'[v].todo = {}
                        /\ \A i \in Items : recorded'[i] > 0 =>
                             /\ recorded'[i] = 1 /\ schedule'[i].state # "scheduled"
                             /\ \A v \in Runs : i \notin runs'[v].todo
      BY DEF RecordedOnce
    <2>1. /\ \A u, v \in Runs : u # v => runs[u].todo \cap runs[v].todo = {}
          /\ \A i \in Items : recorded[i] > 0 =>
               /\ recorded[i] = 1 /\ schedule[i].state # "scheduled"
               /\ \A v \in Runs : i \notin runs[v].todo
      BY <1>5 DEF InstInv, RecordedOnce
    <2> QED
      BY <1>1, <1>2, <1>3, <1>4, <1>5, <2>1
  <1>9. \A i \in Items : recorded'[i] > 0 => took(charges', i)
    BY <1>3 DEF InstInv, took
  <1> QED
    BY <1>6, <1>7, <1>8, <1>9 DEF InstInv

\* A step that gives nobody anything to do, takes no charge back, and reschedules nothing.
LEMMA QuietRun ==
  ASSUME InstInv, NEW w \in Runs, NEW d \in Resting \cup Charging,
         runs' = [runs EXCEPT ![w] = d], UNCHANGED <<recorded, crossed>>,
         d.todo \subseteq runs[w].todo,
         schedule' \in [Items -> Instalment],
         \A i \in Items : schedule'[i].state = "scheduled" => schedule[i].state = "scheduled",
         DOMAIN charges' \subseteq {<<i>> : i \in Items},
         \A k \in DOMAIN charges' : charges'[k] \in {"succeeded", "failed"},
         \A i \in Items : took(charges, i) => took(charges', i),
         d.at # "none" => /\ d.item \in d.todo
                          /\ d.at = "succeeded" => took(charges', d.item)
  PROVE  InstInv'
  <1>1. /\ runs' \in [Runs -> Resting \cup Charging] /\ runs'[w] = d
        /\ \A v \in Runs \ {w} : runs'[v] = runs[v]
    BY RunBecomes
  <1>2. InstTyped'
    BY <1>1 DEF InstInv, InstTyped
  <1>3. AnswersAreTrue'
    <2> SUFFICES ASSUME NEW v \in Runs, runs'[v].at # "none"
                 PROVE  /\ runs'[v].item \in runs'[v].todo
                        /\ runs'[v].at = "succeeded" => took(charges', runs'[v].item)
      BY DEF AnswersAreTrue
    <2>1. CASE v = w
      BY <1>1, <2>1
    <2>2. CASE v # w
      <3>1. runs'[v] = runs[v] /\ runs[v].at # "none" /\ runs[v] \in Resting \cup Charging
        BY <1>1, <2>2 DEF InstInv, InstTyped
      <3>2. /\ runs[v].item \in runs[v].todo /\ runs[v].item \in Items
            /\ runs[v].at = "succeeded" => took(charges, runs[v].item)
        BY <3>1 DEF InstInv, AnswersAreTrue, Resting, Charging
      <3> QED
        BY <3>1, <3>2
    <2> QED
      BY <2>1, <2>2
  <1>4. RecordedOnce'
    BY <1>1 DEF InstInv, RecordedOnce
  <1>5. \A i \in Items : recorded'[i] > 0 => took(charges', i)
    BY DEF InstInv
  <1> QED
    BY <1>2, <1>3, <1>4, <1>5 DEF InstInv

\* It looks at an instalment: of a booking that stands it goes on to the charge, of a
\* cancelled one the instalments are cancelled.
LEMMA LooksKeepsInv ==
  ASSUME InstInv, NEW w \in Runs, NEW i \in Items, Looks(w, i)
  PROVE  InstInv'
  <1>1. /\ runs[w] \in Resting /\ i \in runs[w].todo
        /\ UNCHANGED <<charges, recorded, crossed>>
        /\ schedule \in [Items -> Instalment]
    BY DEF Looks, InstInv, InstTyped, Resting, Charging
  <1>2. /\ DOMAIN charges' \subseteq {<<j>> : j \in Items}
        /\ \A k \in DOMAIN charges' : charges'[k] \in {"succeeded", "failed"}
        /\ \A j \in Items : took(charges, j) => took(charges', j)
    BY <1>1 DEF InstInv, InstTyped
  <1>3. CASE stay = "booked" /\ UNCHANGED schedule
             /\ runs' = [runs EXCEPT ![w] = [todo |-> @.todo, at |-> "charge", item |-> i]]
    <2> DEFINE d == [todo |-> runs[w].todo, at |-> "charge", item |-> i]
    <2>1. /\ d \in Charging /\ d.at = "charge" /\ d.item \in d.todo /\ d.todo = runs[w].todo
          /\ runs' = [runs EXCEPT ![w] = d]
      BY <1>1, <1>3 DEF Resting, Charging
    <2> HIDE DEF d
    <2> QED
      BY <1>1, <1>2, <1>3, <2>1, QuietRun
  <1>4. CASE /\ stay = "cancelled"
             /\ schedule' = [j \in Items |->
                  IF schedule[j].state = "scheduled"
                  THEN [schedule[j] EXCEPT !.state = "cancelled"] ELSE schedule[j]]
             /\ runs' = [runs EXCEPT ![w].todo = @ \ {i}]
    <2> DEFINE d == [runs[w] EXCEPT !.todo = @ \ {i}]
    <2>1. d \in Resting /\ d.at = "none" /\ d.todo \subseteq runs[w].todo
      BY <1>1 DEF Resting
    <2>2. runs' = [runs EXCEPT ![w] = d]
      BY <1>4
    <2> HIDE DEF d
    <2>3. \A j \in Items : /\ schedule'[j] \in Instalment
                           /\ schedule'[j].state = "scheduled" => schedule[j].state = "scheduled"
      BY <1>1, <1>4 DEF Instalment
    <2>4. schedule' \in [Items -> Instalment]
      BY <1>4, <2>3
    <2> QED
      BY <1>1, <1>2, <2>1, <2>2, <2>3, <2>4, QuietRun
  <1> QED
    BY <1>3, <1>4 DEF Looks

\* The provider answers a key as it did before, or takes it up; the run may not hear it.
LEMMA ChargesKeepsInv ==
  ASSUME InstInv, NEW w \in Runs, Charges(w)
  PROVE  InstInv'
  <1> DEFINE i == runs[w].item
             key == <<i>>
  <1>1. /\ runs[w] \in Charging /\ i \in Items /\ i \in runs[w].todo
        /\ UNCHANGED <<schedule, recorded, crossed>>
    BY DEF Charges, InstInv, InstTyped, AnswersAreTrue, Resting, Charging
  <1>2. PICK a \in {"succeeded", "failed"} : \E heard \in {a, "error"} :
          /\ key \in DOMAIN charges => a = charges[key]
          /\ charges' = [k \in DOMAIN charges \cup {key} |-> IF k = key THEN a ELSE charges[k]]
          /\ runs' = [runs EXCEPT ![w].at = heard]
    BY DEF Charges, chargeKey, InstInv, InstTyped
  <1>3. PICK heard \in {a, "error"} :
          /\ key \in DOMAIN charges => a = charges[key]
          /\ charges' = [k \in DOMAIN charges \cup {key} |-> IF k = key THEN a ELSE charges[k]]
          /\ runs' = [runs EXCEPT ![w].at = heard]
    BY <1>2
  <1>4. /\ DOMAIN charges \subseteq {<<j>> : j \in Items}
        /\ \A k \in DOMAIN charges : charges[k] \in {"succeeded", "failed"}
        /\ schedule \in [Items -> Instalment]
    BY DEF InstInv, InstTyped
  <1>5. /\ DOMAIN charges' \subseteq {<<j>> : j \in Items}
        /\ \A k \in DOMAIN charges' : charges'[k] \in {"succeeded", "failed"}
        /\ \A j \in Items : took(charges, j) => took(charges', j)
        /\ a = "succeeded" => took(charges', i)
    BY <1>1, <1>3, <1>4 DEF took
  <1> DEFINE d == [runs[w] EXCEPT !.at = heard]
  <1>6. /\ d \in Charging /\ d.todo = runs[w].todo /\ d.item = i /\ d.at = heard
        /\ runs' = [runs EXCEPT ![w] = d]
    BY <1>1, <1>3 DEF Charging
  <1> HIDE DEF d, i
  <1>7. heard = "succeeded" => took(charges', i)
    BY <1>3, <1>5
  <1> QED
    BY <1>1, <1>4, <1>5, <1>6, <1>7, QuietRun

\* A call that does not arrive changes nothing but the run.
LEMMA ChargeFailsKeepsInv ==
  ASSUME InstInv, NEW w \in Runs, ChargeFails(w)
  PROVE  InstInv'
  <1> DEFINE d == [runs[w] EXCEPT !.at = "error"]
  <1>1. /\ runs[w] \in Charging /\ runs[w].item \in runs[w].todo
        /\ UNCHANGED <<schedule, charges, recorded, crossed>>
        /\ schedule \in [Items -> Instalment]
        /\ DOMAIN charges \subseteq {<<j>> : j \in Items}
        /\ \A k \in DOMAIN charges : charges[k] \in {"succeeded", "failed"}
    BY DEF ChargeFails, InstInv, InstTyped, AnswersAreTrue, Resting, Charging
  <1>2. /\ d \in Charging /\ d.todo = runs[w].todo /\ d.item = runs[w].item
        /\ d.at = "error" /\ runs' = [runs EXCEPT ![w] = d]
    BY <1>1 DEF Charging, ChargeFails
  <1> HIDE DEF d
  <1> QED
    BY <1>1, <1>2, QuietRun

\* The answer is recorded: the instalment is done by this run, and by this run alone
\* unless two had it to do.
LEMMA RecordsKeepsInv ==
  ASSUME InstInv, NEW w \in Runs, RecordsPayment(w)
  PROVE  InstInv'
  <1> DEFINE i == runs[w].item
             d == [todo |-> runs[w].todo \ {i}, at |-> "none"]
  <1>1. /\ runs[w] \in Charging /\ i \in Items /\ i \in runs[w].todo
        /\ runs[w].at \in {"succeeded", "failed", "error"}
        /\ runs[w].at = "succeeded" => took(charges, i)
        /\ UNCHANGED <<charges, crossed>>
    BY DEF RecordsPayment, InstInv, InstTyped, AnswersAreTrue, Resting, Charging
  <1>2. d \in Resting /\ d.at = "none" /\ d.todo = runs[w].todo \ {i}
    BY <1>1 DEF Resting, Charging
  <1>3. runs' = [runs EXCEPT ![w] = d]
    BY DEF RecordsPayment
  <1> DEFINE settled == [state |-> settledAs(runs[w].at, schedule[i].state),
                         attempts |-> schedule[i].attempts + 1]
  <1>4. schedule \in [Items -> Instalment] /\ recorded \in [Items -> Nat]
    BY DEF InstInv, InstTyped
  <1>5. schedule' = [schedule EXCEPT ![i] = settled]
    BY DEF RecordsPayment
  <1>6. settled \in Instalment /\ settled.state = settledAs(runs[w].at, schedule[i].state)
    BY <1>1, <1>4 DEF Instalment, settledAs
  <1>7. /\ settled.state = "scheduled" => schedule[i].state = "scheduled"
        /\ runs[w].at = "succeeded" => settled.state # "scheduled"
    BY <1>1, <1>6 DEF settledAs
  <1> HIDE DEF d, settled
  <1>8. /\ schedule' \in [Items -> Instalment] /\ schedule'[i] = settled
        /\ \A j \in Items \ {i} : schedule'[j] = schedule[j]
    BY <1>1, <1>4, <1>5, <1>6
  <1>9. \A j \in Items : schedule'[j].state = "scheduled" => schedule[j].state = "scheduled"
    BY <1>7, <1>8
  <1>10. CASE runs[w].at # "succeeded"
    <2>1. UNCHANGED recorded
      BY <1>10 DEF RecordsPayment
    <2>2. /\ DOMAIN charges' \subseteq {<<j>> : j \in Items}
          /\ \A k \in DOMAIN charges' : charges'[k] \in {"succeeded", "failed"}
          /\ \A j \in Items : took(charges, j) => took(charges', j)
      BY <1>1 DEF InstInv, InstTyped
    <2>3. d.todo \subseteq runs[w].todo
      BY <1>2
    <2> HIDE DEF i
    <2> QED
      BY <1>1, <1>2, <1>3, <1>8, <1>9, <2>1, <2>2, <2>3, QuietRun
  <1>11. CASE runs[w].at = "succeeded"
    <2>1. /\ recorded' \in [Items -> Nat] /\ recorded'[i] = recorded[i] + 1
          /\ \A j \in Items \ {i} : recorded'[j] = recorded[j]
      BY <1>1, <1>4, <1>11 DEF RecordsPayment
    <2>2. /\ runs' \in [Runs -> Resting \cup Charging] /\ runs'[w] = d
          /\ \A v \in Runs \ {w} : runs'[v] = runs[v]
      BY <1>2, <1>3, RunBecomes
    <2> HIDE DEF i
    <2>3. InstTyped'
      BY <1>1, <1>8, <2>1, <2>2 DEF InstInv, InstTyped
    <2>4. AnswersAreTrue'
      BY <1>1, <1>2, <2>2 DEF InstInv, AnswersAreTrue
    <2>5. RecordedOnce'
      <3> SUFFICES ASSUME ~crossed'
                   PROVE  /\ \A u, v \in Runs : u # v => runs'[u].todo \cap runs'[v].todo = {}
                          /\ \A j \in Items : recorded'[j] > 0 =>
                               /\ recorded'[j] = 1 /\ schedule'[j].state # "scheduled"
                               /\ \A v \in Runs : j \notin runs'[v].todo
        BY DEF RecordedOnce
      <3>1. /\ \A u, v \in Runs : u # v => runs[u].todo \cap runs[v].todo = {}
            /\ \A j \in Items : recorded[j] > 0 =>
                 /\ recorded[j] = 1 /\ schedule[j].state # "scheduled"
                 /\ \A v \in Runs : j \notin runs[v].todo
        BY <1>1 DEF InstInv, RecordedOnce
      <3>2. \A u, v \in Runs : u # v => runs'[u].todo \cap runs'[v].todo = {}
        BY <1>2, <2>2, <3>1
      <3>3. recorded[i] = 0 /\ \A v \in Runs : i \notin runs'[v].todo
        BY <1>1, <1>2, <1>4, <2>2, <3>1
      <3>4. \A v \in Runs : runs'[v].todo \subseteq runs[v].todo
        BY <1>2, <2>2
      <3>5. ASSUME NEW j \in Items, recorded'[j] > 0
            PROVE  /\ recorded'[j] = 1 /\ schedule'[j].state # "scheduled"
                   /\ \A v \in Runs : j \notin runs'[v].todo
        <4>1. CASE j = i
          BY <1>7, <1>8, <1>11, <2>1, <3>3, <4>1
        <4>2. CASE j # i
          BY <1>8, <2>1, <3>1, <3>4, <3>5, <4>2
        <4> QED
          BY <4>1, <4>2
      <3> QED
        BY <3>2, <3>5
    <2>6. \A j \in Items : recorded'[j] > 0 => took(charges', j)
      BY <1>1, <1>11, <2>1 DEF InstInv
    <2> QED
      BY <2>3, <2>4, <2>5, <2>6 DEF InstInv
  <1> QED
    BY <1>10, <1>11

\* Every step of the runs and of the booking keeps the invariant.
LEMMA InstStepInv == InstInv /\ [InstNext]_instVars => InstInv'
  <1> SUFFICES ASSUME InstInv, [InstNext]_instVars PROVE InstInv'
    OBVIOUS
  <1>1. ASSUME NEW w \in Runs, Collects(w) PROVE InstInv'
    BY <1>1, SelectsKeepsInv, LooksKeepsInv, ChargesKeepsInv, ChargeFailsKeepsInv,
       RecordsKeepsInv DEF Collects
  <1>2. ASSUME NEW w \in Runs, StopsRun(w) PROVE InstInv'
    <2>1. /\ idleRun \in Resting /\ idleRun.at = "none" /\ idleRun.todo \subseteq runs[w].todo
          /\ runs' = [runs EXCEPT ![w] = idleRun]
          /\ UNCHANGED <<schedule, charges, recorded, crossed>>
          /\ schedule \in [Items -> Instalment]
          /\ DOMAIN charges \subseteq {<<j>> : j \in Items}
          /\ \A k \in DOMAIN charges : charges[k] \in {"succeeded", "failed"}
      BY <1>2 DEF StopsRun, idleRun, Resting, InstInv, InstTyped
    <2> QED
      BY <2>1, QuietRun
  <1>3. CASE StayIsCancelled \/ UNCHANGED instVars
    <2>1. UNCHANGED <<schedule, charges, recorded, runs, crossed>>
      BY <1>3 DEF StayIsCancelled, instVars
    <2> QED
      BY <2>1 DEF InstInv, InstTyped, AnswersAreTrue, RecordedOnce
  <1> QED
    BY <1>1, <1>2, <1>3 DEF InstNext

\* The invariant holds throughout.
LEMMA InstInvariant == InstSpec => []InstInv
  BY InstInitInv, InstStepInv, PTL DEF InstSpec

\* The job's state has the types it is meant to have.
THEOREM InstTypeCorrect == InstSpec => []InstTypeOK
  <1>1. InstInv => InstTypeOK
    BY DEF InstInv, InstTyped, Instalment, Resting, Charging, InstTypeOK
  <1> QED
    BY <1>1, InstInvariant, PTL

\* However many runs try an instalment, however often, and whatever answers are lost,
\* the guest is charged for it at most once: its key names it, and nothing else.
THEOREM InstalmentIsChargedOnce == InstSpec => []OneChargePerInstalment
  <1>1. InstInv => OneChargePerInstalment
    <2> SUFFICES ASSUME InstInv, NEW i \in Items
                 PROVE  Cardinality({k \in DOMAIN charges :
                                       k[1] = i /\ charges[k] = "succeeded"}) <= 1
      BY DEF OneChargePerInstalment
    <2> DEFINE taken == {k \in DOMAIN charges : k[1] = i /\ charges[k] = "succeeded"}
    <2>1. taken \subseteq {<<i>>}
      BY DEF InstInv, InstTyped
    <2>2. IsFiniteSet({<<i>>}) /\ Cardinality({<<i>>}) = 1
      BY FS_Singleton
    <2>3. Cardinality(taken) <= Cardinality({<<i>>})
      BY <2>1, <2>2, FS_Subset
    <2> QED
      BY <2>2, <2>3
  <1> QED
    BY <1>1, InstInvariant, PTL

\* The folio shows a payment only if the provider took it, and once as long as no two
\* runs had the instalment to do.
THEOREM FolioShowsWhatWasTaken == InstSpec => []PaymentIsReal
  <1>1. InstInv => PaymentIsReal
    <2> SUFFICES ASSUME InstInv, NEW i \in Items
                 PROVE  /\ recorded[i] > 0 => \E k \in DOMAIN charges :
                                                k[1] = i /\ charges[k] = "succeeded"
                        /\ ~crossed => recorded[i] <= 1
      BY DEF PaymentIsReal
    <2>1. recorded[i] > 0 => <<i>> \in DOMAIN charges /\ charges[<<i>>] = "succeeded"
      BY DEF InstInv, took
    <2>2. ~crossed => recorded[i] <= 1
      BY DEF InstInv, InstTyped, RecordedOnce
    <2> QED
      BY <2>1, <2>2
  <1> QED
    BY <1>1, InstInvariant, PTL

-----------------------------------------------------------------------------
(* Booking requests: the invariant *)

RequestRow == [state : {"none", "open", "deciding"} \cup Outcomes,
               decided : Decisions \cup {"none"}]

\* The variables' types; the feed says of a request what Airbnb says; a row that waits
\* for its answer to be carried says which.
RequestInv ==
  /\ request \in [Requests -> RequestRow]
  /\ airbnb \in [Requests -> {"none", "open"} \cup Outcomes]
  /\ answering \subseteq Requests /\ resolving \in [Requests -> 0..MaxResolves]
  /\ \A s \in FeedSyncs : \A r \in DOMAIN feed[s] : feed[s][r] \in {"open"} \cup Outcomes
  /\ DOMAIN feed = FeedSyncs
  /\ \A r \in Requests : request[r].state = "deciding" => request[r].decided \in Decisions

-----------------------------------------------------------------------------

\* What a sync writes of a row: it stays, or was open and follows Airbnb.
LEMMA UpsertedRow ==
  ASSUME NEW row \in RequestRow, NEW word \in {"open"} \cup Outcomes
  PROVE  /\ upsertRequest(row, word) \in RequestRow
         /\ row.state \notin {"none", "open"} => upsertRequest(row, word) = row
         /\ row.state \in {"none", "open"} => upsertRequest(row, word).state = word
  <1>1. word # "deciding" /\ word \in {"none", "open", "deciding"} \cup Outcomes
    BY DEF Outcomes, Decisions
  <1>2. CASE row.state \in {"none", "open"}
    BY <1>1, <1>2 DEF upsertRequest, RequestRow
  <1>3. CASE row.state \notin {"none", "open"}
    BY <1>3 DEF upsertRequest
  <1> QED
    BY <1>2, <1>3

\* What the console's answer makes of a row: it was open and now waits, or it stays.
LEMMA AnsweredRow ==
  ASSUME NEW row \in RequestRow, NEW d \in Decisions
  PROVE  /\ markRequestDeciding(row, d) \in RequestRow
         /\ row.state # "open" => markRequestDeciding(row, d) = row
         /\ row.state = "open" => markRequestDeciding(row, d) = [state |-> "deciding", decided |-> d]
  BY DEF markRequestDeciding, RequestRow

\* What a step makes of each row: nothing but what the rules allow.
RowFollows(old, new) ==
  /\ new \in RequestRow
  /\ new.state = "deciding" => new.decided \in Decisions
  /\ old.state \in Outcomes => new = old
  /\ old.state = "deciding" =>
       new.decided = old.decided /\ new.state \in {"deciding", old.decided}

\* No step of Airbnb, of a sync, of a console or of the job treats a row otherwise.
LEMMA RowsFollow ==
  ASSUME RequestInv, [RequestNext]_requestVars
  PROVE  /\ request' \in [Requests -> RequestRow]
         /\ \A r \in Requests : RowFollows(request[r], request'[r])
  <1>1. /\ request \in [Requests -> RequestRow]
        /\ \A r \in Requests : request[r].state = "deciding" => request[r].decided \in Decisions
    BY DEF RequestInv
  <1>2. ASSUME UNCHANGED request
        PROVE  /\ request' \in [Requests -> RequestRow]
               /\ \A r \in Requests : RowFollows(request[r], request'[r])
    BY <1>1, <1>2 DEF RowFollows, RequestRow
  <1>3. ASSUME NEW s \in FeedSyncs, Mirrors(s)
        PROVE  /\ request' \in [Requests -> RequestRow]
               /\ \A r \in Requests : RowFollows(request[r], request'[r])
    <2> SUFFICES ASSUME NEW r \in Requests PROVE RowFollows(request[r], request'[r])
      BY <1>3 DEF Mirrors, RowFollows
    <2>1. CASE r \in DOMAIN feed[s]
      <3>1. feed[s][r] \in {"open"} \cup Outcomes /\ request[r] \in RequestRow
        BY <1>1, <2>1 DEF RequestInv
      <3>2. request'[r] = upsertRequest(request[r], feed[s][r])
        BY <1>3, <2>1 DEF Mirrors
      <3>3. feed[s][r] # "deciding" /\ "deciding" \notin Outcomes
        BY <3>1 DEF Outcomes, Decisions
      <3>4. "none" \notin Outcomes /\ "open" \notin Outcomes
        BY DEF Outcomes, Decisions
      <3>5. CASE request[r].state \in {"none", "open"}
        <4>1. request'[r] \in RequestRow /\ request'[r].state = feed[s][r]
          <5> DEFINE row == request[r]  word == feed[s][r]
          <5>1. row \in RequestRow /\ word \in {"open"} \cup Outcomes
            BY <3>1
          <5>2. request'[r] = upsertRequest(row, word) /\ row.state \in {"none", "open"}
            BY <3>2, <3>5
          <5> HIDE DEF row, word
          <5>3. request'[r] \in RequestRow /\ request'[r].state = word
            BY <5>1, <5>2, UpsertedRow
          <5> QED
            BY <5>3 DEF word
        <4> QED
          BY <3>3, <3>4, <3>5, <4>1 DEF RowFollows
      <3>6. CASE request[r].state \notin {"none", "open"}
        <4>1. request'[r] = request[r]
          BY <3>1, <3>2, <3>6, UpsertedRow
        <4> QED
          BY <1>1, <3>1, <4>1 DEF RowFollows
      <3> QED
        BY <3>5, <3>6
    <2>2. CASE r \notin DOMAIN feed[s]
      <3>1. request'[r] = request[r] /\ request[r] \in RequestRow
        BY <1>1, <1>3, <2>2 DEF Mirrors
      <3> QED
        BY <1>1, <3>1 DEF RowFollows
    <2> QED
      BY <2>1, <2>2
  <1>4. ASSUME NEW q \in Requests, Records(q)
        PROVE  /\ request' \in [Requests -> RequestRow]
               /\ \A r \in Requests : RowFollows(request[r], request'[r])
    <2>1. PICK d \in Decisions :
            request' = [request EXCEPT ![q] = markRequestDeciding(request[q], d)]
      BY <1>4 DEF Records
    <2> DEFINE new == markRequestDeciding(request[q], d)
    <2>2. RowFollows(request[q], new)
      <3>1. "open" \notin Outcomes
        BY DEF Outcomes, Decisions
      <3> QED
        BY <1>1, <3>1, AnsweredRow DEF RowFollows
    <2> HIDE DEF new
    <2>3. new \in RequestRow
      BY <2>2 DEF RowFollows
    <2> QED
      BY <1>1, <2>1, <2>2, <2>3 DEF RowFollows, new
  <1>5. ASSUME NEW q \in Requests, Resolves(q)
        PROVE  /\ request' \in [Requests -> RequestRow]
               /\ \A r \in Requests : RowFollows(request[r], request'[r])
    <2> DEFINE new == [request[q] EXCEPT !.state = request[q].decided]
    <2>1. /\ request' = [request EXCEPT ![q] = new] /\ request[q] \in RequestRow
          /\ request[q].state = "deciding" /\ request[q].decided \in Decisions
      BY <1>1, <1>5 DEF Resolves
    <2>2. "deciding" \notin Outcomes /\ Decisions \subseteq Outcomes
      BY DEF Outcomes, Decisions
    <2>3. /\ new \in RequestRow /\ new.state = request[q].decided
          /\ new.decided = request[q].decided
      BY <2>1, <2>2 DEF RequestRow
    <2> HIDE DEF new
    <2>4. RowFollows(request[q], new)
      BY <2>1, <2>2, <2>3 DEF RowFollows
    <2> QED
      BY <1>1, <2>1, <2>3, <2>4 DEF RowFollows
  <1>6. ASSUME NEW q \in Requests,
               \/ GuestAsks(q) \/ DecidesThere(q) \/ Answers(q)
               \/ ResolveFails(q) \/ ResolveIsDone(q)
        PROVE  UNCHANGED request
    BY <1>6 DEF GuestAsks, DecidesThere, Answers, ResolveFails, ResolveIsDone
  <1>7. ASSUME (\E s \in FeedSyncs : ReadsFeed(s)) \/ UNCHANGED requestVars
        PROVE  UNCHANGED request
    BY <1>7 DEF ReadsFeed, requestVars
  <1> QED
    BY <1>2, <1>3, <1>4, <1>5, <1>6, <1>7 DEF RequestNext, SyncsRequests

\* Nothing is known of any request.
LEMMA RequestInitInv == RequestInit => RequestInv
  <1> SUFFICES ASSUME RequestInit PROVE RequestInv
    OBVIOUS
  <1>1. NoRow \in RequestRow /\ NoRow.state = "none"
    BY DEF NoRow, RequestRow
  <1>2. \A s \in FeedSyncs : DOMAIN feed[s] = {}
    BY DEF RequestInit
  <1> QED
    BY <1>1, <1>2, RequestBounds DEF RequestInit, RequestInv

\* What Airbnb is told, and what it is not.
LEMMA AirbnbFollows ==
  ASSUME RequestInv, NEW r \in Requests, request[r].state = "deciding",
         airbnb' \in {airbnb, [airbnb EXCEPT ![r] = resolved(r)]}
  PROVE  airbnb' \in [Requests -> {"none", "open"} \cup Outcomes]
  <1>1. resolved(r) \in {"none", "open"} \cup Outcomes
    BY DEF resolved, RequestInv, Outcomes
  <1> QED
    BY <1>1 DEF RequestInv

\* Every step of Airbnb, a sync, a console or the job keeps the invariant.
LEMMA RequestStepInv == RequestInv /\ [RequestNext]_requestVars => RequestInv'
  <1> SUFFICES ASSUME RequestInv, [RequestNext]_requestVars PROVE RequestInv'
    OBVIOUS
  <1> DEFINE RowsKept ==
        /\ request' \in [Requests -> RequestRow]
        /\ \A r \in Requests : request'[r].state = "deciding" => request'[r].decided \in Decisions
      OthersKept ==
        /\ airbnb' \in [Requests -> {"none", "open"} \cup Outcomes]
        /\ answering' \subseteq Requests /\ resolving' \in [Requests -> 0..MaxResolves]
        /\ \A s \in FeedSyncs : \A r \in DOMAIN feed'[s] : feed'[s][r] \in {"open"} \cup Outcomes
        /\ DOMAIN feed' = FeedSyncs
  <1>1. RowsKept
    BY RowsFollow DEF RowFollows
  <1>2. ASSUME NEW r \in Requests, GuestAsks(r) \/ DecidesThere(r) PROVE OthersKept
    BY <1>2 DEF RequestInv, GuestAsks, DecidesThere
  <1>3. ASSUME NEW r \in Requests, Answers(r) \/ Records(r) PROVE OthersKept
    BY <1>3, RequestBounds DEF RequestInv, Answers, Records
  <1>4. ASSUME NEW r \in Requests, Resolves(r) \/ ResolveFails(r) PROVE OthersKept
    <2>1. request[r].state = "deciding" /\ UNCHANGED <<answering, feed>>
      BY <1>4 DEF Resolves, ResolveFails
    <2>2. airbnb' \in [Requests -> {"none", "open"} \cup Outcomes]
      BY <1>4, <2>1, AirbnbFollows DEF Resolves, ResolveFails
    <2>3. resolving' \in [Requests -> 0..MaxResolves]
      BY <1>4, RequestBounds DEF Resolves, ResolveFails, RequestInv
    <2> QED
      BY <2>1, <2>2, <2>3 DEF RequestInv
  <1>5. ASSUME NEW r \in Requests, ResolveIsDone(r) PROVE OthersKept
    BY <1>5, RequestBounds DEF RequestInv, ResolveIsDone
  <1>6. ASSUME NEW s \in FeedSyncs, ReadsFeed(s) PROVE OthersKept
    <2> DEFINE read == [r \in {q \in Requests : q >= since /\ airbnb[q] # "none"} |-> airbnb[r]]
    <2>1. /\ feed' = [feed EXCEPT ![s] = read]
          /\ UNCHANGED <<request, airbnb, answering, resolving>>
      BY <1>6 DEF ReadsFeed
    <2>2. \A r \in DOMAIN read : read[r] \in {"open"} \cup Outcomes
      BY DEF RequestInv
    <2> HIDE DEF read
    <2> QED
      BY <2>1, <2>2 DEF RequestInv
  <1>7. ASSUME NEW s \in FeedSyncs, Mirrors(s) PROVE OthersKept
    <2>1. feed' = [feed EXCEPT ![s] = <<>>] /\ UNCHANGED <<airbnb, answering, resolving>>
      BY <1>7 DEF Mirrors
    <2>2. DOMAIN <<>> = {}
      OBVIOUS
    <2> QED
      BY <2>1, <2>2 DEF RequestInv
  <1>8. ASSUME UNCHANGED requestVars PROVE OthersKept
    BY <1>8 DEF requestVars, RequestInv
  <1> HIDE DEF RowsKept, OthersKept
  <1>9. OthersKept
    BY <1>2, <1>3, <1>4, <1>5, <1>6, <1>7, <1>8 DEF RequestNext, SyncsRequests
  <1> QED
    BY <1>1, <1>9 DEF RowsKept, OthersKept, RequestInv

\* The invariant holds throughout.
LEMMA RequestInvariant == RequestSpec => []RequestInv
  BY RequestInitInv, RequestStepInv, PTL DEF RequestSpec

\* The mirror of the requests has the types it is meant to have.
THEOREM RequestTypeCorrect == RequestSpec => []RequestTypeOK
  <1>1. RequestInv => RequestTypeOK
    BY DEF RequestInv, RequestRow, RequestTypeOK
  <1> QED
    BY <1>1, RequestInvariant, PTL

\* A decided request stays decided as it was, whatever feed a sync read before, however
\* many consoles answer and however often the answer is carried.
THEOREM DecidedStays == RequestSpec => DecisionStands
  <1> DEFINE Stands ==
        \A r \in Requests :
          /\ request[r].state \in Outcomes => request'[r] = request[r]
          /\ request[r].state = "deciding" =>
               /\ request'[r].decided = request[r].decided
               /\ request'[r].state \in {"deciding", request[r].decided}
  <1>1. RequestInv /\ [RequestNext]_requestVars => [Stands]_requestVars
    BY RowsFollow DEF RowFollows
  <1> HIDE DEF Stands
  <1>2. RequestSpec => [][Stands]_requestVars
    BY <1>1, RequestInvariant, PTL DEF RequestSpec
  <1> QED
    BY <1>2 DEF Stands, DecisionStands

-----------------------------------------------------------------------------
(* Messages: the invariant *)

MessageRow == [state : {"draft", "queued", "sent", "failed"}, attempts : Nat, id : Nat]

\* A row that carries an id, and one that says it was sent, is held under that id.
RowIsHeld(m, row, kept) ==
  /\ row \in MessageRow
  /\ row.state = "sent" => row.id # NoId
  /\ row.id # NoId => row.id \in 1..Len(kept) /\ kept[row.id] = m

\* A job works on replies; an answer it has tells where its oldest message is held.
JobIsTrue(job, kept) ==
  /\ job.todo \subseteq Replies /\ job.id \in 0..Len(kept)
  /\ job.result = "sent" => job.id # NoId
  /\ job.id # NoId => \A m \in oldest(job.todo) : kept[job.id] = m

MessagingInv ==
  /\ posted \in Seq(Replies) /\ DOMAIN rows = Replies /\ DOMAIN jobs = Deliverers
  /\ rows = [m \in Replies |-> rows[m]] /\ jobs = [w \in Deliverers |-> jobs[w]]
  /\ copies \subseteq 1..Len(posted) /\ pull \in 0..Len(posted)
  /\ \A m \in Replies : RowIsHeld(m, rows[m], posted)
  /\ \A w \in Deliverers : JobIsTrue(jobs[w], posted)

-----------------------------------------------------------------------------

\* The provider only adds to what it holds.
LEMMA HeldStays ==
  ASSUME NEW before \in Seq(Replies), NEW k \in Replies
  PROVE  /\ Append(before, k) \in Seq(Replies) /\ Len(Append(before, k)) = Len(before) + 1
         /\ Len(before) \in Nat
         /\ Append(before, k)[Len(before) + 1] = k
         /\ \A i \in 1..Len(before) : Append(before, k)[i] = before[i]
  OBVIOUS

LEMMA RowStaysHeld ==
  ASSUME NEW before \in Seq(Replies), NEW k \in Replies, NEW m, NEW row,
         RowIsHeld(m, row, before)
  PROVE  RowIsHeld(m, row, Append(before, k))
  BY HeldStays DEF RowIsHeld

LEMMA JobStaysTrue ==
  ASSUME NEW before \in Seq(Replies), NEW k \in Replies, NEW job, JobIsTrue(job, before)
  PROVE  JobIsTrue(job, Append(before, k))
  <1>1. Len(before) \in Nat /\ Len(Append(before, k)) = Len(before) + 1
    OBVIOUS
  <1>2. job.id # NoId => job.id \in 1..Len(before)
    BY <1>1 DEF JobIsTrue, NoId
  <1>3. \A i \in 1..Len(before) : Append(before, k)[i] = before[i]
    BY HeldStays
  <1> QED
    BY <1>1, <1>2, <1>3 DEF JobIsTrue

\* A message is older than every other that waits: there is one at most.
LEMMA OneIsOldest ==
  ASSUME NEW todo \in SUBSET Replies, NEW m \in oldest(todo), NEW k \in oldest(todo)
  PROVE  m = k
  BY DEF oldest, Replies

\* A job between two calls has nothing to tell.
LEMMA BetweenIsTrue ==
  ASSUME NEW todo \in SUBSET Replies, NEW tries, NEW kept \in Seq(Replies)
  PROVE  /\ between(todo, tries).todo = todo /\ JobIsTrue(between(todo, tries), kept)
  BY DEF between, JobIsTrue, NoId

\* Every reply is a draft, and no job runs.
LEMMA MessagingInitInv == MessagingInit => MessagingInv
  <1> SUFFICES ASSUME MessagingInit PROVE MessagingInv
    OBVIOUS
  <1>1. posted = <<>> /\ posted \in Seq(Replies) /\ Len(posted) = 0
    BY DEF MessagingInit
  <1>2. JobIsTrue(IdleJob, posted)
    BY <1>1, BetweenIsTrue DEF IdleJob
  <1>3. \A w \in Deliverers : JobIsTrue(jobs[w], posted)
    BY <1>2 DEF MessagingInit
  <1>4. \A m \in Replies : RowIsHeld(m, rows[m], posted)
    BY DEF MessagingInit, RowIsHeld, MessageRow, NoId
  <1>5. /\ DOMAIN rows = Replies /\ rows = [m \in Replies |-> rows[m]]
        /\ DOMAIN jobs = Deliverers /\ jobs = [w \in Deliverers |-> jobs[w]]
    BY DEF MessagingInit
  <1>6. copies \subseteq 1..Len(posted) /\ pull \in 0..Len(posted)
    BY <1>1 DEF MessagingInit, NoId
  <1> QED
    BY <1>1, <1>3, <1>4, <1>5, <1>6 DEF MessagingInv

\* A step of one job that leaves the provider and the pull alone.
LEMMA JobMoves ==
  ASSUME MessagingInv, NEW w \in Deliverers, NEW job, jobs' = [jobs EXCEPT ![w] = job],
         JobIsTrue(job, posted), UNCHANGED <<rows, posted, copies, pull>>
  PROVE  MessagingInv'
  <1>1. /\ DOMAIN jobs' = Deliverers /\ jobs' = [v \in Deliverers |-> jobs'[v]]
        /\ jobs'[w] = job /\ \A v \in Deliverers \ {w} : jobs'[v] = jobs[v]
    BY DEF MessagingInv
  <1>2. \A v \in Deliverers : JobIsTrue(jobs'[v], posted)
    BY <1>1 DEF MessagingInv
  <1> QED
    BY <1>1, <1>2 DEF MessagingInv

\* A step that rewrites one row in a way the provider bears out.
LEMMA RowMoves ==
  ASSUME MessagingInv, NEW m \in Replies, NEW row, rows' = [rows EXCEPT ![m] = row],
         RowIsHeld(m, row, posted), UNCHANGED <<posted, copies, pull>>,
         DOMAIN jobs' = Deliverers /\ jobs' = [v \in Deliverers |-> jobs'[v]],
         \A v \in Deliverers : JobIsTrue(jobs'[v], posted)
  PROVE  MessagingInv'
  <1>1. /\ DOMAIN rows' = Replies /\ rows' = [k \in Replies |-> rows'[k]]
        /\ rows'[m] = row /\ \A k \in Replies \ {m} : rows'[k] = rows[k]
    BY DEF MessagingInv
  <1>2. \A k \in Replies : RowIsHeld(k, rows'[k], posted)
    BY <1>1 DEF MessagingInv
  <1> QED
    BY <1>1, <1>2 DEF MessagingInv

\* The console queues a message, or queues it again.
LEMMA QueueKeepsInv ==
  ASSUME MessagingInv, NEW m \in Replies, queueGuestMessage(m) \/ retry(m)
  PROVE  MessagingInv'
  <1> DEFINE row == [rows[m] EXCEPT !.state = "queued"]
  <1>1. RowIsHeld(m, rows[m], posted) /\ rows[m] \in MessageRow
    BY DEF MessagingInv, RowIsHeld
  <1>2. /\ row \in MessageRow /\ row.state = "queued" /\ row.id = rows[m].id
        /\ rows' = [rows EXCEPT ![m] = row] /\ UNCHANGED <<posted, copies, jobs, pull>>
    BY <1>1 DEF MessageRow, queueGuestMessage, retry
  <1> HIDE DEF row
  <1>3. RowIsHeld(m, row, posted)
    BY <1>1, <1>2 DEF RowIsHeld
  <1> QED
    BY <1>2, <1>3, RowMoves DEF MessagingInv

\* The provider takes a message or does not, and the job hears of it or does not.
LEMMA SendsKeepsInv ==
  ASSUME MessagingInv, NEW w \in Deliverers, Sends(w)
  PROVE  MessagingInv'
  <1>1. PICK m \in oldest(jobs[w].todo), taken \in BOOLEAN,
             answer \in {"sent", "transient", "refused"} :
          /\ answer = "sent" => taken
          /\ posted' = IF taken THEN Append(posted, m) ELSE posted
          /\ jobs' = [jobs EXCEPT ![w] =
               [todo |-> @.todo, result |-> answer, tries |-> @.tries,
                id |-> IF answer = "sent" THEN Len(posted') ELSE NoId]]
    BY DEF Sends
  <1>2. UNCHANGED <<rows, copies, pull>>
    BY DEF Sends
  <1> DEFINE job == [todo |-> jobs[w].todo, result |-> answer, tries |-> jobs[w].tries,
                     id |-> IF answer = "sent" THEN Len(posted') ELSE NoId]
  <1>3. /\ jobs[w].todo \in SUBSET Replies /\ m \in Replies /\ posted \in Seq(Replies)
        /\ Len(posted) \in Nat
        /\ \A v \in Deliverers : JobIsTrue(jobs[v], posted)
        /\ \A k \in Replies : RowIsHeld(k, rows[k], posted)
    BY DEF MessagingInv, JobIsTrue, oldest
  <1>4. /\ posted' \in Seq(Replies) /\ Len(posted') >= Len(posted) /\ Len(posted') \in Nat
        /\ taken => Len(posted') > 0 /\ posted'[Len(posted')] = m
        /\ \A v \in Deliverers : JobIsTrue(jobs[v], posted')
        /\ \A k \in Replies : RowIsHeld(k, rows[k], posted')
    <2>1. CASE taken
      BY <1>1, <1>3, <2>1, HeldStays, RowStaysHeld, JobStaysTrue
    <2>2. CASE ~taken
      BY <1>1, <1>3, <2>2
    <2> QED
      BY <2>1, <2>2
  <1>5. jobs' = [jobs EXCEPT ![w] = job]
    BY <1>1
  <1>6. JobIsTrue(job, posted')
    <2>1. \A k \in oldest(jobs[w].todo) : k = m
      BY <1>3, OneIsOldest
    <2>2. CASE answer = "sent"
      BY <1>1, <1>3, <1>4, <2>1, <2>2 DEF JobIsTrue, NoId
    <2>3. CASE answer # "sent"
      BY <1>3, <1>4, <2>3 DEF JobIsTrue, NoId
    <2> QED
      BY <2>2, <2>3
  <1> HIDE DEF job
  <1>7. /\ DOMAIN jobs' = Deliverers /\ jobs' = [v \in Deliverers |-> jobs'[v]]
        /\ jobs'[w] = job /\ \A v \in Deliverers \ {w} : jobs'[v] = jobs[v]
    BY <1>5 DEF MessagingInv
  <1>8. \A v \in Deliverers : JobIsTrue(jobs'[v], posted')
    BY <1>4, <1>6, <1>7
  <1>9. copies' \subseteq 1..Len(posted') /\ pull' \in 0..Len(posted')
    BY <1>2, <1>3, <1>4 DEF MessagingInv
  <1> QED
    BY <1>2, <1>4, <1>7, <1>8, <1>9 DEF MessagingInv

\* The row is marked with what the provider answered, whatever it has become.
LEMMA MarksKeepsInv ==
  ASSUME MessagingInv, NEW w \in Deliverers, Marks(w)
  PROVE  MessagingInv'
  <1>1. PICK m \in oldest(jobs[w].todo) :
          /\ rows' = [rows EXCEPT ![m] =
               [state |-> markedAs(jobs[w].result, jobs[w].tries[m]), attempts |-> @.attempts + 1,
                id |-> IF jobs[w].id = NoId THEN @.id ELSE jobs[w].id]]
          /\ goesOn(w, m)
    BY DEF Marks
  <1>2. UNCHANGED <<posted, copies, pull>> /\ jobs[w].todo \in SUBSET Replies /\ m \in Replies
        /\ posted \in Seq(Replies)
    BY DEF Marks, MessagingInv, JobIsTrue, oldest
  <1> DEFINE row == [state |-> markedAs(jobs[w].result, jobs[w].tries[m]),
                     attempts |-> rows[m].attempts + 1,
                     id |-> IF jobs[w].id = NoId THEN rows[m].id ELSE jobs[w].id]
             job == IF jobs[w].todo = {m} THEN IdleJob
                    ELSE between(jobs[w].todo \ {m}, jobs[w].tries)
  <1>3. rows' = [rows EXCEPT ![m] = row] /\ jobs' = [jobs EXCEPT ![w] = job]
    BY <1>1 DEF goesOn
  <1>4. RowIsHeld(m, row, posted)
    <2>1. /\ markedAs(jobs[w].result, jobs[w].tries[m]) \in {"queued", "sent", "failed"}
          /\ markedAs(jobs[w].result, jobs[w].tries[m]) = "sent" => jobs[w].result = "sent"
      BY DEF markedAs
    <2>2. /\ rows[m] \in MessageRow
          /\ rows[m].id # NoId => rows[m].id \in 1..Len(posted) /\ posted[rows[m].id] = m
      BY <1>2 DEF MessagingInv, RowIsHeld
    <2>3. /\ jobs[w].id \in 0..Len(posted)
          /\ jobs[w].result = "sent" => jobs[w].id # NoId
          /\ jobs[w].id # NoId => posted[jobs[w].id] = m
      BY DEF MessagingInv, JobIsTrue
    <2>4. Len(posted) \in Nat
      BY <1>2
    <2>5. row.id # NoId => row.id \in 1..Len(posted) /\ posted[row.id] = m
      BY <2>2, <2>3, <2>4 DEF NoId
    <2>6. row \in MessageRow
      BY <2>1, <2>2, <2>3, <2>4 DEF MessageRow
    <2> QED
      BY <2>1, <2>3, <2>5, <2>6 DEF RowIsHeld
  <1>5. JobIsTrue(job, posted)
    BY <1>2, BetweenIsTrue DEF IdleJob
  <1> HIDE DEF row, job
  <1>6. /\ DOMAIN jobs' = Deliverers /\ jobs' = [v \in Deliverers |-> jobs'[v]]
        /\ \A v \in Deliverers : JobIsTrue(jobs'[v], posted)
    BY <1>3, <1>5 DEF MessagingInv
  <1> QED
    BY <1>2, <1>3, <1>4, <1>6, RowMoves

\* Every step of the console, the jobs and the pull keeps the invariant.
LEMMA MessagingStepInv == MessagingInv /\ [MessagingNext]_messagingVars => MessagingInv'
  <1> SUFFICES ASSUME MessagingInv, [MessagingNext]_messagingVars PROVE MessagingInv'
    OBVIOUS
  <1>1. ASSUME NEW m \in Replies, queueGuestMessage(m) \/ retry(m) PROVE MessagingInv'
    BY <1>1, QueueKeepsInv
  <1>2. ASSUME NEW w \in Deliverers, Selects(w) PROVE MessagingInv'
    <2> DEFINE job == between(queuedOutbound, [m \in queuedOutbound |-> rows[m].attempts])
    <2>1. jobs' = [jobs EXCEPT ![w] = job] /\ UNCHANGED <<rows, posted, copies, pull>>
      BY <1>2 DEF Selects
    <2>2. queuedOutbound \in SUBSET Replies /\ posted \in Seq(Replies)
      BY DEF queuedOutbound, MessagingInv
    <2>3. JobIsTrue(job, posted)
      BY <2>2, BetweenIsTrue
    <2> HIDE DEF job
    <2> QED
      BY <2>1, <2>3, JobMoves
  <1>3. ASSUME NEW w \in Deliverers, MarkClashes(w) \/ Stops(w) PROVE MessagingInv'
    <2>1. JobIsTrue(IdleJob, posted)
      BY BetweenIsTrue DEF IdleJob, MessagingInv
    <2> QED
      BY <1>3, <2>1, JobMoves DEF MarkClashes, Stops
  <1>4. ASSUME NEW w \in Deliverers, Delivers(w) \/ Stops(w) PROVE MessagingInv'
    BY <1>2, <1>3, <1>4, SendsKeepsInv, MarksKeepsInv DEF Delivers
  <1>5. CASE Reads \/ StoresThread
    <2>1. copies' \subseteq 1..Len(posted) /\ pull' \in 0..Len(posted)
      <3>1. Len(posted) \in Nat /\ copies \subseteq 1..Len(posted) /\ pull \in 0..Len(posted)
        BY DEF MessagingInv
      <3> QED
        BY <1>5, <3>1 DEF Reads, StoresThread, NoId
    <2>2. UNCHANGED <<rows, posted, jobs>>
      BY <1>5 DEF Reads, StoresThread
    <2> QED
      BY <2>1, <2>2 DEF MessagingInv
  <1>6. CASE UNCHANGED messagingVars
    BY <1>6 DEF messagingVars, MessagingInv
  <1> QED
    BY <1>1, <1>4, <1>5, <1>6 DEF MessagingNext

\* The invariant holds throughout.
LEMMA MessagingInvariant == MessagingSpec => []MessagingInv
  BY MessagingInitInv, MessagingStepInv, PTL DEF MessagingSpec

\* The messages of a thread have the types they are meant to have.
THEOREM MessagingTypeCorrect == MessagingSpec => []MessagingTypeOK
  <1>1. MessagingInv => MessagingTypeOK
    <2> SUFFICES ASSUME MessagingInv PROVE MessagingTypeOK
      OBVIOUS
    <2>1. Len(posted) \in Nat
      BY DEF MessagingInv
    <2> QED
      BY <2>1 DEF MessagingInv, RowIsHeld, MessageRow, JobIsTrue, NoId, MessagingTypeOK
  <1> QED
    BY <1>1, MessagingInvariant, PTL

\* Nothing undelivered is shown as delivered: whatever jobs deliver at once, stop or
\* collide with the pull, a row marked sent is held by the provider under its id.
THEOREM SentMessagesAreHeld == MessagingSpec => []SentIsHeld
  <1>1. MessagingInv => SentIsHeld
    BY DEF MessagingInv, RowIsHeld, SentIsHeld
  <1> QED
    BY <1>1, MessagingInvariant, PTL

-----------------------------------------------------------------------------
(* The deliveries of a plugin *)

DeliveryStates == {"none", "pending", "failed", "delivered", "dead"}
Delivery == [state : DeliveryStates, attempts : 0..MaxDeliveries]

\* The events the cursor has passed.
Passed == {e \in published : e <= cursor}

\* Deliveries of events in P, and a run that holds only such deliveries.
GivenOf(D, P) == D \in [Events -> Delivery] /\ \A e \in Events : D[e].state # "none" => e \in P
HeldOf(k, P) == /\ \A d \in k.batch : d.event \in P
                /\ k.event = 0 \/ k.event \in P

PluginRows == [enabled : BOOLEAN, failures : 0..BreaksAt, open : BOOLEAN]

\* A run of the job holds only deliveries of events the cursor has passed, so what it writes
\* late is written over a delivery that is there.
PluginInv ==
  /\ published \in SUBSET Events /\ cursor \in published \cup {0}
  /\ GivenOf(delivery, Passed)
  /\ plugin \in PluginRows
  /\ DOMAIN courier = Couriers /\ \A c \in Couriers : HeldOf(courier[c], Passed)

\* Any events have a last one.
LEMMA LatestThere ==
  ASSUME NEW E \in SUBSET Events, E # {}
  PROVE  \E e \in E : \A f \in E : f <= e
  <1> DEFINE U == {LastEvent - e : e \in E}
  <1>1. \A e \in E : e \in Nat /\ LastEvent - e \in Nat
    BY PluginBounds DEF Events
  <1>2. U \in SUBSET Nat /\ U # {}
    BY <1>1
  <1>3. PICK m \in U : \A u \in U : ~ (<<u, m>> \in OpToRel(<, Nat))
    <2> HIDE DEF U
    <2> QED
      BY <1>2, WFMin, NatLessThanWellFounded
  <1>4. PICK e \in E : m = LastEvent - e
    BY <1>3
  <1>5. ASSUME NEW f \in E PROVE f <= e
    <2>1. LastEvent - f \in U /\ LastEvent - f \in Nat /\ m \in Nat
      BY <1>1, <1>4
    <2>2. ~ (LastEvent - f < m)
      BY <1>3, <2>1 DEF OpToRel
    <2> QED
      BY <1>1, <1>4, <2>2, PluginBounds
  <1> QED
    BY <1>5

LEMMA StaysHeld ==
  ASSUME NEW P, NEW Q, P \subseteq Q, NEW k, HeldOf(k, P)
  PROVE  HeldOf(k, Q)
  BY DEF HeldOf

LEMMA StaysGiven ==
  ASSUME NEW P, NEW Q, P \subseteq Q, NEW D, GivenOf(D, P)
  PROVE  GivenOf(D, Q)
  BY DEF GivenOf

\* The cursor moves to the last event after it, and what it passed stays passed.
LEMMA CursorMoves ==
  ASSUME PluginInv, Queues
  PROVE  /\ published' = published /\ cursor' \in published
         /\ Passed \subseteq Passed' /\ eventsAfterCursor \subseteq Passed'
  <1> DEFINE E == eventsAfterCursor
             Last(e) == \A f \in E : f <= e
  <1>1. E \in SUBSET Events /\ E # {} /\ E \in SUBSET published /\ \A e \in E : e > cursor
    BY DEF Queues, eventsAfterCursor, PluginInv
  <1>2. cursor' = (CHOOSE e \in E : Last(e)) /\ published' = published
    BY DEF Queues
  <1> HIDE DEF E
  <1>3. \E e \in E : Last(e)
    BY <1>1, LatestThere
  <1> HIDE DEF Last
  <1>4. cursor' \in E /\ Last(cursor')
    BY <1>2, <1>3
  <1>5. cursor \in Nat /\ cursor' \in Nat /\ cursor' > cursor
    BY <1>1, <1>4 DEF PluginInv, Events
  <1>6. published \subseteq Nat
    BY DEF PluginInv, Events
  <1>7. Passed \subseteq Passed'
    <2> SUFFICES ASSUME NEW e \in Passed PROVE e \in Passed'
      OBVIOUS
    <2>1. e \in published /\ e <= cursor /\ e \in Nat
      BY <1>6 DEF Passed
    <2>2. e <= cursor'
      BY <1>5, <2>1
    <2> QED
      BY <1>2, <2>1, <2>2 DEF Passed
  <1>8. E \subseteq Passed'
    BY <1>1, <1>2, <1>4 DEF Passed, Last
  <1> QED
    BY <1>1, <1>2, <1>4, <1>7, <1>8 DEF E

\* The events an event is published after, and the cursor, stay.
LEMMA EventsStay ==
  ASSUME PluginInv, [PluginNext]_pluginVars
  PROVE  /\ published' \in SUBSET Events /\ cursor' \in published' \cup {0}
         /\ Passed \subseteq Passed'
  <1>1. ASSUME NEW e \in Events, Publishes(e)
        PROVE  published' = published \cup {e} /\ cursor' = cursor
    BY <1>1 DEF Publishes
  <1>2. ASSUME NEW c \in Couriers, Couries(c) \/ CourierStops(c)
        PROVE  UNCHANGED <<published, cursor>>
    BY <1>2 DEF Couries, dueDeliveries, Takes, MarksDelivery, CourierStops
  <1>3. CASE CoolsOff \/ SwitchesPlugin \/ Retries \/ UNCHANGED pluginVars
    BY <1>3 DEF CoolsOff, SwitchesPlugin, Retries, pluginVars, PluginInv, Passed
  <1>4. ASSUME cursor' = cursor, published \subseteq published', published' \in SUBSET Events
        PROVE  cursor' \in published' \cup {0} /\ Passed \subseteq Passed'
    BY <1>4 DEF Passed, PluginInv
  <1>5. published \in SUBSET Events
    BY DEF PluginInv
  <1>6. ASSUME NEW e \in Events, Publishes(e)
        PROVE  /\ published' \in SUBSET Events /\ cursor' \in published' \cup {0}
               /\ Passed \subseteq Passed'
    BY <1>1, <1>4, <1>5, <1>6
  <1>7. ASSUME NEW c \in Couriers, Couries(c) \/ CourierStops(c)
        PROVE  /\ published' \in SUBSET Events /\ cursor' \in published' \cup {0}
               /\ Passed \subseteq Passed'
    <2>1. UNCHANGED <<published, cursor>>
      BY <1>2, <1>7
    <2> QED
      BY <1>4, <1>5, <2>1
  <1>8. CASE Queues
    BY <1>5, <1>8, CursorMoves
  <1> QED
    BY <1>3, <1>6, <1>7, <1>8 DEF PluginNext

LEMMA InitPlugin == PluginInit => PluginInv
  <1> SUFFICES ASSUME PluginInit PROVE PluginInv
    OBVIOUS
  <1>1. GivenOf(delivery, Passed)
    BY PluginBounds DEF PluginInit, GivenOf, Delivery, DeliveryStates
  <1>2. \A c \in Couriers : HeldOf(courier[c], Passed)
    BY DEF PluginInit, HeldOf, NoCourier
  <1> QED
    BY <1>1, <1>2, PluginBounds DEF PluginInit, PluginInv, PluginRows

\* A run that takes up or puts down deliveries of events that are passed.
LEMMA CourierMoves ==
  ASSUME PluginInv, Passed \subseteq Passed', NEW c \in Couriers, NEW k, HeldOf(k, Passed),
         courier' = [courier EXCEPT ![c] = k]
  PROVE  DOMAIN courier' = Couriers /\ \A b \in Couriers : HeldOf(courier'[b], Passed')
  <1>1. /\ DOMAIN courier' = Couriers
        /\ \A b \in Couriers : courier'[b] \in {k, courier[b]}
        /\ \A b \in Couriers : HeldOf(courier[b], Passed)
    BY DEF PluginInv
  <1> QED
    BY <1>1, StaysHeld

LEMMA StepPlugin == PluginInv /\ [PluginNext]_pluginVars => PluginInv'
  <1> SUFFICES ASSUME PluginInv, [PluginNext]_pluginVars PROVE PluginInv'
    OBVIOUS
  <1> DEFINE Given == GivenOf(delivery', Passed')
             Switched == plugin' \in PluginRows
             Holds == DOMAIN courier' = Couriers /\ \A c \in Couriers : HeldOf(courier'[c], Passed')
  <1>1. /\ published' \in SUBSET Events /\ cursor' \in published' \cup {0}
        /\ Passed \subseteq Passed'
    BY EventsStay
  <1>2. SUFFICES Given /\ Switched /\ Holds
    BY <1>1 DEF PluginInv
  <1>a. ASSUME delivery' = delivery PROVE Given
    <2>1. GivenOf(delivery, Passed)
      BY DEF PluginInv
    <2> QED
      BY <1>1, <1>a, <2>1, StaysGiven
  <1>b. plugin' = plugin => Switched
    BY DEF PluginInv
  <1>c. ASSUME courier' = courier PROVE Holds
    <2>1. DOMAIN courier = Couriers /\ \A c \in Couriers : HeldOf(courier[c], Passed)
      BY DEF PluginInv
    <2> QED
      BY <1>1, <1>c, <2>1, StaysHeld
  <1>d. plugin \in PluginRows /\ DOMAIN courier = Couriers
        /\ delivery \in [Events -> Delivery]
        /\ \A e \in Events : delivery[e].state # "none" => e \in Passed
    BY DEF PluginInv, GivenOf
  <1> HIDE DEF Given, Switched, Holds
  <1>3. ASSUME NEW e \in Events, Publishes(e) PROVE Given /\ Switched /\ Holds
    BY <1>3, <1>a, <1>b, <1>c DEF Publishes
  <1>4. CASE Queues
    <2> DEFINE new(e) == IF e \in eventsAfterCursor /\ delivery[e].state = "none"
                         THEN [delivery[e] EXCEPT !.state = "pending"] ELSE delivery[e]
    <2>1. delivery' = [e \in Events |-> new(e)] /\ UNCHANGED <<plugin, courier>>
      BY <1>4 DEF Queues
    <2>2. \A e \in Events : new(e) \in Delivery
      BY <1>d DEF Delivery, DeliveryStates
    <2>3. \A e \in Events : new(e) = delivery[e] \/ e \in eventsAfterCursor
      OBVIOUS
    <2> HIDE DEF new
    <2>4. eventsAfterCursor \subseteq Passed'
      BY <1>4, CursorMoves
    <2>5. delivery' \in [Events -> Delivery]
      BY <2>1, <2>2
    <2>6. \A e \in Events : delivery'[e].state # "none" => e \in Passed'
      BY <1>1, <1>d, <2>1, <2>3, <2>4
    <2>7. Given
      BY <2>5, <2>6 DEF Given, GivenOf
    <2> QED
      BY <1>b, <1>c, <2>1, <2>7
  <1>5. ASSUME NEW c \in Couriers, dueDeliveries(c) PROVE Given /\ Switched /\ Holds
    <2> DEFINE B == {[event |-> e, attempts |-> delivery[e].attempts] :
                       e \in {f \in Events : due(f)}}
               k == [courier[c] EXCEPT !.batch = B]
    <2>1. courier' = [courier EXCEPT ![c] = k] /\ courier[c] = NoCourier
      BY <1>5, <1>d DEF dueDeliveries
    <2>2. \A d \in B : d.event \in Passed
      BY <1>d DEF due
    <2> HIDE DEF B
    <2>3. HeldOf(k, Passed)
      BY <2>1, <2>2 DEF HeldOf, NoCourier
    <2> HIDE DEF k
    <2>4. Holds
      BY <1>1, <2>1, <2>3, CourierMoves DEF Holds
    <2> QED
      BY <1>5, <1>a, <1>b, <2>4 DEF dueDeliveries
  <1>6. ASSUME NEW c \in Couriers, Takes(c) PROVE Given /\ Switched /\ Holds
    <2> DEFINE k(d) == [batch |-> courier[c].batch \ {d}, event |-> d.event,
                        attempts |-> d.attempts, failures |-> plugin.failures]
    <2>1. PICK d \in courier[c].batch : courier' = [courier EXCEPT ![c] = k(d)]
      BY <1>6, <1>d DEF Takes
    <2>2. HeldOf(courier[c], Passed)
      BY DEF PluginInv
    <2>3. HeldOf(k(d), Passed)
      BY <2>2 DEF HeldOf
    <2> HIDE DEF k
    <2>4. Holds
      BY <1>1, <2>1, <2>3, CourierMoves DEF Holds
    <2> QED
      BY <1>6, <1>a, <1>b, <2>4 DEF Takes
  <1>7. ASSUME NEW c \in Couriers, NEW ok \in BOOLEAN, MarksDelivery(c, ok)
        PROVE  Given /\ Switched /\ Holds
    <2> DEFINE e == courier[c].event
               new == [state |-> stateAfter(c, ok),
                       attempts |-> oneMore(delivery[e].attempts, MaxDeliveries)]
               k == [NoCourier EXCEPT !.batch = courier[c].batch]
    <2>1. HeldOf(courier[c], Passed)
      BY DEF PluginInv
    <2>2. e \in Passed /\ e \in Events
      <3>1. e \in Passed
        BY <1>7, <2>1 DEF MarksDelivery, HeldOf
      <3> QED
        BY <3>1 DEF PluginInv, Passed
    <2>3. new \in Delivery
      <3>1. delivery[e] \in Delivery
        BY <1>d, <2>2
      <3>2. oneMore(delivery[e].attempts, MaxDeliveries) \in 0..MaxDeliveries
        BY <3>1, PluginBounds DEF Delivery, oneMore
      <3>3. stateAfter(c, ok) \in DeliveryStates
        BY DEF stateAfter, DeliveryStates
      <3> QED
        BY <3>2, <3>3 DEF Delivery
    <2>4. delivery' = [delivery EXCEPT ![e] = new]
      BY <1>7, <1>d, <2>2 DEF MarksDelivery
    <2> HIDE DEF new, e
    <2>5. Given
      <3>1. delivery' \in [Events -> Delivery]
        BY <1>d, <2>3, <2>4
      <3>2. \A f \in Events : delivery'[f].state # "none" => f \in Passed'
        BY <1>1, <1>d, <2>2, <2>4
      <3> QED
        BY <3>1, <3>2 DEF Given, GivenOf
    <2>6. Switched
      <3> DEFINE n == oneMore(plugin.failures, BreaksAt)
                 open == courier[c].failures + 1 >= BreaksAt
      <3>1. n \in 0..BreaksAt /\ 0 \in 0..BreaksAt
        BY <1>d, PluginBounds DEF oneMore, PluginRows
      <3>2. plugin' = IF ok THEN [plugin EXCEPT !.failures = 0, !.open = FALSE]
                      ELSE [plugin EXCEPT !.failures = n, !.open = open]
        BY <1>7, <1>d DEF MarksDelivery, PluginRows
      <3>3. open \in BOOLEAN
        OBVIOUS
      <3> HIDE DEF n, open
      <3> QED
        BY <1>d, <3>1, <3>2, <3>3 DEF Switched, PluginRows
    <2>7. Holds
      <3>1. courier' = [courier EXCEPT ![c] = k]
        BY <1>7 DEF MarksDelivery
      <3>2. HeldOf(k, Passed)
        BY <2>1 DEF HeldOf, NoCourier
      <3> HIDE DEF k
      <3> QED
        BY <1>1, <3>1, <3>2, CourierMoves DEF Holds
    <2> QED
      BY <2>5, <2>6, <2>7
  <1>8. ASSUME NEW c \in Couriers, CourierStops(c) PROVE Given /\ Switched /\ Holds
    <2>1. courier' = [courier EXCEPT ![c] = NoCourier]
      BY <1>8 DEF CourierStops
    <2>2. HeldOf(NoCourier, Passed)
      BY DEF HeldOf, NoCourier
    <2>3. Holds
      BY <1>1, <2>1, <2>2, CourierMoves DEF Holds
    <2> QED
      BY <1>8, <1>a, <1>b, <2>3 DEF CourierStops
  <1>9. CASE CoolsOff \/ SwitchesPlugin
    <2>1. UNCHANGED <<delivery, courier>>
      BY <1>9 DEF CoolsOff, SwitchesPlugin
    <2> DEFINE closed == [plugin EXCEPT !.open = FALSE]
               off == [plugin EXCEPT !.enabled = FALSE]
               on == [enabled |-> TRUE, failures |-> 0, open |-> FALSE]
    <2>2. plugin' \in {closed, off, on}
      BY <1>9 DEF CoolsOff, SwitchesPlugin
    <2>3. closed \in PluginRows /\ off \in PluginRows
      BY <1>d DEF PluginRows
    <2>5. on \in PluginRows
      BY PluginBounds DEF PluginRows
    <2> HIDE DEF closed, off, on
    <2>4. Switched
      BY <2>2, <2>3, <2>5 DEF Switched
    <2> QED
      BY <1>a, <1>c, <2>1, <2>4
  <1>10. CASE Retries
    <2> DEFINE new(e) == IF delivery[e].state \in {"failed", "dead"}
                         THEN [delivery[e] EXCEPT !.state = "pending"] ELSE delivery[e]
    <2>1. delivery' = [e \in Events |-> new(e)] /\ UNCHANGED <<plugin, courier>>
      BY <1>10 DEF Retries
    <2>2. \A e \in Events : new(e) \in Delivery
      BY <1>d DEF Delivery, DeliveryStates
    <2>3. \A e \in Events : new(e) = delivery[e] \/ delivery[e].state # "none"
      OBVIOUS
    <2> HIDE DEF new
    <2>4. delivery' \in [Events -> Delivery]
      BY <2>1, <2>2
    <2>5. \A e \in Events : delivery'[e].state # "none" => e \in Passed'
      BY <1>1, <1>d, <2>1, <2>3
    <2>6. Given
      BY <2>4, <2>5 DEF Given, GivenOf
    <2> QED
      BY <1>b, <1>c, <2>1, <2>6
  <1>11. CASE UNCHANGED pluginVars
    BY <1>11, <1>a, <1>b, <1>c DEF pluginVars
  <1> QED
    BY <1>3, <1>4, <1>5, <1>6, <1>7, <1>8, <1>9, <1>10, <1>11 DEF PluginNext, Couries

\* PluginTypeOK holds of every behaviour: however runs of the job overtake each other and
\* write over each other, a delivery is of an event that the cursor has passed, and its
\* attempts and the breaker's failures stay within what they are compared with.
THEOREM PluginTypeCorrect == PluginSpec => []PluginTypeOK
  <1>1. PluginInv => PluginTypeOK
    BY DEF PluginInv, PluginTypeOK, GivenOf, Delivery, DeliveryStates, Passed, PluginRows
  <1> QED
    BY <1>1, InitPlugin, StepPlugin, PTL DEF PluginSpec
=============================================================================
