------------------------------ MODULE AriSync ------------------------------
(***************************************************************************)
(* The ARI sync engine for one property: local edits of calendar cells, the *)
(* transactional trigger that queues a push, the push job (pushProperty in  *)
(* packages/sync/src/push/pipeline.ts, run by processAriPush under a lease  *)
(* per property), the read-back verification it may end with, the nightly   *)
(* reconcile, and the channel manager that holds the mirrored values.       *)
(*                                                                         *)
(* Every call of the cell store is a transaction of its own (AriStorePerCall)*)
(* and so an action of its own: edits, other jobs and crashes interleave.   *)
(* A job reads versions when it loads the pending cells, and every outcome  *)
(* it later writes is guarded by the version it was computed for.           *)
(*                                                                         *)
(* Left out: the circuit breaker (a refused push goes back to its queue,    *)
(* which is a stuttering step here), the waiting of the rate limiter, the   *)
(* attempts counter, the synced_* copy of the values, and rate plans the    *)
(* provider does not know yet.                                              *)
(***************************************************************************)
EXTENDS AriBatch

CONSTANTS AvailLanes,     \* the lanes that are room types; the others are rate plans
          FieldsOf,       \* the fields of each lane
          Values,         \* the values a field may have
          MaxEntries,     \* BatchLimits.maxEntries
          Jobs,           \* the push jobs of the property that may run at once
          Nightly,        \* the nightly reconcile
          Free, Orphan,   \* the lease is free; it is held by a job that died
          LeaseMayLapse,  \* a running push may outlive the lease's time to live
          MayDelay,       \* a request may be applied after its caller gave up
          LastToday,      \* the last day that becomes today
          MaxEdits,       \* bound: local edits
          MaxQueued,      \* bound: pushes queued or running
          MaxFaults,      \* bound: calls that go wrong, crashes, leases that lapse
          Verifying       \* which of the jobs and the nightly reconcile read back

\* The nightly reconcile is not a push, and a lease that is free or an orphan's is
\* not a job's.
ASSUME NamesDiffer == {Nightly, Free, Orphan} \cap Jobs = {} /\ Free # Orphan

\* The fields of a lane are among those a batch can carry.
ASSUME FieldsListed == \A lane \in Lanes : FieldsOf[lane] \subseteq Fields

\* A call takes some entries.
ASSUME CallsTakeSome == MaxEntries \in Nat \ {0}

Cells     == Lanes \X Dates
Verifiers == Jobs \cup {Nightly}
CellValues(c) == [FieldsOf[c[1]] -> Values]

SyncStates == {"pending", "in_flight", "synced", "failed", "conflicted"}

\* Mutant of PENDING_STATES: what a dead push left in flight is not pushed again.
PENDING_STATES_narrow == SyncStates \ {"synced", "in_flight"}

PENDING_STATES == SyncStates \ {"synced"}

\* The steps of pushProperty and verify.
Steps == {"idle", "load", "drop", "mark", "call", "answered", "verify", "compare",
          "conflict", "release"}

\* How a call of the provider ends: a result that may reject entries, or an
\* error: 429, timeout or 5xx, unknown reference, 422, 401, anything else.
Refusals == {"throttle", "transient", "miss", "invalid", "auth", "error"}
AnswerKinds == {"none", "result"} \cup Refusals
NoAnswer == [kind |-> "none", rejected |-> {}, missed |-> {}]

NoVersion == [c \in Cells |-> 0]

VARIABLES
  version, desired, state, refused,  \* the cells: version, desired values, sync_state,
                                     \* and whether last_error is 'validation'
  held,       \* the values the channel manager holds
  delayed,    \* requests whose caller gave up and that may still be applied
  today,      \* the property-local date
  queued,     \* pushes waiting in the queue (their event may still be in the outbox)
  keyTaken,   \* the outbox has an event with the key of the current 3 s bucket
  lease,      \* who holds the property's lease
  pc,         \* where each job, and the nightly reconcile, is
  versionOf,  \* the versions a job loaded; 0 for a cell it did not load
  dayOf,      \* the date a job took for today
  todo,       \* the chunks a job has still to send
  answer,     \* the answer to the call a job is making
  seen,       \* the values a verification read back
  drift,      \* the cells it found different
  accepted,   \* history: whether the channel manager accepted a cell's current version
  edits, faults

cellVars == <<version, desired, state, refused>>
provVars == <<held, delayed>>
jobVars  == <<pc, versionOf, dayOf, todo, answer, seen, drift>>
trigVars == <<queued, keyTaken>>
bounds   == <<edits, faults>>
vars == <<cellVars, provVars, today, trigVars, lease, jobVars, accepted, bounds>>

-----------------------------------------------------------------------------
(* Initial states *)

\* Something goes wrong, at most MaxFaults times.
Fault == faults < MaxFaults /\ faults' = faults + 1 /\ UNCHANGED edits

\* A property that is live: every cell is synced at its first version.
LiveProperty ==
  /\ state = [c \in Cells |-> "synced"]
  /\ held = desired
  /\ accepted = [c \in Cells |-> TRUE]
  /\ queued = 0

\* A property that was just provisioned: every cell is pending, a push is queued.
NewProperty ==
  /\ state = [c \in Cells |-> "pending"]
  /\ held = [c \in Cells |-> NoValues]
  /\ accepted = [c \in Cells |-> FALSE]
  /\ queued = 1

Init ==
  /\ version = [c \in Cells |-> 1]
  /\ \E v \in Values : desired = [c \in Cells |-> [f \in FieldsOf[c[1]] |-> v]]
  /\ refused = [c \in Cells |-> FALSE]
  /\ LiveProperty \/ NewProperty
  /\ delayed = {}
  /\ today = 1
  /\ keyTaken = FALSE
  /\ lease = Free
  /\ pc = [v \in Verifiers |-> "idle"]
  /\ versionOf = [j \in Jobs |-> NoVersion]
  /\ dayOf = [j \in Jobs |-> 1]
  /\ todo = [j \in Jobs |-> <<>>]
  /\ answer = [j \in Jobs |-> NoAnswer]
  /\ seen = [v \in Verifiers |-> <<>>]
  /\ drift = [v \in Verifiers |-> {}]
  /\ edits = 0 /\ faults = 0

-----------------------------------------------------------------------------
(* Local edits and the trigger of a push *)

Running(j) == pc[j] # "idle"
Busy == Cardinality({j \in Jobs : Running(j)})

\* queueAriPush: the event's key is the property and the 3 s bucket, and an
\* event whose key is in the outbox already is not written again.
queueAriPush ==
  IF keyTaken
  THEN UNCHANGED trigVars
  ELSE /\ queued + Busy < MaxQueued
       /\ queued' = queued + 1
       /\ keyTaken' = TRUE

\* Mutant of repend: the cell keeps its state.
rependQuietly(S) ==
  /\ version' = [c \in Cells |-> IF c \in S THEN version[c] + 1 ELSE version[c]]
  /\ refused' = [c \in Cells |-> refused[c] /\ c \notin S]
  /\ accepted' = [c \in Cells |-> accepted[c] /\ c \notin S]
  /\ UNCHANGED state

\* The upserts that change a cell, and markAllPending: a new version, pending, no
\* error.
repend(S) ==
  /\ version' = [c \in Cells |-> IF c \in S THEN version[c] + 1 ELSE version[c]]
  /\ state' = [c \in Cells |-> IF c \in S THEN "pending" ELSE state[c]]
  /\ refused' = [c \in Cells |-> refused[c] /\ c \notin S]
  /\ accepted' = [c \in Cells |-> accepted[c] /\ c \notin S]

\* setRate, setAvailability: the new values are merged into the desired ones and the
\* cell is pending; the push is queued in the same transaction.
Edit(c, vals) ==
  /\ edits < MaxEdits
  /\ edits' = edits + 1
  /\ desired' = [desired EXCEPT ![c] =
                   [f \in DOMAIN @ |-> IF f \in DOMAIN vals THEN vals[f] ELSE @[f]]]
  /\ repend({c})
  /\ queueAriPush
  /\ UNCHANGED <<provVars, today, lease, jobVars, faults>>

\* markAllPending, on every cell that is not plainly pending.
ForceResync ==
  /\ edits < MaxEdits
  /\ edits' = edits + 1
  /\ repend({c \in Cells : state[c] # "pending" \/ refused[c]})
  /\ queueAriPush
  /\ UNCHANGED <<desired, provVars, today, lease, jobVars, faults>>

\* Three seconds later the key of the event is another one.
NextBucket ==
  /\ keyTaken
  /\ keyTaken' = FALSE
  /\ UNCHANGED <<cellVars, provVars, today, queued, lease, jobVars, accepted, bounds>>

\* The daily horizon extension queues a push for every property it extends.
DailyPush ==
  /\ ~keyTaken
  /\ queueAriPush
  /\ UNCHANGED <<cellVars, provVars, today, lease, jobVars, accepted, bounds>>

\* Midnight in the property's time zone.
NextDay ==
  /\ today < LastToday
  /\ today' = today + 1
  /\ UNCHANGED <<cellVars, provVars, trigVars, lease, jobVars, accepted, bounds>>

-----------------------------------------------------------------------------
(* The push job *)

\* Mutant of acquire: the lease is set whether or not it is free.
acquireAlways(j) == lease' = j

\* lease.acquire: it is taken only when it is free.
acquire(j) == lease = Free /\ lease' = j

\* processAriPush: take the job and the lease.  A job that finds the lease
\* taken is delayed, which leaves everything as it was.
Start(j) ==
  /\ pc[j] = "idle" /\ queued > 0
  /\ acquire(j)
  /\ queued' = queued - 1
  /\ dayOf' = [dayOf EXCEPT ![j] = today]
  /\ pc' = [pc EXCEPT ![j] = "load"]
  /\ UNCHANGED <<cellVars, provVars, today, keyTaken, versionOf, todo, answer, seen, drift,
                 accepted, bounds>>

Pending == {c \in Cells : state[c] \in PENDING_STATES /\ ~refused[c]}

\* The values that may be pending.
Batches == UNION {{b \in [S -> UNION {CellValues(c) : c \in S}] :
                     \A c \in S : b[c] \in CellValues(c)} : S \in SUBSET Cells}

\* The chunks of a push: availability first, then restrictions.  They are a function of the
\* pending values; a set of pairs, of every batch there can be and its chunks, makes TLC
\* build each of them once.
BatchChunks ==
  {LET Of(lanes) == buildBatch([c \in {x \in DOMAIN b : x[1] \in lanes} |-> b[c]], MaxEntries)
   IN  <<b, Of(AvailLanes) \o Of(Lanes \ AvailLanes)>> : b \in Batches}

ChunksOf == [b \in Batches |-> (CHOOSE p \in BatchChunks : p[1] = b)[2]]

\* What a push needs of the batch builder to show nothing as live that is not: an entry
\* that covers a cell carries all of its fields, the last one its values, and no chunk
\* covers what another one does.
Chunks == UNION {ToSet(ChunksOf[b]) : b \in Batches}

CoveredBy(entries, c) == \E i \in DOMAIN entries : Covers(entries[i], c)

LastCovers(entries, i, c) ==
  Covers(entries[i], c) /\ \A k \in DOMAIN entries : Covers(entries[k], c) => k <= i

BuildsWhole ==
  \A b \in Batches :
    /\ ChunksOf[b] \in Seq(Chunks)
    /\ \A k \in DOMAIN ChunksOf[b] :
         LET entries == ChunksOf[b][k]
         IN  /\ DOMAIN entries \subseteq Nat
             /\ \A c \in Cells :
                  /\ \A i \in DOMAIN entries :
                       Covers(entries[i], c) => entries[i].vals \in CellValues(c)
                  /\ CoveredBy(entries, c) =>
                       /\ c \in DOMAIN b
                       /\ \E i \in DOMAIN entries :
                            LastCovers(entries, i, c) /\ entries[i].vals = b[c]
                       /\ \A m \in DOMAIN ChunksOf[b] : CoveredBy(ChunksOf[b][m], c) => m = k

\* The builder does so when a lane has one field and what is pushed fits into one call.
OneFieldLanes    == \A lane \in Lanes : \E fld \in Fields : FieldsOf[lane] = {fld}
CallsHoldBatches == \A b \in Batches : Len(BatchEntries(b)) <= MaxEntries

\* loadPending.  The chunks are built from the values read here.
Load(j) ==
  LET past == {c \in Pending : c[2] < dayOf[j]}
  IN  /\ pc[j] = "load"
      /\ versionOf' = [versionOf EXCEPT ![j] =
                         [c \in Cells |-> IF c \in Pending THEN version[c] ELSE 0]]
      /\ todo' = [todo EXCEPT ![j] = ChunksOf[[c \in Pending \ past |-> desired[c]]]]
      /\ pc' = [pc EXCEPT ![j] = CASE past # {}    -> "drop"
                                   [] Pending = {} -> "release"
                                   [] OTHER        -> "mark"]
      /\ UNCHANGED <<cellVars, provVars, today, trigVars, lease, dayOf, answer, seen, drift,
                     accepted, bounds>>

Loaded(j)  == {c \in Cells : versionOf[j][c] # 0}
Current(j) == {c \in Loaded(j) : version[c] = versionOf[j][c]}

\* Mutant of applyOutcomes: the version is not compared.
applyOutcomesAlways(j, synced, retry, failed) ==
  /\ state' = [c \in Cells |-> CASE c \in synced -> "synced"
                                  [] c \in retry  -> "pending"
                                  [] c \in failed -> "failed"
                                  [] OTHER        -> state[c]]
  /\ refused' = [c \in Cells |-> c \in failed \/ (refused[c] /\ c \notin synced \cup retry)]
  /\ UNCHANGED <<version, desired>>

\* Mutant of applyOutcomes: the reason of a retry is written as the state.
applyOutcomesReason(j, synced, retry, failed) ==
  /\ state' = [c \in Cells |-> CASE c \in synced \cap Current(j) -> "synced"
                                  [] c \in retry \cap Current(j)  -> "retry"
                                  [] c \in failed \cap Current(j) -> "failed"
                                  [] OTHER -> state[c]]
  /\ UNCHANGED <<version, desired, refused>>

\* applyOutcomes: each outcome lands only on a cell whose version is the one
\* the outcome is for.
applyOutcomes(j, synced, retry, failed) ==
  LET S == synced \cap Current(j)
      R == retry \cap Current(j)
      F == failed \cap Current(j)
  IN  /\ state' = [c \in Cells |-> CASE c \in S -> "synced"
                                     [] c \in R -> "pending"
                                     [] c \in F -> "failed"
                                     [] OTHER   -> state[c]]
      /\ refused' = [c \in Cells |-> IF c \in F THEN TRUE
                                     ELSE IF c \in S \cup R THEN FALSE ELSE refused[c]]
      /\ UNCHANGED <<version, desired>>

\* dropPast: the cells before today fail and are not sent.
DropPast(j) ==
  LET past == {c \in Loaded(j) : c[2] < dayOf[j]}
  IN  /\ pc[j] = "drop"
      /\ applyOutcomes(j, {}, {}, past)
      /\ versionOf' = [versionOf EXCEPT ![j] = [c \in Cells |-> IF c \in past THEN 0 ELSE @[c]]]
      /\ pc' = [pc EXCEPT ![j] = IF Loaded(j) = past THEN "release" ELSE "mark"]
      /\ UNCHANGED <<provVars, today, trigVars, lease, dayOf, todo, answer, seen, drift,
                     accepted, bounds>>

\* markInFlight, on the cells not edited since they were loaded.
MarkInFlight(j) ==
  /\ pc[j] = "mark"
  /\ state' = [c \in Cells |-> IF c \in Current(j) THEN "in_flight" ELSE state[c]]
  /\ pc' = [pc EXCEPT ![j] = "call"]
  /\ UNCHANGED <<version, desired, refused, provVars, today, trigVars, lease, versionOf, dayOf,
                 todo, answer, seen, drift, accepted, bounds>>

\* cellsOf: the loaded cells the entries cover.
cellsOf(j, entries) == {c \in Loaded(j) : \E i \in DOMAIN entries : Covers(entries[i], c)}

\* Mutant of DecidingEntry: the first outcome wins.
FirstEntry(entries, c) == Min({i \in DOMAIN entries : Covers(entries[i], c)})

\* The entry whose outcome a cell gets: the last one that covers it.
DecidingEntry(entries, c) == Max({i \in DOMAIN entries : Covers(entries[i], c)})

Decided(j, entries, by) == {c \in cellsOf(j, entries) : DecidingEntry(entries, c) \in by}

\* The provider takes the entries it does not refuse.  It refuses some for good
\* and some because it does not know their plan or room type yet.
CallAccepted(j) ==
  /\ pc[j] = "call" /\ todo[j] # <<>>
  /\ LET entries == Head(todo[j])
     IN  \E rejected, missed \in SUBSET DOMAIN entries :
           /\ rejected \cap missed = {}
           /\ IF rejected \cup missed = {} THEN UNCHANGED bounds ELSE Fault
           /\ LET taken == DOMAIN entries \ (rejected \cup missed)
              IN  /\ held' = applyTaken(held, entries, taken)
                  /\ accepted' = [c \in Cells |->
                       accepted[c] \/ c \in Decided(j, entries, taken) \cap Current(j)]
           /\ answer' = [answer EXCEPT ![j] =
                           [kind |-> "result", rejected |-> rejected, missed |-> missed]]
  /\ pc' = [pc EXCEPT ![j] = "answered"]
  /\ UNCHANGED <<cellVars, delayed, today, trigVars, lease, versionOf, dayOf, todo, seen, drift>>

\* The call fails and the provider took nothing.
CallRefused(j, kind) ==
  /\ pc[j] = "call" /\ todo[j] # <<>> /\ Fault
  /\ answer' = [answer EXCEPT ![j] = [NoAnswer EXCEPT !.kind = kind]]
  /\ pc' = [pc EXCEPT ![j] = "answered"]
  /\ UNCHANGED <<cellVars, provVars, today, trigVars, lease, versionOf, dayOf, todo, seen, drift,
                 accepted>>

\* The call times out although the provider took the entries, or will later.
CallTimesOut(j) ==
  /\ pc[j] = "call" /\ todo[j] # <<>> /\ Fault
  /\ \/ held' = applyEntries(held, Head(todo[j])) /\ UNCHANGED delayed
     \/ MayDelay /\ delayed' = delayed \cup {Head(todo[j])} /\ UNCHANGED held
  /\ answer' = [answer EXCEPT ![j] = [NoAnswer EXCEPT !.kind = "transient"]]
  /\ pc' = [pc EXCEPT ![j] = "answered"]
  /\ UNCHANGED <<cellVars, today, trigVars, lease, versionOf, dayOf, todo, seen, drift, accepted>>

\* A request nobody waits for any more reaches the provider, or never does.
DelayedArrives ==
  /\ \E entries \in delayed :
       /\ delayed' = delayed \ {entries}
       /\ held' \in {held, applyEntries(held, entries)}
  /\ UNCHANGED <<cellVars, today, trigVars, lease, jobVars, accepted, bounds>>

\* What follows a chunk: the next one, or the decision whether to verify.
AfterChunk(j) == IF Tail(todo[j]) = <<>> THEN "verify" ELSE "call"

\* run, on a result: the outcomes are applied; an unknown reference ends the
\* job, which is queued again.
HandleResult(j) ==
  LET entries == Head(todo[j])
      refs    == answer[j].rejected \cup answer[j].missed
  IN  /\ pc[j] = "answered" /\ answer[j].kind = "result"
      /\ applyOutcomes(j, Decided(j, entries, DOMAIN entries \ refs),
                          Decided(j, entries, answer[j].missed),
                          Decided(j, entries, answer[j].rejected))
      /\ IF answer[j].missed # {}
         THEN queued' = queued + 1 /\ pc' = [pc EXCEPT ![j] = "release"]
         ELSE pc' = [pc EXCEPT ![j] = AfterChunk(j)] /\ UNCHANGED queued
      /\ todo' = [todo EXCEPT ![j] = Tail(@)]
      /\ answer' = [answer EXCEPT ![j] = NoAnswer]
      /\ UNCHANGED <<provVars, today, keyTaken, lease, versionOf, dayOf, seen, drift, accepted,
                     bounds>>

\* run, on a 422: every cell of the chunk fails and the next chunk follows.
HandleInvalid(j) ==
  /\ pc[j] = "answered" /\ answer[j].kind = "invalid"
  /\ applyOutcomes(j, {}, {}, cellsOf(j, Head(todo[j])))
  /\ pc' = [pc EXCEPT ![j] = AfterChunk(j)]
  /\ todo' = [todo EXCEPT ![j] = Tail(@)]
  /\ answer' = [answer EXCEPT ![j] = NoAnswer]
  /\ UNCHANGED <<provVars, today, trigVars, lease, versionOf, dayOf, seen, drift, accepted, bounds>>

\* run, on a throttle, an outage, an unknown reference or a refused key: the
\* chunk's cells are pending again.  The job is delayed; on a refused key it
\* fails, and only Cloudflare Queues hands a failed job out again.
HandleRevert(j) ==
  /\ pc[j] = "answered" /\ answer[j].kind \in {"throttle", "transient", "miss", "auth"}
  /\ applyOutcomes(j, {}, cellsOf(j, Head(todo[j])), {})
  /\ queued' \in IF answer[j].kind = "auth" THEN {queued, queued + 1} ELSE {queued + 1}
  /\ pc' = [pc EXCEPT ![j] = "release"]
  /\ answer' = [answer EXCEPT ![j] = NoAnswer]
  /\ UNCHANGED <<provVars, today, keyTaken, lease, versionOf, dayOf, todo, seen, drift, accepted,
                 bounds>>

\* Any other error ends the job where it is; its cells stay in flight.
HandleError(j) ==
  /\ pc[j] = "answered" /\ answer[j].kind = "error"
  /\ queued' \in {queued, queued + 1}
  /\ pc' = [pc EXCEPT ![j] = "release"]
  /\ answer' = [answer EXCEPT ![j] = NoAnswer]
  /\ UNCHANGED <<cellVars, provVars, today, keyTaken, lease, versionOf, dayOf, todo, seen, drift,
                 accepted, bounds>>

\* The end of processAriPush.  A job whose lease lapsed may release the lease of
\* the job that came after it: the Durable Object and the in-process lease do not
\* ask who releases, and the Redis one knows tokens by process.
Release(j) ==
  /\ pc[j] = "release"
  /\ lease' \in IF lease = j THEN {Free} ELSE {Free, lease}
  /\ pc' = [pc EXCEPT ![j] = "idle"]
  /\ versionOf' = [versionOf EXCEPT ![j] = NoVersion]
  /\ todo' = [todo EXCEPT ![j] = <<>>]
  /\ UNCHANGED <<cellVars, provVars, today, trigVars, dayOf, answer, seen, drift, accepted, bounds>>

-----------------------------------------------------------------------------
(* Verification and the nightly reconcile *)

\* Most pushes are not sampled for verification.  A read-back that fails ends the
\* job the same way: every outcome is written by then.
SkipVerify(j) ==
  /\ pc[j] = "verify"
  /\ pc' = [pc EXCEPT ![j] = "release"]
  /\ UNCHANGED <<cellVars, provVars, today, trigVars, lease, versionOf, dayOf, todo, answer, seen,
                 drift, accepted, bounds>>

\* readAri.  The nightly reconcile starts here; it takes no lease.
ReadBack(v) ==
  /\ pc[v] = IF v = Nightly THEN "idle" ELSE "verify"
  /\ v \in Verifying
  /\ seen' = [seen EXCEPT ![v] = held]
  /\ pc' = [pc EXCEPT ![v] = "compare"]
  /\ UNCHANGED <<cellVars, provVars, today, trigVars, lease, versionOf, dayOf, todo, answer, drift,
                 accepted, bounds>>

\* The cells a verification compares: those between the first and the last date
\* of the push, or from today on.
InScope(v) ==
  IF v = Nightly
  THEN {c \in Cells : c[2] >= today}
  ELSE {c \in Cells : \E a, b \in Loaded(v) : a[2] <= c[2] /\ c[2] <= b[2]}

AfterVerify(v) == IF v = Nightly THEN "idle" ELSE "release"

\* loadDesired and diffAri.
Compare(v) ==
  LET found == {c \in InScope(v) : desired[c] # seen[v][c]}
  IN  /\ pc[v] = "compare"
      /\ seen' = [seen EXCEPT ![v] = <<>>]
      /\ drift' = [drift EXCEPT ![v] = found]
      /\ pc' = [pc EXCEPT ![v] = IF found = {} THEN AfterVerify(v) ELSE "conflict"]
      /\ UNCHANGED <<cellVars, provVars, today, trigVars, lease, versionOf, dayOf, todo, answer,
                     accepted, bounds>>

\* markConflicted: not guarded by the version; it clears last_error.
MarkConflicted(v) ==
  /\ pc[v] = "conflict"
  /\ state' = [c \in Cells |-> IF c \in drift[v] THEN "conflicted" ELSE state[c]]
  /\ refused' = [c \in Cells |-> IF c \in drift[v] THEN FALSE ELSE refused[c]]
  /\ drift' = [drift EXCEPT ![v] = {}]
  /\ pc' = [pc EXCEPT ![v] = AfterVerify(v)]
  /\ UNCHANGED <<version, desired, provVars, today, trigVars, lease, versionOf, dayOf, todo,
                 answer, seen, accepted, bounds>>

-----------------------------------------------------------------------------
(* Faults *)

\* The worker dies.  The queue hands its job out again; the lease stays taken.
Crash(j) ==
  /\ Running(j) /\ Fault
  /\ queued' = queued + 1
  /\ lease' = IF lease = j THEN Orphan ELSE lease
  /\ pc' = [pc EXCEPT ![j] = "idle"]
  /\ versionOf' = [versionOf EXCEPT ![j] = NoVersion]
  /\ todo' = [todo EXCEPT ![j] = <<>>]
  /\ answer' = [answer EXCEPT ![j] = NoAnswer]
  /\ seen' = [seen EXCEPT ![j] = <<>>]
  /\ drift' = [drift EXCEPT ![j] = {}]
  /\ UNCHANGED <<cellVars, provVars, today, keyTaken, dayOf, accepted>>

\* The lease's time to live is over.
LeaseLapses ==
  /\ \/ lease = Orphan /\ UNCHANGED bounds
     \/ LeaseMayLapse /\ lease \in Jobs /\ Fault
  /\ lease' = Free
  /\ UNCHANGED <<cellVars, provVars, today, trigVars, jobVars, accepted>>

-----------------------------------------------------------------------------
Local == \/ \E c \in Cells : \E S \in (SUBSET FieldsOf[c[1]]) \ {{}} :
              \E vals \in [S -> Values] : Edit(c, vals)
         \/ ForceResync

Clock == NextBucket \/ DailyPush \/ NextDay

Call(j) == CallAccepted(j) \/ CallTimesOut(j) \/ \E k \in Refusals : CallRefused(j, k)

Handle(j) == HandleResult(j) \/ HandleInvalid(j) \/ HandleRevert(j) \/ HandleError(j)

Push(j) == \/ Start(j) \/ Load(j) \/ DropPast(j) \/ MarkInFlight(j)
           \/ Call(j) \/ Handle(j) \/ SkipVerify(j) \/ Release(j)

Verify(v) == ReadBack(v) \/ Compare(v) \/ MarkConflicted(v)

Next == \/ Local \/ Clock
        \/ \E j \in Jobs : Push(j) \/ Crash(j)
        \/ \E v \in Verifiers : Verify(v)
        \/ DelayedArrives \/ LeaseLapses

Spec == Init /\ [][Next]_vars

\* The workers, the clock and the network keep going.  Nothing is assumed of the
\* local edits, of faults, or of a lease whose holder is still running.
Fairness ==
  /\ \A j \in Jobs : WF_vars(Push(j))
  /\ \A v \in Verifiers : WF_vars(Verify(v))
  /\ WF_vars(NextBucket) /\ WF_vars(DailyPush)
  /\ WF_vars(DelayedArrives)
  /\ WF_vars(lease = Orphan /\ LeaseLapses)

FairSpec == Spec /\ Fairness

-----------------------------------------------------------------------------
(* Properties *)

\* The type invariant.  Of the answers only the kind is typed.
TypeOK ==
  /\ version \in [Cells -> Nat]
  /\ desired \in [Cells -> UNION {CellValues(c) : c \in Cells}]
  /\ \A c \in Cells : desired[c] \in CellValues(c)
  /\ state \in [Cells -> SyncStates]
  /\ refused \in [Cells -> BOOLEAN]
  /\ today \in Nat
  /\ queued \in Nat /\ keyTaken \in BOOLEAN
  /\ lease \in Jobs \cup {Free, Orphan}
  /\ pc \in [Verifiers -> Steps]
  /\ versionOf \in [Jobs -> [Cells -> Nat]]
  /\ \A j \in Jobs : answer[j].kind \in AnswerKinds
  /\ drift \in [Verifiers -> SUBSET Cells]
  /\ accepted \in [Cells -> BOOLEAN]

\* A cell shown as synced has a current version the channel manager accepted:
\* an outcome that comes back after an edit, or from a push that was overtaken,
\* timed out or died, never marks the edited value as live (pipeline.ts, run;
\* ari.ts, applyOutcomes: "an outcome applies only when the version it was
\* computed for is still current").
SyncedIsAccepted == \A c \in Cells : state[c] = "synced" => accepted[c]

\* What is shown as synced is what the channel manager sells: whatever edits,
\* refusals, timeouts and crashes came between, as long as pushes do not overlap
\* and no request is applied after its caller gave up.
SyncedIsHeld == \A c \in Cells : state[c] = "synced" => held[c] = desired[c]

\* One in-flight push per property (jobs/worker/lease.ts), also when workers die
\* holding the lease and the queue hands their jobs out again.
OnePush == Busy <= 1

\* A validation failure is final until someone edits the cell (pipeline.ts,
\* pushProperty: "never retry until edited").
RefusedUntilEdited ==
  [][\A c \in Cells : refused[c] /\ version'[c] = version[c] => refused'[c]]_vars

\* Once edits and faults are over, the channel manager's values of every date
\* still ahead become, and stay, the desired ones, whatever order late requests,
\* overlapping pushes and the nightly reconcile leave them in; and again and again
\* every such cell is live or visibly failed.
Ahead == {c \in Cells : c[2] >= today}
Converges ==
  /\ <>[](\A c \in Ahead : held[c] = desired[c])
  /\ []<>(\A c \in Ahead : state[c] = "synced" \/ refused[c])

\* The engine implements its promise; a cell is live when it is synced.
Promise == INSTANCE AriPromise WITH live <- [c \in Cells |-> state[c] = "synced"]
ImplementsPromise == Promise!Spec
=============================================================================
