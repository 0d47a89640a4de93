# A TLA+ model of the property management system

The system keeps a hotel's calendar in step with a channel manager (Channex), takes bookings
from it and from its own site, and runs the house's books. Three kinds of work carry its
correctness:

* **out**: local edits of availability, rates and restrictions (ARI) become wire entries
  and are pushed until the channel manager holds them;
* **in**: booking revisions are pulled from the channel manager's feed, stored, acked, and
  turned into availability, which flows out again;
* **around**: guests hold, pay and cancel at the direct site; staff edit, invoice, bill owners
  and answer requests in the console; workers charge, deliver, poll and sweep.

This directory holds TLA+ modules of these, the TLC runs that check them and the TLAPS proofs
about them. All paths below are under `src/`.

## Inventory

### Components modelled

| Component | State it keeps | Operations | What makes it correct |
|---|---|---|---|
| Batch builder, `packages/sync/src/batch` | none (pure) | `contiguousSpans`, `encodeSpan`, `buildRestrictionBatch`, `chunk` | the entries, applied in order, reproduce the cells exactly |
| Sync engine, `packages/sync/src/push/pipeline.ts`, `packages/db/src/repositories/ari.ts`, `packages/jobs/src/worker/ari-push.ts`, `reconcile.ts`, `packages/jobs/src/ari-events.ts` | per cell: version, desired values, `sync_state`, `last_error`; the lease per property; queued pushes | edits, force resync, the push job, verification, nightly reconcile | a cell shown as synced is live at its current version; everything converges |
| Circuit breaker and rate limiter, `packages/sync/src/push/limiter.ts` | in memory: failures, opened at, probing; tokens and rate | `allow`, `onSuccess`, `onFailure`; `acquire`, `reportThrottle`, `reportSuccess` | one probe per cooldown, it closes again; calls per window bounded, the rate recovers |
| Booking ingestion, `packages/core/src/reservations/ingest.ts`, `packages/db/src/repositories/bookings.ts` | `booking`, `booking_room_day`, `booking_revision` | `ingestProperty`, `applyOne`, `ack`, `ackSweep` | nothing acked that is not stored; the newest revision wins; nothing is lost |
| Outbox and derivation, `packages/db/src/repositories/outbox.ts`, `packages/jobs/src/worker/availability-derive.ts` | `outbox_event`, `processed_event`, `availability_day` | `drainOutbox`, `claimEvent`, `deriveAvailability` | an event takes effect once; availability is what the bookings leave |
| Direct booking engine, `packages/jobs/src/booking-engine.ts` | `booking_hold`, payment intents | `createHold`, `confirmBooking` (three phases), `expireHolds`, `guestCancel`, `recomputeAvailability` | no room sold twice, no booking that owes a payment without one |
| Payments, `packages/jobs/src/payments.ts` | `payment_schedule` | `collectDuePayments` | one charge per instalment, and it reaches the folio |
| Provisioning, `packages/jobs/src/provisioning.ts` | the step row, provider ids | `runProvisioning`, `markLiveIfSynced`, the sweep, reopening | nothing created twice, live means complete, it ends |
| Channel connections, `packages/jobs/src/channels.ts`, `worker/webhook-ingest.ts` | `channel_connection` | activate, pause, resume, remove, health poll, webhooks | what is shown is what the provider has, eventually |
| Booking requests and messages, `packages/jobs/src/messaging.ts` | `booking_request`, `message` | feed sync, answer, resolve job; queue, deliver, mark, pull | a decision stands; sent means held; deliveries end |
| Calendar edits, `apps/web/src/server/ari.ts` | `rate_day`, `bulk_operation` | cell edits, bulk updates, undo | no silent overwrite; undo gives back |
| Folio, `packages/db/src/repositories/billing.ts` | lines, `invoice_sequence`, invoices | extras, transfers, daily close, issuing | a line on one invoice, a night posted once, no gaps |
| Owners' statements, `packages/jobs/src/owners.ts` | statements, billed nights and adjustments | draft, approve, send, sweep | a correction billed once, nothing sent changes |
| Platform billing and plugins, `packages/jobs/src/platform.ts` | tenant, subscription, invoices; plugin deliveries | trial, plan, grant, period close, dunning, card; deliver, retry | every period invoiced or granted, collected once; deliveries settle |
| Operations, `packages/jobs/src/operations.ts`, `packages/core/src/operations` | `turnover_task`, `access_credential` | replan on a revision and from the console, task moves; issue, reissue, revoke codes | codes follow their stays (INV-14); every departure has its task |
| Console transactions, `apps/web/src/server/with-permission.ts` | the audit log, its lock, grants | every audited action; revoking a member | an owner remains; the log has no fork |

### How they interact

    edit ──► cell pending ──┐ (one transaction)
                            ├─► outbox: ari.changed ─► queue ari.push ─► push job ─► channel manager
    deriveAvailability ─────┤                                            ▲    │            │
            ▲               │                      lease per property ───┘    └─ outcomes  │
            │         holds, confirms                                                      │
    outbox: booking.revision_applied ◄── applyRevision ◄── ingestProperty ◄── feed ◄───────┘
                                                              └── ack ──► (sweep re-acks)

Handlers run in worker processes (BullMQ in `apps/worker`, Cloudflare Queues in
`apps/worker-cf`) and in the web server. They share the database, the leases (Redis, Durable
Object or in-process) and, within a process, the breaker and the buckets. A worker opens a
transaction per call of a repository, so a job is a sequence of transactions and provider
calls that edits, other jobs and crashes interleave with.

**The audit lock.** A console action is one transaction: `withPermission` decides the
permission, appends the audit entry, and runs the handler. The append
(`packages/db/src/repositories/audit.ts:28`) takes an advisory lock of the organization that is
held to the commit. So all audited actions of one organization run one after the other, and
each handler reads only once it has the lock. Nothing in the handlers says so, and three
properties rest on it: `NoSilentOverwrite`, `LineOnOneInvoice` and `AnOwnerRemains`; their
mutants take it away. Workers and the guest site do not wait for it before they read: the
booking engine audits at the end of its transactions.

### What is hard in it

Outcomes that come back after an edit; calls that time out and were applied; leases that lapse;
workers that die between a call and its record; dedupe keys that swallow a trigger; partly
rejected batches; a feed that shrinks while it is paged through; revisions, webhooks and events
out of order, twice or lost; holds that expire while the guest pays; a double click; two desks
at one row; a sweep that writes what it read before the desk acted. PROJECT.json lists each
one at its line, with the properties that would show it going wrong.

## Plan

Done: all the modules below, and the proofs that "Proofs" describes, which cover every safety
property of a run. Worth doing next: the message automations, and unit blocks beside
availability.

## Modules and the code

### AriBatch

`Dates` are numbers and a weekday is a date modulo `WeekLength`, so that a small calendar has
whole weeks. The operators keep the code's names: `expandDates`, `contiguousSpans`,
`runLength`, `weekdayEncoding`, `baseAndOverride`, `encodeSpan`, `chunk`. `MergeOne` is one
round of the loop in `buildRestrictionBatch` that joins entries of several fields, and `Joins`
its condition: an entry never moves before an earlier entry of its own field. An availability
batch is the case of one field. `applyEntries` is what the channel manager does with entries,
from `apply.ts` and the fake provider. The loops of the code that build lists are functions of
sets here: a run of equal values is a maximal interval (`Intervals`), and `Sorted` puts the runs,
or the values by their first date, in order.

### AriSync and AriPromise

One property. `version`, `desired`, `state` and `refused` are the columns of `rate_day` and
`availability_day` (`refused` is `last_error = 'validation'`, the only value anything tests);
`held` is what the channel manager has; `queued` counts the property's pushes in outbox and
queue, `keyTaken` whether the key of the current 3 s bucket is used; `lease` is its lease; the
rest is the local state of jobs. One action per call of the store or the provider:
`Start`, `Load`, `DropPast`, `MarkInFlight`, `CallAccepted`/`CallRefused`/`CallTimesOut`,
`HandleResult`/`HandleInvalid`/`HandleRevert`/`HandleError`, `ReadBack`, `Compare`,
`MarkConflicted`, `Release`. `Edit` and `ForceResync` are the local writes with the trigger in
the same transaction. `Crash`, `LeaseLapses` and `DelayedArrives` are the environment.

`accepted` is a history variable: whether the channel manager accepted the entry that decides
a cell's outcome, at the cell's current version. `AriPromise` is stated with it: an edit takes
a cell off live, and only a version that was accepted brings it back.

Left out: the breaker (a refused push goes back to its queue; `PushBreaker` has it), the
limiter's waiting, the attempts counter, the `synced_*` copies and plans the provider does not
know yet.

### PushBreaker

`failures`, `state` and `place` (the code's `probing`) of one organization; time is the action
`CoolsDown`. `Begin` is `allow`, at the start of a push; `Answered` and `Failed` are the ends
of a call that report; `EndsSilently` those that do not. `place = "lost"` is `probing = true`
with nobody left to clear it, which the code cannot tell from `"taken"`.

### Bookings

One property and one room type. `stored`, `marked` and `old` are the rows of
`booking_revision`, those with `acked_at`, and those received five minutes ago; `projection`
is the revision a booking shows, from which `booking_room_day` is computed, as the
transaction that writes one rewrites the other; `outbox`, `queue` and `claimed` carry the
events. A worker's `job` is a pull (`List`, `Find`, `Load`, `Apply`/`ApplyStale`/
`ApplyRejected`, `Ack`, `Mark`) or a derivation (`Take`, `Derive`, `Write`). `Rejected` is the
unique `system_id` and the foreign key of a booking another transaction created since. `Crash`
and `Throws` end a job anywhere; `RetriesFailed` says whether a job that throws is run again
(Cloudflare Queues) or not (BullMQ, whose events are added without attempts).

Two history variables name what several workers, several rooms or a queue without retries
really lose. `overtaken` has the bookings that `Apply` wrote over a projection other than the
one its worker had loaded and compared with. `disturbed` has the nights whose availability may
stay wrong: those a transaction changes and its event does not name (`missed`), those one
worker writes while another is to write what it read before (`crossed`), and those of an event
that was dropped (`Throws` without retries).

### DirectBooking

One room type, stays of one night, so one availability cell; each guest makes at most one hold
and confirms it by the requests of a `cast`. A transaction that recomputes the cell is two
steps, `reads` (it drafts what it will write) and `commits`; `overtaken` marks the drafts that
another commit made stale. Confirming is `Claims`, `Pays` or `PaysNothing`,
`Finalizes`/`FinalizeThrows` and `Books`, the code's phases, with the payment provider's answers
as `outcomes`. Whether a hold `owes` anything is its quote's `dueNowMinor`, of either value:
with `pay_at_property`, the default (`search.ts:138-145`), nothing is due now, and the confirm
goes on with no intent and no charge (`booking-engine.ts:444-446`). So `BookedIsCharged` asks
for a payment only of bookings that owe one, and of every booking that its hold stays converted.
`Derives` is the booking event's derivation, which counts no holds. The engine does oversell, by
four races: overlapping transactions on a cell, a derivation while a hold is active, a payment
that outlives its hold, and a hold confirmed twice. `calm` records that none has happened, and
`NoRoomSoldTwice` says there is no fifth.

### Instalments

The rows of a booking's schedule, the runs of `payments.collect` that selected them
(`SelectsDue`), and per item `Looks`, `Charges`/`ChargeFails`, `RecordsPayment`. The provider
answers an idempotency key it knows as it did before. `crossed` records two runs at one item,
after which the folio may show a payment twice (the charge is still one).

### Folio

Lines with their folio and invoice, `lastSeq`, the committed invoices, clerks that issue
(`ReadsLines`, `TakesNumber`, `Issues`/`GivesUpNumber`), closings that plan and post. Amounts,
taxes and credit notes are left out.

### CalendarEdits

One cell with two fields and a derived plan's row. An operation is a read step (`EditReads`,
`BulkReads`, `UndoReads`) and `Writes`, inside a transaction that `opens` under the audit lock.
`ops` is `bulk_operation`, with what it wrote over as history. Undo compares no version.

### Provisioning

The step row, at most two overlapping runs, what the provider holds of each object (a count),
the ids recorded, pending cells, the queued push. A run is `StartRun`, then for each object of a
step `List`, `Create` (which may lose its answer), and `Save`; `Throws` records the error,
`Crash` ends it. `AddPlan` reopens the setup, `EditCell` and `ForceResync` queue pushes,
`Push` leaves out what the provider does not know (`knownPlansOnly`), `MarkLive` is
`markLiveIfSynced`. `overlooked` and `emptied` name the two ways a setup really gets stuck: a
plan added behind the step that creates plans, and a calendar an edit's push emptied before the
seed step, which then throws each time.

### RateLimiter

Tokens in parts, so that halved rates stay whole; `elapsed` is the time since `lastMs`, capped
where more makes no difference. `Tick` is time, `Acquire` a call that starts or sleeps
`waitTicks`, `Succeeds`/`Throttled`/`Fails` its reports.

### ChannelConnection

The row, the provider's channel, one console action per tab (`Chooses`, then its provider calls,
then `Commits` or `Breaks`), the poll (`Lists`, `Asks`, `Stores`), the webhooks on their way,
repeated, late or lost (`Hook`, `Loses`), and what others do at the provider (`ChannelTurns`).
Actions and the poll write from the row they read.

### BookingRequests

Each request here and at Airbnb; syncs that read the feed from `since` and write it later;
the console's answer (`Answers`, `Records`); the resolve job with its attempts.

### Messaging

The replies of a thread, what the provider has taken, copies the pull stored, deliverers
(`Selects`, `Sends`, `Marks`/`MarkClashes`, `Stops`). The provider's `dedupeKey` is not looked
up by anybody, so a second send is a second message.

### OwnerStatements

One night per period, with its price as the only money. The desk's actions are single steps
(they are serialised); the sweep is `SweepReads`, `SweepFinds`, `SweepWrites`. `mayWrite` is the
trigger that freezes statements that are out, `collides` the unique indexes.

### Billing

The tenant's state, the subscription (its period, whether its plan has a price, whether there is
a customer, the failure and the retries), an invoice per period here and at the provider.

Choosing a plan is two transactions with `ensureCustomer` between them (`ChoosesPlan`, then
`CustomerMade` or `CustomerFails`). The console passes one transaction for both
(`billing.actions.ts:97`): the same two steps with nothing between them. `Comps` is
`compTenant`: the plan gets a total of nothing, and a period that has ended gives way to one that
begins today, invoiced or not; `waived` is the history of these. `Leaves` and `Reactivates` are
the other moves of the console.

The daily close is `CloserReads` (the subscription), `CloserDrafts`, then `CloserCharges` or
`CloserNeedsNoCall`, `CloserSaves`, `CloserAdvances`, and may stop anywhere. A draft that comes
to nothing is paid with no call (`platform.ts:386-388`; `free` is the history of these), and
without a customer the invoice stays open (`:389-396`). `collects` has the two callers of
`collectOpenInvoice`, dunning and the card form, each a read, a call, and a record.

Periods are numbered; the one a grant begins counts as the next number though it starts on the
day of the grant. Left out: the move of customers made by the fake provider, what Stripe says to
a known key with other parameters, and cancelling at a period's end.

### ConsoleTransactions

`Permits`, `AppendsEntry` (which takes the lock and drafts the next entry), `Counts`,
`Commits`/`RollsBack`, for the action that revokes a member; `Accepts` brings members in.

### Plugins

The outbox's published events, the cursor, a delivery per event, the breaker, and couriers:
`Queues`, `dueDeliveries` (the batch of a run), `Takes`, `MarksDelivery`, `CourierStops`. A run
works through its batch although the breaker opened meanwhile, and writes what it read before
the call.

### Operations

`Revises` changes a stay and owes its event. A consumer's transaction is `TakesRevision` (claim,
stays, plan), `ReadsTasks`, `ReadsCodes`, for a reissue `ReadsDates` (the codes it read are
revoked, then the booking's dates are read), and `Replans`, which writes and commits, or
`RollsBackOps`, after which the event comes again, perhaps behind later ones. Consumers overlap:
`booking.process` runs with `WORKER_CONCURRENCY`, by default 4 (`runtime/config.ts:24`,
`apps/worker/src/index.ts:80-87`, `:117`), and `wrangler.jsonc` sets no `max_concurrency`. A
revoked row is locked to the end of its transaction (`unlocked`), an event claimed by one is no
other's. `overlapped` is the history of the stays whose codes two of them mended at once, one by
reissuing: neither has read what the other issues, and INV-14 may fail for those. The console's
transactions are one at a time, as their audit lock makes them: `DeskReplans`, a task's move
(`LooksAtTask`, `MovesTask`), a code issued (`ReadsStay`, `DeskIssues`) or revoked. A task is its
row's state; a code is its booking, its dates, who issued it, and who issued the one it goes
back to; codes alike in all of these are one.

## Runs

| Run | Instance | What it shows |
|---|---|---|
| `sync` | 1 room type, 3 dates, 2 jobs, 2 edits, 2 faults, midnight once; leases do not lapse under a running push, no late requests | `SyncedIsHeld`, `OnePush`, `TypeOK` (about 980,000 states) |
| `overlap` | 2 dates, entries one per call, 2 jobs, lapsing leases, late requests, the nightly reconcile | `SyncedIsAccepted`, `ImplementsPromise` (about 1.8 million states) |
| `heal` | as `overlap`, 1 job, 1 edit, 1 fault, fairness | `Converges` (about 120,000 states) |
| `bookings` | 3 revisions of 2 bookings, 2 nights, 1 room, pages of 2, 1 worker, 1 fault, fairness | `TypeOK`, `AckedIsStored`, `LatestWins`, `AvailabilityFollows`, `EveryRevisionLands` (about 185,000 states) |
| `house` | the components that keep the house's own books (below) | 13 properties (about 1.9 million states) |
| `providers` | the components that call somebody else, with fairness (below) | 16 properties (about 120,000 states) |
| `partial` | 1 plan with 2 fields, 1 fault | violates `SyncedIsHeld` |
| `refused` | 1 room type, 1 fault, nightly reconcile | violates `RefusedUntilEdited` |
| `breaker_silent` | 3 pushes, threshold 2, 1 restart, fairness | violates `OutageEnds` |
| `bookings_rooms` | the modification adds a second room | violates `AvailabilityFollows` |
| `bookings_race` | 2 workers, no fault | violates `LatestWins` |
| `direct_double` | 2 guests, a double click of one, one key | violates `OneBookingPerHold` |

**`house` and `providers` run several components each.** `MCHouse` and `MCProviders` declare a
variable `component`, chosen at the start and kept: the component it names takes its steps, the
others stay as they begin. These components share no row that their modules keep, so exploring
them side by side would multiply the states and show nothing more; where components do meet (a
derivation and the holds, an edit and the setup's push, a cancellation and an instalment), one
module has both. An invariant of a component is thereby checked in every state of it, and a
liveness property over every behaviour of it; in the other components' behaviours it holds
trivially. Constants that only one component needs more of are chosen at the start too
(`Crews`, `Rosters`, `Casts`).

`house`:

* direct: two guests, one room, quotes that want something now or nothing; both confirm, or one
  of them from two tabs with two keys;
* folio: two nights, two extras, two clerks, two closings, three invoices;
* calendar: two editors, four operations, edits of either field and bulk updates that also clear;
* owners: three periods, prices 0 (cancelled) and 2, two re-pricings;
* billing: two periods, two plans chosen or granted, one day of dunning, one call that fails or
  job that stops;
* console: three members, five audit entries;
* operations: a direct stay and an OTA's, which may leave and arrive on one day, three
  revisions, and either one consumer beside one console transaction, or two consumers that
  overlap (the component `consumers`);
* batch: four dates, weeks of two days, two fields, two values, chunks of two: every one of the
  6,561 sets of cells, every encoding, the merge, and batches cut in up to three.

`providers`:

* setup: one run, with five attempts, or two that overlap; one plan and one added later;
* limiter: two callers, bursts of two, windows of two ticks, three parts to a token, one restart;
* channel: one tab, two actions, one turn at the provider, beside the poll and the webhooks;
* requests: two requests, one sync, two attempts of the resolve job;
* messaging: one reply, two deliverers, two attempts, two faults, one pull;
* breaker: three pushes, threshold two, one restart;
* instalments: one instalment, two runs, three attempts, two stopped runs;
* plugins: one run over two events, or two runs over one; three attempts, a breaker at two, one
  run that stops or retry by hand.

Why the bounds are enough to be interesting:

* `sync`: three dates make a base and an override that share a cell, two jobs and two faults
  make a crash of the lease's holder and its job handed out beside another one. Batches stay
  within one chunk (`MaxEntries = 4`, 500 in the code): see the findings on chunks below.
* `overlap`: two jobs are what an overlap takes; each may load before, between and after the
  edit; one fault lapses the lease, the other one delays a request.
* `heal`: one edit, one fault of every kind, after which the system is left to itself.
* `bookings`: two revisions with equal `inserted_at`, a modification that moves a booking to
  another night, a second booking that overbooks it, and a feed of two pages. The fault is any
  of a failed transaction, ack, mark or publication mark, a crash or a thrown error.
* `house`: every race here is between two, for one row. Two guests and one room are an
  overbooking; three periods are a statement, its correction and one more that must not repeat
  it; two billing periods let one be late while the next one ends, and
  two choices are a plan and a grant in either order; three owners let two
  remove each other and one stay.
* `providers`: a lost answer, a crash and a retry fit into every instance, with a second run
  where the code lets runs overlap. Two requests are what it takes for a newer one to move the
  cursor past an open one.

The bounds in guards are `MaxEdits`, `MaxQueued`, `MaxFaults`, `LastToday`, `MaxRestarts`,
`MaxInvoices`, `MaxOps`, `MaxStayChanges`, `MaxConsole`, `MaxRevisions`, `LastBilled`,
`BillingFaults`, `MaxChoices`, `MaxAudited`, `MaxReboots`, `MaxActions`, `MaxProviderTurns`,
`MaxPulls`, `MaxStops`, `MaxHalts`, `LastEvent` and the counters of `Crews`; `MaxAttempts`,
`MaxTries`, `MaxResolves`, `MaxCollects`, `MaxDeliveries`, `Threshold`, `BreaksAt` and
`DunningDays` are limits of the code, made small. `CHECK_DEADLOCK FALSE` where a bound ends a
behaviour: the ARI runs (edits, queued pushes, days) and the composed ones (guests served,
periods billed, nothing more to do).

## Fairness

* `AriSync`: weak fairness of each job's next step, of verifications (the nightly schedule), of
  the 3 s bucket passing, of the daily trigger, of a late request arriving or being lost, and of
  an orphaned lease's time to live. The workers take jobs as long as they run
  (`apps/worker/src/index.ts`), schedules are fixed, and the leases have a TTL. None of edits,
  faults, or lapses under a running push.
* `Bookings`: weak fairness of what a running job does next, of the publisher and of the sweep;
  strong fairness of polls and of taking an event, since the single worker is busy with the one
  while the other one waits: the queue hands out jobs in its order and does not starve one.
* The modules of `providers`: weak fairness of the scheduled jobs, each run of which is started
  again by `SCHEDULE` (`packages/jobs/src/worker/runtime.ts:570-592`): setup sweep and push,
  health poll, request poll, message delivery, instalments, plugin delivery; of the action a
  console tab is in; of time (the limiter's ticks, cooldowns); and that a webhook is not repeated
  for ever. Strong fairness of one thing: that calls which go on failing are answered (taken or
  throttled) at some time. None of faults, crashes, edits, the provider's turns or the guest's.
  `MCProviders` restates it with `component = ...`, because only the chosen component runs.
* `house` has no liveness: what its components do is done by people.

## Findings

Each is a run that TLC refutes, with the quoted line in PROJECT.json:

1. A probe that ends without an outcome leaves the breaker refusing for ever (`breaker_silent`).
2. A partly rejected batch marks cells synced by the last entry that covers them, whatever
   fields it has (`partial`).
3. The nightly reconcile sends refused cells again although nobody edited them (`refused`).
4. A modification to more rooms of the same type on the same nights derives nothing
   (`bookings_rooms`).
5. Two pulls of a property let the older revision win (`bookings_race`).
6. A double-clicked confirm makes two bookings of one hold (`direct_double`).

Others the models show, or that stopped a property from being stated more strongly:

* Sync: a batch cut into chunks marks a cell synced when its base entry is accepted though its
  override is in a chunk still to come (`SyncedIsHeld` with `MaxEntries = 1`); with
  `RetriesFailed = FALSE` one thrown error leaves availability wrong for good; two workers that
  derive a night at once may write the older count.
* Direct bookings: a finalize that finds the room gone throws after the charge and refunds
  nothing; a reload makes a new key and so a second charge. A declined instalment becomes
  `failed`, which `duePayments` leaves out, though `payments.ts:24-25` says it is retried.
* Limiter: a process starts with a full bucket, so every restart is worth one more burst; a
  caller that wakes up competes with new ones and may sleep again.
* Provisioning: overlapping runs duplicate objects other than plans and put a step back; after
  the last attempt nothing sweeps a setup; a plan added behind the plans' step is never created;
  two runs may register two webhook tokens (`provisioning.ts:171-194`, not in the model).
* Channels: an activation makes a connection active from any state; an echo of our own pause
  that comes before its commit counts as the provider's; a crash after `createChannel` leaves an
  orphan.
* Messages and requests: two deliverers send twice, and the later mark of a failure queues a
  message again that was sent; a pull between call and mark stores a second row; a resolve job
  out of attempts leaves its request deciding.
* Owners: a second correction of the same night is never billed, nor is a night added after its
  statement; a sweep beside the desk may bill one correction twice.
* Billing: an unreachable provider counts as a failed payment and moves the tenant to
  `past_due` (BILL-1, `docs/specs/12:107`); only the newest open invoice is collected; a later
  paid period clears the failure and leaves the tenant past due. A grant after a period's end
  leaves that period without an invoice, and a close under way puts the grant's own period back.
  A worker that dies between saving a period and moving past it drafts it again, with whatever
  plan there is then, while `saveInvoice` keeps the first total: a row of total nothing may be
  charged, and a row with a total may become paid with nothing taken.
* Plugins: an event published with an earlier time than the cursor's is skipped; the breaker
  does not stop the rest of a batch.
* Operations: **a departure may be left without a clean.** A replan never removes a task's row,
  it cancels it; when the task is needed again, `reconcileTasks` (`turnover.ts:118-127`) creates
  it, and `insertTask` (`db/.../operations.ts:146-163`) meets the cancelled row of the same unit,
  date and type and does nothing. It takes one guest who books the day another one leaves (the
  departure becomes a changeover) and cancels. OPS-1 and OPS-3 (`docs/specs/08:99`, `:105`) say
  otherwise. `DeparturesAreTasked` therefore asks for a row of any state; adding
  `tasks[k] # "cancelled"` makes TLC show the behaviour with three revisions. Two consumers of
  one stay's events leave a code for dates the stay no longer has, or for a cancelled one, which
  `replanOperations` (`operations.ts:98`: INV-14) means never to happen: without `overlapped`,
  TLC shows both. It takes a second one that begins while the first has read the codes and not
  committed. The desk may issue one to a
  cancelled stay, and a later change of that stay's dates renews it; a move of a task may
  overwrite a replan's cancellation, and a cancellation a finished task
  (`turnover.ts:106`: "Finished tasks are never touched").
* Console: the permission is decided before the lock; an invitation accepted twice at once makes
  two grants. Console transactions lock the audit log first and rows after it, guest
  transactions the other way round: Postgres may abort one of them.

## Proofs

Everything is for all values of the constants, within the assumptions named. TLAPS checks every
leaf. Each invariant below was first checked by TLC, and is what its theorem's statement lacks
to be inductive.

**AriSyncProofs.** `TypeCorrect` is the type invariant, inductive once `todo` and `answer`
are known to be functions on the jobs (`Shape`).
`SyncedCellsAreAccepted` needs more than its statement: an outcome is written in a later step
than the answer it comes from. The invariant (`ResultIsAccepted`, with
`VersionsKnown`) says that a cell whose answer is in hand, whose
deciding entry was taken, and whose version is the one the job loaded, is accepted; an edit
raises the version, so it leaves that set, which is the whole point of the versions. It holds for
overlapping jobs, lapsed leases and late requests, since nothing in it mentions the lease.
`PushesDoNotOverlap` assumes `LeaseMayLapse = FALSE` (a push ends within ten minutes): a job
that runs holds the lease (`RunningHolds`). `EngineImplementsPromise` maps each action to `Edit`, `Accept`,
`Judge` or a stutter of `AriPromise`, with `SyncedIsAccepted` for the outcomes.
`SyncedCellsAreHeld` is the promise itself, and needs both of the above to fail no more: no lease
lapses under a running push, no request arrives late, a lane has one field (`OneFieldLanes`) and
what is pushed fits into one call (`CallsHoldBatches`); the run `partial` shows that the fields
matter. From the last two follows `BuildsWhole` (`WholeBuilder`, by the lemmas of
AriBatchProofs): all entries of a cell are in one chunk, and the last of them that
covers it carries its values. TLC evaluates all three for the `sync` instance (an `ASSUME` of
`MCAriSync`). The invariant, `HeldInv`, says of what
a job has still to send (`SendsTheDesired`) that no cell of it is shown as synced, that no cell
is in two chunks, and that a cell nobody edited since the load is sent as it is desired; and of
an answer in hand (`ResultIsHeld`) that what it will mark synced is held, or was edited since.
That a verification cannot take a cell off while a push is about to mark it rests on
`PushesDoNotOverlap`. The constants' assumptions are `NamesDiffer`, `FieldsListed`, `CallsTakeSome` and those of
`AriBatch`.

**AriBatchProofs** has no specification: it is about what the builder's operators give, for any
calendar, length of a week, lanes, fields, values and size of a chunk. At each level it says of a
list of entries which dates and fields it hits (`Hits`) and that the last entry that does carries
the right value (`Right`). Runs of equal values, the weekday encoding and the base with its
exceptions each do so for a span (`RunLengthEncodes`, `WeekdaysEncode`, `BaseEncodes`), hence the
shortest does (`SpanIsEncoded`); spans, fields and lanes are joined (`Flattened`), field entries
merged (`OneMerged`: an entry that joins an earlier one is still after every entry its field is
in, so the last word on each field stays the last), and chunks put together again are the list
they were cut from (`Chunked`). Inductions over lists are made from the well-foundedness of `<` on the naturals, which the
library states in first-order form: a set of naturals has a least member (`Least`), so a set that
has 0 and goes on to each next number has them all (`GoesOn`), and so a function given step
by step is there (`StepByStep`). The assumptions are `CalendarIsThere` and `OrdersAreLists`.
`BatchesRoundTrip` and `ChunksAreWellFormed` (in ConsoleProofs, with `CallsTakeEntries`) are what
it says of the batches of `MCAriBatch`.

**BookingsProofs.** Every theorem is for any number of workers (the default is 4), any rooms,
and a queue that retries or does not. `AckedRevisionsAreStored` needs that jobs and the sweep
that are about to ack hold stored revisions. `NewestRevisionWins` says that a booking shows its
newest stored revision unless it was `overtaken`, and that if none was, `LatestWins` holds as
the run checks it: what a worker has loaded is, until a booking is overtaken, no later than what
the booking shows (`LoadedBefore`). `AvailabilityFollowsBookings` says the same of a night that
is not `disturbed`: once no event about it is underway it has the availability its bookings
leave. Its invariant follows a night through outbox, queue and workers: with no unclaimed event
about it a night is right (`Settled`), and who is to write it either writes what is right, or an
event about it is still to come (`ReadIsCurrent`); an event's claim keeps two from consuming it
(`Alone`). So the only ways these properties fail are the ones the two variables name, which the
runs `bookings_race` and `bookings_rooms` reach; without a race and with one worker the run
`bookings` has `overtaken = {}` and `disturbed = {}` throughout. TLC checked both statements by
hand for two workers, all variants of rooms and both queues (4 to 5 million states each).

**StayProofs.** Of direct bookings, `BookingsAreCharged` needs that a request which got past its
payment has paid, whatever key it used, or its hold owes nothing, and that what a hold owes does
not change once it is placed (`OpenFollows`, `RequestFollows`). `RoomsAreSoldOnce` says
that in the calm, until one of the races it names happens,
rooms booked, held and offered are no more than there are (`Balanced`); an open transaction that
nothing overtook has drafted an offer that fits what it will leave behind (`Sound`), which every
other step must keep. Cardinalities are the library's (`FiniteSetTheorems`). Of operations,
`DeparturesHaveTasks` follows a missing task to an event that is owed, and which every consumer
that has it will make it from (`TasksCome`), for any number of consumers. `CodesFollow`, too, is for any
number: apart from stays that are `overlapped`, every code for dates a stay no longer has, and
every one of a cancelled stay, is owed an event that takes it away and which
nobody consumes without having read that code (`CodesCome`); codes a consumer has read count as
there, because its replan writes them back, and a reissue whose dates are stale is owed a later
event (`Succeeded`). That two consumers which do not tangle leave each
other's codes right is the lemma `Untangled`.

**ConsoleProofs.** The first two parts rest on the advisory lock of the audit log. `OwnerRemains`: who has
appended is alone until the end (`AloneInside`), so what the transaction counted still stands when
it commits (`CountStands`); `AuditChainIsWhole` is the same lock seen from the log. The constants'
assumption is `SomebodyOwns`, since an organization is created with an owner. Of calendar edits,
`EditReplacesTheSeen` and `ChildIsDerived` need that one transaction writes (`OneWrites`) and that
a version seen is not ahead (`SeenIsPast`); `UndoTakesBack` needs that operations are numbered by
the version they made and that the last one's inverse fits the values it left (`LastIsInvertible`).
Assumption: `EditsArePatches`. The third part is about the batches built from a calendar (above).
The last is about `MCHouse` as a whole: a step of it is a step of one component and a stutter of
the others, so its behaviours are those of each (`HouseRunsEach`), and `HouseTypeCorrect` puts
their theorems together.

**LedgerProofs.** `LineIsBilledOnce` and `NumbersAreGapless`: clerks issue one after the other
(`SequenceFollows`), what one has read stays open (`StillOpen`) and an invoice's lines carry its
number. `PeriodIsCollectedOnce`: a period passed has an invoice or was `waived`; the provider
takes the money of a period once, and an invoice it holds as paid was taken or is `free`
(`TakenIsPaid`); an answer in hand that says paid is true (`AnswersAreTrue`), for the close and
both collectors. `OnlyEarnedIsBilled`: a statement bills what its night once earned and restates
only nights that are out, and, as long as the desk and the sweep did not cross, no two
statements restate one night (`RestatedOnce`); then at most one restatement counts in the sum,
which is `OneCarrierSum`. `WhatIsOutStays` is the action property from the same invariant.

**DeliveryProofs.** `InstalmentIsChargedOnce` and `FolioShowsWhatWasTaken` hold for any number of
runs: the provider answers one key once, and a payment is recorded once unless two runs had the
same instalment to do (`RecordedOnce`). `DecidedStays` needs that a row waiting to be carried says
which decision it carries. `SentMessagesAreHeld`: a job's answer is about the oldest of what it has
to do (`JobIsTrue`), and the provider only adds. `PluginTypeCorrect`: a run of the delivery job
holds only deliveries of events the cursor has passed, so what it writes late, over what another
run wrote, is still about a delivery that is there (`PluginInv`); the cursor never goes back.

**SetupProofs.** `SetUpMakesOnce`: what a run is about to create is not there, if there is one run
(`HeldOnce`), and plans are held once by any number of runs; `GoesLiveWhole`: what is known
is at the provider, and a syncing property waits for the plans that are not (`SetUpFollows`).
`ThrottleEndsTheBurst` counts tokens: since a throttle, what the bucket holds, is owed and gave is
no more than the base rate refilled (`Refilled`). `CallsAreBounded` is about every stretch
of time, which `stretch` begins at any tick: held and taken came from the buckets the stretch had
and from the refill (`Covered`), and a restart adds a bucket. Of the breaker, `OneProbe` needs that a
half-open breaker whose place is free has let nothing through since it opened; `ProbeIsOwned` is
inductive with the type of `probe`. Of channel
connections `ChanTypeCorrect` is proved for any tabs: what a tab or the poll has read is a row
of the machine, and the provider switches on only a channel it holds, whichever of the tabs, the
webhooks and the poll comes last (`ChanInv`). `ProvidersRunEach` and `ProvidersTypeCorrect` do for
`MCProviders` what ConsoleProofs does for `MCHouse`. Assumptions: `CrewsAreFinite`,
`LimiterPositive`, `ThresholdPositive`.

**Left to TLC:** liveness, since the prover does not handle fairness here (`Converges`,
`EveryRevisionLands`, `ChargeLands`, `SetUpEnds`, `RateRecovers`, `ClosesAgain`, `ShownIsServed`,
`DeliveryEnds`, `OtaDecisionLands`, `DeliveriesSettle`, `OutageEnds`).

## Not modelled

* **Analytics**, payouts, exports and the purge, quotas, message automations and templates,
  reviews, and of operations the escalations, routes, crews, checklists, maintenance and blocks:
  rows recomputed from others in one transaction, reports, or text.
* **Adapters** to Channex and Stripe beyond the decisions named above, the SDK, configuration,
  crypto, sessions and the permission matrix: translation, formatting or tables.
* **The web application's pages**; the actions behind them that change modelled state are in.
* **Money** beyond one number: prices, taxes, commissions, refunds, currency.
* **The database's own locks**: row locks are the atomicity of a step, and deadlock detection is
  not modelled.

Most of the repository's 64,700 lines are of these kinds (pages, row mapping, adapters, reports,
spreadsheets of fields), and "map" in PROJECT.json names only the lines a definition stands for.

## Files

`X.tla` is a component, `MCX.tla` its constants for TLC (`MCHouse` and `MCProviders` those of
several), `MCX*.cfg` the runs, `XProofs.tla` the theorems. To run one:
`tlc -config MCBookings.cfg MCBookings`; to prove: `tlapm BookingsProofs.tla`.
