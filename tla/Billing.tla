------------------------------ MODULE Billing ------------------------------
(***************************************************************************)
(* What a tenant pays for the platform (docs/specs/12;                      *)
(* packages/jobs/src/platform.ts, core/platform/lifecycle.ts): its state,   *)
(* its subscription, the invoice of every period that ended, and dunning.   *)
(*                                                                         *)
(* The daily jobs and the choice of a plan call the billing provider between *)
(* two transactions, and may stop at any of them.  (The console's choice of *)
(* a plan and its card form pass one transaction for both: their steps with *)
(* nothing between them.)                                                   *)
(***************************************************************************)
EXTENDS Integers, FiniteSets

CONSTANTS LastBilled,    \* bound: the billing periods, numbered from the first
          DunningDays,   \* retries of a failed payment before the grace period
          BillingFaults, \* bound: calls that fail and jobs that stop
          MaxChoices     \* bound: plans chosen and granted

ASSUME BillingBounds == {LastBilled, DunningDays, BillingFaults, MaxChoices} \subseteq Nat

VARIABLES
  tenant,   \* organization.state
  sub,      \* the subscription: its period, whether its plan has a price, whether the
            \*   provider has made a customer, the failed payment, the retries done
  today,    \* the periods that have ended
  invoice,  \* billing_invoice of each period: whether it holds the provider's name, and
            \*   whether its draft comes to more than nothing
  account,  \* the provider's invoice of each period
  taken,    \* history: how often the provider took the money of a period
  card,     \* whether the provider has a card, and it is not declined
  choosing, \* choosePlan has saved the plan and asks for the customer
  closer,   \* billing.close: the period it is invoicing and how far it is
  collects, \* who is collecting the open invoice: dunning.run, the card form
  mishaps, choices,
  free,     \* history: the periods saved at a total of nothing
  waived    \* history: the periods a grant moved past

billingVars == <<tenant, sub, today, invoice, account, taken, card, choosing, closer,
                 collects, mishaps, choices, free, waived>>
provider == <<account, taken>>

BillingPeriods == 1..LastBilled
Collectors == {"dunning", "card"}

Unbilled == [state |-> "none", ref |-> FALSE, due |-> FALSE]

\* A close under way, with what it read: the plan's price first; then its draft, and the
\* customer and the failed payment beside it.
NoClose == [at |-> "idle", period |-> 0, priced |-> FALSE, due |-> FALSE,
            customer |-> FALSE, failing |-> FALSE, result |-> "none"]

\* A collection under way: seen is whether the provider holds the invoice, attempt the
\* retry dunning is making.
Idle == [at |-> "idle", period |-> 0, seen |-> FALSE, result |-> "none", attempt |-> 0]

begun(p, seen, attempt) ==
  [at |-> "built", period |-> p, seen |-> seen, result |-> "none", attempt |-> attempt]

BillingInit ==
  /\ tenant = "trial"
  /\ sub = [period |-> 0, priced |-> FALSE, customer |-> FALSE, failing |-> FALSE,
            retries |-> 0]
  /\ today = 0
  /\ invoice = [p \in BillingPeriods |-> Unbilled]
  /\ account = [p \in BillingPeriods |-> "none"]
  /\ taken = [p \in BillingPeriods |-> 0]
  /\ card = FALSE /\ choosing = FALSE
  /\ closer = NoClose /\ collects = [c \in Collectors |-> Idle]
  /\ mishaps = 0 /\ choices = 0
  /\ free = {} /\ waived = {}

\* nextTenantState; any other event leaves the tenant where it is.
nextTenantState(state, event) ==
  CASE event = "plan_chosen" /\ state \in {"trial", "expired"} -> "active"
    [] event = "trial_ended" /\ state = "trial" -> "expired"
    [] event = "payment_failed" /\ state = "active" -> "past_due"
    [] event = "payment_recovered" /\ state \in {"past_due", "suspended"} -> "active"
    [] event = "dunning_exhausted" /\ state = "past_due" -> "suspended"
    [] event = "reactivated" /\ state = "suspended" -> "active"
    [] event = "offboarding_requested" /\ state # "trial" -> "offboarding"
    [] event = "retention_expired" /\ state \in {"expired", "suspended"} -> "offboarding"
    [] OTHER -> state

-----------------------------------------------------------------------------
(* The tenant *)

\* expireTrials.
ExpiresTrial ==
  /\ tenant = "trial" /\ tenant' = nextTenantState(tenant, "trial_ended")
  /\ UNCHANGED <<sub, today, invoice, provider, card, choosing, closer, collects, mishaps,
                 choices, free, waived>>

\* choosePlan, its first transaction: the period of a subscription there is goes on.
ChoosesPlan ==
  /\ choices < MaxChoices /\ choices' = choices + 1
  /\ ~choosing /\ choosing' = TRUE
  /\ sub' = [sub EXCEPT !.period = IF @ = 0 THEN 1 ELSE @, !.priced = TRUE]
  /\ UNCHANGED <<tenant, today, invoice, provider, card, closer, collects, mishaps, free,
                 waived>>

\* ensureCustomer has answered, and the second transaction.
CustomerMade ==
  /\ choosing /\ choosing' = FALSE
  /\ sub' = [sub EXCEPT !.customer = TRUE]
  /\ tenant' = nextTenantState(tenant, "plan_chosen")
  /\ UNCHANGED <<today, invoice, provider, card, closer, collects, mishaps, choices, free,
                 waived>>

\* leavePlatformAction.
Leaves ==
  /\ tenant' = nextTenantState(tenant, "offboarding_requested")
  /\ UNCHANGED <<sub, today, invoice, provider, card, choosing, closer, collects, mishaps,
                 choices, free, waived>>

\* tenantEventAction: what the operator's page offers for a suspended tenant.
Reactivates ==
  /\ tenant = "suspended" /\ tenant' = nextTenantState(tenant, "reactivated")
  /\ UNCHANGED <<sub, today, invoice, provider, card, choosing, closer, collects, mishaps,
                 choices, free, waived>>

grantEvent == CASE tenant \in {"trial", "expired"} -> "plan_chosen"
                [] tenant = "past_due" -> "payment_recovered"
                [] tenant = "suspended" -> "reactivated"
                [] OTHER -> "none"

\* compTenant: the complimentary plan has no price and no add-ons.  A period that has
\* ended gives way to one that begins today, billed or not.
Comps ==
  /\ choices < MaxChoices /\ choices' = choices + 1
  /\ sub' = [sub EXCEPT !.period = IF @ > today THEN @ ELSE today + 1,
                        !.priced = FALSE, !.failing = FALSE, !.retries = 0]
  /\ waived' = waived \cup {p \in BillingPeriods : sub.period <= p /\ p <= today}
  /\ tenant' = nextTenantState(tenant, grantEvent)
  /\ UNCHANGED <<today, invoice, provider, card, choosing, closer, collects, mishaps, free>>

PeriodPasses ==
  /\ sub.period # 0 /\ today < LastBilled /\ today' = today + 1
  /\ UNCHANGED <<tenant, sub, invoice, provider, card, choosing, closer, collects, mishaps,
                 choices, free, waived>>

-----------------------------------------------------------------------------
(* The provider (external): an invoice per idempotency key, paid by the card it has *)

\* Mutant of newCharge: an idempotency key of its own for every attempt.
newChargeAlways(p) == TRUE

\* charge is made under the period's key, which the provider remembers.
newCharge(p) == account[p] = "none"

\* What a call settles, and whether it takes money: charge of a draft, which is paid when
\* it comes to nothing, and retry of an invoice the provider holds.
charge(p, due) ==
  [outcome |-> IF ~newCharge(p) THEN account[p]
               ELSE IF due /\ ~card THEN "open" ELSE "paid",
   takes |-> newCharge(p) /\ due /\ card]

retry(p) ==
  [outcome |-> IF account[p] = "paid" \/ card THEN "paid" ELSE "open",
   takes |-> account[p] # "paid" /\ card]

\* A call is answered, or fails after it arrived, or before.
Arrives(p, call, answer) ==
  /\ account' = [account EXCEPT ![p] = call.outcome]
  /\ taken' = IF call.takes THEN [taken EXCEPT ![p] = @ + 1] ELSE taken
  /\ answer \in {call.outcome, "unavailable"}

Lost(answer) == answer = "unavailable" /\ UNCHANGED provider

Mishap(happens) ==
  IF happens THEN mishaps < BillingFaults /\ mishaps' = mishaps + 1 ELSE UNCHANGED mishaps

\* The provider refuses to make the invoice.
Refused(p, answer) == account[p] = "none" /\ answer = "void" /\ UNCHANGED provider

answers == {"paid", "open", "void", "unavailable"}

-----------------------------------------------------------------------------
(* billing.close: closeBillingPeriods and invoicePeriod *)

CloserReads ==
  /\ closer.at = "idle" /\ tenant # "offboarding"
  /\ sub.period # 0 /\ sub.period <= today
  /\ closer' = [NoClose EXCEPT !.at = "seen", !.period = sub.period, !.priced = sub.priced]
  /\ UNCHANGED <<tenant, sub, today, invoice, provider, card, choosing, collects, mishaps,
                 choices, free, waived>>

\* invoicePeriod's first transaction: the draft.  A plan with a price comes to nothing for
\* a tenant that had no units and no add-ons, and one without a price always does.
CloserDrafts ==
  /\ closer.at = "seen"
  /\ \E due \in {FALSE, closer.priced} :
       closer' = [NoClose EXCEPT !.at = "built", !.period = closer.period, !.due = due,
                                 !.customer = sub.customer, !.failing = sub.failing]
  /\ UNCHANGED <<tenant, sub, today, invoice, provider, card, choosing, collects, mishaps,
                 choices, free, waived>>

\* Without a call: a total of nothing settles itself, and without a customer nobody can
\* be charged.
CloserNeedsNoCall ==
  /\ closer.at = "built"
  /\ ~closer.due \/ ~closer.customer
  /\ closer' = [closer EXCEPT !.at = "charged",
                              !.result = IF closer.due THEN "no_payment_method" ELSE "settled"]
  /\ UNCHANGED <<tenant, sub, today, invoice, provider, card, choosing, collects, mishaps,
                 choices, free, waived>>

CloserCharges ==
  /\ closer.at = "built" /\ closer.due /\ closer.customer
  /\ \E answer \in answers :
       /\ Mishap(answer \in {"void", "unavailable"})
       /\ \/ Arrives(closer.period, charge(closer.period, TRUE), answer)
          \/ Lost(answer)
          \/ Refused(closer.period, answer)
       /\ closer' = [closer EXCEPT !.at = "charged", !.result = answer]
  /\ UNCHANGED <<tenant, sub, today, invoice, card, choosing, collects, choices, free,
                 waived>>

\* What an invoice becomes: one the provider could not be asked for stays open.
becomes(result) == CASE result = "settled" -> "paid"
                     [] result \in {"unavailable", "no_payment_method"} -> "open"
                     [] OTHER -> result

\* saveInvoice, which keeps the draft of an invoice there is, and the first failure moves
\* the tenant to past due.  An unavailable provider is a failure like a declined card.
CloserSaves ==
  /\ closer.at = "charged"
  /\ LET state == becomes(closer.result)
     IN /\ invoice' = [invoice EXCEPT ![closer.period] =
              [state |-> state, ref |-> closer.result \in {"paid", "open"},
               due |-> IF @.state = "none" THEN closer.due ELSE @.due]]
        /\ sub' = IF state = "paid" THEN [sub EXCEPT !.failing = FALSE, !.retries = 0]
                  ELSE IF state = "open" /\ ~closer.failing
                  THEN [sub EXCEPT !.failing = TRUE, !.retries = 0] ELSE sub
        /\ tenant' = IF state = "open" /\ ~closer.failing
                     THEN nextTenantState(tenant, "payment_failed") ELSE tenant
  /\ free' = IF closer.due THEN free ELSE free \cup {closer.period}
  /\ closer' = [NoClose EXCEPT !.at = "saved", !.period = closer.period]
  /\ UNCHANGED <<today, provider, card, choosing, collects, mishaps, choices, waived>>

mayAdvance == closer.at = "saved"

CloserAdvances ==
  /\ mayAdvance
  /\ sub' = [sub EXCEPT !.period = closer.period + 1]
  /\ closer' = NoClose
  /\ UNCHANGED <<tenant, today, invoice, provider, card, choosing, collects, mishaps,
                 choices, free, waived>>

-----------------------------------------------------------------------------
(* collectOpenInvoice: by dunning, and by a new card *)

\* openInvoice: the newest that is open.
openInvoice(p) ==
  /\ invoice[p].state = "open"
  /\ \A q \in BillingPeriods : q > p => invoice[q].state # "open"

\* collectOpenInvoice reads it, when there is one and somebody to charge.
CollectsOpen(c, attempt) ==
  /\ collects[c].at = "idle" /\ sub.customer
  /\ \E p \in BillingPeriods :
       /\ openInvoice(p)
       /\ collects' = [collects EXCEPT ![c] = begun(p, invoice[p].ref, attempt)]

nothingToCollect == ~sub.customer \/ \A p \in BillingPeriods : invoice[p].state # "open"

\* attachPaymentMethod, once there is a customer.
AttachesCard ==
  /\ sub.customer /\ collects["card"].at = "idle"
  /\ card' \in BOOLEAN
  /\ \/ CollectsOpen("card", 0)
     \/ nothingToCollect /\ UNCHANGED collects
  /\ UNCHANGED <<tenant, sub, today, invoice, provider, choosing, closer, mishaps, choices,
                 free, waived>>

\* runDunning, on a day a retry is due; one that has nothing to collect counts all the
\* same.
DunningReads ==
  /\ sub.failing /\ sub.retries < DunningDays /\ tenant # "offboarding"
  /\ collects["dunning"].at = "idle"
  /\ \/ CollectsOpen("dunning", sub.retries + 1) /\ UNCHANGED sub
     \/ nothingToCollect /\ sub' = [sub EXCEPT !.retries = @ + 1] /\ UNCHANGED collects
  /\ UNCHANGED <<tenant, today, invoice, provider, card, choosing, closer, mishaps,
                 choices, free, waived>>

\* An invoice the provider holds is retried; of one that never arrived the stored draft is
\* charged.
Collects(c) ==
  /\ collects[c].at = "built"
  /\ LET p == collects[c].period
     IN \E answer \in answers :
          /\ Mishap(answer \in {"void", "unavailable"})
          /\ \/ Arrives(p, IF collects[c].seen THEN retry(p) ELSE charge(p, invoice[p].due),
                        answer)
             \/ Lost(answer)
             \/ ~collects[c].seen /\ Refused(p, answer)
          /\ collects' = [collects EXCEPT ![c].at = "charged", ![c].result = answer]
  /\ UNCHANGED <<tenant, sub, today, invoice, card, choosing, closer, choices, free,
                 waived>>

\* What the provider said is recorded; a payment ends the dunning, whatever else is open.
Records(c) ==
  /\ collects[c].at = "charged"
  /\ LET p == collects[c].period
         result == collects[c].result
     IN /\ invoice' = IF result = "unavailable" THEN invoice
                      ELSE [invoice EXCEPT ![p].state = result,
                                           ![p].ref = @ \/ result # "void"]
        /\ sub' = IF result = "paid" THEN [sub EXCEPT !.failing = FALSE, !.retries = 0]
                  ELSE IF c = "dunning" THEN [sub EXCEPT !.retries = collects[c].attempt]
                  ELSE sub
        /\ tenant' = IF result = "paid" THEN nextTenantState(tenant, "payment_recovered")
                     ELSE tenant
  /\ collects' = [collects EXCEPT ![c] = Idle]
  /\ UNCHANGED <<today, provider, card, choosing, closer, mishaps, choices, free, waived>>

\* runDunning, when the grace period is over.
Suspends ==
  /\ sub.failing /\ sub.retries >= DunningDays
  /\ tenant' = nextTenantState(tenant, "dunning_exhausted")
  /\ UNCHANGED <<sub, today, invoice, provider, card, choosing, closer, collects, mishaps,
                 choices, free, waived>>

\* The worker stops, or a console transaction is rolled back; ensureCustomer fails.
CloserStops ==
  /\ closer # NoClose /\ Mishap(TRUE)
  /\ closer' = NoClose
  /\ UNCHANGED <<tenant, sub, today, invoice, provider, card, choosing, collects, choices,
                 free, waived>>

CollectorStops(c) ==
  /\ collects[c] # Idle /\ Mishap(TRUE)
  /\ collects' = [collects EXCEPT ![c] = Idle]
  /\ UNCHANGED <<tenant, sub, today, invoice, provider, card, choosing, closer, choices,
                 free, waived>>

CustomerFails ==
  /\ choosing /\ Mishap(TRUE)
  /\ choosing' = FALSE
  /\ UNCHANGED <<tenant, sub, today, invoice, provider, card, closer, collects, choices,
                 free, waived>>

TenantStep == \/ ExpiresTrial \/ Leaves \/ Reactivates \/ Comps \/ Suspends \/ PeriodPasses
              \/ ChoosesPlan \/ CustomerMade \/ CustomerFails

CloserStep == \/ CloserReads \/ CloserDrafts \/ CloserNeedsNoCall \/ CloserCharges
              \/ CloserSaves \/ CloserAdvances \/ CloserStops

BillingNext ==
  \/ TenantStep \/ CloserStep
  \/ AttachesCard \/ DunningReads
  \/ \E c \in Collectors : Collects(c) \/ Records(c) \/ CollectorStops(c)

BillingSpec == BillingInit /\ [][BillingNext]_billingVars

-----------------------------------------------------------------------------
(* Properties *)

BillingTypeOK ==
  /\ tenant \in {"trial", "expired", "active", "past_due", "suspended", "offboarding"}
  /\ sub.period \in 0..LastBilled + 1 /\ sub.retries \in 0..DunningDays
  /\ \A p \in BillingPeriods : /\ invoice[p].state \in {"none", "open", "paid", "void"}
                               /\ account[p] \in {"none", "open", "paid"}
  /\ free \cup waived \subseteq BillingPeriods

\* A period the subscription has moved past has its invoice, wherever a run stopped and
\* although the next day's starts again, unless a grant moved past it; the provider takes
\* its money at most once, through lost answers, crashes, a retry by dunning and one by the
\* card form; and a paid invoice was collected, or was saved at a total of nothing.
CollectedOnce ==
  \A p \in BillingPeriods :
    /\ p < sub.period => invoice[p].state # "none" \/ p \in waived
    /\ taken[p] <= 1
    /\ invoice[p].state = "paid" => taken[p] = 1 \/ p \in free
=============================================================================
