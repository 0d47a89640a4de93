------------------------------ MODULE MCHouse ------------------------------
(***************************************************************************)
(* The components that keep a property's own books, for TLC: the direct     *)
(* booking engine, the folios, the calendar, the owners' statements, the    *)
(* tenant's billing, the console's transactions, the batches built from the *)
(* calendar, and turnover tasks and door codes.  They share no state the    *)
(* modules keep, so one run explores them one at a time: `component' says   *)
(* which one runs, and the others stay as they begin.                       *)
(***************************************************************************)
EXTENDS MCDirectBooking, Folio, CalendarEdits, OwnerStatements, Billing,
        ConsoleTransactions, MCAriBatch, Operations

\* Edits of the calendar, one field each.
OneFieldEach == {"rate" :> 2, "minStay" :> 2}
BulkPatches  == {"rate" :> 3, "minStay" :> 3, "minStay" :> 0}

\* Two stays that may leave and arrive on one day.
TwoNights == {[arrival |-> 1, departure |-> 2], [arrival |-> 2, departure |-> 3]}

VARIABLE component

\* Operations twice: one consumer beside the desk, and several that overlap without it.
Components == {"direct", "folio", "calendar", "owners", "billing", "console", "batch",
               "operations", "consumers"}

OneWorks == LET one == CHOOSE w \in Consumers : TRUE
            IN  \A w \in Consumers \ {one} : work'[w] = Rest

HouseInit ==
  /\ component \in Components
  /\ DirectInit /\ FolioInit /\ CalInit /\ OwnerInit /\ BillingInit /\ ConsoleInit /\ BatchInit
  /\ OpsInit
  /\ (component # "direct" => DOMAIN confirms = TwoTabs)

HouseNext ==
  /\ UNCHANGED component
  /\ IF component = "direct"   THEN DirectNext  ELSE UNCHANGED directVars
  /\ IF component = "folio"    THEN FolioNext   ELSE UNCHANGED folioVars
  /\ IF component = "calendar" THEN CalNext     ELSE UNCHANGED calVars
  /\ IF component = "owners"   THEN OwnerNext   ELSE UNCHANGED ownerVars
  /\ IF component = "billing"  THEN BillingNext ELSE UNCHANGED billingVars
  /\ IF component = "console"  THEN ConsoleNext ELSE UNCHANGED consoleVars
  /\ IF component = "batch"    THEN BatchNext   ELSE UNCHANGED batchVars
  /\ CASE component = "operations" -> OpsNext /\ OneWorks
       [] component = "consumers"  -> OpsNext /\ UNCHANGED consoleRuns
       [] OTHER                    -> UNCHANGED opsVars

houseVars == <<component, directVars, folioVars, calVars, ownerVars, billingVars, consoleVars,
               batchVars, opsVars>>

HouseSpec == HouseInit /\ [][HouseNext]_houseVars

\* The type invariants of the components, and what ties rows that are written together:
\* derived plans to their parents, invoice numbers to invoices, audit entries to the log,
\* tasks to departures.
HouseTypeOK ==
  /\ DirectTypeOK /\ FolioTypeOK /\ CalTypeOK /\ OwnerTypeOK /\ BillingTypeOK
  /\ ConsoleTypeOK /\ BatchTypeOK /\ OpsTypeOK
  /\ ChildFollows /\ InvoicesGapless /\ EntryIsNext /\ DeparturesAreTasked
=============================================================================
