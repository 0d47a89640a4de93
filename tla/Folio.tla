------------------------------- MODULE Folio -------------------------------
(***************************************************************************)
(* The folio of a booking (DrizzleBillingRepository, packages/db/src/       *)
(* repositories/billing.ts): the daily close posts its nights, staff add    *)
(* charges, move lines to a split folio and issue invoices, whose numbers   *)
(* must have no gaps.  A transaction may roll back.  Staff wait for each     *)
(* other at the audit entry withPermission writes first, before issueInvoice *)
(* locks the sequence row; the close is the worker's and waits for nobody.   *)
(***************************************************************************)
EXTENDS Integers, FiniteSets, Sequences

CONSTANTS Nights,      \* the nights of the stay that are due to be posted
          Extras,      \* charges staff may add
          Clerks,      \* transactions that issue invoices
          Closers,     \* runs of the daily close
          MaxInvoices  \* bound: invoices issued

ASSUME NightsAreNoExtras == Nights \cap Extras = {}

VARIABLES
  lines,     \* folio_line: the folio a line is on, or none, and its invoice, or 0
  rows,      \* the number of folio_line rows of a night
  lastSeq,   \* invoice_sequence.last_seq
  invoices,  \* the invoices, in the order they were committed
  clerks,    \* the clerks' transactions
  closers    \* the nights each run of the close has planned to post

folioVars == <<lines, rows, lastSeq, invoices, clerks, closers>>

Folios == {"main", "split"}
atRest == [at |-> "rest"]

FolioInit ==
  /\ lines = [l \in Nights \cup Extras |-> [folio |-> "none", invoice |-> 0]]
  /\ rows = [n \in Nights |-> 0]
  /\ lastSeq = 0
  /\ invoices = <<>>
  /\ clerks = [c \in Clerks |-> atRest]
  /\ closers = [k \in Closers |-> {}]

\* Mutant of deskFree: the audit entry is written without the lock.
deskFreeAlways == TRUE

\* append: pg_advisory_xact_lock, held to the end of the transaction.
deskFree == \A c \in Clerks : clerks[c].at = "rest"

-----------------------------------------------------------------------------
(* Charges *)

\* addLine without a posting key: a charge staff add.
AddsExtra(l) ==
  /\ deskFree
  /\ lines[l].folio = "none"
  /\ lines' = [lines EXCEPT ![l].folio = "main"]
  /\ UNCHANGED <<rows, lastSeq, invoices, clerks, closers>>

\* transferLine, which does not ask whether the line is invoiced.
Transfers(l) ==
  /\ deskFree
  /\ lines[l].folio = "main"
  /\ lines' = [lines EXCEPT ![l].folio = "split"]
  /\ UNCHANGED <<rows, lastSeq, invoices, clerks, closers>>

\* closeDay reads the posting keys that exist and plans the rest (planDailyClose).
ClosePlans(k) ==
  /\ closers[k] = {}
  /\ closers' = [closers EXCEPT ![k] = {n \in Nights : rows[n] = 0}]
  /\ closers[k] # closers'[k]
  /\ UNCHANGED <<lines, rows, lastSeq, invoices, clerks>>

\* Mutant of newPostings: the unique index on posting_key is not relied upon.
newPostingsPlanned(planned) == planned

\* addLine: on conflict do nothing.
newPostings(planned) == {n \in planned : rows[n] = 0}

ClosePosts(k) ==
  /\ closers[k] # {}
  /\ rows' = [n \in Nights |-> rows[n] + IF n \in newPostings(closers[k]) THEN 1 ELSE 0]
  /\ lines' = [l \in DOMAIN lines |->
       IF l \in newPostings(closers[k]) THEN [folio |-> "main", invoice |-> 0] ELSE lines[l]]
  /\ closers' = [closers EXCEPT ![k] = {}]
  /\ UNCHANGED <<lastSeq, invoices, clerks>>

-----------------------------------------------------------------------------
(* issueInvoice *)

openLines(f) == {l \in DOMAIN lines : lines[l].folio = f /\ lines[l].invoice = 0}

\* It reads the folio's open lines.
ReadsLines(c, f) ==
  /\ deskFree
  /\ clerks[c].at = "rest" /\ openLines(f) # {} /\ Len(invoices) < MaxInvoices
  /\ clerks' = [clerks EXCEPT ![c] = [at |-> "read", open |-> openLines(f)]]
  /\ UNCHANGED <<lines, rows, lastSeq, invoices, closers>>

\* It takes the next number from the sequence row.
TakesNumber(c) ==
  /\ clerks[c].at = "read"
  /\ lastSeq' = lastSeq + 1
  /\ clerks' = [clerks EXCEPT ![c] = [at |-> "numbered", open |-> @.open, before |-> lastSeq]]
  /\ UNCHANGED <<lines, rows, invoices, closers>>

\* The number, the invoice and its stamp on the lines are committed together.
Issues(c) ==
  /\ clerks[c].at = "numbered"
  /\ invoices' = Append(invoices, [number |-> lastSeq, lines |-> clerks[c].open])
  /\ lines' = [l \in DOMAIN lines |->
       IF l \in clerks[c].open THEN [lines[l] EXCEPT !.invoice = lastSeq] ELSE lines[l]]
  /\ clerks' = [clerks EXCEPT ![c] = atRest]
  /\ UNCHANGED <<rows, lastSeq, closers>>

numberAfter(c) == IF clerks[c].at = "numbered" THEN clerks[c].before ELSE lastSeq

\* The transaction rolls back, and the number with it.
GivesUpNumber(c) ==
  /\ clerks[c].at # "rest"
  /\ lastSeq' = numberAfter(c)
  /\ clerks' = [clerks EXCEPT ![c] = atRest]
  /\ UNCHANGED <<lines, rows, invoices, closers>>

-----------------------------------------------------------------------------

Invoicing(c) == \/ \E f \in Folios : ReadsLines(c, f)
                \/ TakesNumber(c) \/ Issues(c) \/ GivesUpNumber(c)

FolioNext == \/ \E l \in Extras : AddsExtra(l)
             \/ \E l \in Nights \cup Extras : Transfers(l)
             \/ \E k \in Closers : ClosePlans(k) \/ ClosePosts(k)
             \/ \E c \in Clerks : Invoicing(c)

FolioSpec == FolioInit /\ [][FolioNext]_folioVars

-----------------------------------------------------------------------------
(* Properties *)

\* The type invariant.
FolioTypeOK ==
  /\ \A l \in DOMAIN lines : /\ lines[l].folio \in Folios \cup {"none"}
                             /\ lines[l].invoice \in 0..lastSeq
  /\ rows \in [Nights -> Nat]
  /\ \A k \in Closers : closers[k] \subseteq Nights

\* "Gapless sequential numbering per property" (08, 8.9): the invoices are numbered
\* 1, 2, ... in the order they appear, through issues that wait and that roll back.
InvoicesGapless ==
  \A i \in 1..Len(invoices) : invoices[i].number = i

\* A line is billed on one invoice only, whoever issues, moves lines or closes the day
\* meanwhile.
LineOnOneInvoice ==
  \A i, j \in 1..Len(invoices) : invoices[i].lines \cap invoices[j].lines # {} => i = j

\* The daily close is "idempotent and re-runnable" (08, 8.9): a night is posted once,
\* whichever runs overlap and wherever its line has been moved or invoiced meanwhile,
\* and a run does not take an invoiced night's stamp away.
NightPostedOnce ==
  /\ \A n \in Nights : rows[n] <= 1
  /\ \A i \in 1..Len(invoices) : \A l \in invoices[i].lines : lines[l].invoice # 0
=============================================================================
