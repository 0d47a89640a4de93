---------------------------- MODULE LedgerProofs ----------------------------
(***************************************************************************)
(* Proofs about the books of a property, for any nights, charges, clerks,   *)
(* runs, periods and prices: what the folio of a booking posts and          *)
(* invoices, what the tenant is billed for, and what the statements of an   *)
(* owner bill and restate.                                                  *)
(***************************************************************************)
EXTENDS Folio, Billing, OwnerStatements, SequenceTheorems, TLAPS

Billable == Nights \cup Extras

Line == [folio : Folios \cup {"none"}, invoice : Nat]
Invoice == [number : Nat, lines : SUBSET Billable]

\* What a clerk's transaction is at.
ClerkDesk == [at : {"rest"}] \cup [at : {"read"}, open : SUBSET Billable]
             \cup [at : {"numbered"}, open : SUBSET Billable, before : Nat]

\* The variables' types.
FolioTyped ==
  /\ lines \in [Billable -> Line] /\ rows \in [Nights -> Nat]
  /\ lastSeq \in Nat /\ invoices \in Seq(Invoice)
  /\ clerks \in [Clerks -> ClerkDesk] /\ closers \in [Closers -> SUBSET Nights]

\* Clerks issue one after the other, and the sequence is ahead by a number not yet used.
SequenceFollows ==
  /\ \A c, d \in Clerks : clerks[c].at # "rest" /\ clerks[d].at # "rest" => c = d
  /\ (\A c \in Clerks : clerks[c].at # "numbered") => lastSeq = Len(invoices)
  /\ \A c \in Clerks : clerks[c].at = "numbered" => /\ clerks[c].before = Len(invoices)
                                                    /\ lastSeq = Len(invoices) + 1

\* A line that is posted nowhere is on no invoice; a night is posted once, or not at all.
PostedOnce ==
  /\ \A l \in Billable : lines[l].folio = "none" => lines[l].invoice = 0
  /\ \A n \in Nights : /\ rows[n] <= 1
                       /\ rows[n] = 0 <=> lines[n].folio = "none"

\* The lines a clerk has read are still posted and open.
StillOpen ==
  \A c \in Clerks : clerks[c].at # "rest" =>
    \A l \in clerks[c].open : lines[l].folio # "none" /\ lines[l].invoice = 0

\* An invoice's lines carry its number.
LinesAreStamped == \A i \in 1..Len(invoices) : \A l \in invoices[i].lines : lines[l].invoice = i

\* No line carries a number that is not in use.
StampsAreIssued == \A l \in Billable : lines[l].invoice <= Len(invoices)

FolioInv == /\ FolioTyped /\ SequenceFollows /\ PostedOnce /\ StillOpen
            /\ LinesAreStamped /\ StampsAreIssued /\ InvoicesGapless

-----------------------------------------------------------------------------

\* Nothing is posted or issued, and every clerk rests.
LEMMA FolioInitInv == FolioInit => FolioInv
  <1> SUFFICES ASSUME FolioInit PROVE FolioInv
    OBVIOUS
  <1>1. FolioTyped
    BY DEF FolioInit, FolioTyped, Billable, Line, ClerkDesk, atRest
  <1>2. SequenceFollows /\ StillOpen
    BY DEF FolioInit, SequenceFollows, StillOpen, atRest
  <1>3. PostedOnce /\ LinesAreStamped /\ StampsAreIssued /\ InvoicesGapless
    BY DEF FolioInit, PostedOnce, LinesAreStamped, StampsAreIssued, InvoicesGapless, Billable
  <1> QED
    BY <1>1, <1>2, <1>3 DEF FolioInv

\* What an invoice bills are lines.
LEMMA InvoiceLines ==
  ASSUME FolioTyped
  PROVE  \A i \in 1..Len(invoices) : invoices[i].lines \subseteq Billable
  <1>1. \A i \in 1..Len(invoices) : invoices[i] \in Invoice
    BY DEF FolioTyped
  <1> QED
    BY <1>1 DEF Invoice

\* A line that goes from no folio to a folio, or from one to another, keeps its stamp.
LEMMA LineMoves ==
  ASSUME FolioInv, NEW l \in Billable, NEW f \in Folios,
         lines' = [lines EXCEPT ![l].folio = f],
         l \in Nights => lines[l].folio # "none",
         UNCHANGED <<rows, lastSeq, invoices, clerks, closers>>
  PROVE  FolioInv'
  <1> USE DEF FolioInv
  <1> DEFINE d == [lines[l] EXCEPT !.folio = f]
  <1>1. lines[l] \in Line
    BY DEF FolioTyped
  <1>2. d \in Line /\ d.folio = f /\ f # "none" /\ d.invoice = lines[l].invoice
    BY <1>1 DEF Line, Folios
  <1>3. /\ lines' \in [Billable -> Line] /\ lines'[l] = d
        /\ \A k \in Billable \ {l} : lines'[k] = lines[k]
    BY <1>2 DEF FolioTyped
  <1>4. \A k \in Billable : lines'[k].invoice = lines[k].invoice
    BY <1>2, <1>3
  <1> HIDE DEF d
  <1>5. FolioTyped' /\ SequenceFollows' /\ InvoicesGapless'
    BY <1>3 DEF FolioTyped, SequenceFollows, InvoicesGapless
  <1>6. PostedOnce'
    BY <1>2, <1>3, <1>4 DEF PostedOnce, Billable
  <1>7. StillOpen'
    <2>1. \A c \in Clerks : clerks[c].at # "rest" => clerks[c].open \subseteq Billable
      BY DEF FolioTyped, ClerkDesk
    <2> QED
      BY <1>2, <1>3, <1>4, <2>1 DEF StillOpen
  <1>8. LinesAreStamped' /\ StampsAreIssued'
    <2>1. \A i \in 1..Len(invoices) : invoices[i].lines \subseteq Billable
      BY InvoiceLines
    <2> QED
      BY <1>4, <2>1 DEF LinesAreStamped, StampsAreIssued
  <1> QED
    BY <1>5, <1>6, <1>7, <1>8

\* The close posts nights that have no row, which no clerk has read and no invoice bills.
LEMMA PostsInv ==
  ASSUME FolioInv, NEW k \in Closers, ClosePosts(k)
  PROVE  FolioInv'
  <1> USE DEF FolioInv
  <1> DEFINE P == newPostings(closers[k])
  <1>1. P \subseteq Nights /\ \A n \in P : rows[n] = 0
    BY DEF newPostings, FolioTyped
  <1>2. /\ rows' = [n \in Nights |-> rows[n] + IF n \in P THEN 1 ELSE 0]
        /\ lines' = [l \in Billable |->
             IF l \in P THEN [folio |-> "main", invoice |-> 0] ELSE lines[l]]
        /\ closers' = [closers EXCEPT ![k] = {}]
        /\ UNCHANGED <<lastSeq, invoices, clerks>>
    BY DEF ClosePosts, FolioTyped
  <1> HIDE DEF P
  <1>3. \A l \in P : lines[l].folio = "none" /\ lines[l].invoice = 0
    BY <1>1 DEF PostedOnce, Billable
  <1>4. FolioTyped'
    <2>1. [folio |-> "main", invoice |-> 0] \in Line
      BY DEF Line, Folios
    <2>2. rows' \in [Nights -> Nat] /\ lines' \in [Billable -> Line]
      BY <1>2, <2>1 DEF FolioTyped
    <2> QED
      BY <1>2, <2>2 DEF FolioTyped
  <1>5. SequenceFollows' /\ InvoicesGapless'
    BY <1>2 DEF SequenceFollows, InvoicesGapless
  <1>6. PostedOnce'
    <2>1. \A l \in Billable : lines'[l].folio = "none" => lines'[l].invoice = 0
      BY <1>2 DEF PostedOnce
    <2>2. ASSUME NEW n \in Nights
          PROVE  rows'[n] <= 1 /\ (rows'[n] = 0 <=> lines'[n].folio = "none")
      <3>1. rows[n] \in Nat /\ n \in Billable
        BY DEF FolioTyped, Billable
      <3>2. CASE n \in P
        BY <1>1, <1>2, <3>1, <3>2
      <3>3. CASE n \notin P
        BY <1>2, <3>1, <3>3 DEF PostedOnce
      <3> QED
        BY <3>2, <3>3
    <2> QED
      BY <2>1, <2>2 DEF PostedOnce
  <1>7. \A l \in Billable : lines'[l].invoice = lines[l].invoice
    BY <1>2, <1>3
  <1>8. StillOpen'
    <2>1. \A c \in Clerks : clerks[c].at # "rest" => clerks[c].open \subseteq Billable
      BY DEF FolioTyped, ClerkDesk
    <2> QED
      BY <1>2, <1>3, <1>7, <2>1 DEF StillOpen
  <1>9. LinesAreStamped' /\ StampsAreIssued'
    <2>1. \A i \in 1..Len(invoices) : invoices[i].lines \subseteq Billable
      BY InvoiceLines
    <2> QED
      BY <1>2, <1>7, <2>1 DEF LinesAreStamped, StampsAreIssued
  <1> QED
    BY <1>4, <1>5, <1>6, <1>8, <1>9

-----------------------------------------------------------------------------
(* issueInvoice *)

\* A clerk's desk becomes another.
LEMMA ClerkBecomes ==
  ASSUME FolioTyped, NEW c \in Clerks, NEW d \in ClerkDesk, clerks' = [clerks EXCEPT ![c] = d]
  PROVE  /\ clerks' \in [Clerks -> ClerkDesk] /\ clerks'[c] = d
         /\ \A k \in Clerks \ {c} : clerks'[k] = clerks[k]
  BY DEF FolioTyped

\* The first of the clerks reads the open lines of a folio.
LEMMA BillReadsInv ==
  ASSUME FolioInv, NEW c \in Clerks, NEW f \in Folios, ReadsLines(c, f)
  PROVE  FolioInv'
  <1> USE DEF FolioInv
  <1> DEFINE d == [at |-> "read", open |-> openLines(f)]
  <1>1. /\ clerks' = [clerks EXCEPT ![c] = d] /\ \A k \in Clerks : clerks[k].at = "rest"
        /\ UNCHANGED <<lines, rows, lastSeq, invoices, closers>>
    BY DEF ReadsLines, deskFree
  <1>2. \A l \in openLines(f) : l \in Billable /\ lines[l].folio # "none" /\ lines[l].invoice = 0
    BY DEF openLines, FolioTyped, Folios
  <1>3. d \in ClerkDesk /\ d.at = "read" /\ d.open = openLines(f)
    BY <1>2 DEF ClerkDesk
  <1> HIDE DEF d
  <1>4. /\ clerks' \in [Clerks -> ClerkDesk] /\ clerks'[c] = d
        /\ \A k \in Clerks \ {c} : clerks'[k] = clerks[k]
    BY <1>1, <1>3, ClerkBecomes
  <1>5. FolioTyped'
    BY <1>1, <1>4 DEF FolioTyped
  <1>6. SequenceFollows'
    BY <1>1, <1>3, <1>4 DEF SequenceFollows
  <1>7. StillOpen'
    BY <1>1, <1>2, <1>3, <1>4 DEF StillOpen
  <1>8. PostedOnce' /\ LinesAreStamped' /\ StampsAreIssued' /\ InvoicesGapless'
    BY <1>1 DEF PostedOnce, LinesAreStamped, StampsAreIssued, InvoicesGapless
  <1> QED
    BY <1>5, <1>6, <1>7, <1>8

\* It takes the number after the last invoice's.
LEMMA TakesInv ==
  ASSUME FolioInv, NEW c \in Clerks, TakesNumber(c)
  PROVE  FolioInv'
  <1> USE DEF FolioInv
  <1> DEFINE d == [at |-> "numbered", open |-> clerks[c].open, before |-> lastSeq]
  <1>1. /\ clerks' = [clerks EXCEPT ![c] = d] /\ clerks[c].at = "read"
        /\ lastSeq' = lastSeq + 1 /\ UNCHANGED <<lines, rows, invoices, closers>>
    BY DEF TakesNumber
  <1>2. d \in ClerkDesk /\ d.at = "numbered" /\ d.open = clerks[c].open /\ d.before = lastSeq
    BY <1>1 DEF FolioTyped, ClerkDesk
  <1> HIDE DEF d
  <1>3. /\ clerks' \in [Clerks -> ClerkDesk] /\ clerks'[c] = d
        /\ \A k \in Clerks \ {c} : clerks'[k] = clerks[k]
    BY <1>1, <1>2, ClerkBecomes
  <1>4. \A k \in Clerks \ {c} : clerks[k].at = "rest"
    BY <1>1 DEF SequenceFollows
  <1>5. lastSeq = Len(invoices) /\ Len(invoices) \in Nat
    BY <1>1, <1>4 DEF SequenceFollows, FolioTyped
  <1>6. FolioTyped'
    BY <1>1, <1>3 DEF FolioTyped
  <1>7. SequenceFollows'
    BY <1>1, <1>2, <1>3, <1>4, <1>5 DEF SequenceFollows
  <1>8. StillOpen'
    BY <1>1, <1>2, <1>3 DEF StillOpen
  <1>9. PostedOnce' /\ LinesAreStamped' /\ StampsAreIssued' /\ InvoicesGapless'
    BY <1>1 DEF PostedOnce, LinesAreStamped, StampsAreIssued, InvoicesGapless
  <1> QED
    BY <1>6, <1>7, <1>8, <1>9

\* The invoice that is committed is the next one, and its lines were on none.
LEMMA IssuesInv ==
  ASSUME FolioInv, NEW c \in Clerks, Issues(c)
  PROVE  FolioInv'
  <1> USE DEF FolioInv
  <1> DEFINE n == Len(invoices) + 1
             bill == clerks[c].open
             new == [number |-> lastSeq, lines |-> bill]
  <1>1. /\ clerks[c].at = "numbered" /\ lastSeq = n /\ Len(invoices) \in Nat
        /\ invoices \in Seq(Invoice)
    BY DEF Issues, SequenceFollows, FolioTyped
  <1>2. /\ invoices' = Append(invoices, new)
        /\ lines' = [l \in Billable |->
             IF l \in bill THEN [lines[l] EXCEPT !.invoice = n] ELSE lines[l]]
        /\ clerks' = [clerks EXCEPT ![c] = atRest]
        /\ UNCHANGED <<rows, lastSeq, closers>>
    BY <1>1 DEF Issues, FolioTyped
  <1>3. /\ bill \subseteq Billable
        /\ \A l \in bill : lines[l].folio # "none" /\ lines[l].invoice = 0
    BY <1>1 DEF FolioTyped, ClerkDesk, StillOpen
  <1>4. new \in Invoice /\ new.number = n /\ new.lines = bill
    BY <1>1, <1>3 DEF Invoice
  <1>5. /\ invoices' \in Seq(Invoice) /\ Len(invoices') = n /\ invoices'[n] = new
        /\ \A i \in 1..Len(invoices) : invoices'[i] = invoices[i]
    BY <1>1, <1>2, <1>4
  <1>6. ASSUME NEW l \in Billable
        PROVE  /\ lines'[l] \in Line /\ lines'[l].folio = lines[l].folio
               /\ lines'[l].invoice = IF l \in bill THEN n ELSE lines[l].invoice
    <2>1. lines[l] \in Line
      BY DEF FolioTyped
    <2> QED
      BY <1>1, <1>2, <2>1 DEF Line
  <1>7. atRest \in ClerkDesk /\ atRest.at = "rest"
    BY DEF atRest, ClerkDesk
  <1>8. /\ clerks' \in [Clerks -> ClerkDesk] /\ clerks'[c] = atRest
        /\ \A k \in Clerks \ {c} : clerks'[k] = clerks[k]
    BY <1>2, <1>7, ClerkBecomes
  <1>9. \A k \in Clerks : clerks'[k].at = "rest"
    BY <1>1, <1>7, <1>8 DEF SequenceFollows
  <1> HIDE DEF new, bill, n
  <1>10. FolioTyped'
    <2>1. lines' \in [Billable -> Line]
      BY <1>2, <1>6
    <2> QED
      BY <1>2, <1>5, <1>8, <2>1 DEF FolioTyped
  <1>11. SequenceFollows' /\ StillOpen'
    BY <1>1, <1>2, <1>5, <1>9 DEF SequenceFollows, StillOpen
  <1>12. PostedOnce'
    BY <1>2, <1>3, <1>6 DEF PostedOnce, Billable
  <1>13. n \in Nat /\ 1..n = 1..Len(invoices) \cup {n} /\ n = Len(invoices) + 1
    BY <1>1 DEF n
  <1>14. LinesAreStamped'
    <2>1. ASSUME NEW i \in 1..Len(invoices), NEW l \in invoices[i].lines
          PROVE  lines'[l].invoice = i
      <3>1. l \in Billable /\ lines[l].invoice = i
        BY InvoiceLines DEF LinesAreStamped
      <3>2. l \notin bill
        BY <1>3, <3>1
      <3> QED
        BY <1>6, <3>1, <3>2
    <2>2. \A l \in bill : lines'[l].invoice = n
      BY <1>3, <1>6
    <2> QED
      BY <1>4, <1>5, <1>13, <2>1, <2>2 DEF LinesAreStamped
  <1>15. StampsAreIssued'
    <2>1. \A l \in Billable : lines[l].invoice \in Nat /\ lines[l].invoice <= Len(invoices)
      BY DEF StampsAreIssued, FolioTyped, Line
    <2> QED
      BY <1>1, <1>5, <1>6, <1>13, <2>1 DEF StampsAreIssued
  <1>16. InvoicesGapless'
    BY <1>4, <1>5, <1>13 DEF InvoicesGapless
  <1> QED
    BY <1>10, <1>11, <1>12, <1>14, <1>15, <1>16

\* A transaction that is rolled back gives its number back.
LEMMA GivesUpInv ==
  ASSUME FolioInv, NEW c \in Clerks, GivesUpNumber(c)
  PROVE  FolioInv'
  <1> USE DEF FolioInv
  <1>1. /\ clerks' = [clerks EXCEPT ![c] = atRest] /\ clerks[c].at # "rest"
        /\ UNCHANGED <<lines, rows, invoices, closers>>
    BY DEF GivesUpNumber
  <1>2. atRest \in ClerkDesk /\ atRest.at = "rest"
    BY DEF atRest, ClerkDesk
  <1>3. /\ clerks' \in [Clerks -> ClerkDesk] /\ clerks'[c] = atRest
        /\ \A k \in Clerks \ {c} : clerks'[k] = clerks[k]
    BY <1>1, <1>2, ClerkBecomes
  <1>4. \A k \in Clerks \ {c} : clerks[k].at = "rest"
    BY <1>1 DEF SequenceFollows
  <1>5. lastSeq' = Len(invoices) /\ Len(invoices) \in Nat
    BY <1>4 DEF GivesUpNumber, numberAfter, SequenceFollows, FolioTyped
  <1>6. FolioTyped'
    BY <1>1, <1>3, <1>5 DEF FolioTyped
  <1>7. SequenceFollows' /\ StillOpen'
    BY <1>1, <1>2, <1>3, <1>4, <1>5 DEF SequenceFollows, StillOpen
  <1>8. PostedOnce' /\ LinesAreStamped' /\ StampsAreIssued' /\ InvoicesGapless'
    BY <1>1 DEF PostedOnce, LinesAreStamped, StampsAreIssued, InvoicesGapless
  <1> QED
    BY <1>6, <1>7, <1>8

-----------------------------------------------------------------------------
(* The folio: theorems *)

\* Every step of the folio preserves the invariant.
LEMMA FolioStepInv == FolioInv /\ [FolioNext]_folioVars => FolioInv'
  <1> SUFFICES ASSUME FolioInv, [FolioNext]_folioVars PROVE FolioInv'
    OBVIOUS
  <1>1. ASSUME NEW l \in Extras, AddsExtra(l) PROVE FolioInv'
    <2>1. l \in Billable /\ l \notin Nights /\ "main" \in Folios
      BY NightsAreNoExtras DEF Billable, Folios
    <2> QED
      BY <1>1, <2>1, LineMoves DEF AddsExtra
  <1>2. ASSUME NEW l \in Nights \cup Extras, Transfers(l) PROVE FolioInv'
    <2>1. l \in Billable /\ "split" \in Folios /\ lines[l].folio # "none"
      BY <1>2 DEF Transfers, Billable, Folios
    <2> QED
      BY <1>2, <2>1, LineMoves DEF Transfers
  <1>3. ASSUME NEW k \in Closers, ClosePlans(k) PROVE FolioInv'
    <2>1. {n \in Nights : rows[n] = 0} \in SUBSET Nights
      OBVIOUS
    <2>2. FolioTyped'
      BY <1>3, <2>1 DEF ClosePlans, FolioInv, FolioTyped
    <2> QED
      BY <1>3, <2>2 DEF ClosePlans, FolioInv, SequenceFollows, PostedOnce, StillOpen,
                        LinesAreStamped, StampsAreIssued, InvoicesGapless
  <1>4. ASSUME NEW k \in Closers, ClosePosts(k) PROVE FolioInv'
    BY <1>4, PostsInv
  <1>5. ASSUME NEW c \in Clerks, NEW f \in Folios, ReadsLines(c, f) PROVE FolioInv'
    BY <1>5, BillReadsInv
  <1>6. ASSUME NEW c \in Clerks, TakesNumber(c) PROVE FolioInv'
    BY <1>6, TakesInv
  <1>7. ASSUME NEW c \in Clerks, Issues(c) PROVE FolioInv'
    BY <1>7, IssuesInv
  <1>8. ASSUME NEW c \in Clerks, GivesUpNumber(c) PROVE FolioInv'
    BY <1>8, GivesUpInv
  <1>9. CASE UNCHANGED folioVars
    BY <1>9 DEF folioVars, FolioInv, FolioTyped, SequenceFollows, PostedOnce, StillOpen,
                LinesAreStamped, StampsAreIssued, InvoicesGapless
  <1> QED
    BY <1>1, <1>2, <1>3, <1>4, <1>5, <1>6, <1>7, <1>8, <1>9 DEF FolioNext, Invoicing

\* The invariant holds throughout.
LEMMA FolioInvariant == FolioSpec => []FolioInv
  BY FolioInitInv, FolioStepInv, PTL DEF FolioSpec

\* The folio's state has the types it is meant to have, and no stamp runs ahead of the
\* sequence.
THEOREM FolioTypeCorrect == FolioSpec => []FolioTypeOK
  <1>1. ASSUME FolioInv PROVE FolioTypeOK
    <2>1. Len(invoices) <= lastSeq /\ Len(invoices) \in Nat /\ lastSeq \in Nat
      BY <1>1 DEF FolioInv, FolioTyped, SequenceFollows
    <2>2. ASSUME NEW l \in Billable
          PROVE  lines[l].folio \in Folios \cup {"none"} /\ lines[l].invoice \in 0..lastSeq
      BY <1>1, <2>1 DEF FolioInv, FolioTyped, Line, StampsAreIssued
    <2> QED
      BY <1>1, <2>2 DEF FolioInv, FolioTyped, FolioTypeOK
  <1> QED
    BY <1>1, FolioInvariant, PTL

\* Invoices are numbered 1, 2, ... without a gap, through transactions that roll back.
THEOREM NumbersAreGapless == FolioSpec => []InvoicesGapless
  <1>1. FolioInv => InvoicesGapless
    BY DEF FolioInv
  <1> QED
    BY <1>1, FolioInvariant, PTL

\* A line is billed on one invoice only, whoever issues, moves lines or closes the day.
THEOREM LineIsBilledOnce == FolioSpec => []LineOnOneInvoice
  <1>1. ASSUME FolioInv PROVE LineOnOneInvoice
    <2> SUFFICES ASSUME NEW i \in 1..Len(invoices), NEW j \in 1..Len(invoices),
                        NEW l \in invoices[i].lines, l \in invoices[j].lines
                 PROVE  i = j
      BY DEF LineOnOneInvoice
    <2> QED
      BY <1>1 DEF FolioInv, LinesAreStamped
  <1> QED
    BY <1>1, FolioInvariant, PTL

\* The daily close posts a night once, whichever runs overlap, and takes no stamp away.
THEOREM NightIsPostedOnce == FolioSpec => []NightPostedOnce
  <1>1. ASSUME FolioInv PROVE NightPostedOnce
    <2>1. \A n \in Nights : rows[n] <= 1
      BY <1>1 DEF FolioInv, PostedOnce
    <2>2. \A i \in 1..Len(invoices) : \A l \in invoices[i].lines : lines[l].invoice # 0
      BY <1>1 DEF FolioInv, FolioTyped, LinesAreStamped
    <2> QED
      BY <2>1, <2>2 DEF NightPostedOnce
  <1> QED
    BY <1>1, FolioInvariant, PTL

-----------------------------------------------------------------------------
(* Billing: the invariant *)

Tenancies == {"trial", "expired", "active", "past_due", "suspended", "offboarding"}
Subscription == [period : 0..LastBilled + 1, priced : BOOLEAN, customer : BOOLEAN,
                 failing : BOOLEAN, retries : 0..DunningDays]
BillingInvoice == [state : {"none", "open", "paid", "void"}, ref : BOOLEAN, due : BOOLEAN]
BillingJob == [at : {"idle", "built", "charged"}, period : 0..LastBilled,
               seen : BOOLEAN, result : answers \cup {"none"}, attempt : 0..DunningDays]
Outcomes == answers \cup {"none", "settled", "no_payment_method"}
Closing == [at : {"idle", "seen", "built", "charged", "saved"}, period : 0..LastBilled,
            priced : BOOLEAN, due : BOOLEAN, customer : BOOLEAN, failing : BOOLEAN,
            result : Outcomes]

\* The variables' types.
BillingTyped ==
  /\ tenant \in Tenancies /\ sub \in Subscription /\ today \in 0..LastBilled
  /\ invoice \in [BillingPeriods -> BillingInvoice]
  /\ account \in [BillingPeriods -> {"none", "open", "paid"}]
  /\ taken \in [BillingPeriods -> {0, 1}]
  /\ closer \in Closing /\ collects \in [Collectors -> BillingJob]
  /\ free \subseteq BillingPeriods /\ waived \subseteq BillingPeriods

\* The provider has taken the money of the invoices it holds as paid, but of those that
\* were saved at nothing, and of no other.
TakenIsPaid ==
  \A p \in BillingPeriods : /\ taken[p] = 1 => account[p] = "paid"
                            /\ account[p] = "paid" => taken[p] = 1 \/ p \in free

\* A period is done with: it has its invoice, or a grant moved past it.
done(p) == invoice[p].state # "none" \/ p \in waived

\* Every period before the subscription's is done with; a paid invoice was paid, or saved
\* at nothing, as was one whose draft comes to nothing.
InvoicesAreHonest ==
  \A p \in BillingPeriods :
    /\ p < sub.period => done(p)
    /\ invoice[p].state = "paid" => account[p] = "paid" \/ p \in free
    /\ invoice[p].state # "none" /\ ~invoice[p].due => p \in free

\* A close works on a period before which all are done with, whatever happens to the
\* subscription meanwhile; an answer it has is true, and it has saved its invoice before
\* it moves on.
CloserFollows ==
  /\ closer.at # "idle" => /\ closer.period \in BillingPeriods
                           /\ \A q \in BillingPeriods : q < closer.period => done(q)
  /\ closer.at = "charged" =>
       /\ closer.result # "none"
       /\ closer.result = "paid" => account[closer.period] = "paid"
       /\ closer.result = "settled" => ~closer.due
  /\ closer.at = "saved" => invoice[closer.period].state # "none"

\* A collector works on an invoice; an answer it has that money was taken is true.
AnswersAreTrue(job, bills, books) ==
  /\ job.at # "idle" => job.period \in BillingPeriods /\ bills[job.period].state # "none"
  /\ job.at = "charged" => /\ job.result \in answers
                           /\ job.result = "paid" => books[job.period] = "paid"

BillingInv ==
  /\ BillingTyped /\ TakenIsPaid /\ CloserFollows /\ InvoicesAreHonest
  /\ \A c \in Collectors : AnswersAreTrue(collects[c], invoice, account)

-----------------------------------------------------------------------------

\* Nothing is billed and nobody is at work.
LEMMA BillingInitInv == BillingInit => BillingInv
  <1> SUFFICES ASSUME BillingInit PROVE BillingInv
    OBVIOUS
  <1> USE BillingBounds
  <1>1. Idle \in BillingJob /\ Unbilled \in BillingInvoice /\ NoClose \in Closing
    BY DEF Idle, Unbilled, NoClose, BillingJob, BillingInvoice, Closing, Outcomes
  <1>2. BillingTyped
    BY <1>1 DEF BillingInit, BillingTyped, Tenancies, Subscription
  <1>3. TakenIsPaid /\ CloserFollows /\ InvoicesAreHonest
    BY DEF BillingInit, TakenIsPaid, CloserFollows, InvoicesAreHonest, Unbilled, NoClose,
           BillingPeriods
  <1>4. \A c \in Collectors : AnswersAreTrue(collects[c], invoice, account)
    BY DEF BillingInit, AnswersAreTrue, Idle
  <1> QED
    BY <1>2, <1>3, <1>4 DEF BillingInv

\* A tenant's state is followed by one of a tenant's states.
LEMMA NextTenancy ==
  ASSUME NEW state \in Tenancies, NEW event
  PROVE  nextTenantState(state, event) \in Tenancies
  BY DEF nextTenantState, Tenancies

\* A payment ends a subscription's failing, a failure begins it: the period stays.
LEMMA SubscriptionGoesOn ==
  ASSUME NEW s \in Subscription, NEW n \in 0..DunningDays
  PROVE  /\ [s EXCEPT !.failing = FALSE, !.retries = 0] \in Subscription
         /\ [s EXCEPT !.failing = FALSE, !.retries = 0].period = s.period
         /\ [s EXCEPT !.failing = TRUE, !.retries = 0] \in Subscription
         /\ [s EXCEPT !.failing = TRUE, !.retries = 0].period = s.period
         /\ [s EXCEPT !.retries = n] \in Subscription
         /\ [s EXCEPT !.retries = n].period = s.period
  <1>1. 0 \in 0..DunningDays
    BY BillingBounds
  <1>2. ASSUME NEW b \in BOOLEAN, NEW k \in 0..DunningDays
        PROVE  /\ [s EXCEPT !.failing = b, !.retries = k] \in Subscription
               /\ [s EXCEPT !.failing = b, !.retries = k].period = s.period
    BY DEF Subscription
  <1>3. /\ [s EXCEPT !.retries = n] \in Subscription
        /\ [s EXCEPT !.retries = n].period = s.period
    BY DEF Subscription
  <1> QED
    BY <1>1, <1>2, <1>3

\* No invoice goes, nothing paid is owed again, and no period is forgotten.
Grows ==
  /\ \A q \in BillingPeriods : /\ invoice[q].state # "none" => invoice'[q].state # "none"
                               /\ account[q] = "paid" => account'[q] = "paid"
  /\ free \subseteq free' /\ waived \subseteq waived'

\* A job at work takes no harm from what others do to the books.
LEMMA JobsGoOn ==
  ASSUME BillingInv, Grows
  PROVE  /\ \A p \in BillingPeriods : done(p) => done(p)'
         /\ UNCHANGED closer => CloserFollows'
         /\ \A job : AnswersAreTrue(job, invoice, account)
                       => AnswersAreTrue(job, invoice', account')
  <1>1. \A p \in BillingPeriods : done(p) => done(p)'
    BY DEF Grows, done
  <1>2. ASSUME UNCHANGED closer PROVE CloserFollows'
    BY <1>1, <1>2 DEF Grows, BillingInv, CloserFollows
  <1>3. ASSUME NEW job, AnswersAreTrue(job, invoice, account)
        PROVE  AnswersAreTrue(job, invoice', account')
    BY <1>3 DEF Grows, AnswersAreTrue
  <1> QED
    BY <1>1, <1>2, <1>3

\* A call that arrives takes the money of a period once, and is answered by what it did.
LEMMA CallArrives ==
  ASSUME BillingTyped, TakenIsPaid, NEW p \in BillingPeriods, NEW call, NEW due \in BOOLEAN,
         call \in {charge(p, due), retry(p)}, due \/ p \in free,
         NEW answer, Arrives(p, call, answer), free' = free
  PROVE  /\ account' \in [BillingPeriods -> {"none", "open", "paid"}]
         /\ taken' \in [BillingPeriods -> {0, 1}] /\ TakenIsPaid'
         /\ \A q \in BillingPeriods : account[q] = "paid" => account'[q] = "paid"
         /\ answer = "paid" => account'[p] = "paid"
  <1> DEFINE o == call.outcome
  <1>1. account[p] \in {"none", "open", "paid"} /\ taken[p] \in {0, 1}
    BY DEF BillingTyped
  <1>2. /\ o \in {"open", "paid"}
        /\ call.takes \in BOOLEAN
        /\ call.takes => account[p] # "paid" /\ o = "paid"
        /\ account[p] # "paid" /\ o = "paid" => call.takes \/ p \in free
        /\ account[p] = "paid" => o = "paid"
    <2>1. CASE call = charge(p, due)
      BY <1>1, <2>1 DEF charge, newCharge
    <2>2. CASE call = retry(p)
      BY <1>1, <2>2 DEF retry
    <2> QED
      BY <2>1, <2>2
  <1>3. /\ account' = [account EXCEPT ![p] = o]
        /\ taken' = IF call.takes THEN [taken EXCEPT ![p] = @ + 1] ELSE taken
        /\ answer \in {o, "unavailable"}
    BY DEF Arrives
  <1> HIDE DEF o
  <1>4. account' \in [BillingPeriods -> {"none", "open", "paid"}]
    BY <1>2, <1>3 DEF BillingTyped
  <1>5. \A q \in BillingPeriods : account'[q] = IF q = p THEN o ELSE account[q]
    BY <1>3 DEF BillingTyped
  <1>6. call.takes => taken[p] = 0
    BY <1>1, <1>2 DEF TakenIsPaid
  <1>7. /\ taken' \in [BillingPeriods -> {0, 1}]
        /\ \A q \in BillingPeriods : taken'[q] = IF q = p /\ call.takes THEN 1 ELSE taken[q]
    <2>1. CASE call.takes
      BY <1>3, <1>6, <2>1 DEF BillingTyped
    <2>2. CASE ~call.takes
      BY <1>2, <1>3, <2>2 DEF BillingTyped
    <2> QED
      BY <1>2, <2>1, <2>2
  <1>8. TakenIsPaid'
    BY <1>1, <1>2, <1>5, <1>7 DEF TakenIsPaid
  <1> QED
    BY <1>2, <1>3, <1>4, <1>5, <1>7, <1>8

\* Whatever comes of a call, the provider's books stay in order and a "paid" is true.
LEMMA CallEnds ==
  ASSUME BillingTyped, TakenIsPaid, NEW p \in BillingPeriods, NEW call, NEW due \in BOOLEAN,
         call \in {charge(p, due), retry(p)}, due \/ p \in free, NEW answer,
         Arrives(p, call, answer) \/ Lost(answer) \/ Refused(p, answer), free' = free
  PROVE  /\ account' \in [BillingPeriods -> {"none", "open", "paid"}]
         /\ taken' \in [BillingPeriods -> {0, 1}] /\ TakenIsPaid'
         /\ \A q \in BillingPeriods : account[q] = "paid" => account'[q] = "paid"
         /\ answer = "paid" => account'[p] = "paid"
  <1>1. CASE Arrives(p, call, answer)
    BY <1>1, CallArrives
  <1>2. CASE Lost(answer) \/ Refused(p, answer)
    BY <1>2 DEF Lost, Refused, provider, BillingTyped, TakenIsPaid
  <1> QED
    BY <1>1, <1>2

-----------------------------------------------------------------------------
(* Billing: the steps *)

\* A tenant changes its state, a period ends, or a plan or customer is chosen: the books
\* stay, and the subscription keeps its period but for the first.
LEMMA TenantStepInv ==
  ASSUME BillingInv,
         \/ ExpiresTrial \/ Leaves \/ Reactivates \/ PeriodPasses \/ Suspends
         \/ ChoosesPlan \/ CustomerMade \/ CustomerFails
  PROVE  BillingInv'
  <1> USE DEF BillingInv
  <1> USE DEF ExpiresTrial, Leaves, Reactivates, PeriodPasses, Suspends, ChoosesPlan,
              CustomerMade, CustomerFails, provider
  <1>1. tenant' \in Tenancies
    <2>1. tenant \in Tenancies
      BY DEF BillingTyped
    <2>2. CASE PeriodPasses \/ ChoosesPlan \/ CustomerFails
      BY <2>1, <2>2
    <2>3. CASE ExpiresTrial \/ Leaves \/ Reactivates \/ Suspends \/ CustomerMade
      BY <2>1, <2>3, NextTenancy
    <2> QED
      BY <2>2, <2>3
  <1>2. /\ UNCHANGED <<invoice, account, taken, card, closer, collects, free, waived>>
        /\ today' \in 0..LastBilled
    <2>1. today \in 0..LastBilled
      BY DEF BillingTyped
    <2>2. CASE PeriodPasses
      BY <2>1, <2>2, BillingBounds
    <2>3. CASE ExpiresTrial \/ Leaves \/ Reactivates \/ Suspends
      BY <2>1, <2>3
    <2>4. CASE ChoosesPlan \/ CustomerMade \/ CustomerFails
      BY <2>1, <2>4
    <2> QED
      BY <2>2, <2>3, <2>4
  <1>3. sub \in Subscription /\ sub.period \in 0..LastBilled + 1
    BY DEF BillingTyped, Subscription
  <1>4. /\ sub' \in Subscription
        /\ sub'.period = sub.period \/ (sub.period = 0 /\ sub'.period = 1)
    <2>1. CASE ChoosesPlan
      <3> DEFINE k == IF sub.period = 0 THEN 1 ELSE sub.period
      <3>1. k \in 0..LastBilled + 1
        BY <1>3, BillingBounds
      <3>2. sub' = [sub EXCEPT !.period = k, !.priced = TRUE]
        BY <2>1
      <3> HIDE DEF k
      <3>3. sub' \in Subscription /\ sub'.period = k
        BY <1>3, <3>1, <3>2 DEF Subscription
      <3> QED
        BY <3>3 DEF k
    <2>2. CASE CustomerMade
      BY <1>3, <2>2 DEF Subscription
    <2>3. CASE ~ChoosesPlan /\ ~CustomerMade
      BY <1>3, <2>3
    <2> QED
      BY <2>1, <2>2, <2>3
  <1>5. BillingTyped' /\ TakenIsPaid'
    BY <1>1, <1>2, <1>4 DEF BillingTyped, TakenIsPaid
  <1>6. Grows
    BY <1>2 DEF Grows
  <1>7. InvoicesAreHonest'
    BY <1>2, <1>3, <1>4 DEF InvoicesAreHonest, BillingPeriods, done
  <1> QED
    BY <1>2, <1>5, <1>6, <1>7, JobsGoOn

\* A grant moves past the periods that have ended, which it waives.
LEMMA CompsInv ==
  ASSUME BillingInv, Comps
  PROVE  BillingInv'
  <1> USE DEF BillingInv
  <1> DEFINE k == IF sub.period > today THEN sub.period ELSE today + 1
  <1>1. /\ sub \in Subscription /\ sub.period \in 0..LastBilled + 1 /\ today \in 0..LastBilled
        /\ tenant' \in Tenancies
    BY NextTenancy DEF BillingTyped, Subscription, Comps
  <1>2. /\ sub' = [sub EXCEPT !.period = k, !.priced = FALSE, !.failing = FALSE, !.retries = 0]
        /\ waived' = waived \cup {p \in BillingPeriods : sub.period <= p /\ p <= today}
        /\ UNCHANGED <<today, invoice, account, taken, card, closer, collects, free>>
    BY DEF Comps, provider
  <1>3. k \in 0..LastBilled + 1 /\ 0 \in 0..DunningDays
    BY <1>1, BillingBounds
  <1>4. \A p \in BillingPeriods : p < k => p < sub.period \/ p \in waived'
    BY <1>1, <1>2 DEF BillingPeriods
  <1> HIDE DEF k
  <1>5. sub' \in Subscription /\ sub'.period = k
    BY <1>1, <1>2, <1>3 DEF Subscription
  <1>6. BillingTyped' /\ TakenIsPaid'
    BY <1>1, <1>2, <1>5 DEF BillingTyped, TakenIsPaid
  <1>7. Grows
    BY <1>2 DEF Grows
  <1>8. InvoicesAreHonest'
    BY <1>2, <1>4, <1>5 DEF InvoicesAreHonest, done
  <1> QED
    BY <1>2, <1>6, <1>7, <1>8, JobsGoOn

\* A collection that begins is one, of the invoice it read.
LEMMA JobBegins ==
  ASSUME NEW k \in 0..LastBilled, NEW b \in BOOLEAN, NEW n \in 0..DunningDays
  PROVE  begun(k, b, n) \in BillingJob /\ begun(k, b, n).at = "built" /\ begun(k, b, n).period = k
  BY DEF begun, BillingJob

\* The close reads, or needs no call, or stops: the books stay.
LEMMA CloserMovesInv ==
  ASSUME BillingInv, CloserReads \/ CloserDrafts \/ CloserNeedsNoCall \/ CloserStops
  PROVE  BillingInv'
  <1> USE DEF BillingInv
  <1>1. UNCHANGED <<tenant, sub, today, invoice, account, taken, card, collects, free, waived>>
    BY DEF CloserReads, CloserDrafts, CloserNeedsNoCall, CloserStops, provider
  <1>2. closer \in Closing /\ sub \in Subscription
    BY DEF BillingTyped
  <1>3. /\ closer' \in Closing /\ closer'.at \in {"idle", "seen", "built", "charged"}
        /\ closer'.at # "idle" => \/ closer'.period = closer.period /\ closer.at # "idle"
                                  \/ closer'.period = sub.period /\ sub.period \in BillingPeriods
        /\ closer'.at = "charged" => \/ closer'.result = "no_payment_method"
                                     \/ closer'.result = "settled" /\ ~closer'.due
    <2>1. CASE CloserReads
      <3> DEFINE k == sub.period
      <3>1. k \in 1..LastBilled /\ k \in 0..LastBilled /\ sub.priced \in BOOLEAN
        BY <1>2, <2>1, BillingBounds DEF CloserReads, Subscription, BillingTyped
      <3>2. closer' = [NoClose EXCEPT !.at = "seen", !.period = k, !.priced = sub.priced]
        BY <2>1 DEF CloserReads
      <3> HIDE DEF k
      <3>3. closer' \in Closing /\ closer'.at = "seen" /\ closer'.period = k
        BY <3>1, <3>2 DEF NoClose, Closing, Outcomes
      <3> QED
        BY <3>1, <3>3 DEF BillingPeriods, k
    <2>2. CASE CloserDrafts
      <3>1. PICK due \in {FALSE, closer.priced} :
              closer' = [NoClose EXCEPT !.at = "built", !.period = closer.period, !.due = due,
                                        !.customer = sub.customer, !.failing = sub.failing]
        BY <2>2 DEF CloserDrafts
      <3>2. due \in BOOLEAN /\ sub.customer \in BOOLEAN /\ sub.failing \in BOOLEAN
            /\ closer.period \in 0..LastBilled /\ closer.at = "seen"
        BY <1>2, <2>2 DEF Closing, Subscription, CloserDrafts
      <3>3. closer' \in Closing /\ closer'.at = "built" /\ closer'.period = closer.period
        BY <3>1, <3>2 DEF NoClose, Closing, Outcomes
      <3> QED
        BY <3>2, <3>3
    <2>3. CASE CloserNeedsNoCall
      <3> DEFINE r == IF closer.due THEN "no_payment_method" ELSE "settled"
      <3>1. /\ closer' = [closer EXCEPT !.at = "charged", !.result = r]
            /\ closer.at = "built" /\ closer.due \in BOOLEAN
        BY <1>2, <2>3 DEF CloserNeedsNoCall, Closing
      <3>2. r \in Outcomes
        BY DEF Outcomes
      <3> HIDE DEF r
      <3>3. /\ closer' \in Closing /\ closer'.at = "charged" /\ closer'.period = closer.period
            /\ closer'.result = r /\ closer'.due = closer.due
        BY <1>2, <3>1, <3>2 DEF Closing
      <3> QED
        BY <3>1, <3>3 DEF r
    <2>4. CASE CloserStops
      BY <2>4, BillingBounds DEF CloserStops, NoClose, Closing, Outcomes
    <2> QED
      BY <2>1, <2>2, <2>3, <2>4
  <1>4. BillingTyped' /\ TakenIsPaid' /\ InvoicesAreHonest'
    BY <1>1, <1>3 DEF BillingTyped, TakenIsPaid, InvoicesAreHonest, done
  <1>5. CloserFollows'
    BY <1>1, <1>3 DEF CloserFollows, InvoicesAreHonest, done
  <1>6. \A c \in Collectors : AnswersAreTrue(collects[c], invoice, account)'
    BY <1>1 DEF AnswersAreTrue
  <1> QED
    BY <1>4, <1>5, <1>6

\* The close asks the provider.
LEMMA CloserChargesInv ==
  ASSUME BillingInv, CloserCharges
  PROVE  BillingInv'
  <1> USE DEF BillingInv
  <1> DEFINE p == closer.period
  <1>1. p \in BillingPeriods /\ closer \in Closing /\ closer.at = "built"
    BY DEF CloserCharges, BillingTyped, CloserFollows
  <1>2. PICK answer \in answers :
          /\ Arrives(p, charge(p, TRUE), answer) \/ Lost(answer) \/ Refused(p, answer)
          /\ closer' = [closer EXCEPT !.at = "charged", !.result = answer]
    BY DEF CloserCharges
  <1>3. UNCHANGED <<tenant, sub, today, invoice, card, collects, free, waived>>
    BY DEF CloserCharges
  <1>4. /\ account' \in [BillingPeriods -> {"none", "open", "paid"}]
        /\ taken' \in [BillingPeriods -> {0, 1}] /\ TakenIsPaid'
        /\ \A q \in BillingPeriods : account[q] = "paid" => account'[q] = "paid"
        /\ answer = "paid" => account'[p] = "paid"
    BY <1>1, <1>2, <1>3, CallEnds
  <1>5. /\ closer' \in Closing /\ closer'.at = "charged" /\ closer'.result = answer
        /\ closer'.period = p
    BY <1>1, <1>2 DEF Closing, Outcomes
  <1>6. BillingTyped' /\ InvoicesAreHonest'
    BY <1>3, <1>4, <1>5 DEF BillingTyped, InvoicesAreHonest, done
  <1>7. CloserFollows'
    BY <1>1, <1>2, <1>3, <1>4, <1>5 DEF CloserFollows, done, answers
  <1>8. Grows
    BY <1>3, <1>4 DEF Grows
  <1> QED
    BY <1>3, <1>4, <1>6, <1>7, <1>8, JobsGoOn

\* An invoice is given a state it can have when it was made.
LEMMA InvoiceBecomes ==
  ASSUME BillingTyped, InvoicesAreHonest, NEW p \in BillingPeriods,
         NEW new \in BillingInvoice, new.state # "none",
         invoice' = [invoice EXCEPT ![p] = new], account' = account, waived' = waived,
         free \subseteq free', sub'.period = sub.period,
         new.state = "paid" => account[p] = "paid" \/ p \in free',
         ~new.due => p \in free'
  PROVE  /\ invoice' \in [BillingPeriods -> BillingInvoice] /\ InvoicesAreHonest'
         /\ invoice'[p].state # "none" /\ Grows
  <1>1. \A q \in BillingPeriods : invoice'[q] = IF q = p THEN new ELSE invoice[q]
    BY DEF BillingTyped
  <1>2. invoice' \in [BillingPeriods -> BillingInvoice]
    BY DEF BillingTyped
  <1>3. Grows
    BY <1>1 DEF Grows
  <1> QED
    BY <1>1, <1>2, <1>3 DEF InvoicesAreHonest, done

\* The close saves what it was answered.
LEMMA CloserSavesInv ==
  ASSUME BillingInv, CloserSaves
  PROVE  BillingInv'
  <1> USE DEF BillingInv
  <1> DEFINE p == closer.period
             state == becomes(closer.result)
             draft == IF invoice[p].state = "none" THEN closer.due ELSE invoice[p].due
             new == [state |-> state, ref |-> closer.result \in {"paid", "open"},
                     due |-> draft]
  <1>1. /\ p \in BillingPeriods /\ closer \in Closing /\ closer.at = "charged"
        /\ closer.result \in Outcomes \ {"none"} /\ sub \in Subscription
        /\ tenant \in Tenancies /\ invoice[p] \in BillingInvoice /\ closer.due \in BOOLEAN
    BY DEF CloserSaves, BillingTyped, CloserFollows, Closing
  <1>2. /\ invoice' = [invoice EXCEPT ![p] = new]
        /\ sub' \in {[sub EXCEPT !.failing = FALSE, !.retries = 0],
                     [sub EXCEPT !.failing = TRUE, !.retries = 0], sub}
        /\ tenant' \in {nextTenantState(tenant, "payment_failed"), tenant}
        /\ closer' = [NoClose EXCEPT !.at = "saved", !.period = p]
        /\ free' = IF closer.due THEN free ELSE free \cup {p}
        /\ UNCHANGED <<today, account, taken, card, collects, waived>>
    BY DEF CloserSaves, provider
  <1>3. /\ draft \in BOOLEAN /\ (~draft => p \in free')
        /\ state \in {"open", "paid", "void"}
        /\ state = "paid" => account[p] = "paid" \/ p \in free'
    <2>1. draft \in BOOLEAN /\ (~draft => p \in free')
      BY <1>1, <1>2 DEF BillingInvoice, InvoicesAreHonest
    <2>2. /\ state \in {"open", "paid", "void"}
          /\ state = "paid" => closer.result \in {"paid", "settled"}
      BY <1>1 DEF becomes, Outcomes, answers
    <2>3. closer.result = "settled" => p \in free'
      BY <1>1, <1>2 DEF CloserFollows
    <2>4. closer.result = "paid" => account[p] = "paid"
      BY <1>1 DEF CloserFollows
    <2> QED
      BY <2>1, <2>2, <2>3, <2>4
  <1> HIDE DEF draft, state
  <1>4. /\ new \in BillingInvoice /\ new.state = state /\ new.due = draft
    BY <1>3 DEF BillingInvoice
  <1>5. sub' \in Subscription /\ sub'.period = sub.period /\ tenant' \in Tenancies
    <2>1. 0 \in 0..DunningDays
      BY BillingBounds
    <2>2. sub' \in Subscription /\ sub'.period = sub.period
      BY <1>1, <1>2, <2>1, SubscriptionGoesOn
    <2> QED
      BY <1>1, <1>2, <2>2, NextTenancy
  <1>6. /\ closer' \in Closing /\ closer'.at = "saved" /\ closer'.period = p
    BY <1>1, <1>2 DEF Closing, NoClose, Outcomes
  <1> HIDE DEF new
  <1>7. /\ invoice' \in [BillingPeriods -> BillingInvoice] /\ InvoicesAreHonest'
        /\ invoice'[p].state # "none" /\ Grows
    BY <1>1, <1>2, <1>3, <1>4, <1>5, InvoiceBecomes
  <1>8. BillingTyped' /\ TakenIsPaid'
    BY <1>1, <1>2, <1>5, <1>6, <1>7 DEF BillingTyped, TakenIsPaid
  <1>9. CloserFollows'
    <2>1. \A q \in BillingPeriods : q < p => done(q)'
      BY <1>1, <1>7, JobsGoOn DEF CloserFollows
    <2> QED
      BY <1>1, <1>6, <1>7, <2>1 DEF CloserFollows
  <1> QED
    BY <1>2, <1>7, <1>8, <1>9, JobsGoOn

\* The close moves on past a period whose invoice is saved.
LEMMA CloserAdvancesInv ==
  ASSUME BillingInv, CloserAdvances
  PROVE  BillingInv'
  <1> USE DEF BillingInv
  <1> DEFINE k == closer.period + 1
  <1>1. /\ closer.period \in 1..LastBilled /\ closer.at = "saved"
        /\ invoice[closer.period].state # "none" /\ sub \in Subscription
        /\ \A q \in BillingPeriods : q < closer.period => done(q)
    BY DEF CloserAdvances, mayAdvance, BillingTyped, CloserFollows, BillingPeriods
  <1>2. /\ sub' = [sub EXCEPT !.period = k] /\ closer' = NoClose
        /\ UNCHANGED <<tenant, today, invoice, account, taken, card, collects, free, waived>>
    BY DEF CloserAdvances, provider
  <1>3. sub' \in Subscription /\ sub'.period = k
    BY <1>1, <1>2, BillingBounds DEF Subscription
  <1>4. NoClose \in Closing /\ NoClose.at = "idle"
    BY BillingBounds DEF NoClose, Closing, Outcomes
  <1>5. BillingTyped' /\ TakenIsPaid'
    BY <1>2, <1>3, <1>4 DEF BillingTyped, TakenIsPaid
  <1>6. InvoicesAreHonest'
    BY <1>1, <1>2, <1>3 DEF InvoicesAreHonest, BillingPeriods, done
  <1>7. CloserFollows'
    BY <1>2, <1>4 DEF CloserFollows
  <1>8. \A c \in Collectors : AnswersAreTrue(collects[c], invoice, account)'
    BY <1>2 DEF AnswersAreTrue
  <1> QED
    BY <1>5, <1>6, <1>7, <1>8

\* A collector's job becomes another, and the rest of the books follows the provider's.
LEMMA CollectorBecomes ==
  ASSUME BillingInv, NEW c \in Collectors, NEW j \in BillingJob,
         collects' = [collects EXCEPT ![c] = j], UNCHANGED <<closer, free, waived>>,
         AnswersAreTrue(j, invoice', account'),
         tenant' \in Tenancies, sub' \in Subscription, today' = today,
         invoice' \in [BillingPeriods -> BillingInvoice], InvoicesAreHonest', Grows,
         account' \in [BillingPeriods -> {"none", "open", "paid"}],
         taken' \in [BillingPeriods -> {0, 1}], TakenIsPaid'
  PROVE  BillingInv'
  <1> USE DEF BillingInv
  <1>1. /\ collects' \in [Collectors -> BillingJob] /\ collects'[c] = j
        /\ \A d \in Collectors \ {c} : collects'[d] = collects[d]
    BY DEF BillingTyped
  <1>2. BillingTyped'
    BY <1>1 DEF BillingTyped
  <1>3. CloserFollows'
    BY JobsGoOn
  <1>4. ASSUME NEW d \in Collectors PROVE AnswersAreTrue(collects'[d], invoice', account')
    <2>1. CASE d = c
      BY <1>1, <2>1
    <2>2. CASE d # c
      <3>1. AnswersAreTrue(collects[d], invoice, account) /\ collects'[d] = collects[d]
        BY <1>1, <2>2
      <3> QED
        BY <3>1, JobsGoOn
    <2> QED
      BY <2>1, <2>2
  <1> QED
    BY <1>2, <1>3, <1>4

\* A collector finds the newest open invoice.
LEMMA CollectsOpenInv ==
  ASSUME BillingInv, NEW c \in Collectors, NEW n \in 0..DunningDays, CollectsOpen(c, n),
         UNCHANGED <<tenant, sub, today, invoice, account, taken, closer, free, waived>>
  PROVE  BillingInv'
  <1> USE DEF BillingInv
  <1>1. PICK p \in BillingPeriods :
          /\ collects' = [collects EXCEPT ![c] = begun(p, invoice[p].ref, n)]
          /\ invoice[p].state = "open"
    BY DEF CollectsOpen, openInvoice
  <1> DEFINE j == begun(p, invoice[p].ref, n)
  <1>2. p \in 0..LastBilled /\ invoice[p].ref \in BOOLEAN
    BY BillingBounds DEF BillingPeriods, BillingTyped, BillingInvoice
  <1>3. j \in BillingJob /\ j.at = "built" /\ j.period = p
    BY <1>2, JobBegins
  <1>4. collects' = [collects EXCEPT ![c] = j]
    BY <1>1
  <1> HIDE DEF j
  <1>5. AnswersAreTrue(j, invoice', account')
    BY <1>1, <1>3 DEF AnswersAreTrue
  <1>6. TakenIsPaid' /\ InvoicesAreHonest' /\ Grows
    BY DEF TakenIsPaid, InvoicesAreHonest, done, Grows
  <1> QED
    BY <1>3, <1>4, <1>5, <1>6, CollectorBecomes DEF BillingTyped

\* Nobody has anything to collect, but a retry counts.
LEMMA NothingOpenInv ==
  ASSUME BillingInv,
         UNCHANGED <<tenant, today, invoice, account, taken, closer, collects, free, waived>>,
         sub' = sub \/ sub' = [sub EXCEPT !.retries = @ + 1], sub' # sub => sub.retries < DunningDays
  PROVE  BillingInv'
  <1> USE DEF BillingInv
  <1>1. sub \in Subscription
    BY DEF BillingTyped
  <1>2. sub' \in Subscription /\ sub'.period = sub.period
    <2>1. CASE sub' = sub
      BY <1>1, <2>1
    <2>2. CASE sub' # sub
      <3> DEFINE n == sub.retries + 1
      <3>1. n \in 0..DunningDays
        BY <1>1, <2>2, BillingBounds DEF Subscription
      <3>2. sub' = [sub EXCEPT !.retries = n]
        BY <2>2
      <3> HIDE DEF n
      <3> QED
        BY <1>1, <3>1, <3>2, SubscriptionGoesOn
    <2> QED
      BY <2>1, <2>2
  <1>3. BillingTyped' /\ TakenIsPaid' /\ InvoicesAreHonest' /\ CloserFollows'
    BY <1>2 DEF BillingTyped, TakenIsPaid, InvoicesAreHonest, CloserFollows, done
  <1>4. \A c \in Collectors : AnswersAreTrue(collects[c], invoice, account)'
    BY DEF AnswersAreTrue
  <1> QED
    BY <1>3, <1>4

\* A collector asks the provider.
LEMMA CollectsInv ==
  ASSUME BillingInv, NEW c \in Collectors, Collects(c)
  PROVE  BillingInv'
  <1> USE DEF BillingInv
  <1> DEFINE p == collects[c].period
             due == invoice[p].due
             call == IF collects[c].seen THEN retry(p) ELSE charge(p, due)
  <1>1. /\ p \in BillingPeriods /\ collects[c] \in BillingJob /\ collects[c].at = "built"
        /\ due \in BOOLEAN
        /\ due \/ p \in free
    BY DEF Collects, AnswersAreTrue, BillingTyped, BillingInvoice, InvoicesAreHonest
  <1>2. PICK answer \in answers :
          /\ Arrives(p, call, answer) \/ Lost(answer) \/ Refused(p, answer)
          /\ collects' = [collects EXCEPT ![c] =
                            [collects[c] EXCEPT !.at = "charged", !.result = answer]]
    BY DEF Collects
  <1> DEFINE j == [collects[c] EXCEPT !.at = "charged", !.result = answer]
  <1>3. UNCHANGED <<tenant, sub, today, invoice, card, closer, free, waived>>
    BY DEF Collects
  <1>4. /\ account' \in [BillingPeriods -> {"none", "open", "paid"}]
        /\ taken' \in [BillingPeriods -> {0, 1}] /\ TakenIsPaid'
        /\ \A q \in BillingPeriods : account[q] = "paid" => account'[q] = "paid"
        /\ answer = "paid" => account'[p] = "paid"
    <2>1. call \in {charge(p, due), retry(p)}
      OBVIOUS
    <2>2. BillingTyped /\ TakenIsPaid /\ free' = free
      BY <1>3
    <2>3. Arrives(p, call, answer) \/ Lost(answer) \/ Refused(p, answer)
      BY <1>2
    <2> HIDE DEF p, call, due, BillingInv
    <2> QED
      BY <1>1, <2>1, <2>2, <2>3, CallEnds
  <1>5. j \in BillingJob /\ j.at = "charged" /\ j.result = answer /\ j.period = p
    BY <1>1, <1>2 DEF BillingJob
  <1>6. collects' = [collects EXCEPT ![c] = j]
    BY <1>2
  <1> HIDE DEF j
  <1>7. AnswersAreTrue(j, invoice', account')
    BY <1>1, <1>3, <1>4, <1>5 DEF AnswersAreTrue
  <1>8. InvoicesAreHonest' /\ Grows
    BY <1>3, <1>4 DEF InvoicesAreHonest, done, Grows
  <1> QED
    BY <1>3, <1>4, <1>5, <1>6, <1>7, <1>8, CollectorBecomes DEF BillingTyped

\* What a collector was answered is recorded.
LEMMA RecordsInv ==
  ASSUME BillingInv, NEW c \in Collectors, Records(c)
  PROVE  BillingInv'
  <1> USE DEF BillingInv
  <1> DEFINE p == collects[c].period
             result == collects[c].result
             new == [invoice[p] EXCEPT !.state = result, !.ref = @ \/ result # "void"]
             n == collects[c].attempt
  <1>1. /\ p \in BillingPeriods /\ collects[c] \in BillingJob /\ result \in answers
        /\ result = "paid" => account[p] = "paid"
        /\ n \in 0..DunningDays
        /\ invoice[p] \in BillingInvoice /\ invoice[p].state # "none"
    BY DEF Records, AnswersAreTrue, BillingTyped, BillingJob
  <1>2. /\ invoice' = IF result = "unavailable" THEN invoice ELSE [invoice EXCEPT ![p] = new]
        /\ sub' \in {[sub EXCEPT !.failing = FALSE, !.retries = 0],
                     [sub EXCEPT !.retries = n], sub}
        /\ tenant' \in {nextTenantState(tenant, "payment_recovered"), tenant}
        /\ collects' = [collects EXCEPT ![c] = Idle]
        /\ UNCHANGED <<today, account, taken, card, closer, free, waived>>
    BY DEF Records, provider
  <1>3. Idle \in BillingJob /\ AnswersAreTrue(Idle, invoice', account')
    BY BillingBounds DEF Idle, BillingJob, AnswersAreTrue
  <1>4. sub' \in Subscription /\ sub'.period = sub.period /\ tenant' \in Tenancies
    <2>1. sub \in Subscription /\ tenant \in Tenancies
      BY DEF BillingTyped
    <2> DEFINE paid == [sub EXCEPT !.failing = FALSE, !.retries = 0]
               tried == [sub EXCEPT !.retries = n]
    <2>3. /\ paid \in Subscription /\ paid.period = sub.period
          /\ tried \in Subscription /\ tried.period = sub.period
      BY <1>1, <2>1, SubscriptionGoesOn
    <2>4. sub' \in {paid, tried, sub}
      BY <1>2
    <2> HIDE DEF paid, tried
    <2>2. sub' \in Subscription /\ sub'.period = sub.period
      BY <2>1, <2>3, <2>4
    <2> QED
      BY <1>2, <2>1, <2>2, NextTenancy
  <1>5. invoice' \in [BillingPeriods -> BillingInvoice] /\ InvoicesAreHonest' /\ Grows
    <2>1. CASE result = "unavailable"
      BY <1>2, <1>4, <2>1 DEF BillingTyped, InvoicesAreHonest, done, Grows
    <2>2. CASE result # "unavailable"
      <3>1. /\ new \in BillingInvoice /\ new.state = result /\ result # "none"
            /\ new.due = invoice[p].due
        BY <1>1, <2>2 DEF BillingInvoice, answers
      <3>2. invoice' = [invoice EXCEPT ![p] = new] /\ account' = account
        BY <1>2, <2>2
      <3>3. ~invoice[p].due => p \in free
        BY <1>1 DEF InvoicesAreHonest
      <3> HIDE DEF new
      <3> QED
        BY <1>1, <1>2, <1>4, <3>1, <3>2, <3>3, InvoiceBecomes
    <2> QED
      BY <2>1, <2>2
  <1>6. TakenIsPaid'
    BY <1>2 DEF TakenIsPaid
  <1> QED
    BY <1>2, <1>3, <1>4, <1>5, <1>6, CollectorBecomes DEF BillingTyped

\* A collector stops.
LEMMA CollectorStopsInv ==
  ASSUME BillingInv, NEW c \in Collectors, CollectorStops(c)
  PROVE  BillingInv'
  <1> USE DEF BillingInv
  <1>1. Idle \in BillingJob /\ AnswersAreTrue(Idle, invoice', account')
    BY BillingBounds DEF Idle, BillingJob, AnswersAreTrue
  <1>2. TakenIsPaid' /\ InvoicesAreHonest' /\ Grows
    BY DEF CollectorStops, TakenIsPaid, InvoicesAreHonest, done, Grows, provider
  <1> QED
    BY <1>1, <1>2, CollectorBecomes DEF CollectorStops, BillingTyped, provider

-----------------------------------------------------------------------------
(* Billing: theorems *)

\* Every step of the billing preserves the invariant.
LEMMA BillingStepInv == BillingInv /\ [BillingNext]_billingVars => BillingInv'
  <1> SUFFICES ASSUME BillingInv, [BillingNext]_billingVars PROVE BillingInv'
    OBVIOUS
  <1>1. CASE TenantStep
    BY <1>1, TenantStepInv, CompsInv DEF TenantStep
  <1>2. CASE CloserStep
    BY <1>2, CloserMovesInv, CloserChargesInv, CloserSavesInv, CloserAdvancesInv
       DEF CloserStep
  <1>3. CASE AttachesCard
    <2>1. 0 \in 0..DunningDays /\ "card" \in Collectors
      BY BillingBounds DEF Collectors
    <2>2. CASE CollectsOpen("card", 0)
      BY <1>3, <2>1, <2>2, CollectsOpenInv DEF AttachesCard, provider
    <2>3. CASE nothingToCollect /\ UNCHANGED collects
      BY <1>3, <2>3, NothingOpenInv DEF AttachesCard, provider
    <2> QED
      BY <1>3, <2>2, <2>3 DEF AttachesCard
  <1>4. CASE DunningReads
    <2>1. sub.retries + 1 \in 0..DunningDays /\ "dunning" \in Collectors
      BY <1>4, BillingBounds DEF DunningReads, BillingInv, BillingTyped, Subscription, Collectors
    <2>2. CASE CollectsOpen("dunning", sub.retries + 1) /\ UNCHANGED sub
      BY <1>4, <2>1, <2>2, CollectsOpenInv DEF DunningReads, provider
    <2>3. CASE nothingToCollect /\ sub' = [sub EXCEPT !.retries = @ + 1] /\ UNCHANGED collects
      BY <1>4, <2>3, NothingOpenInv DEF DunningReads, provider
    <2> QED
      BY <1>4, <2>2, <2>3 DEF DunningReads
  <1>5. ASSUME NEW c \in Collectors, Collects(c) PROVE BillingInv'
    BY <1>5, CollectsInv
  <1>6. ASSUME NEW c \in Collectors, Records(c) PROVE BillingInv'
    BY <1>6, RecordsInv
  <1>7. ASSUME NEW c \in Collectors, CollectorStops(c) PROVE BillingInv'
    BY <1>7, CollectorStopsInv
  <1>8. CASE UNCHANGED billingVars
    BY <1>8 DEF billingVars, BillingInv, BillingTyped, TakenIsPaid, AnswersAreTrue,
                CloserFollows, InvoicesAreHonest, done
  <1> QED
    BY <1>1, <1>2, <1>3, <1>4, <1>5, <1>6, <1>7, <1>8 DEF BillingNext

\* The invariant holds throughout.
LEMMA BillingInvariant == BillingSpec => []BillingInv
  BY BillingInitInv, BillingStepInv, PTL DEF BillingSpec

\* The billing's state has the types it is meant to have.
THEOREM BillingTypeCorrect == BillingSpec => []BillingTypeOK
  <1>1. BillingInv => BillingTypeOK
    BY DEF BillingInv, BillingTyped, Tenancies, Subscription, BillingInvoice, BillingTypeOK
  <1> QED
    BY <1>1, BillingInvariant, PTL

\* A period the subscription has moved past has its invoice or was waived by a grant, the
\* provider takes its money at most once, and a paid invoice was collected or came to
\* nothing.
THEOREM PeriodIsCollectedOnce == BillingSpec => []CollectedOnce
  <1>1. BillingInv => CollectedOnce
    BY DEF BillingInv, BillingTyped, TakenIsPaid, InvoicesAreHonest, done, CollectedOnce
  <1> QED
    BY <1>1, BillingInvariant, PTL

-----------------------------------------------------------------------------
(* Owners: what a sum of restatements comes to *)

\* When one statement at most restates a night, the night is billed for what that one
\* makes of it.
LEMMA OneCarrierSum ==
  ASSUME NEW q, NEW p, carrying(q) \subseteq {p},
         carrying(q) # {} => restatedIn(p, q) \in Int, statement[q].night \in Int
  PROVE  billedFor(q) = statement[q].night + IF carrying(q) = {} THEN 0 ELSE restatedIn(p, q)
  <1> DEFINE D == SUBSET carrying(q)
             Unfolded(g) ==
               [S \in D |-> IF S = {} THEN 0
                  ELSE LET r == CHOOSE r \in S : TRUE IN restatedIn(r, q) + g[S \ {r}]]
             Sum == CHOOSE g : g = Unfolded(g)
             h == [S \in D |-> IF S = {} THEN 0 ELSE restatedIn(p, q)]
  <1>1. \A S \in D : S = {} \/ S = {p}
    OBVIOUS
  <1>2. (CHOOSE r \in {p} : TRUE) = p
    OBVIOUS
  <1>3. h = Unfolded(h)
    <2> SUFFICES ASSUME NEW S \in D PROVE h[S] = Unfolded(h)[S]
      OBVIOUS
    <2>1. CASE S = {}
      BY <2>1
    <2>2. CASE S = {p}
      BY <1>2, <2>2
    <2> QED
      BY <1>1, <2>1, <2>2
  <1>4. Sum = Unfolded(Sum)
    <2> HIDE DEF Unfolded, h
    <2> QED
      BY <1>3
  <1>5. billedFor(q) = statement[q].night + Sum[carrying(q)]
    BY DEF billedFor
  <1> HIDE DEF Sum
  <1>6. Sum[{}] = 0
    BY <1>4
  <1>7. ASSUME carrying(q) = {p} PROVE Sum[{p}] = restatedIn(p, q)
    <2>1. Sum[{p}] = Unfolded(Sum)[{p}]
      BY <1>4
    <2>2. Unfolded(Sum)[{p}] = restatedIn(p, q) + Sum[{p} \ {p}]
      BY <1>2, <1>7
    <2>3. {p} \ {p} = {}
      OBVIOUS
    <2> HIDE DEF Unfolded
    <2>4. Sum[{p}] = restatedIn(p, q) + 0
      BY <1>6, <2>1, <2>2, <2>3
    <2> QED
      BY <1>7, <2>4
  <1>8. carrying(q) = {} \/ carrying(q) = {p}
    OBVIOUS
  <1> QED
    BY <1>5, <1>6, <1>7, <1>8

-----------------------------------------------------------------------------
(* Owners: the invariant *)

Restatement == [origin : Periods, delta : Int]
Statement == [state : {"none", "draft", "approved"} \cup sentStates, night : Nat,
              restated : SUBSET Restatement]
OwnerSweep == [at : {"idle", "read", "found"}, period : 0..LastPeriod, draft : Statement,
               found : {"none", "draft", "taken", "rewritten"}]

\* The variables' types; what a night earns now it has earned.
OwnerTyped ==
  /\ past \in [Periods -> SUBSET Nat] /\ price \in [Periods -> Nat]
  /\ \A p \in Periods : price[p] \in past[p]
  /\ statement \in [Periods -> Statement] /\ sweep \in OwnerSweep
  /\ ended \in 0..LastPeriod /\ crossed \in BOOLEAN

\* What the statements say together, with what the nights have earned: a statement
\* bills what its night earned, and restates nights that are out, each once, as
\* something they earned.
Earned(p, st, said, was) ==
  /\ st.state # "none" => st.night \in was[p]
  /\ st.state = "none" => st.restated = {}
  /\ \A a \in st.restated : /\ said[a.origin].state \in sentStates
                            /\ said[a.origin].night # 0
                            /\ said[a.origin].night + a.delta \in was[a.origin]
  /\ \A a, b \in st.restated : a.origin = b.origin => a = b

\* Two statements do not restate one night.
apart(st, other) == \A a \in st.restated, b \in other.restated : a.origin # b.origin

\* The sweep holds a draft of a period that has ended, and rewrites no statement that
\* was never made.
SweepHolds ==
  /\ sweep.period \in 0..ended
  /\ sweep.at # "idle" => /\ sweep.period \in Periods /\ sweep.draft.state = "draft"
                          /\ Earned(sweep.period, sweep.draft, statement, past)
  /\ sweep.at = "found" /\ sweep.found # "none" => statement[sweep.period].state # "none"

\* As long as the desk and the sweep did not cross, a night is restated once.
RestatedOnce ==
  ~crossed => /\ \A p, r \in Periods : p # r => apart(statement[p], statement[r])
              /\ sweep.at # "idle" =>
                   \A r \in Periods \ {sweep.period} : apart(sweep.draft, statement[r])

OwnerInv == /\ OwnerTyped /\ SweepHolds /\ RestatedOnce
            /\ \A p \in Periods : Earned(p, statement[p], statement, past)

-----------------------------------------------------------------------------

\* Each period earns its price and has no statement.
LEMMA OwnerInitInv == OwnerInit => OwnerInv
  <1> SUFFICES ASSUME OwnerInit PROVE OwnerInv
    OBVIOUS
  <1> USE OwnerBounds
  <1>1. NoStatement \in Statement /\ NoStatement.state = "none" /\ NoStatement.restated = {}
    BY DEF NoStatement, Statement
  <1>2. NoSweep \in OwnerSweep /\ NoSweep.at = "idle" /\ NoSweep.period = 0
    BY <1>1 DEF NoSweep, OwnerSweep
  <1>3. OwnerTyped
    <2>1. past \in [Periods -> SUBSET Nat] /\ price \in [Periods -> Nat]
          /\ \A p \in Periods : price[p] \in past[p]
      BY DEF OwnerInit
    <2>2. statement \in [Periods -> Statement]
      BY <1>1 DEF OwnerInit
    <2>3. sweep \in OwnerSweep /\ ended \in 0..LastPeriod
      BY <1>2 DEF OwnerInit
    <2>4. crossed \in BOOLEAN
      BY Zenon DEF OwnerInit
    <2> QED
      BY <2>1, <2>2, <2>3, <2>4 DEF OwnerTyped
  <1>4. SweepHolds /\ RestatedOnce
    BY <1>1, <1>2 DEF OwnerInit, SweepHolds, RestatedOnce, apart
  <1>5. \A p \in Periods : Earned(p, statement[p], statement, past)
    BY <1>1 DEF OwnerInit, Earned
  <1> QED
    BY <1>3, <1>4, <1>5 DEF OwnerInv

\* The restatements of a draft name nights that are out, each once, as what they earn,
\* and none that another statement restates.
LEMMA DraftIsEarned ==
  ASSUME OwnerTyped, NEW p \in Periods,
         \A r \in Periods : Earned(r, statement[r], statement, past)
  PROVE  /\ draftOf(p) \in Statement /\ draftOf(p).state = "draft"
         /\ Earned(p, draftOf(p), statement, past)
         /\ \A r \in Periods \ {p} : apart(draftOf(p), statement[r])
  <1> DEFINE R == restatements(p)
  <1>1. \A q \in Periods : /\ price[q] \in past[q] /\ price[q] \in Nat
                           /\ statement[q] \in Statement /\ statement[q].night \in Nat
    BY DEF OwnerTyped, Statement
  <1>2. \A a \in R : \E q \in billedNights \ billedAdjustments(p) :
                       a = [origin |-> q, delta |-> price[q] - statement[q].night]
    BY DEF restatements
  <1>3. billedNights \subseteq Periods
    BY DEF billedNights
  <1>4. ASSUME NEW a \in R
        PROVE  /\ a \in Restatement /\ a.origin \in billedNights
               /\ a.origin \notin billedAdjustments(p)
               /\ statement[a.origin].state \in sentStates
               /\ statement[a.origin].night # 0
               /\ statement[a.origin].night + a.delta \in past[a.origin]
               /\ a = [origin |-> a.origin,
                       delta |-> price[a.origin] - statement[a.origin].night]
    <2>1. PICK q \in billedNights \ billedAdjustments(p) :
            a = [origin |-> q, delta |-> price[q] - statement[q].night]
      BY <1>2
    <2>2. q \in Periods /\ a.origin = q /\ a.delta = price[q] - statement[q].night
      BY <1>3, <2>1
    <2>3. statement[q].night + a.delta = price[q] /\ a.delta \in Int
      BY <1>1, <2>2
    <2> QED
      BY <1>1, <2>1, <2>2, <2>3 DEF Restatement, billedNights
  <1>5. \A a, b \in R : a.origin = b.origin => a = b
    BY <1>4
  <1>6. draftOf(p) = [state |-> "draft", night |-> price[p], restated |-> R]
    BY DEF draftOf
  <1> HIDE DEF R
  <1>7. draftOf(p) \in Statement
    BY <1>1, <1>4, <1>6 DEF Statement
  <1>8. Earned(p, draftOf(p), statement, past)
    BY <1>1, <1>4, <1>5, <1>6 DEF Earned
  <1>9. ASSUME NEW r \in Periods \ {p} PROVE apart(draftOf(p), statement[r])
    <2>1. ASSUME NEW b \in statement[r].restated PROVE b.origin \in billedAdjustments(p)
      <3>1. statement[r].state \in {"draft", "approved"} \cup sentStates
        BY <1>1 DEF Earned, Statement
      <3> QED
        BY <3>1 DEF billedAdjustments
    <2> QED
      BY <1>4, <1>6, <2>1 DEF apart
  <1> QED
    BY <1>6, <1>7, <1>8, <1>9

\* What went out stays out, for the same night.
Grown(said, said2) ==
  \A q \in Periods : said[q].state \in sentStates =>
    said2[q].state \in sentStates /\ said2[q].night = said[q].night

\* A statement stays earned while the ones that are out stay and the nights earn more.
LEMMA EarnedStays ==
  ASSUME NEW p \in Periods, NEW st \in Statement, NEW said, NEW said2, NEW was, NEW was2,
         Grown(said, said2), \A q \in Periods : was[q] \subseteq was2[q],
         Earned(p, st, said, was)
  PROVE  Earned(p, st, said2, was2)
  <1>1. \A a \in st.restated : a.origin \in Periods
    BY DEF Statement, Restatement
  <1> QED
    BY <1>1 DEF Earned, Grown

\* Rewriting one statement, and none that is out, leaves the others as they were.
LEMMA OneRewritten ==
  ASSUME OwnerInv, NEW p \in Periods, NEW st \in Statement,
         statement' = [statement EXCEPT ![p] = st], past' = past,
         statement[p].state \in sentStates =>
           st.state \in sentStates /\ st.night = statement[p].night,
         Earned(p, st, statement, past)
  PROVE  /\ statement' \in [Periods -> Statement]
         /\ statement'[p] = st
         /\ \A r \in Periods \ {p} : statement'[r] = statement[r]
         /\ \A r \in Periods : Earned(r, statement'[r], statement', past')
         /\ \A r \in Periods, x \in Statement :
              Earned(r, x, statement, past) => Earned(r, x, statement', past')
  <1>1. /\ statement \in [Periods -> Statement]
        /\ \A r \in Periods : Earned(r, statement[r], statement, past)
    BY DEF OwnerInv, OwnerTyped
  <1>2. /\ statement' \in [Periods -> Statement] /\ statement'[p] = st
        /\ \A r \in Periods \ {p} : statement'[r] = statement[r]
    BY <1>1
  <1>3. Grown(statement, statement')
    BY <1>2 DEF Grown
  <1>4. \A r \in Periods, x \in Statement :
          Earned(r, x, statement, past) => Earned(r, x, statement', past')
    BY <1>3, EarnedStays
  <1>5. \A r \in Periods : Earned(r, statement'[r], statement, past)
    BY <1>1, <1>2
  <1> QED
    BY <1>2, <1>4, <1>5

\* Nothing but the state of a statement changes, and not from out to not out.
LEMMA OneMoves ==
  ASSUME OwnerInv, NEW p \in Periods, NEW to \in {"approved", "sent"},
         statement[p].state \in {"draft", "approved"},
         statement' = [statement EXCEPT ![p].state = to],
         UNCHANGED <<price, past, sweep, ended, crossed>>
  PROVE  OwnerInv'
  <1> DEFINE st == [statement[p] EXCEPT !.state = to]
  <1>1. statement[p] \in Statement /\ Earned(p, statement[p], statement, past)
    BY DEF OwnerInv, OwnerTyped
  <1>2. /\ st \in Statement /\ st.state = to /\ st.night = statement[p].night
        /\ st.restated = statement[p].restated
    BY <1>1 DEF Statement, sentStates
  <1>3. statement' = [statement EXCEPT ![p] = st]
    OBVIOUS
  <1> HIDE DEF st
  <1>4. statement[p].state \notin sentStates
    BY DEF sentStates
  <1>5. Earned(p, st, statement, past)
    BY <1>1, <1>2 DEF Earned
  <1>6. /\ statement' \in [Periods -> Statement] /\ statement'[p] = st
        /\ \A r \in Periods \ {p} : statement'[r] = statement[r]
        /\ \A r \in Periods : Earned(r, statement'[r], statement', past')
        /\ \A r \in Periods, x \in Statement :
             Earned(r, x, statement, past) => Earned(r, x, statement', past')
    BY <1>2, <1>3, <1>4, <1>5, OneRewritten
  <1>7. \A r \in Periods : /\ statement'[r].restated = statement[r].restated
                           /\ statement[r].state # "none" => statement'[r].state # "none"
    BY <1>2, <1>6
  <1>8. OwnerTyped'
    BY <1>6 DEF OwnerInv, OwnerTyped
  <1>9. SweepHolds'
    BY <1>6, <1>7 DEF OwnerInv, OwnerTyped, OwnerSweep, SweepHolds
  <1>10. RestatedOnce'
    BY <1>7 DEF OwnerInv, RestatedOnce, apart
  <1> QED
    BY <1>6, <1>8, <1>9, <1>10 DEF OwnerInv
\* The desk writes a draft; a sweep under way has then been crossed.
LEMMA GeneratesKeepsInv ==
  ASSUME OwnerInv, NEW p \in Periods, Generates(p)
  PROVE  OwnerInv'
  <1> DEFINE st == draftOf(p)
  <1>1. /\ st \in Statement /\ st.state = "draft" /\ Earned(p, st, statement, past)
        /\ \A r \in Periods \ {p} : apart(st, statement[r])
    BY DraftIsEarned DEF OwnerInv
  <1>2. /\ statement[p].state \notin sentStates /\ past' = past
        /\ statement' = [statement EXCEPT ![p] = st]
    BY DEF Generates, sentStates
  <1> HIDE DEF st
  <1>3. /\ statement' \in [Periods -> Statement] /\ statement'[p] = st
        /\ \A r \in Periods \ {p} : statement'[r] = statement[r]
        /\ \A r \in Periods : Earned(r, statement'[r], statement', past')
        /\ \A r \in Periods, x \in Statement :
             Earned(r, x, statement, past) => Earned(r, x, statement', past')
    BY <1>1, <1>2, OneRewritten
  <1>4. /\ sweep \in OwnerSweep /\ sweep' \in OwnerSweep
        /\ sweep'.at = sweep.at /\ sweep'.period = sweep.period
        /\ sweep'.draft = sweep.draft
        /\ sweep'.found = sweep.found \/ (sweep.period = p /\ sweep'.found # "none")
    BY DEF Generates, OwnerInv, OwnerTyped, OwnerSweep
  <1>5. /\ crossed' \in BOOLEAN
        /\ ~crossed' => ~crossed /\ sweep.at = "idle"
        /\ ended' = ended /\ price' = price
    BY DEF Generates, OwnerInv, OwnerTyped
  <1>6. OwnerTyped'
    BY <1>2, <1>3, <1>4, <1>5 DEF OwnerInv, OwnerTyped
  <1>7. SweepHolds'
    <2>1. \A r \in Periods : statement[r].state # "none" => statement'[r].state # "none"
      BY <1>1, <1>3
    <2>2. sweep.at # "idle" => sweep.draft \in Statement
      BY <1>4 DEF OwnerSweep
    <2> QED
      BY <1>1, <1>3, <1>4, <1>5, <2>1, <2>2 DEF OwnerInv, SweepHolds
  <1>8. RestatedOnce'
    <2> SUFFICES ASSUME ~crossed'
                 PROVE  /\ \A q, r \in Periods : q # r => apart(statement'[q], statement'[r])
                        /\ sweep'.at = "idle"
      BY DEF RestatedOnce
    <2>1. \A q, r \in Periods : q # r => apart(statement[q], statement[r])
      BY <1>5 DEF OwnerInv, RestatedOnce
    <2>2. \A r \in Periods \ {p} : apart(statement[r], st)
      BY <1>1 DEF apart
    <2> QED
      BY <1>1, <1>3, <1>4, <1>5, <2>1, <2>2
  <1> QED
    BY <1>3, <1>6, <1>7, <1>8 DEF OwnerInv

\* A sweep that ends leaves nothing to hold.
LEMMA NoSweepKeepsInv ==
  ASSUME OwnerInv, sweep' = NoSweep,
         UNCHANGED <<price, past, statement, ended, crossed>>
  PROVE  OwnerInv'
  <1>1. sweep' \in OwnerSweep /\ sweep'.at = "idle" /\ sweep'.period = 0
    BY OwnerBounds DEF NoSweep, NoStatement, OwnerSweep, Statement
  <1>2. OwnerTyped'
    BY <1>1 DEF OwnerInv, OwnerTyped
  <1>3. SweepHolds' /\ RestatedOnce'
    BY <1>1 DEF OwnerInv, OwnerTyped, SweepHolds, RestatedOnce
  <1> QED
    BY <1>2, <1>3 DEF OwnerInv

\* The sweep takes a reading that is earned, and apart from what is stated.
LEMMA SweepReadsKeepsInv ==
  ASSUME OwnerInv, SweepReads
  PROVE  OwnerInv'
  <1> DEFINE st == draftOf(ended)
  <1>1. ended \in Periods
    BY OwnerBounds DEF SweepReads, OwnerInv, OwnerTyped, Periods
  <1>2. /\ st \in Statement /\ st.state = "draft" /\ Earned(ended, st, statement, past)
        /\ \A r \in Periods \ {ended} : apart(st, statement[r])
    BY <1>1, DraftIsEarned DEF OwnerInv
  <1>3. /\ sweep' = [at |-> "read", period |-> ended, draft |-> st, found |-> "none"]
        /\ UNCHANGED <<price, past, statement, ended, crossed>>
    BY DEF SweepReads
  <1> HIDE DEF st
  <1>4. ended \in 0..LastPeriod /\ sweep' \in OwnerSweep
    BY <1>2, <1>3 DEF OwnerInv, OwnerTyped, OwnerSweep
  <1>5. OwnerTyped'
    BY <1>3, <1>4 DEF OwnerInv, OwnerTyped
  <1>6. SweepHolds'
    BY <1>1, <1>2, <1>3, <1>4, OwnerBounds DEF SweepHolds
  <1>7. RestatedOnce'
    BY <1>2, <1>3 DEF OwnerInv, RestatedOnce
  <1> QED
    BY <1>3, <1>5, <1>6, <1>7 DEF OwnerInv

\* It finds the draft, or none, or gives up.
LEMMA SweepFindsKeepsInv ==
  ASSUME OwnerInv, SweepFinds
  PROVE  OwnerInv'
  <1>1. /\ sweep.at = "read" /\ sweep \in OwnerSweep /\ sweep.period \in Periods
        /\ UNCHANGED <<price, past, statement, ended, crossed>>
    BY DEF SweepFinds, OwnerInv, OwnerTyped, SweepHolds
  <1>2. CASE statement[sweep.period].state \in {"none", "draft"}
    <2>1. sweep' = [sweep EXCEPT !.at = "found", !.found = statement[sweep.period].state]
      BY <1>2 DEF SweepFinds
    <2>2. /\ sweep' \in OwnerSweep /\ sweep'.at = "found" /\ sweep'.period = sweep.period
          /\ sweep'.draft = sweep.draft
          /\ sweep'.found = statement[sweep.period].state
      BY <1>1, <1>2, <2>1 DEF OwnerSweep
    <2>3. OwnerTyped'
      BY <1>1, <2>2 DEF OwnerInv, OwnerTyped
    <2>4. SweepHolds'
      BY <1>1, <2>2 DEF OwnerInv, SweepHolds
    <2>5. RestatedOnce'
      BY <1>1, <2>2 DEF OwnerInv, RestatedOnce
    <2> QED
      BY <1>1, <2>3, <2>4, <2>5 DEF OwnerInv
  <1>3. CASE statement[sweep.period].state \notin {"none", "draft"}
    BY <1>1, <1>3, NoSweepKeepsInv DEF SweepFinds
  <1> QED
    BY <1>2, <1>3
\* The sweep writes its reading over a statement that is not out, or ends.
LEMMA SweepWritesKeepsInv ==
  ASSUME OwnerInv, SweepWrites
  PROVE  OwnerInv'
  <1> DEFINE p == sweep.period
             st == [sweep.draft EXCEPT !.state =
                      IF sweep.found = "none" THEN "draft" ELSE statement[p].state]
  <1>1. /\ sweep.at = "found" /\ sweep \in OwnerSweep /\ p \in Periods
        /\ sweep.draft \in Statement /\ Earned(p, sweep.draft, statement, past)
        /\ sweep.draft.state = "draft"
        /\ sweep.found # "none" => statement[p].state # "none"
        /\ statement[p] \in Statement
        /\ sweep' = NoSweep /\ UNCHANGED <<price, past, ended, crossed>>
    BY DEF SweepWrites, OwnerInv, OwnerTyped, SweepHolds, OwnerSweep
  <1>2. CASE ~mayWrite(p)
    <2>1. statement' = statement
      BY <1>2 DEF SweepWrites
    <2> QED
      BY <1>1, <2>1, NoSweepKeepsInv
  <1>3. CASE mayWrite(p)
    <2>1. statement' = [statement EXCEPT ![p] = st] /\ statement[p].state \notin sentStates
      BY <1>3 DEF SweepWrites, mayWrite
    <2>2. /\ st \in Statement /\ st.night = sweep.draft.night /\ st.state # "none"
          /\ st.restated = sweep.draft.restated
      BY <1>1 DEF Statement
    <2>3. Earned(p, st, statement, past)
      BY <1>1, <2>2 DEF Earned
    <2> HIDE DEF st
    <2>4. /\ statement' \in [Periods -> Statement] /\ statement'[p] = st
          /\ \A r \in Periods \ {p} : statement'[r] = statement[r]
          /\ \A r \in Periods : Earned(r, statement'[r], statement', past')
      <3> HIDE DEF p
      <3> QED
        BY <1>1, <2>1, <2>2, <2>3, OneRewritten
    <2>5. sweep' \in OwnerSweep /\ sweep'.at = "idle" /\ sweep'.period = 0
      BY <1>1, OwnerBounds DEF NoSweep, NoStatement, OwnerSweep, Statement
    <2>6. OwnerTyped'
      BY <1>1, <2>4, <2>5 DEF OwnerInv, OwnerTyped
    <2>7. SweepHolds'
      BY <1>1, <2>5 DEF OwnerInv, OwnerTyped, SweepHolds
    <2>8. RestatedOnce'
      <3> SUFFICES ASSUME ~crossed'
                   PROVE  \A q, r \in Periods : q # r => apart(statement'[q], statement'[r])
        BY <2>5 DEF RestatedOnce
      <3>1. /\ \A q, r \in Periods : q # r => apart(statement[q], statement[r])
            /\ \A r \in Periods \ {p} : apart(sweep.draft, statement[r])
        BY <1>1 DEF OwnerInv, RestatedOnce
      <3>2. \A r \in Periods \ {p} : apart(st, statement[r]) /\ apart(statement[r], st)
        BY <2>2, <3>1 DEF apart
      <3> QED
        BY <2>4, <3>1, <3>2
    <2> QED
      BY <2>4, <2>6, <2>7, <2>8 DEF OwnerInv
  <1> QED
    BY <1>2, <1>3

\* A revision only adds to what the night has earned.
LEMMA RevisedKeepsInv ==
  ASSUME OwnerInv, NEW p \in Periods, Revised(p)
  PROVE  OwnerInv'
  <1>1. PICK amount \in Prices : /\ price' = [price EXCEPT ![p] = amount]
                                 /\ past' = [past EXCEPT ![p] = @ \cup {amount}]
    BY DEF Revised
  <1>2. UNCHANGED <<statement, sweep, ended, crossed>> /\ amount \in Nat
    BY OwnerBounds DEF Revised
  <1>3. /\ past \in [Periods -> SUBSET Nat] /\ price \in [Periods -> Nat]
        /\ \A r \in Periods : price[r] \in past[r]
    BY DEF OwnerInv, OwnerTyped
  <1>4. /\ past' \in [Periods -> SUBSET Nat] /\ price' \in [Periods -> Nat]
        /\ \A r \in Periods : price'[r] \in past'[r] /\ past[r] \subseteq past'[r]
    BY <1>1, <1>2, <1>3
  <1>5. OwnerTyped'
    BY <1>2, <1>4 DEF OwnerInv, OwnerTyped
  <1>6. \A r \in Periods, x \in Statement :
          Earned(r, x, statement, past) => Earned(r, x, statement', past')
    BY <1>2, <1>4, EarnedStays DEF Grown
  <1>7. \A r \in Periods : Earned(r, statement'[r], statement', past')
    BY <1>2, <1>6 DEF OwnerInv, OwnerTyped
  <1>8. SweepHolds'
    BY <1>2, <1>6 DEF OwnerInv, OwnerTyped, OwnerSweep, SweepHolds
  <1>9. RestatedOnce'
    BY <1>2 DEF OwnerInv, RestatedOnce
  <1> QED
    BY <1>5, <1>7, <1>8, <1>9 DEF OwnerInv

\* Every step of the desk, the sweep, the channels and the calendar keeps the invariant.
LEMMA OwnerStepInv == OwnerInv /\ [OwnerNext]_ownerVars => OwnerInv'
  <1> SUFFICES ASSUME OwnerInv, [OwnerNext]_ownerVars PROVE OwnerInv'
    OBVIOUS
  <1>1. ASSUME NEW p \in Periods, Generates(p) PROVE OwnerInv'
    BY <1>1, GeneratesKeepsInv
  <1>2. ASSUME NEW p \in Periods, Approves(p) PROVE OwnerInv'
    BY <1>2, OneMoves DEF Approves
  <1>3. ASSUME NEW p \in Periods, Sends(p) PROVE OwnerInv'
    BY <1>3, OneMoves DEF Sends
  <1>4. ASSUME NEW p \in Periods, Revised(p) PROVE OwnerInv'
    BY <1>4, RevisedKeepsInv
  <1>5. CASE SweepReads
    BY <1>5, SweepReadsKeepsInv
  <1>6. CASE SweepFinds
    BY <1>6, SweepFindsKeepsInv
  <1>7. CASE SweepWrites
    BY <1>7, SweepWritesKeepsInv
  <1>8. CASE PeriodEnds
    <2>1. /\ UNCHANGED <<price, past, statement, sweep, crossed>>
          /\ ended' = ended + 1 /\ ended' \in 0..LastPeriod /\ ended \in 0..LastPeriod
      BY <1>8, OwnerBounds DEF PeriodEnds, OwnerInv, OwnerTyped
    <2>2. OwnerTyped'
      BY <2>1 DEF OwnerInv, OwnerTyped
    <2>3. SweepHolds'
      BY <2>1, OwnerBounds DEF OwnerInv, SweepHolds
    <2>4. RestatedOnce'
      BY <2>1 DEF OwnerInv, RestatedOnce
    <2> QED
      BY <2>1, <2>2, <2>3, <2>4 DEF OwnerInv
  <1>9. CASE UNCHANGED ownerVars
    BY <1>9 DEF ownerVars, OwnerInv, OwnerTyped, SweepHolds, RestatedOnce
  <1> QED
    BY <1>1, <1>2, <1>3, <1>4, <1>5, <1>6, <1>7, <1>8, <1>9 DEF OwnerNext

\* The invariant holds throughout.
LEMMA OwnerInvariant == OwnerSpec => []OwnerInv
  BY OwnerInitInv, OwnerStepInv, PTL DEF OwnerSpec

\* The statements' state has the types it is meant to have; what a statement restates
\* is out.
THEOREM OwnerTypeCorrect == OwnerSpec => []OwnerTypeOK
  <1>1. OwnerInv => OwnerTypeOK
    <2> SUFFICES ASSUME OwnerInv PROVE OwnerTypeOK
      OBVIOUS
    <2>1. \A p \in Periods : \A a \in statement[p].restated : a.origin \in billedNights
      BY DEF OwnerInv, OwnerTyped, Earned, Statement, Restatement, billedNights
    <2> QED
      BY <2>1 DEF OwnerInv, OwnerTyped, SweepHolds, Statement, OwnerSweep, OwnerTypeOK
  <1> QED
    BY <1>1, OwnerInvariant, PTL

\* A correction is billed once: whatever the desk, the sweep and the channels do, the
\* statements together bill a night that is out for something it really earned, unless
\* the desk wrote while the sweep held a reading.
THEOREM OnlyEarnedIsBilled == OwnerSpec => []BilledWasEarned
  <1>1. OwnerInv => BilledWasEarned
    <2> SUFFICES ASSUME OwnerInv, ~crossed, NEW q \in billedNights
                 PROVE  billedFor(q) \in past[q]
      BY Zenon DEF BilledWasEarned
    <2>1. /\ q \in Periods /\ statement[q].night \in Nat /\ past[q] \subseteq Nat
          /\ statement[q].state # "none" => statement[q].night \in past[q]
          /\ statement[q].state # "none"
      BY DEF OwnerInv, OwnerTyped, Earned, Statement, billedNights, sentStates
    <2>2. CASE carrying(q) = {}
      <3>1. billedFor(q) = statement[q].night + 0
        BY <2>1, <2>2, OneCarrierSum
      <3> QED
        BY <2>1, <3>1
    <2>3. ASSUME NEW p \in carrying(q) PROVE billedFor(q) \in past[q]
      <3>1. PICK a \in statement[p].restated : a.origin = q
        BY <2>3 DEF carrying
      <3>2. /\ p \in Periods /\ a.delta \in Int
            /\ statement[q].night + a.delta \in past[q]
            /\ \A b \in statement[p].restated : b.origin = q => b = a
        BY <2>3, <3>1 DEF carrying, OwnerInv, OwnerTyped, Earned, Statement, Restatement
      <3>3. restatedIn(p, q) = a.delta
        BY <3>1, <3>2 DEF restatedIn
      <3>4. carrying(q) = {p}
        BY <2>3, <3>1, <3>2 DEF carrying, OwnerInv, RestatedOnce, apart
      <3> QED
        BY <2>1, <3>2, <3>3, <3>4, OneCarrierSum
    <2> QED
      BY <2>2, <2>3
  <1> QED
    BY <1>1, OwnerInvariant, PTL

\* A statement that is out is never edited, by the desk or by a sweep that found it a
\* draft.
THEOREM WhatIsOutStays == OwnerSpec => SentIsFrozen
  <1> DEFINE Frozen ==
        \A p \in Periods : statement[p].state \in sentStates => statement'[p] = statement[p]
  <1>1. OwnerInv /\ [OwnerNext]_ownerVars => [Frozen]_ownerVars
    <2> SUFFICES ASSUME OwnerInv, OwnerNext, NEW p \in Periods,
                        statement[p].state \in sentStates
                 PROVE  statement'[p] = statement[p]
      BY Zenon
    <2>1. statement \in [Periods -> Statement]
      BY DEF OwnerInv, OwnerTyped
    <2>2. ASSUME NEW r \in Periods, Generates(r) \/ Approves(r) \/ Sends(r) \/ Revised(r)
          PROVE  statement'[p] = statement[p]
      BY <2>1, <2>2 DEF Generates, Approves, Sends, Revised, sentStates
    <2>3. CASE SweepWrites
      BY <2>1, <2>3 DEF SweepWrites, mayWrite
    <2>4. CASE SweepReads \/ SweepFinds \/ PeriodEnds
      BY <2>4 DEF SweepReads, SweepFinds, PeriodEnds
    <2> QED
      BY <2>2, <2>3, <2>4 DEF OwnerNext
  <1> HIDE DEF Frozen
  <1>2. OwnerSpec => [][Frozen]_ownerVars
    BY <1>1, OwnerInvariant, PTL DEF OwnerSpec
  <1> QED
    BY <1>2 DEF Frozen, SentIsFrozen
=============================================================================
