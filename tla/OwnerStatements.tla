-------------------------- MODULE OwnerStatements --------------------------
(***************************************************************************)
(* The statements of one owner's agreement (docs/specs/17;                  *)
(* packages/jobs/src/owners.ts, db/repositories/owners.ts): a statement per *)
(* period bills the nights of the period, and restates what an earlier one  *)
(* billed and the channel changed since.                                   *)
(*                                                                         *)
(* The desk's actions are audited and follow one another; the worker's      *)
(* sweep reads, looks for the draft and writes while they run.              *)
(***************************************************************************)
EXTENDS Integers, FiniteSets

CONSTANTS LastPeriod,   \* periods are numbered; each has one night of one booking
          Prices,       \* what a night may earn; 0 is a cancelled night
          MaxRevisions  \* bound: revisions of the nights by the channels

ASSUME OwnerBounds == LastPeriod \in Nat /\ MaxRevisions \in Nat /\ Prices \subseteq Nat

VARIABLES
  price,     \* what the night of each period earns now
  past,      \* history: everything it ever earned
  statement, \* of each period: its state, the night it bills, its restatements
  sweep,     \* the worker's statement under way: its period, what it read and found
  ended,     \* the periods that have ended
  revisions,
  crossed    \* history: the desk wrote a statement while the sweep held a reading

ownerVars == <<price, past, statement, sweep, ended, revisions, crossed>>

Periods == 1..LastPeriod

\* The statements that are out, and cannot change (INV-13).
sentStates == {"sent", "paid"}

NoStatement == [state |-> "none", night |-> 0, restated |-> {}]
NoSweep == [at |-> "idle", period |-> 0, draft |-> NoStatement, found |-> "none"]

OwnerInit ==
  /\ price = [p \in Periods |-> 2] /\ past = [p \in Periods |-> {2}]
  /\ statement = [p \in Periods |-> NoStatement]
  /\ sweep = NoSweep
  /\ ended = 0 /\ revisions = 0 /\ crossed = FALSE

-----------------------------------------------------------------------------
(* What a statement says *)

\* billedNights: what the statements that are out billed.
billedNights == {q \in Periods : statement[q].state \in sentStates /\ statement[q].night # 0}

\* Mutant of billedAdjustments: only those of statements that are out.
billedAdjustmentsSent(p) ==
  UNION {{a.origin : a \in statement[q].restated} :
           q \in {r \in Periods \ {p} : statement[r].state \in sentStates}}

\* billedAdjustmentIds: the restatements another statement carries, a draft's included;
\* a restatement is named after the statement and the night it corrects.
billedAdjustments(p) ==
  UNION {{a.origin : a \in statement[q].restated} :
           q \in {r \in Periods \ {p} : statement[r].state \in {"draft", "approved"} \cup sentStates}}

\* restatementAdjustments: what the night earns now, less what was billed.
restatements(p) ==
  {[origin |-> q, delta |-> price[q] - statement[q].night] :
     q \in {r \in billedNights \ billedAdjustments(p) : price[r] # statement[r].night}}

\* statementInput: a cancelled night is not billed.
draftOf(p) == [state |-> "draft", night |-> price[p], restated |-> restatements(p)]

-----------------------------------------------------------------------------
(* The desk *)

\* generateStatementAction: any period; saveDraft replaces a draft, refuses the rest.
Generates(p) ==
  /\ statement[p].state \in {"none", "draft"}
  /\ statement' = [statement EXCEPT ![p] = draftOf(p)]
  /\ crossed' = (crossed \/ sweep.at # "idle")
  /\ sweep' = IF sweep.period = p /\ sweep.at = "found"
              THEN [sweep EXCEPT !.found = IF @ = "none" THEN "taken" ELSE "rewritten"]
              ELSE sweep
  /\ UNCHANGED <<price, past, ended, revisions>>

\* approve.
Approves(p) ==
  /\ statement[p].state = "draft"
  /\ statement' = [statement EXCEPT ![p].state = "approved"]
  /\ UNCHANGED <<price, past, sweep, ended, revisions, crossed>>

\* sendStatement, from the desk or by statements.autosend.
Sends(p) ==
  /\ statement[p].state = "approved"
  /\ statement' = [statement EXCEPT ![p].state = "sent"]
  /\ UNCHANGED <<price, past, sweep, ended, revisions, crossed>>

-----------------------------------------------------------------------------
(* The worker's sweep (generateDueStatements) *)

\* It looks at the period that ended last, passes over one that is past its draft, and
\* reads what the statement will say ...
SweepReads ==
  /\ sweep.at = "idle" /\ ended > 0
  /\ statement[ended].state \in {"none", "draft"}
  /\ sweep' = [at |-> "read", period |-> ended, draft |-> draftOf(ended), found |-> "none"]
  /\ UNCHANGED <<price, past, statement, ended, revisions, crossed>>

\* ... saveDraft finds the draft, or that there is none; any other is refused ...
SweepFinds ==
  /\ sweep.at = "read"
  /\ sweep' = IF statement[sweep.period].state \in {"none", "draft"}
              THEN [sweep EXCEPT !.at = "found", !.found = statement[sweep.period].state]
              ELSE NoSweep
  /\ UNCHANGED <<price, past, statement, ended, revisions, crossed>>

\* The statement the sweep found has been written by the desk since, and the unique
\* indexes refuse a second one, or a second set of lines.
collides(p) ==
  \/ sweep.found = "taken"
  \/ sweep.found = "rewritten" /\ (statement[p].night # 0 \/ statement[p].restated # {})

\* Mutant of mayWrite: without the triggers on statements that are out.
mayWriteAlways(p) == ~collides(p)

\* The triggers refuse to touch a statement that is out.
mayWrite(p) == statement[p].state \notin sentStates /\ ~collides(p)

\* ... and rewrites it, whatever its state has become: the update names only its id.
SweepWrites ==
  /\ sweep.at = "found"
  /\ LET p == sweep.period
     IN statement' = IF mayWrite(p)
                     THEN [statement EXCEPT ![p] = [sweep.draft EXCEPT !.state =
                             IF sweep.found = "none" THEN "draft" ELSE statement[p].state]]
                     ELSE statement
  /\ sweep' = NoSweep
  /\ UNCHANGED <<price, past, ended, revisions, crossed>>

-----------------------------------------------------------------------------
(* Around them *)

\* A revision of the booking: another price, a cancellation, a reinstatement.
Revised(p) ==
  /\ revisions < MaxRevisions /\ revisions' = revisions + 1
  /\ \E amount \in Prices \ {price[p]} :
       /\ price' = [price EXCEPT ![p] = amount]
       /\ past' = [past EXCEPT ![p] = @ \cup {amount}]
  /\ UNCHANGED <<statement, sweep, ended, crossed>>

PeriodEnds ==
  /\ ended < LastPeriod /\ ended' = ended + 1
  /\ UNCHANGED <<price, past, statement, sweep, revisions, crossed>>

OwnerNext ==
  \/ \E p \in Periods : Generates(p) \/ Approves(p) \/ Sends(p) \/ Revised(p)
  \/ SweepReads \/ SweepFinds \/ SweepWrites \/ PeriodEnds

OwnerSpec == OwnerInit /\ [][OwnerNext]_ownerVars

-----------------------------------------------------------------------------
(* Properties *)

OwnerTypeOK ==
  /\ \A p \in Periods :
       /\ price[p] \in past[p] /\ past[p] \subseteq Nat
       /\ statement[p].state \in {"none", "draft", "approved"} \cup sentStates
       /\ \A a \in statement[p].restated : a.origin \in billedNights
  /\ sweep.at \in {"idle", "read", "found"} /\ sweep.period \in 0..ended

\* The statements that restate a night, and by what one of them does.
carrying(q) == {p \in Periods : \E a \in statement[p].restated : a.origin = q}
restatedIn(p, q) == (CHOOSE a \in statement[p].restated : a.origin = q).delta

\* What the statements together bill for a night.
billedFor(q) ==
  LET Sum[S \in SUBSET carrying(q)] ==
        IF S = {} THEN 0
        ELSE LET p == CHOOSE p \in S : TRUE IN restatedIn(p, q) + Sum[S \ {p}]
  IN statement[q].night + Sum[carrying(q)]

\* A correction is billed once (db owners.ts: "so a restatement is applied once"): what
\* the statements bill for a night that is out is something the night really earned --
\* unless the desk wrote one while the sweep was working on another, which can bill the
\* same correction twice.
BilledWasEarned == crossed \/ \A q \in billedNights : billedFor(q) \in past[q]

\* A statement that is out is never edited (INV-13), not by a sweep that found it a
\* draft and writes after it was approved and sent.
SentIsFrozen ==
  [][\A p \in Periods : statement[p].state \in sentStates => statement'[p] = statement[p]]_ownerVars
=============================================================================
