--------------------------- MODULE CalendarEdits ---------------------------
(***************************************************************************)
(* Edits of one calendar cell by several people (apps/web/src/server/ari.ts *)
(* and applyRateCells): cell edits that carry the version their author saw, *)
(* bulk updates that carry none, and the undo of either.  A rate plan       *)
(* derives from the one that is edited.  None of the three locks the cell    *)
(* it reads; what keeps two of them apart is the audit entry withPermission  *)
(* writes first, under a lock of the organization that lasts to the commit.  *)
(***************************************************************************)
EXTENDS Integers, Sequences

CONSTANTS Editors,
          Edits,     \* bound: what an editor may set, functions from some fields to values
          BulkEdits, \* bound: what a bulk update may set or, with Absent, clear
          Surcharge, \* the derived plan's amount over its parent
          MaxOps     \* bound: operations

Absent == 0  \* a field that is not there

EditFields == {"rate", "minStay"}

\* A patch says what some of the fields are to be.
ASSUME EditsArePatches ==
  /\ \A patch \in Edits \cup BulkEdits :
       DOMAIN patch \subseteq EditFields /\ patch \in [DOMAIN patch -> Nat]
  /\ Surcharge \in Nat

VARIABLES
  rateDay,  \* rate_day of the parent: its values, 0 for a field that is absent
            \* or null, and its version
  child,    \* the values of the derived plan's row
  ops,      \* bulk_operation: the inverse, the state, and what the model knows: the
            \* values it wrote over and the version it made
  editors,  \* the version each editor has seen, and the transaction it is in
  auditing  \* those whose transaction has the organization's audit lock

calVars == <<rateDay, child, ops, editors, auditing>>

derived(values) == [values EXCEPT !.rate = @ + Surcharge]

CalInit ==
  /\ rateDay = [values |-> [rate |-> 1, minStay |-> Absent], version |-> 1]
  /\ child = derived(rateDay.values)
  /\ ops = <<>>
  /\ editors = [e \in Editors |-> [seen |-> 0, at |-> "rest"]]
  /\ auditing = {}

-----------------------------------------------------------------------------

\* setRate: the row's values || the patch's.
merged(values, patch) == [f \in EditFields |-> IF f \in DOMAIN patch THEN patch[f] ELSE values[f]]

\* Mutant of pick: only what the cell has.
pickPresent(values, fields) == [f \in {x \in fields : values[x] # Absent} |-> values[f]]

\* pick: the cell's values of the fields, null where it has none.
pick(values, fields) == [f \in fields |-> values[f]]

\* diffValues: what changed, of the fields the cell has afterwards.
diffValues(before, after) ==
  pick(after, {f \in EditFields : after[f] # before[f] /\ after[f] # Absent})

\* inverseValues: the previous value of what changed, of the fields it had before.
inverseValues(before, after) ==
  pick(before, {f \in EditFields : after[f] # before[f] /\ before[f] # Absent})

\* Mutant of mayAppend: the entry is written without the lock.
mayAppendAlways == TRUE

\* append: pg_advisory_xact_lock.
mayAppend == auditing = {}

\* A transaction has written its audit entry and then read: what it will write, the
\* inverse it will record, and the operation it undoes, if it undoes one.
opens(e, kind, patch, inverse, of) ==
  /\ editors[e].at = "rest" /\ Len(ops) < MaxOps
  /\ mayAppend
  /\ auditing' = auditing \cup {e}
  /\ editors' = [editors EXCEPT ![e] =
       [seen |-> @.seen, at |-> kind, patch |-> patch, inverse |-> inverse, of |-> of]]
  /\ UNCHANGED <<rateDay, child, ops>>

Loads(e) ==
  /\ editors[e].at = "rest" /\ editors[e].seen # rateDay.version
  /\ editors' = [editors EXCEPT ![e].seen = rateDay.version]
  /\ UNCHANGED <<rateDay, child, ops, auditing>>

checkCellVersions(e) == editors[e].seen = rateDay.version

\* applyCellEdits: the version is checked and the inverse read.
EditReads(e, patch) ==
  /\ checkCellVersions(e)
  /\ opens(e, "edit", patch, pick(rateDay.values, DOMAIN patch), 0)

\* runBulk: the plan is made of the values it reads.
BulkReads(e, patch) ==
  LET after == merged(rateDay.values, patch)
  IN /\ after # rateDay.values
     /\ opens(e, "bulk", diffValues(rateDay.values, after), inverseValues(rateDay.values, after), 0)

\* undoOperation: an operation is undone once, and its undo can be undone.
UndoReads(e, o) ==
  /\ ops[o].state = "done"
  /\ opens(e, "undo", ops[o].inverse, pick(rateDay.values, DOMAIN ops[o].inverse), o)

\* applyRateCells, which reads the parent's row for the children after writing it, the
\* operation's record and, for an undo, markBulkUndone.
Writes(e) ==
  LET tx == editors[e]
      values == merged(rateDay.values, tx.patch)
  IN /\ tx.at # "rest"
     /\ rateDay' = [values |-> values, version |-> rateDay.version + 1]
     /\ child' = derived(values)
     /\ ops' = Append([o \in DOMAIN ops |->
                        IF o = tx.of THEN [ops[o] EXCEPT !.state = "undone"] ELSE ops[o]],
                      [kind |-> tx.at, inverse |-> tx.inverse, state |-> "done",
                       over |-> rateDay.values, version |-> rateDay.version + 1])
     /\ auditing' = auditing \ {e}
     /\ editors' = [editors EXCEPT ![e] = [seen |-> rateDay.version + 1, at |-> "rest"]]

-----------------------------------------------------------------------------

CalNext ==
  \E e \in Editors :
    \/ Loads(e)
    \/ \E patch \in Edits : EditReads(e, patch)
    \/ \E patch \in BulkEdits : BulkReads(e, patch)
    \/ \E o \in DOMAIN ops : UndoReads(e, o)
    \/ Writes(e)

CalSpec == CalInit /\ [][CalNext]_calVars
-----------------------------------------------------------------------------
(* Properties *)

\* The type invariant: versions never run ahead of the row's.
CalTypeOK ==
  /\ DOMAIN rateDay.values = EditFields /\ rateDay.version = Len(ops) + 1
  /\ \A e \in Editors : editors[e].seen \in 0..rateDay.version
  /\ \A o \in DOMAIN ops : DOMAIN ops[o].inverse \subseteq EditFields
  /\ auditing = {e \in Editors : editors[e].at # "rest"}

\* "A parent edit never leaves a child stale" (properties.ts:495): the derived plan is
\* its parent's row with the surcharge, whoever edits, bulk-edits or undoes.
ChildFollows == child = derived(rateDay.values)

\* CAL-5, "Never a silent last-write-wins": an edit replaces only the version of the cell
\* its author had seen, whatever edits, bulk updates and undos came in between.
NoSilentOverwrite ==
  [][\A e \in Editors : (editors[e].at = "edit" /\ editors'[e].at = "rest")
                           => editors[e].seen = rateDay.version]_calVars

\* CAL-4: undoing the last operation on the cell gives back what it had replaced, and
\* undoing the undo what that replaced; a bulk update gives back the fields the cell
\* had before.
UndoGivesBack ==
  [][\A o \in DOMAIN ops :
       (/\ ops[o].state = "done" /\ ops'[o].state = "undone"
        /\ ops[o].version = rateDay.version)
       => \A f \in EditFields : \/ rateDay'.values[f] = ops[o].over[f]
                                \/ ops[o].kind = "bulk" /\ ops[o].over[f] = Absent]_calVars
=============================================================================
