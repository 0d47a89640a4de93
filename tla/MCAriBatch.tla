---------------------------- MODULE MCAriBatch ----------------------------
(***************************************************************************)
(* Checks the batch builder on every set of cells of a small calendar.     *)
(* A behaviour fills the calendar cell by cell, so every set of cells is a *)
(* reachable state; the properties are about the batch built from it.      *)
(***************************************************************************)
EXTENDS AriBatch

CONSTANTS BatchValues,   \* the values of a field
          BatchSize      \* BatchLimits.maxEntries

\* A call takes some entries.
ASSUME CallsTakeEntries == BatchSize \in Nat \ {0}

OneLane   == <<"p1">>
TwoFields == <<"rate", "minStay">>

VARIABLES cells,   \* the cells to push
          batch    \* the chunks built from them

batchVars == <<cells, batch>>

BatchCells == UNION {[S -> BatchValues] : S \in (SUBSET Fields) \ {{}}}

BatchInit == cells = <<>> /\ batch = <<>>

\* One more cell of the calendar becomes part of the batch; cells are added in
\* calendar order, which reaches every set of cells once.
Add(c, v) ==
  /\ \A d \in DOMAIN cells : d[1] = c[1] => d[2] < c[2]
  /\ cells' = [x \in DOMAIN cells \cup {c} |-> IF x = c THEN v ELSE cells[x]]
  /\ batch' = buildBatch(cells', BatchSize)

BatchNext == \E c \in Lanes \X Dates, v \in BatchCells : Add(c, v)

BatchSpec == BatchInit /\ [][BatchNext]_batchVars

Entries == FlattenSeq(batch)

\* The chunks are well formed and none is larger than the limit of a call.
BatchTypeOK ==
  \A k \in DOMAIN batch :
    /\ Len(batch[k]) \in 1..BatchSize
    /\ \A i \in DOMAIN batch[k] :
         LET e == batch[k][i]
         IN  /\ e.lane \in Lanes /\ e.from \in Dates /\ e.to \in e.from..LastDate
             /\ e.days \subseteq AllDays
             /\ e.vals \in BatchCells

\* Applying the whole batch, in order, to an empty calendar reproduces exactly
\* the cells it was built from: no cell gains, loses or swaps a field value,
\* and no date outside the batch is written (build.ts: "the fewest entries that
\* reproduce cells exactly when applied FIFO to an empty state").
RoundTrip ==
  applyEntries(Blank, Entries) =
    [c \in DOMAIN Blank |-> IF c \in DOMAIN cells THEN cells[c] ELSE NoValues]
=============================================================================
