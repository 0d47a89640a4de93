---------------------------- MODULE MCAriSync ----------------------------
(***************************************************************************)
(* The ARI sync engine on small calendars, and its properties.             *)
(***************************************************************************)
EXTENDS AriSync, TLC

CONSTANTS j1, j2

RoomAndPlan == <<"rt", "rp">>
OneRoom     == <<"rt">>
OnePlan     == <<"rp">>
Avail       == {"rt"}
NoRooms     == {}
OneField    == <<"availability", "rate">>
TwoFields   == <<"rate", "minStay">>
SimpleFields == "rt" :> {"availability"} @@ "rp" :> {"rate"}
PlanFields   == "rp" :> {"rate", "minStay"}
RoomField    == "rt" :> {"availability"}

\* What SyncedCellsAreHeld (AriSyncProofs) assumes is so on the calendars with one field to a
\* lane and room for every cell in a call, and gives what it needs of the batch builder.
ASSUME BuilderIsWhole ==
  (\A lane \in Lanes : Cardinality(FieldsOf[lane]) = 1) /\ MaxEntries >= Cardinality(Cells)
    => OneFieldLanes /\ CallsHoldBatches /\ BuildsWhole

Symmetry == Permutations(Values) \cup Permutations(Jobs)
=============================================================================
