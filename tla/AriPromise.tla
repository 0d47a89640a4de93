---------------------------- MODULE AriPromise ----------------------------
(***************************************************************************)
(* What the ARI sync engine promises about one cell of the calendar        *)
(* (spec 05, CX-5: "every ARI cell knows whether it is live"): a cell is   *)
(* shown as live only at a version the channel manager has accepted, and   *)
(* every local edit takes it off live until its own version is accepted.   *)
(* AriSync implements this specification.                                  *)
(***************************************************************************)
EXTENDS Naturals

CONSTANT Cells

VARIABLES version,   \* the version of the desired value of each cell
          accepted,  \* whether the channel manager accepted that version
          live       \* whether the cell is shown as live

vars == <<version, accepted, live>>

Init ==
  /\ version \in [Cells -> Nat]
  /\ accepted \in [Cells -> BOOLEAN]
  /\ live \in [Cells -> BOOLEAN]
  /\ \A c \in Cells : live[c] => accepted[c]

\* Local edits: the edited cells have a new version, which nobody has accepted
\* yet, and are no longer live.
Edit(C) ==
  /\ version' = [c \in Cells |-> IF c \in C THEN version[c] + 1 ELSE version[c]]
  /\ accepted' = [c \in Cells |-> accepted[c] /\ c \notin C]
  /\ live' = [c \in Cells |-> live[c] /\ c \notin C]

\* The channel manager accepts the current version of some cells.
Accept(C) ==
  /\ accepted' = [c \in Cells |-> accepted[c] \/ c \in C]
  /\ UNCHANGED <<version, live>>

\* The engine decides which cells are live: it may take any cell off live, and
\* may show a cell as live only when its current version was accepted.
Judge ==
  /\ live' \in [Cells -> BOOLEAN]
  /\ \A c \in Cells : live'[c] => live[c] \/ accepted[c]
  /\ UNCHANGED <<version, accepted>>

Next == (\E C \in SUBSET Cells : Edit(C) \/ Accept(C)) \/ Judge

Spec == Init /\ [][Next]_vars
=============================================================================
