------------------------- MODULE NonRegressingTable -------------------------
(***************************************************************************)
(* What the maintenance loop promises to whoever queries the table, with   *)
(* no snapshot, ledger, model or guard in sight: ingest may do anything to *)
(* the latency but never touches the layout, and a change of layout keeps  *)
(* every row and makes the measured latency no worse than tolerated.       *)
(***************************************************************************)
EXTENDS Integers

CONSTANTS Layouts, LatencyTolPct

VARIABLES layout, rows, p95

Ingest == layout' = layout

Relayout ==
    /\ layout' \in Layouts
    /\ rows' = rows
    /\ 100 * p95' <= (100 + LatencyTolPct) * p95

Init == layout \in Layouts

Next == Ingest \/ Relayout

Spec == Init /\ [][Next]_<<layout, rows, p95>>
=============================================================================
