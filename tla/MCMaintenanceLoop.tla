-------------------------- MODULE MCMaintenanceLoop --------------------------
(* A small instance of MaintenanceLoop for TLC.  A flush is a small file or *)
(* one above the smaller target size; a few small files are enough for a    *)
(* compaction to clear the guard.                                           *)
EXTENDS MaintenanceLoop

MCPartitions == {"p0"}

MCBatches == {[mb |-> 2, rows |-> 3], [mb |-> 20, rows |-> 5]}

MCSmallBatches == {[mb |-> 2, rows |-> 3]}

MCLayout(target, trigger, granularity) ==
    [target_file_mb |-> target, compaction_trigger_files |-> trigger,
     partition_granularity |-> granularity]

MCInitialLayout == MCLayout(16, 4, "device_bucket")

MCGrid == {MCLayout(16, 2, "day"), MCLayout(64, 3, "hour")}

\* Two layouts that the table may go back and forth between.
MCPair == {MCInitialLayout, MCLayout(64, 3, "hour")}

\* An incumbent with a large target size, and a proposal with a small one that
\* beats it for as long as the small files are not compacted.
MCStaleBatches == {[mb |-> 4, rows |-> 3]}

MCStaleInitialLayout == MCLayout(64, 6, "day")

MCStaleGrid == {MCLayout(16, 6, "day")}

\* The default GuardConfig.  The objective is counted in the latency's unit of
\* 0.000025 ms: 0.25 per MB rewritten is 10000 units, and 0.023 dollars per GB
\* is 0.9 units per MB, rounded to 1.
MCConfig ==
    [min_improvement_pct |-> 5, latency_regression_tol_pct |-> 0,
     storage_regression_tol_pct |-> 10, write_amp_regression_tol_abs |-> 1000000,
     w_latency |-> 1, w_cost |-> 1, w_write_amp |-> 10000]
=============================================================================
