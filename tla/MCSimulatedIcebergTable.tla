---------------------- MODULE MCSimulatedIcebergTable ----------------------
(* A small instance of SimulatedIcebergTable for TLC: batches below and    *)
(* above the smaller target size, row counts that do not divide evenly.    *)
EXTENDS SimulatedIcebergTable

MCPartitions == {"p0", "p1"}

MCBatches == {[mb |-> 2, rows |-> 3], [mb |-> 40, rows |-> 7]}

\* Every flush is a small file, below each target size.
MCSmallBatches == {[mb |-> 8, rows |-> 3]}

MCLayouts ==
    {[target_file_mb |-> 16, compaction_trigger_files |-> 3,
      partition_granularity |-> "day"],
     [target_file_mb |-> 64, compaction_trigger_files |-> 4,
      partition_granularity |-> "device_bucket"],
     [target_file_mb |-> 64, compaction_trigger_files |-> 4,
      partition_granularity |-> "hour"]}

MCTargets == {16, 30}
=============================================================================
