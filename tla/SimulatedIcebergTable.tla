----------------------- MODULE SimulatedIcebergTable -----------------------
(***************************************************************************)
(* The class SimulatedIcebergTable of metrics/table_stats.py as a state    *)
(* machine: streaming flushes that may trigger a compaction, compactions   *)
(* asked for from outside, and layout changes, which assign table.layout   *)
(* and rewrite at once (SimBackend.apply_layout, shadow_evaluate).         *)
(*                                                                         *)
(* "ingested" is a history variable: every file ever flushed, as it was    *)
(* offered.                                                                *)
(***************************************************************************)
EXTENDS Benchmark

CONSTANTS
    Partitions,     \* partition values that appear in the stream
    Batches,        \* the [mb, rows] a checkpoint flush may bring
    Layouts,        \* layouts the table may be given
    Targets,        \* target sizes a caller may ask a rewrite for
    MaxIngests,     \* bound on the number of flushes
    MaxRewrittenMb  \* bound: no further rewrite is asked for beyond it

ASSUME LayoutsAreValid ==
    Layouts \subseteq Layout /\ \A layout \in Layouts : ValidLayout(layout)

ASSUME BatchesAreSizes == Batches \subseteq [mb : Nat, rows : Nat]

ASSUME TargetsArePositive == Targets \subseteq Nat \ {0}

VARIABLES table, ingested

vars == <<table, ingested>>

Init ==
    /\ table \in {EmptyTable(layout) : layout \in Layouts}
    /\ ingested = <<>>

Ingest(batch, part) ==
    LET file == [mb |-> batch.mb, rows |-> batch.rows, partition |-> part]
    IN  /\ Len(ingested) < MaxIngests
        /\ table' = IngestMicroBatch(table, file)
        /\ ingested' = Append(ingested, file)

Rewrite(target_file_mb) ==
    /\ table.bytes_rewritten_mb <= MaxRewrittenMb
    /\ table' = RewriteDataFiles(table, target_file_mb)
    /\ UNCHANGED ingested

ChangeLayout(layout) ==
    /\ table.bytes_rewritten_mb <= MaxRewrittenMb
    /\ table' = RewriteDataFiles([table EXCEPT !.layout = layout],
                                 layout.target_file_mb)
    /\ UNCHANGED ingested

Next ==
    \/ \E batch \in Batches, part \in Partitions : Ingest(batch, part)
    \/ \E target_file_mb \in Targets : Rewrite(target_file_mb)
    \/ \E layout \in Layouts : ChangeLayout(layout)

Spec == Init /\ [][Next]_vars

-----------------------------------------------------------------------------
AllTargets == Targets \cup {layout.target_file_mb : layout \in Layouts}

\* Type correctness of the table record and of the history.
TypeOK ==
    /\ table \in [layout : Layouts, files : Seq(File(Partitions)),
                  bytes_rewritten_mb : Nat]
    /\ ingested \in Seq(File(Partitions))

\* Whatever sequence of flushes, automatic and requested compactions and
\* layout changes has happened, each partition holds exactly the rows and the
\* bytes that were flushed to it (rewrite_data_files, the "data-loss guard").
ContentConserved ==
    \A part \in Partitions :
        /\ PartRows(table.files, part) = PartRows(ingested, part)
        /\ PartMb(table.files, part) = PartMb(ingested, part)

\* Compaction is idempotent on the data: repeating it, as a retried
\* maintenance task does, gives back the same list of files, rounding included.
CompactionIdempotent ==
    \A target \in AllTargets :
        LET once == RewriteDataFiles(table, target)
        IN  RewriteDataFiles(once, target).files = once.files

\* The rounding fix-up piles at most half a row per sibling file onto the last
\* file of a partition: no file is further than that from an equal share.
SkewBounded ==
    \A target \in AllTargets :
        LET packed == RewriteDataFiles(table, target).files
        IN  \A i \in DOMAIN packed :
                LET n     == PartCount(packed, packed[i].partition)
                    total == PartRows(packed, packed[i].partition)
                    Bound == IF n > 1 THEN n * (n - 1) ELSE 0
                IN  /\ 2 * (n * packed[i].rows - total) <= Bound
                    /\ 2 * (total - n * packed[i].rows) <= Bound

\* The file list reaches the trigger only as the outcome of a compaction that
\* could pack it no further, never by small files piling up.
FragmentationBounded ==
    NeedsCompaction(table) =>
        \E target \in AllTargets :
            RewriteDataFiles(table, target).files = table.files

\* The benchmark's p95 is the latency of the one unpruned query of the suite,
\* at every state: the guard's latency does not see partition pruning at all.
P95IsFullScan ==
    MeasureP95Latency(table) = 20 * Scan(table, 90, FALSE)

\* What the comment on Layout.compaction_trigger_files says: an automatic
\* rewrite happens once that many small files have accrued, "small" being read
\* generously as below the target size.
SmallFiles(t) ==
    {i \in DOMAIN t.files : t.files[i].mb < t.layout.target_file_mb}

RewritesOnceSmallFilesAccrue ==
    [][\A batch \in Batches, part \in Partitions :
          LET file  == [mb |-> batch.mb, rows |-> batch.rows, partition |-> part]
              grown == [table EXCEPT !.files = Append(@, file)]
          IN  Ingest(batch, part) /\ table' # grown =>
                  Cardinality(SmallFiles(grown)) >=
                      table.layout.compaction_trigger_files]_vars
=============================================================================
