----------------------------- MODULE TableStats -----------------------------
(***************************************************************************)
(* metrics/table_stats.py: the physical table that the optimizer reasons   *)
(* about, as values and functions on values.                               *)
(*                                                                         *)
(* A table is a record                                                     *)
(*    layout              the layout in force,                             *)
(*    files               the data files, in the order of the Python list, *)
(*    bytes_rewritten_mb  what compaction has rewritten so far (MB).       *)
(* A file is [mb, rows, partition].  Sizes are whole megabytes: when a     *)
(* rewrite cuts a partition into n files of total/n MB each, the remainder *)
(* of the division is spread over the first of them, so sums are exact and *)
(* a single size is off by less than 1 MB.                                 *)
(*                                                                         *)
(* A scan costs 4.0 ms per file and 0.35 ms per MB read.  Latencies are    *)
(* counted in units of 0.0005 ms and selectivities in percent, so that     *)
(* every latency of the benchmark suite is an integer.                     *)
(***************************************************************************)
EXTENDS Sums, SequencesExt

Granularities == {"hour", "day", "device_bucket"}

Layout == [target_file_mb : Nat,
           compaction_trigger_files : Nat,
           partition_granularity : STRING]

File(Parts) == [mb : Nat, rows : Int, partition : Parts]

\* Layout.validate: what the constructor and apply_layout insist on.
ValidLayout(layout) ==
    /\ layout.target_file_mb \in 16..1024
    /\ layout.compaction_trigger_files >= 2
    /\ layout.partition_granularity \in Granularities

-----------------------------------------------------------------------------
(* Sums over files, and the statistics the rest of the system reads.       *)

TotalMb(files)   == SumOf([i \in DOMAIN files |-> files[i].mb])
TotalRows(files) == SumOf([i \in DOMAIN files |-> files[i].rows])

\* The same of by_part[part], the files of one partition.
PartMb(files, part) ==
    SumOf([i \in DOMAIN files |-> IF files[i].partition = part THEN files[i].mb ELSE 0])
PartRows(files, part) ==
    SumOf([i \in DOMAIN files |-> IF files[i].partition = part THEN files[i].rows ELSE 0])
PartCount(files, part) ==
    SumOf([i \in DOMAIN files |-> IF files[i].partition = part THEN 1 ELSE 0])

PartitionsOf(files) == {f.partition : f \in ToSet(files)}

Stats(table) ==
    [file_count      |-> Len(table.files),
     total_mb        |-> TotalMb(table.files),
     partition_count |-> Cardinality(PartitionsOf(table.files)),
     rows            |-> TotalRows(table.files)]

\* storage_cost_units, in units of the monthly price of one MB
\* (0.023 / 1024 dollars): live bytes only, write amplification kept apart.
StorageCostUnits(table) == Stats(table).total_mb

-----------------------------------------------------------------------------
(* Compaction: rewrite_data_files.                                         *)

CeilDiv(a, b) == (a + b - 1) \div b

\* Mutant of RoundHalfEven: int() for round().
Truncated(a, n) == a \div n

\* Python's round() of a/n: the nearest integer, a tie going to the even one.
RoundHalfEven(a, n) ==
    LET floor == a \div n
        rest  == a % n
        up    == 2 * rest > n \/ (2 * rest = n /\ floor % 2 = 1)
    IN  IF up THEN floor + 1 ELSE floor

\* Mutant of SplitRows: the rounding error is not put back.
SplitRowsUnfixed(total, n) == [i \in 1..n |-> RoundHalfEven(total, n)]

\* The n output files of one partition hold round(total/n) rows each, and the
\* rounding error of all of them is then added to the last one.  (The code
\* rounds the float total * ((i+1)/n - i/n).  That is another number only for
\* an exact tie, and only for some even n: 6, 10, 12, 14, 18 and so on.  No
\* partition that a run reaches has such a tie.)
SplitRows(total, n) ==
    LET share == RoundHalfEven(total, n)
        delta == total - n * share
    IN  [i \in 1..n |-> IF i = n THEN share + delta ELSE share]

SplitMb(total, n) ==
    [i \in 1..n |-> total \div n + (IF i <= total % n THEN 1 ELSE 0)]

\* Mutant of BinPack: the partition is not carried over to the output.
BinPackUnpartitioned(files, part, target_file_mb) ==
    <<[mb |-> PartMb(files, part), rows |-> PartRows(files, part), partition |-> ""]>>

\* One partition, bin-packed into files of about target_file_mb.
BinPack(files, part, target_file_mb) ==
    LET count == CeilDiv(PartMb(files, part), target_file_mb)
        n     == IF count > 1 THEN count ELSE 1
        mb    == SplitMb(PartMb(files, part), n)
        rows  == SplitRows(PartRows(files, part), n)
    IN  [i \in 1..n |-> [mb |-> mb[i], rows |-> rows[i], partition |-> part]]

\* Does file i open its partition, as setdefault() sees it?
IsFirst(files, i) == \A j \in 1..(i - 1) : files[j].partition # files[i].partition

NewKey(files, i) == IF IsFirst(files, i) THEN <<files[i].partition>> ELSE <<>>

\* The partition keys in the order in which the file list first names them.
NewKeys(files) == FlattenSeq([i \in DOMAIN files |-> NewKey(files, i)])

\* Mutant of PartitionOrder: popitem(), which takes the newest entry first.
LatestPartitionFirst(files) == Reverse(NewKeys(files))

\* The keys of the dict by_part.
PartitionOrder(files) == NewKeys(files)

\* rewrite_data_files: every partition repacked, all live bytes rewritten.
\* The partition of a row never changes, whatever the layout's granularity.
RewriteDataFiles(table, target_file_mb) ==
    LET parts  == PartitionOrder(table.files)
        packed == [k \in DOMAIN parts |->
                      BinPack(table.files, parts[k], target_file_mb)]
    IN  [table EXCEPT !.files = FlattenSeq(packed),
                      !.bytes_rewritten_mb = @ + TotalMb(table.files)]

-----------------------------------------------------------------------------
(* Ingest: ingest_micro_batch, with the compaction it may trigger.         *)

NeedsCompaction(table) ==
    Len(table.files) >= table.layout.compaction_trigger_files

\* Mutant of MaybeAutocompact: beyond the trigger instead of at it.
AutocompactBeyondTrigger(table) ==
    IF Len(table.files) > table.layout.compaction_trigger_files
    THEN RewriteDataFiles(table, table.layout.target_file_mb)
    ELSE table

MaybeAutocompact(table) ==
    IF NeedsCompaction(table)
    THEN RewriteDataFiles(table, table.layout.target_file_mb)
    ELSE table

\* Mutant of IngestMicroBatch: the rewrite works on the file list from before
\* the flush, and replaces the one that holds it.
IngestLostToCompaction(table, file) ==
    LET grown == [table EXCEPT !.files = Append(@, file)]
    IN  IF NeedsCompaction(grown) THEN MaybeAutocompact(table) ELSE grown

IngestMicroBatch(table, file) ==
    MaybeAutocompact([table EXCEPT !.files = Append(@, file)])

\* SimulatedIcebergTable.__init__
EmptyTable(layout) ==
    [layout |-> layout, files |-> <<>>, bytes_rewritten_mb |-> 0]

-----------------------------------------------------------------------------
(* Read: scan.                                                             *)

FILE_OPEN_COST == 8000  \* 4.0 ms
MB_SCAN_COST   == 7     \* 0.35 ms, per percent of selectivity

\* int(len * (1 - prune)), never less than one file.
FilesAfterPruning(count, granularity) ==
    LET kept == IF granularity = "hour" THEN (count * 2) \div 5
                                        ELSE (count * 7) \div 10
    IN  IF kept > 1 THEN kept ELSE 1

\* A time-range query on a time-partitioned table reads a prefix of the list.
ScannedFiles(table, partition_pruned) ==
    IF partition_pruned /\ table.layout.partition_granularity # "device_bucket"
    THEN LET keep == FilesAfterPruning(Len(table.files),
                                       table.layout.partition_granularity)
         IN  SubSeq(table.files, 1,
                    IF keep < Len(table.files) THEN keep ELSE Len(table.files))
    ELSE table.files

Scan(table, selectivity, partition_pruned) ==
    LET files == ScannedFiles(table, partition_pruned)
    IN  Len(files) * FILE_OPEN_COST + TotalMb(files) * selectivity * MB_SCAN_COST
=============================================================================
