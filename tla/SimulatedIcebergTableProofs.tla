-------------------- MODULE SimulatedIcebergTableProofs --------------------
(***************************************************************************)
(* Proofs about SimulatedIcebergTable, for every set of partitions, batch  *)
(* sizes and valid layouts, every target size a caller may ask for, and    *)
(* files and tables of every size.                                         *)
(***************************************************************************)
EXTENDS SimulatedIcebergTable, OperatorLemmas

Tables == TablesOver(Partitions, Layouts)

(* Every target size that compaction is ever given is positive.            *)
LEMMA TargetsArePositiveNumbers == AllTargets \subseteq Nat \ {0}
<1> DEFINE Sizes == 16..1024
<1>1. \A mb \in Sizes : mb \in Nat \ {0}
  OBVIOUS
<1>2. \A layout \in Layouts : layout.target_file_mb \in Sizes
  BY LayoutsAreValid DEF ValidLayout
<1> HIDE DEF Sizes
<1>3. \A layout \in Layouts : layout.target_file_mb \in Nat \ {0}
  BY <1>1, <1>2
<1> QED
  BY <1>3, TargetsArePositive DEF AllTargets

(* A rewrite of a table is a table.                                        *)
LEMMA RewriteType ==
    ASSUME NEW t \in Tables, NEW target \in Nat \ {0}
    PROVE  /\ RewriteDataFiles(t, target) \in Tables
           /\ RewriteDataFiles(t, target).files = Rewritten(t.files, target)
           /\ RewriteDataFiles(t, target).layout = t.layout
BY RewriteOfTable DEF Tables

(* A flush appends its file, and may then compact to the layout's target.  *)
LEMMA IngestOutcomes ==
    ASSUME NEW t \in Tables, NEW file \in File(Partitions)
    PROVE  LET grown == Append(t.files, file)
               out   == IngestMicroBatch(t, file)
           IN  /\ out \in Tables /\ out.layout = t.layout
               /\ grown \in Seq(File(Partitions))
               /\ \/ out.files = grown /\ ~NeedsCompaction(out)
                  \/ out.files = Rewritten(grown, t.layout.target_file_mb)
BY TargetsArePositiveNumbers, IngestOfTable DEF Tables, AllTargets

(* What each step does to the files, from a table of the right type: it    *)
(* keeps them but for a rewrite, or adds the one that was flushed.         *)
LEMMA StepOutcomes ==
    ASSUME TypeOK, [Next]_vars
    PROVE  /\ TypeOK'
           /\ \/ UNCHANGED vars
              \/ \E target \in AllTargets :
                    table'.files = Rewritten(table.files, target)
                       /\ UNCHANGED ingested
              \/ \E file \in File(Partitions) :
                    /\ ingested' = Append(ingested, file)
                    /\ \/ /\ table'.files = Append(table.files, file)
                          /\ ~NeedsCompaction(table')
                       \/ \E target \in AllTargets :
                             table'.files = Rewritten(Append(table.files, file), target)
<1> USE DEF TypeOK
<1>1. table \in Tables /\ ingested \in Seq(File(Partitions))
  BY DEF Tables, TablesOver
<1>2. ASSUME NEW batch \in Batches, NEW part \in Partitions, Ingest(batch, part)
      PROVE  /\ TypeOK'
             /\ \E file \in File(Partitions) :
                    /\ ingested' = Append(ingested, file)
                    /\ \/ /\ table'.files = Append(table.files, file)
                          /\ ~NeedsCompaction(table')
                       \/ \E target \in AllTargets :
                             table'.files = Rewritten(Append(table.files, file), target)
  <2> DEFINE file == [mb |-> batch.mb, rows |-> batch.rows, partition |-> part]
  <2>1. file \in File(Partitions)
    BY BatchesAreSizes DEF File
  <2>2. table' = IngestMicroBatch(table, file) /\ ingested' = Append(ingested, file)
    BY <1>2 DEF Ingest
  <2> HIDE DEF file
  <2>3. table' \in Tables /\ ingested' \in Seq(File(Partitions))
    BY <1>1, <2>1, <2>2, IngestOutcomes
  <2>4. table.layout.target_file_mb \in AllTargets
    BY <1>1 DEF AllTargets, Tables, TablesOver
  <2>5. \/ table'.files = Append(table.files, file) /\ ~NeedsCompaction(table')
        \/ table'.files = Rewritten(Append(table.files, file),
                                    table.layout.target_file_mb)
    BY <1>1, <2>1, <2>2, IngestOutcomes
  <2> QED
    BY <2>1, <2>2, <2>3, <2>4, <2>5 DEF Tables, TablesOver
<1>3. ASSUME NEW target \in Targets, Rewrite(target)
      PROVE  /\ TypeOK' /\ UNCHANGED ingested
             /\ table'.files = Rewritten(table.files, target) /\ target \in AllTargets
  <2>1. target \in AllTargets /\ target \in Nat \ {0}
    BY TargetsArePositive DEF AllTargets
  <2> QED
    BY <1>1, <1>3, <2>1, RewriteType DEF Rewrite, Tables, TablesOver
<1>4. ASSUME NEW layout \in Layouts, ChangeLayout(layout)
      PROVE  /\ TypeOK' /\ UNCHANGED ingested
             /\ table'.files = Rewritten(table.files, layout.target_file_mb)
             /\ layout.target_file_mb \in AllTargets
  <2> DEFINE t == [table EXCEPT !.layout = layout]
  <2>1. t \in Tables /\ t.files = table.files
    BY <1>1 DEF Tables, TablesOver
  <2>2. layout.target_file_mb \in AllTargets
    BY DEF AllTargets
  <2>3. layout.target_file_mb \in Nat \ {0}
    BY <2>2, TargetsArePositiveNumbers
  <2>4. table' = RewriteDataFiles(t, layout.target_file_mb) /\ UNCHANGED ingested
    BY <1>4 DEF ChangeLayout
  <2> HIDE DEF t
  <2>5. table' \in Tables /\ table'.files = Rewritten(table.files, layout.target_file_mb)
    BY <2>1, <2>3, <2>4, RewriteType
  <2> QED
    BY <1>1, <2>2, <2>4, <2>5 DEF Tables, TablesOver
<1>5. CASE UNCHANGED vars
  BY <1>5 DEF vars
<1> QED
  BY <1>2, <1>3, <1>4, <1>5 DEF Next

LEMMA TableInit == Init => TypeOK
<1> SUFFICES ASSUME Init PROVE TypeOK
  OBVIOUS
<1>1. PICK layout \in Layouts : table = EmptyTable(layout)
  BY DEF Init
<1>2. <<>> \in Seq(File(Partitions)) /\ 0 \in Nat
  OBVIOUS
<1> QED
  BY <1>1, <1>2 DEF Init, TypeOK, EmptyTable

(* The table and the history of flushes keep their types.                  *)
THEOREM TableIsTyped == Spec => []TypeOK
<1>1. TypeOK /\ [Next]_vars => TypeOK'
  BY StepOutcomes
<1> QED
  BY <1>1, TableInit, PTL DEF Spec

-----------------------------------------------------------------------------
(* Content.                                                                *)

(* A flushed file adds its content to one partition.                       *)
LEMMA PartAppend ==
    ASSUME NEW files \in Seq(File(Partitions)), NEW file \in File(Partitions), NEW part
    PROVE  /\ PartRows(Append(files, file), part)
                  = PartRows(files, part) + RowsIn(Partitions, part)[file]
           /\ PartMb(Append(files, file), part)
                  = PartMb(files, part) + MbIn(Partitions, part)[file]
<1> DEFINE r == RowsIn(Partitions, part)
           m == MbIn(Partitions, part)
           g == Append(files, file)
<1>1. r \in [File(Partitions) -> Int] /\ m \in [File(Partitions) -> Int]
         /\ g \in Seq(File(Partitions))
  BY WeightTypes
<1>2. \A s \in Seq(File(Partitions)) : PartRows(s, part) = Weigh(s, r)
                                          /\ PartMb(s, part) = Weigh(s, m)
  BY StatisticsAreWeights
<1> HIDE DEF r, m
<1>3. Weigh(g, r) = Weigh(files, r) + r[file] /\ Weigh(g, m) = Weigh(files, m) + m[file]
  BY <1>1, WeighAppend
<1> HIDE DEF g
<1> QED
  BY <1>1, <1>2, <1>3 DEF g, r, m

(* Each step keeps what the partitions hold equal to what was flushed.     *)
LEMMA ContentStep == TypeOK /\ ContentConserved /\ [Next]_vars => ContentConserved'
<1> SUFFICES ASSUME TypeOK, ContentConserved, [Next]_vars, NEW part \in Partitions
             PROVE  /\ PartRows(table'.files, part) = PartRows(ingested', part)
                    /\ PartMb(table'.files, part) = PartMb(ingested', part)
  BY DEF ContentConserved
<1> DEFINE files == table.files
<1>1. files \in Seq(File(Partitions)) /\ ingested \in Seq(File(Partitions))
  BY DEF TypeOK
<1>2. /\ PartRows(files, part) = PartRows(ingested, part)
      /\ PartMb(files, part) = PartMb(ingested, part)
  BY DEF ContentConserved
<1>3. CASE UNCHANGED vars
  BY <1>2, <1>3 DEF vars
<1>4. ASSUME NEW target \in AllTargets, table'.files = Rewritten(files, target),
             UNCHANGED ingested
      PROVE  /\ PartRows(table'.files, part) = PartRows(ingested', part)
             /\ PartMb(table'.files, part) = PartMb(ingested', part)
  <2>1. target \in Nat \ {0}
    BY TargetsArePositiveNumbers
  <2> HIDE DEF files
  <2>2. /\ PartMb(Rewritten(files, target), part) = PartMb(files, part)
        /\ PartRows(Rewritten(files, target), part) = PartRows(files, part)
    BY <1>1, <2>1, RewriteConservesContent
  <2> QED
    BY <1>2, <1>4, <2>2
<1>5. ASSUME NEW file \in File(Partitions), ingested' = Append(ingested, file),
             \/ table'.files = Append(files, file)
             \/ \E target \in AllTargets :
                   table'.files = Rewritten(Append(files, file), target)
      PROVE  /\ PartRows(table'.files, part) = PartRows(ingested', part)
             /\ PartMb(table'.files, part) = PartMb(ingested', part)
  <2> DEFINE grown == Append(files, file)
  <2> HIDE DEF files
  <2>1. grown \in Seq(File(Partitions))
    BY <1>1
  <2>2. /\ PartRows(grown, part) = PartRows(ingested', part)
        /\ PartMb(grown, part) = PartMb(ingested', part)
    BY <1>1, <1>2, <1>5, PartAppend
  <2> HIDE DEF grown
  <2>3. \A target \in AllTargets :
           /\ PartMb(Rewritten(grown, target), part) = PartMb(grown, part)
           /\ PartRows(Rewritten(grown, target), part) = PartRows(grown, part)
    BY <2>1, TargetsArePositiveNumbers, RewriteConservesContent
  <2> QED
    BY <1>5, <2>2, <2>3 DEF grown
<1> QED
  BY <1>3, <1>4, <1>5, StepOutcomes

(* Through every flush, automatic or requested compaction and change of    *)
(* layout, each partition holds exactly the rows and bytes flushed to it.  *)
THEOREM ContentIsConserved == Spec => []ContentConserved
<1>1. Init => ContentConserved
  BY DEF Init, EmptyTable, ContentConserved
<1>2. TypeOK /\ [Next]_vars => TypeOK'
  BY StepOutcomes
<1> QED
  BY <1>1, <1>2, TableInit, ContentStep, PTL DEF Spec

-----------------------------------------------------------------------------
(* What the outcome of a compaction is like.                               *)

(* Compaction is idempotent in every reachable state.                      *)
THEOREM CompactionIsIdempotent == Spec => []CompactionIdempotent
<1>1. TypeOK => CompactionIdempotent
  <2> SUFFICES ASSUME TypeOK, NEW target \in AllTargets
               PROVE  RewriteDataFiles(RewriteDataFiles(table, target), target).files
                          = RewriteDataFiles(table, target).files
    BY DEF CompactionIdempotent
  <2>1. table \in Tables /\ table.files \in Seq(File(Partitions)) /\ target \in Nat \ {0}
    BY TargetsArePositiveNumbers DEF TypeOK, Tables, TablesOver
  <2> DEFINE once == RewriteDataFiles(table, target)
  <2>2. once \in Tables /\ once.files = Rewritten(table.files, target)
    BY <2>1, RewriteType
  <2> HIDE DEF once
  <2>3. RewriteDataFiles(once, target).files = Rewritten(once.files, target)
    BY <2>1, <2>2, RewriteType
  <2> QED
    BY <2>1, <2>2, <2>3, RewriteIsIdempotent DEF once
<1> QED
  BY <1>1, TableIsTyped, PTL

(* No file of a compacted partition is far from an equal share.            *)
THEOREM SkewIsBounded == Spec => []SkewBounded
<1>1. TypeOK => SkewBounded
  <2> SUFFICES ASSUME TypeOK, NEW target \in AllTargets,
                      NEW i \in DOMAIN RewriteDataFiles(table, target).files
               PROVE  LET packed == RewriteDataFiles(table, target).files
                          n      == PartCount(packed, packed[i].partition)
                          total  == PartRows(packed, packed[i].partition)
                          Bound  == IF n > 1 THEN n * (n - 1) ELSE 0
                      IN  /\ 2 * (n * packed[i].rows - total) <= Bound
                          /\ 2 * (total - n * packed[i].rows) <= Bound
    BY DEF SkewBounded
  <2>1. table \in Tables /\ table.files \in Seq(File(Partitions)) /\ target \in Nat \ {0}
    BY TargetsArePositiveNumbers DEF TypeOK, Tables, TablesOver
  <2>2. RewriteDataFiles(table, target).files = Rewritten(table.files, target)
    BY <2>1, RewriteType
  <2>3. Rewritten(table.files, target) \in Seq(File(Partitions))
    BY <2>1, RewrittenType
  <2>4. i \in 1..Len(Rewritten(table.files, target))
    BY <2>2, <2>3
  <2> QED
    BY <2>1, <2>2, <2>4, RewriteSkew
<1> QED
  BY <1>1, TableIsTyped, PTL

(* Small files never pile up to the trigger: a list that long is one that  *)
(* compaction has packed and would leave as it is.                         *)
THEOREM FragmentationIsBounded == Spec => []FragmentationBounded
<1> DEFINE Packed(t) == \E target \in AllTargets : Rewritten(t.files, target) = t.files
           Inv == TypeOK /\ (NeedsCompaction(table) => Packed(table))
<1>1. Init => Inv
  <2> SUFFICES ASSUME Init, NeedsCompaction(table) PROVE FALSE
    BY TableInit
  <2>1. table.files = <<>> /\ table.layout \in Layouts
    BY DEF Init, EmptyTable
  <2> QED
    <3>1. table.layout.compaction_trigger_files \in Nat
             /\ table.layout.compaction_trigger_files >= 2
      BY <2>1, LayoutsAreValid DEF Layout, ValidLayout
    <3>2. Len(table.files) = 0
      BY <2>1
    <3> QED
      BY <3>1, <3>2 DEF NeedsCompaction
<1>2. Inv /\ [Next]_vars => Inv'
  <2> SUFFICES ASSUME Inv, [Next]_vars, NeedsCompaction(table') PROVE Packed(table')
    BY StepOutcomes
  <2>1. table.files \in Seq(File(Partitions))
    BY DEF TypeOK
  <2>2. CASE UNCHANGED vars
    BY <2>2 DEF vars
  <2>3. ASSUME NEW files \in Seq(File(Partitions)), NEW target \in AllTargets,
               table'.files = Rewritten(files, target)
        PROVE  Packed(table')
    BY <2>3, RewriteIsIdempotent, TargetsArePositiveNumbers
  <2>4. ASSUME NEW file \in File(Partitions), NEW target \in AllTargets,
               table'.files = Rewritten(Append(table.files, file), target)
        PROVE  Packed(table')
    <3>1. Append(table.files, file) \in Seq(File(Partitions))
      BY <2>1
    <3> HIDE DEF Packed
    <3> QED
      BY <2>3, <2>4, <3>1
  <2> HIDE DEF Packed
  <2> QED
    BY <2>1, <2>2, <2>3, <2>4, StepOutcomes
<1>3. Inv => FragmentationBounded
  <2> SUFFICES ASSUME Inv, NeedsCompaction(table), NEW target \in AllTargets,
                      Rewritten(table.files, target) = table.files
               PROVE  RewriteDataFiles(table, target).files = table.files
    BY DEF FragmentationBounded
  <2>1. table \in Tables /\ target \in Nat \ {0}
    BY TargetsArePositiveNumbers DEF TypeOK, Tables, TablesOver
  <2> QED
    BY <2>1, RewriteType
<1> HIDE DEF Inv
<1> QED
  BY <1>1, <1>2, <1>3, PTL DEF Spec

(* The latency that the guard compares is that of a full scan, always.     *)
THEOREM BenchmarkIsFullScan == Spec => []P95IsFullScan
<1>1. TypeOK => P95IsFullScan
  BY PercentileIsFullScan DEF TypeOK, P95IsFullScan
<1> QED
  BY <1>1, TableIsTyped, PTL
=============================================================================
