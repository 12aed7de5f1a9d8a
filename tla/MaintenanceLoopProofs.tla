------------------------ MODULE MaintenanceLoopProofs ------------------------
(***************************************************************************)
(* Proofs about MaintenanceLoop, for every grid of layouts, guard          *)
(* configuration, top k, snapshot retention and stream of flushes.         *)
(***************************************************************************)
EXTENDS MaintenanceLoop, OperatorLemmas

Tables == TablesOver(Partitions, Layouts)

(* The layouts are valid, so that compaction has a target to aim for.      *)
LEMMA TargetsArePositive ==
    \A layout \in Layouts : layout.target_file_mb \in Nat \ {0}
<1> DEFINE Sizes == 16..1024
<1>1. \A mb \in Sizes : mb \in Nat \ {0}
  OBVIOUS
<1>2. \A layout \in Layouts : layout.target_file_mb \in Sizes
  BY LoopAssumption DEF ValidLayout
<1> HIDE DEF Sizes
<1>3. \A layout \in Layouts : layout.target_file_mb \in Nat \ {0}
  BY <1>1, <1>2
<1> QED
  BY <1>3

(* A flush, compacted at once or not, leaves the layout alone and adds the *)
(* rows of its batch.                                                      *)
LEMMA FlushOutcome ==
    ASSUME NEW t \in Tables, NEW batch \in Batches, NEW part \in Partitions
    PROVE  LET out == IngestMicroBatch(t, [mb        |-> batch.mb,
                                           rows      |-> batch.rows,
                                           partition |-> part])
           IN  /\ out \in Tables /\ out.layout = t.layout
               /\ TotalRows(out.files) = TotalRows(t.files) + batch.rows
<1> DEFINE file  == [mb |-> batch.mb, rows |-> batch.rows, partition |-> part]
           grown == Append(t.files, file)
           out   == IngestMicroBatch(t, file)
<1>1. file \in File(Partitions) /\ file.rows = batch.rows
  BY LoopAssumption DEF File
<1>2. \A layout \in Layouts : layout.target_file_mb \in Nat \ {0}
  BY TargetsArePositive
<1>3. t.files \in Seq(File(Partitions)) /\ t.layout \in Layouts
  BY DEF Tables, TablesOver
<1> HIDE DEF file
<1>4. /\ out \in Tables /\ out.layout = t.layout
      /\ grown \in Seq(File(Partitions))
      /\ out.files = grown \/ out.files = Rewritten(grown, t.layout.target_file_mb)
  BY <1>1, <1>2, IngestOfTable DEF Tables
<1>5. TotalRows(grown) = TotalRows(t.files) + batch.rows
  BY <1>1, <1>3, TotalAppend
<1> HIDE DEF grown, out
<1>6. TotalRows(Rewritten(grown, t.layout.target_file_mb)) = TotalRows(grown)
  BY <1>2, <1>3, <1>4, RewriteConservesTotals
<1> QED
  BY <1>4, <1>5, <1>6 DEF out, file

(* A change of layout puts exactly that layout in force, and keeps every   *)
(* row and every megabyte of the table.                                    *)
LEMMA RelayoutOutcome ==
    ASSUME NEW t \in Tables, NEW layout \in Layouts
    PROVE  LET out == Relayout(t, layout)
           IN  /\ out \in Tables /\ out.layout = layout
               /\ TotalRows(out.files) = TotalRows(t.files)
               /\ TotalMb(out.files) = TotalMb(t.files)
<1> DEFINE assigned == [t EXCEPT !.layout = layout]
           target   == layout.target_file_mb
<1>1. assigned \in Tables /\ assigned.layout = layout /\ assigned.files = t.files
         /\ t.files \in Seq(File(Partitions))
  BY DEF Tables, TablesOver
<1>2. target \in Nat \ {0}
  BY TargetsArePositive
<1>3. Relayout(t, layout) = RewriteDataFiles(assigned, target)
  BY DEF Relayout
<1> HIDE DEF assigned, target
<1>4. /\ RewriteDataFiles(assigned, target) \in Tables
      /\ RewriteDataFiles(assigned, target).files = Rewritten(t.files, target)
      /\ RewriteDataFiles(assigned, target).layout = layout
  BY <1>1, <1>2, RewriteOfTable DEF Tables
<1>5. /\ TotalRows(Rewritten(t.files, target)) = TotalRows(t.files)
      /\ TotalMb(Rewritten(t.files, target)) = TotalMb(t.files)
  BY <1>1, <1>2, RewriteConservesTotals
<1> QED
  BY <1>3, <1>4, <1>5

(* The phases of apply_layout in between: the layout is another and the    *)
(* files are the same, new files are packed, and they take their place.    *)
LEMMA ApplyPhases ==
    ASSUME NEW t \in Tables, NEW layout \in Layouts
    PROVE  LET out     == RewriteDataFiles(t, layout.target_file_mb)
               counted == [out EXCEPT !.files = t.files]
           IN  /\ out \in Tables /\ out.layout = t.layout
               /\ out.files \in Seq(File(Partitions))
               /\ TotalRows(out.files) = TotalRows(t.files)
               /\ counted \in Tables /\ counted.files = t.files
               /\ counted.layout = t.layout
               /\ [counted EXCEPT !.files = out.files] = out
               /\ t.files = <<>> => out.files = <<>>
<1> DEFINE target  == layout.target_file_mb
           out     == RewriteDataFiles(t, target)
           counted == [out EXCEPT !.files = t.files]
<1>1. t.files \in Seq(File(Partitions)) /\ target \in Nat \ {0}
  BY TargetsArePositive DEF Tables, TablesOver
<1> HIDE DEF target
<1>2. /\ out \in Tables /\ out.layout = t.layout
      /\ out.files = Rewritten(t.files, target)
  BY <1>1, RewriteOfTable DEF Tables
<1>3. TotalRows(Rewritten(t.files, target)) = TotalRows(t.files)
  BY <1>1, RewriteConservesTotals
<1>4. t.files = <<>> => Rewritten(t.files, target) = <<>>
  <2>1. ASSUME t.files = <<>> PROVE Blocks(t.files, target) = <<>>
    BY <2>1, OrderEmpty DEF Blocks
  <2> QED
    BY <2>1, FlattenEmpty DEF Rewritten
<1> HIDE DEF out
<1>5. /\ out.files \in Seq(File(Partitions))
      /\ counted \in Tables /\ counted.files = t.files /\ counted.layout = out.layout
      /\ [counted EXCEPT !.files = out.files] = out
  BY <1>1, <1>2 DEF Tables, TablesOver
<1> QED
  BY <1>2, <1>3, <1>4, <1>5 DEF out, target

(* The p95 of a table is that of its files: no layout and no count of      *)
(* rewritten bytes enters into it.                                         *)
LEMMA LatencyIsOfFiles ==
    ASSUME NEW t \in Tables, NEW u \in Tables, u.files = t.files
    PROVE  MeasureP95Latency(u) = MeasureP95Latency(t)
<1>1. t.files \in Seq(File(Partitions))
  BY DEF Tables, TablesOver
<1>2. /\ MeasureP95Latency(t) = 20 * Scan(t, 90, FALSE)
      /\ MeasureP95Latency(u) = 20 * Scan(u, 90, FALSE)
  BY <1>1, PercentileIsFullScan
<1>3. Scan(u, 90, FALSE) = Scan(t, 90, FALSE)
  BY DEF Scan, ScannedFiles
<1> QED
  BY <1>2, <1>3

(* A ranking is a sequence of layouts of the grid.                         *)
LEMMA RankingIsSequence == \A r \in Rankings : r \in Seq(Grid)
<1> SUFFICES ASSUME NEW r \in Rankings PROVE r \in Seq(Grid)
  OBVIOUS
<1> DEFINE k == IF TopK < Cardinality(Grid) THEN TopK ELSE Cardinality(Grid)
<1>1. k \in Nat
  BY LoopAssumption, FS_CardinalityType
<1>2. r \in [1..k -> Grid]
  BY DEF Rankings
<1> QED
  BY <1>1, <1>2

-----------------------------------------------------------------------------
(* The inductive invariant of the loop, concurrent ingest or not.  While a *)
(* decision is pending, cand is the shadow measurement of the layout at    *)
(* the head of the queue; from then until it is applied, its promotion is  *)
(* in the ledger.  TypeOK alone is not inductive: that BeginApply installs *)
(* a layout of the grid needs the queue to be nonempty.                    *)

Pending ==
    /\ pc \in {"shadow", "decide", "apply", "rewrite"} => queue # <<>>
    /\ pc \in {"decide", "apply"} => cand.layout = Head(queue)

Audited ==
    LET decision == EvaluatePromotion(base, cand, Config)
    IN  pc \in {"apply", "rewrite", "swap", "check"} =>
            decision.promote /\ decision \in ledger

LoopInv == TypeOK /\ Pending /\ Audited /\ SnapshotsBounded

(* The initial states satisfy the invariant.                               *)
LEMMA LoopInit == Init => LoopInv
<1>1. Init => TypeOK
  BY LoopAssumption DEF Init, TypeOK, EmptyTable, Layouts
<1>2. Init => Pending /\ Audited
  BY DEF Init, Pending, Audited
<1>3. Init => SnapshotsBounded
  BY LoopAssumption DEF Init, SnapshotsBounded
<1> QED
  BY <1>1, <1>2, <1>3 DEF LoopInv

(* What the steps of a change of layout do to the table: the layout of the *)
(* grid, the files packed for it, and the files swapped.                   *)
LEMMA ApplyOutcome ==
    ASSUME TypeOK, Pending
    PROVE  /\ BeginApply => /\ Head(queue) \in Layouts /\ table' \in Tables
                            /\ table'.layout = Head(queue) /\ table'.files = table.files
                            /\ before' = TotalRows(table.files)
           /\ GroupFiles => /\ table' \in Tables
                            /\ table'.layout = table.layout /\ table'.files = table.files
                            /\ packed' \in Seq(File(Partitions))
                            /\ TotalRows(packed') = TotalRows(table.files)
           /\ SwapFiles => /\ table' \in Tables
                           /\ table'.layout = table.layout /\ table'.files = packed
<1>1. table \in Tables
  BY DEF TypeOK, Tables, TablesOver
<1>2. queue # <<>> => Head(queue) \in Layouts
  BY DEF TypeOK, Layouts
<1>3. ASSUME BeginApply
      PROVE  /\ Head(queue) \in Layouts /\ table' \in Tables
             /\ table'.layout = Head(queue) /\ table'.files = table.files
             /\ before' = TotalRows(table.files)
  <2>1. Head(queue) \in Layouts
    BY <1>2, <1>3 DEF BeginApply, Pending
  <2> QED
    BY <1>1, <1>3, <2>1 DEF BeginApply, Tables, TablesOver, Stats
<1>4. ASSUME GroupFiles
      PROVE  /\ table' \in Tables
             /\ table'.layout = table.layout /\ table'.files = table.files
             /\ packed' \in Seq(File(Partitions))
             /\ TotalRows(packed') = TotalRows(table.files)
  <2>1. Head(queue) \in Layouts
    BY <1>2, <1>4 DEF GroupFiles, Pending
  <2> DEFINE out == RewriteDataFiles(table, Head(queue).target_file_mb)
  <2>2. packed' = out.files /\ table' = [out EXCEPT !.files = table.files]
    BY <1>4 DEF GroupFiles
  <2> HIDE DEF out
  <2> QED
    BY <1>1, <2>1, <2>2, ApplyPhases DEF out
<1>5. ASSUME SwapFiles
      PROVE  /\ table' \in Tables
             /\ table'.layout = table.layout /\ table'.files = packed
  BY <1>1, <1>5 DEF SwapFiles, TypeOK, Tables, TablesOver
<1> QED
  BY <1>3, <1>4, <1>5

(* Each step keeps the types.                                              *)
LEMMA TypeStep == TypeOK /\ Pending /\ [Next]_vars => TypeOK'
<1> SUFFICES ASSUME TypeOK, Pending, [Next]_vars PROVE TypeOK'
  OBVIOUS
<1> USE DEF TypeOK
<1>1. ASSUME NEW batch \in Batches, NEW part \in Partitions, Flush(batch, part)
      PROVE  TypeOK'
  <2>1. table' \in Tables
    BY <1>1, FlushOutcome DEF Flush, Tables, TablesOver
  <2>2. unseen' \in Nat
    <3>1. batch.rows \in Nat
      BY LoopAssumption
    <3> QED
      BY <1>1, <3>1 DEF Flush
  <2>3. flushes' \in Seq(Batches)
    BY <1>1 DEF Flush
  <2>4. UNCHANGED <<snapshots, ledger, pc, queue, before, packed, lost, aborts>>
    BY <1>1 DEF Flush, cycleVars
  <2> QED
    BY <2>1, <2>2, <2>3, <2>4 DEF Tables, TablesOver
<1>2. ASSUME CycleOver, UNCHANGED <<table, flushes, lost>>, unseen' \in Nat,
             snapshots' \in Nat, aborts' \in Nat
      PROVE  TypeOK'
  BY <1>2 DEF CycleOver
<1>3. ASSUME StartCycle PROVE TypeOK'
  BY <1>3, RankingIsSequence DEF StartCycle, history
<1>4. ASSUME SkipIncumbent PROVE TypeOK'
  BY <1>4 DEF SkipIncumbent, history
<1>5. ASSUME BeginShadow PROVE TypeOK'
  <2>1. before' \in Int
    BY <1>5, StatisticsTypes DEF BeginShadow, Stats
  <2> QED
    BY <1>5, <2>1 DEF BeginShadow, history
<1>6. ASSUME ShadowEvaluate PROVE TypeOK'
  BY <1>2, <1>6 DEF ShadowEvaluate, history
<1>7. ASSUME Decide PROVE TypeOK'
  <2>1. pc' \in {"search", "apply"} /\ (queue' = queue \/ queue' = Tail(queue))
    BY <1>7 DEF Decide
  <2>2. queue # <<>> /\ queue \in Seq(Grid)
    BY <1>7 DEF Decide, Pending
  <2>3. queue' \in Seq(Grid)
    <3>1. Tail(queue) \in Seq(Grid)
      BY <2>2
    <3> QED
      BY <2>1, <2>2, <3>1
  <2>4. UNCHANGED <<table, snapshots, before, packed, flushes, unseen, lost, aborts>>
    BY <1>7 DEF Decide, history
  <2> QED
    BY <2>1, <2>3, <2>4
<1>8. ASSUME BeginApply PROVE TypeOK'
  <2>1. table' \in Tables /\ before' \in Int
    BY <1>8, ApplyOutcome, StatisticsTypes
  <2> QED
    BY <1>8, <2>1 DEF BeginApply, history, Tables, TablesOver
<1>9. ASSUME GroupFiles PROVE TypeOK'
  <2>1. table' \in Tables /\ packed' \in Seq(File(Partitions))
    BY <1>9, ApplyOutcome
  <2>2. pc' \in {"check", "swap"}
    BY <1>9 DEF GroupFiles
  <2> QED
    BY <1>9, <2>1, <2>2 DEF GroupFiles, history, Tables, TablesOver
<1>10. ASSUME SwapFiles PROVE TypeOK'
  <2>1. table' \in Tables
    BY <1>10, ApplyOutcome
  <2> QED
    BY <1>10, <2>1 DEF SwapFiles, Tables, TablesOver
<1>11. ASSUME CheckRows PROVE TypeOK'
  BY <1>2, <1>11 DEF CheckRows, history
<1>12. ASSUME Housekeep PROVE TypeOK'
  BY <1>2, <1>12, LoopAssumption DEF Housekeep
<1>13. ASSUME Abort PROVE TypeOK'
  BY <1>2, <1>13 DEF Abort
<1>14. CASE UNCHANGED vars
  BY <1>14 DEF vars
<1> QED
  BY <1>1, <1>3, <1>4, <1>5, <1>6, <1>7, <1>8, <1>9, <1>10, <1>11, <1>12, <1>13,
     <1>14 DEF Next, Cycle, Apply

(* Each step keeps cand the measurement of the head of the queue.          *)
LEMMA PendingStep == TypeOK /\ Pending /\ [Next]_vars => Pending'
<1> SUFFICES ASSUME TypeOK, Pending, [Next]_vars PROVE Pending'
  OBVIOUS
<1>1. ASSUME ShadowEvaluate PROVE Pending'
  <2>1. CASE CycleOver
    BY <2>1 DEF CycleOver, Pending
  <2>2. CASE ~CycleOver
    <3>1. queue # <<>> /\ queue' = queue
             /\ cand' = BaselineResult(Relayout(table, Head(queue)))
      BY <1>1, <2>2 DEF ShadowEvaluate, Pending
    <3>2. Relayout(table, Head(queue)).layout = Head(queue)
      <4>1. table \in Tables /\ Head(queue) \in Layouts
        BY <3>1 DEF TypeOK, Tables, TablesOver, Layouts
      <4> QED
        BY <4>1, RelayoutOutcome
    <3> QED
      BY <3>1, <3>2 DEF Pending, BaselineResult
  <2> QED
    BY <2>1, <2>2
<1>2. ASSUME Decide PROVE Pending'
  BY <1>2 DEF Decide, Pending
<1>3. CASE \E batch \in Batches, part \in Partitions : Flush(batch, part)
  BY <1>3 DEF Flush, cycleVars, Pending
<1>4. CASE UNCHANGED vars
  BY <1>4 DEF vars, Pending
<1>5. ASSUME Apply PROVE Pending'
  BY <1>5 DEF Apply, BeginApply, GroupFiles, SwapFiles, CheckRows, CycleOver, Pending
<1> QED
  BY <1>1, <1>2, <1>3, <1>4, <1>5
     DEF Next, Cycle, StartCycle, SkipIncumbent, BeginShadow, Housekeep, Abort,
         CycleOver, Pending

(* Only Decide leads to a change of layout, with its decision in the       *)
(* ledger, and nothing after it touches what was decided upon.             *)
LEMMA AuditedStep == Audited /\ [Next]_vars => Audited'
<1> SUFFICES ASSUME Audited, [Next]_vars PROVE Audited'
  OBVIOUS
<1>1. ASSUME Decide PROVE Audited'
  BY <1>1 DEF Decide, Audited
<1>2. CASE \E batch \in Batches, part \in Partitions : Flush(batch, part)
  BY <1>2 DEF Flush, cycleVars, Audited
<1>3. CASE UNCHANGED vars
  BY <1>3 DEF vars, Audited
<1>4. ASSUME Apply PROVE Audited'
  BY <1>4 DEF Apply, BeginApply, GroupFiles, SwapFiles, CheckRows, CycleOver, Audited
<1> QED
  BY <1>1, <1>2, <1>3, <1>4
     DEF Next, Cycle, StartCycle, SkipIncumbent, BeginShadow, ShadowEvaluate,
         Housekeep, Abort, CycleOver, Audited

(* Only CheckRows adds a snapshot; Housekeep or Abort account for it.      *)
LEMMA SnapshotsStep == TypeOK /\ SnapshotsBounded /\ [Next]_vars => SnapshotsBounded'
<1> SUFFICES ASSUME TypeOK, SnapshotsBounded, [Next]_vars PROVE SnapshotsBounded'
  OBVIOUS
<1>1. snapshots \in Nat /\ aborts \in Nat /\ KeepLast \in Nat
  BY LoopAssumption DEF TypeOK
<1>2. ASSUME CheckRows PROVE SnapshotsBounded'
  <2>1. aborts' = aborts /\ pc # "housekeep"
    BY <1>2 DEF CheckRows, history
  <2>2. \/ snapshots' = snapshots
        \/ snapshots' = snapshots + 1 /\ pc' = "housekeep"
    BY <1>2 DEF CheckRows
  <2> QED
    BY <1>1, <2>1, <2>2 DEF SnapshotsBounded
<1>3. ASSUME Housekeep PROVE SnapshotsBounded'
  BY <1>1, <1>3 DEF Housekeep, SnapshotsBounded
<1>4. ASSUME Abort PROVE SnapshotsBounded'
  BY <1>1, <1>4 DEF Abort, SnapshotsBounded
<1>5. CASE UNCHANGED <<snapshots, aborts>> /\ pc # "housekeep" /\ pc' # "housekeep"
  BY <1>5 DEF SnapshotsBounded
<1>6. CASE UNCHANGED <<snapshots, aborts, pc>>
  BY <1>6 DEF SnapshotsBounded
<1>7. ASSUME BeginApply \/ GroupFiles \/ SwapFiles PROVE SnapshotsBounded'
  BY <1>5, <1>7 DEF BeginApply, GroupFiles, SwapFiles, history
<1> QED
  BY <1>2, <1>3, <1>4, <1>5, <1>6, <1>7
     DEF Next, Cycle, Apply, Flush, cycleVars, history, CycleOver, StartCycle,
         SkipIncumbent, BeginShadow, ShadowEvaluate, Decide, vars

(* The invariant is inductive.                                             *)
LEMMA LoopStep == LoopInv /\ [Next]_vars => LoopInv'
BY TypeStep, PendingStep, AuditedStep, SnapshotsStep DEF LoopInv

(* Types, and the bound on snapshots: a completed cycle leaves at most     *)
(* KeepLast of them, whatever died before it.                              *)
THEOREM LoopIsBounded == Spec => []TypeOK /\ []SnapshotsBounded
<1>1. LoopInv => TypeOK /\ SnapshotsBounded
  BY DEF LoopInv
<1> QED
  BY <1>1, LoopInit, LoopStep, PTL DEF Spec

-----------------------------------------------------------------------------
(* Where the rows are.  While new files wait to be swapped in, they hold   *)
(* the rows of the table but for those of the flushes since.               *)

LEMMA FlushedAppend ==
    ASSUME NEW batches \in Seq(Batches), NEW batch \in Batches
    PROVE  TotalRows(Append(batches, batch)) = TotalRows(batches) + batch.rows
<1> DEFINE w == [b \in Batches |-> b.rows]
<1>1. w \in [Batches -> Int] /\ w[batch] = batch.rows
  BY LoopAssumption
<1>2. \A s \in Seq(Batches) : TotalRows(s) = Weigh(s, w)
  <2> SUFFICES ASSUME NEW s \in Seq(Batches) PROVE TotalRows(s) = Weigh(s, w)
    OBVIOUS
  <2>1. \A i \in DOMAIN s : w[s[i]] = s[i].rows
    OBVIOUS
  <2>2. [i \in DOMAIN s |-> w[s[i]]] = [i \in DOMAIN s |-> s[i].rows]
    BY <2>1
  <2> QED
    BY <2>2 DEF TotalRows, Weigh
<1> HIDE DEF w
<1>3. Weigh(Append(batches, batch), w) = Weigh(batches, w) + w[batch]
  BY <1>1, WeighAppend
<1>4. Append(batches, batch) \in Seq(Batches)
  OBVIOUS
<1> QED
  BY <1>1, <1>2, <1>3, <1>4

RowsInv ==
    /\ RowsConserved
    /\ pc = "swap" => TotalRows(packed) + unseen = TotalRows(table.files)
    /\ pc # "swap" => unseen = 0

(* Each step keeps the account of the rows.                                *)
LEMMA RowsStep == LoopInv /\ RowsInv /\ [Next]_vars => RowsInv'
<1> SUFFICES ASSUME LoopInv, RowsInv, [Next]_vars PROVE RowsInv'
  OBVIOUS
<1>1. table \in Tables /\ flushes \in Seq(Batches) /\ TypeOK /\ Pending
  BY DEF LoopInv, TypeOK, Tables, TablesOver
<1>2. TotalRows(table.files) + lost = TotalRows(flushes)
  BY DEF RowsInv, RowsConserved, Stats
<1>3. /\ TotalRows(table.files) \in Int /\ TotalRows(packed) \in Int
      /\ lost \in Nat /\ unseen \in Nat
  BY <1>1, StatisticsTypes DEF TypeOK
<1>4. ASSUME NEW batch \in Batches, NEW part \in Partitions, Flush(batch, part)
      PROVE  RowsInv'
  <2>1. TotalRows(table'.files) = TotalRows(table.files) + batch.rows
    BY <1>1, <1>4, FlushOutcome DEF Flush
  <2>2. TotalRows(flushes') = TotalRows(flushes) + batch.rows
    BY <1>1, <1>4, FlushedAppend DEF Flush
  <2>3. batch.rows \in Nat
    BY LoopAssumption
  <2>4. UNCHANGED <<pc, packed, lost>>
           /\ unseen' = IF pc = "swap" THEN unseen + batch.rows ELSE unseen
    BY <1>4 DEF Flush, cycleVars
  <2>5. RowsConserved'
    BY <1>2, <1>3, <2>1, <2>2, <2>3, <2>4 DEF RowsConserved, Stats
  <2> QED
    BY <1>3, <2>1, <2>3, <2>4, <2>5 DEF RowsInv
<1>5. ASSUME table'.files = table.files, UNCHANGED <<flushes, lost>>
      PROVE  RowsConserved'
  BY <1>2, <1>5 DEF RowsConserved, Stats
<1>6. ASSUME BeginApply PROVE RowsInv'
  BY <1>1, <1>5, <1>6, ApplyOutcome DEF BeginApply, history, RowsInv
<1>7. ASSUME GroupFiles PROVE RowsInv'
  <2>1. table'.files = table.files /\ TotalRows(packed') = TotalRows(table.files)
    BY <1>1, <1>7, ApplyOutcome
  <2>2. UNCHANGED <<flushes, lost>> /\ unseen = 0 /\ unseen' = 0
    BY <1>7 DEF GroupFiles, history, RowsInv
  <2>3. TotalRows(packed') + unseen' = TotalRows(table'.files)
    BY <1>3, <2>1, <2>2
  <2> QED
    BY <1>5, <2>1, <2>2, <2>3 DEF RowsInv
<1>8. ASSUME SwapFiles PROVE RowsInv'
  <2>1. table'.files = packed /\ TotalRows(packed) + unseen = TotalRows(table.files)
    BY <1>1, <1>8, ApplyOutcome DEF SwapFiles, RowsInv
  <2>2. lost' = lost + unseen /\ unseen' = 0 /\ pc' # "swap" /\ flushes' = flushes
    BY <1>8 DEF SwapFiles
  <2>3. TotalRows(table'.files) + lost' = TotalRows(flushes')
    BY <1>2, <1>3, <2>1, <2>2
  <2> QED
    BY <2>2, <2>3 DEF RowsInv, RowsConserved, Stats
<1>9. CASE /\ UNCHANGED <<table, flushes, lost>> /\ pc' # "swap"
           /\ unseen' = 0
  BY <1>5, <1>9 DEF RowsInv
<1>10. CASE UNCHANGED vars
  BY <1>10 DEF vars, RowsInv, RowsConserved
<1> QED
  BY <1>4, <1>6, <1>7, <1>8, <1>9, <1>10
     DEF Next, Cycle, Apply, StartCycle, SkipIncumbent, BeginShadow,
         ShadowEvaluate, Decide, CheckRows, Housekeep, Abort, CycleOver,
         history, RowsInv

(* Concurrent or not, every row is in the table, through compactions,      *)
(* promotions and cycles that end anywhere, unless it was flushed between  *)
(* the two ends of a rewrite.                                              *)
THEOREM LoopKeepsRows == Spec => []RowsConserved
<1>1. Init => RowsInv
  <2>1. TotalRows(<<>>) = 0
    <3>1. [i \in DOMAIN <<>> |-> <<>>[i].rows] = <<>>
      OBVIOUS
    <3> QED
      BY <3>1, SumEmpty DEF TotalRows
  <2> QED
    BY <2>1 DEF Init, EmptyTable, RowsInv, RowsConserved, Stats
<1>2. RowsInv => RowsConserved
  BY DEF RowsInv
<1> QED
  BY <1>1, <1>2, LoopInit, LoopStep, RowsStep, PTL DEF Spec

(* A layout comes into force in BeginApply and nowhere else.               *)
LEMMA OnlyApplyChangesLayout ==
    TypeOK /\ Pending /\ [Next]_vars /\ table'.layout # table.layout => BeginApply
<1> SUFFICES ASSUME TypeOK, Pending, [Next]_vars, table'.layout # table.layout
             PROVE  BeginApply
  OBVIOUS
<1>1. ASSUME NEW batch \in Batches, NEW part \in Partitions, Flush(batch, part)
      PROVE  table'.layout = table.layout
  BY <1>1, FlushOutcome DEF Flush, TypeOK, Tables, TablesOver
<1>2. ASSUME GroupFiles \/ SwapFiles PROVE table'.layout = table.layout
  BY <1>2, ApplyOutcome
<1> QED
  BY <1>1, <1>2 DEF Next, Cycle, Apply, StartCycle, SkipIncumbent, BeginShadow,
                    ShadowEvaluate, Decide, CheckRows, Housekeep, Abort, vars

(* A layout has been applied, rows checked, in CheckRows and nowhere else.  *)
LEMMA OnlyCheckAddsSnapshot ==
    TypeOK /\ [Next]_vars /\ snapshots' > snapshots => CheckRows
<1> SUFFICES ASSUME TypeOK, [Next]_vars, snapshots' > snapshots PROVE CheckRows
  OBVIOUS
<1>1. snapshots \in Nat /\ KeepLast \in Nat
  BY LoopAssumption DEF TypeOK
<1>2. ~(snapshots' = snapshots) /\ ~(snapshots' = KeepLast /\ snapshots > KeepLast)
  BY <1>1
<1> QED
  BY <1>2 DEF Next, Cycle, Apply, Flush, StartCycle, SkipIncumbent, BeginShadow,
              ShadowEvaluate, Decide, BeginApply, GroupFiles, SwapFiles,
              Housekeep, Abort, vars

(* The promotion on which a layout comes into force.                       *)
LEMMA AppliedOnPromotion ==
    ASSUME LoopInv, [Next]_vars, table'.layout # table.layout
    PROVE  LET decision == EvaluatePromotion(base, cand, Config)
           IN  /\ BeginApply
               /\ decision \in ledger /\ decision.promote
               /\ decision.baseline = base
               /\ decision.candidate.layout = table'.layout
<1> DEFINE decision == EvaluatePromotion(base, cand, Config)
<1>1. BeginApply
  BY OnlyApplyChangesLayout DEF LoopInv
<1>2. table'.layout = Head(queue) /\ cand.layout = Head(queue)
  BY <1>1, ApplyOutcome DEF LoopInv, BeginApply, Pending
<1>3. decision.promote /\ decision \in ledger
  BY <1>1 DEF BeginApply, LoopInv, Audited
<1>4. decision.candidate = cand /\ decision.baseline = base
  BY DEF EvaluatePromotion
<1> QED
  BY <1>1, <1>2, <1>3, <1>4

(* Whatever the stream does meanwhile, the layout changes only to one      *)
(* whose promotion is already in the ledger.                               *)
THEOREM LoopIsAudited == Spec => LayoutChangeIsAudited
<1>1. LoopInv /\ [Next]_vars =>
          [table'.layout # table.layout =>
              \E d \in ledger : d.promote /\ d.candidate.layout = table'.layout]_vars
  BY AppliedOnPromotion
<1> QED
  BY <1>1, LoopInit, LoopStep, PTL DEF Spec, LayoutChangeIsAudited

-----------------------------------------------------------------------------
(* Flushes kept out of a cycle, as run_once is used in the tests and the   *)
(* demo: what was counted and measured is then still true of the table     *)
(* when it is decided and acted upon.  The run "stale_decision" shows that *)
(* a concurrent flush breaks exactly this.                                 *)

(* The table once the files packed for the layout in force replace its own. *)
PackedTable == RewriteDataFiles(table, Head(queue).target_file_mb)

Current ==
    /\ pc \in {"search", "shadow", "decide", "apply"} => base = BaselineResult(table)
    /\ pc \in {"decide", "apply"} => cand = ShadowResult(table, Head(queue))
    /\ pc = "rewrite" => cand = BaselineResult(PackedTable)
    /\ pc = "swap" => cand = BaselineResult([table EXCEPT !.files = packed])
    /\ pc = "check" => cand = BaselineResult(table)
    /\ pc \in {"rewrite", "swap"} =>
           /\ base.layout \in Layouts
           /\ base.p95_latency_ms = MeasureP95Latency(table)

Counted ==
    /\ pc \in {"shadow", "rewrite", "check"} => before = TotalRows(table.files)
    /\ pc = "swap" => before = TotalRows(packed) /\ before = TotalRows(table.files)

Unlost == unseen = 0 /\ lost = 0

(* Each step keeps the measurements current.                               *)
LEMMA CurrentStep ==
    ASSUME ~ConcurrentIngest, TypeOK, Pending, Current, [Next]_vars
    PROVE  Current'
<1>t. table \in Tables
  BY DEF TypeOK, Tables, TablesOver
<1>1. ASSUME NEW batch \in Batches, NEW part \in Partitions, Flush(batch, part)
      PROVE  Current'
  BY <1>1 DEF Flush, cycleVars, Current
<1>2. ASSUME CycleOver PROVE Current'
  BY <1>2 DEF CycleOver, Current
<1>3. ASSUME StartCycle PROVE Current'
  BY <1>3 DEF StartCycle, Current
<1>4. ASSUME SkipIncumbent PROVE Current'
  BY <1>4 DEF SkipIncumbent, Current
<1>5. ASSUME BeginShadow PROVE Current'
  BY <1>5 DEF BeginShadow, Current
<1>6. ASSUME ShadowEvaluate PROVE Current'
  BY <1>2, <1>6 DEF ShadowEvaluate, ShadowResult, Current
<1>7. ASSUME Decide PROVE Current'
  BY <1>7 DEF Decide, Current
<1>8. ASSUME BeginApply PROVE Current'
  <2>1. table' \in Tables /\ table'.files = table.files
    BY <1>8, ApplyOutcome
  <2>2. MeasureP95Latency(table') = MeasureP95Latency(table)
    BY <1>t, <2>1, LatencyIsOfFiles
  <2>3. MeasureP95Latency(table)' = MeasureP95Latency(table')
    OBVIOUS
  <2>4. base = BaselineResult(table) /\ cand = ShadowResult(table, Head(queue))
    BY <1>8 DEF BeginApply, Current
  <2>5. UNCHANGED <<queue, base, cand>> /\ pc' = "rewrite"
           /\ table' = [table EXCEPT !.layout = Head(queue)]
    BY <1>8 DEF BeginApply
  <2>6. cand = BaselineResult(RewriteDataFiles(table', Head(queue).target_file_mb))
    BY <2>4, <2>5 DEF ShadowResult, Relayout
  <2>7. base.layout \in Layouts /\ base.p95_latency_ms = MeasureP95Latency(table)
    BY <1>t, <2>4 DEF BaselineResult, Tables, TablesOver
  <2> QED
    BY <2>2, <2>3, <2>5, <2>6, <2>7 DEF Current, PackedTable
<1>9. ASSUME GroupFiles PROVE Current'
  <2> DEFINE out == PackedTable
  <2>1. /\ packed' = out.files /\ table' = [out EXCEPT !.files = table.files]
        /\ pc' = IF table.files = <<>> THEN "check" ELSE "swap"
        /\ UNCHANGED <<queue, base, cand>> /\ pc = "rewrite"
    BY <1>9 DEF GroupFiles, PackedTable
  <2>2. Head(queue) \in Layouts
    BY <2>1 DEF Pending, TypeOK, Layouts
  <2>3. /\ [table' EXCEPT !.files = packed'] = out
        /\ table' \in Tables /\ table'.files = table.files
        /\ table.files = <<>> => table' = out
    <3>1. /\ [[out EXCEPT !.files = table.files] EXCEPT !.files = out.files] = out
          /\ [out EXCEPT !.files = table.files] \in Tables
          /\ table.files = <<>> => out.files = <<>>
          /\ out \in Tables
      BY <1>t, <2>2, ApplyPhases DEF PackedTable
    <3> HIDE DEF out
    <3>2. out = [layout |-> out.layout, files |-> out.files,
                 bytes_rewritten_mb |-> out.bytes_rewritten_mb]
      BY <3>1 DEF Tables, TablesOver
    <3>3. table.files = <<>> => [out EXCEPT !.files = table.files] = out
      BY <3>1, <3>2
    <3>4. [out EXCEPT !.files = table.files].files = table.files
      BY <3>2
    <3> QED
      BY <2>1, <3>1, <3>3, <3>4
  <2>4. cand = BaselineResult(out) /\ base.layout \in Layouts
           /\ base.p95_latency_ms = MeasureP95Latency(table)
    BY <2>1 DEF Current
  <2>5. MeasureP95Latency(table') = MeasureP95Latency(table)
    BY <1>t, <2>3, LatencyIsOfFiles
  <2>6. MeasureP95Latency(table)' = MeasureP95Latency(table')
    OBVIOUS
  <2> HIDE DEF out
  <2> QED
    BY <2>1, <2>3, <2>4, <2>5, <2>6 DEF Current
<1>10. ASSUME SwapFiles PROVE Current'
  BY <1>10 DEF SwapFiles, Current
<1>11. ASSUME CheckRows PROVE Current'
  BY <1>2, <1>11 DEF CheckRows, Current
<1>12. ASSUME Housekeep \/ Abort PROVE Current'
  BY <1>2, <1>12 DEF Housekeep, Abort
<1>13. CASE UNCHANGED vars
  BY <1>13 DEF vars, Current, PackedTable
<1> QED
  BY <1>1, <1>3, <1>4, <1>5, <1>6, <1>7, <1>8, <1>9, <1>10, <1>11, <1>12, <1>13
     DEF Next, Cycle, Apply

(* Each step keeps the row counts that will be compared those of the table. *)
LEMMA CountedStep ==
    ASSUME ~ConcurrentIngest, TypeOK, Pending, Counted, [Next]_vars
    PROVE  Counted'
<1>1. ASSUME NEW batch \in Batches, NEW part \in Partitions, Flush(batch, part)
      PROVE  Counted'
  BY <1>1 DEF Flush, cycleVars, Counted
<1>2. ASSUME CycleOver PROVE Counted'
  BY <1>2 DEF CycleOver, Counted
<1>3. ASSUME BeginApply PROVE Counted'
  BY <1>3, ApplyOutcome DEF BeginApply, Counted
<1>4. ASSUME GroupFiles PROVE Counted'
  <2>1. table'.files = table.files /\ TotalRows(packed') = TotalRows(table.files)
    BY <1>4, ApplyOutcome
  <2>2. before' = before /\ before = TotalRows(table.files)
    BY <1>4 DEF GroupFiles, Counted
  <2> QED
    BY <2>1, <2>2 DEF Counted
<1>5. ASSUME SwapFiles PROVE Counted'
  BY <1>5, ApplyOutcome DEF SwapFiles, Counted
<1>6. CASE UNCHANGED vars
  BY <1>6 DEF vars, Counted
<1>7. ASSUME BeginShadow PROVE Counted'
  BY <1>7 DEF BeginShadow, Counted, Stats
<1>8. ASSUME StartCycle \/ SkipIncumbent \/ Decide PROVE Counted'
  BY <1>8 DEF StartCycle, SkipIncumbent, Decide, Counted
<1>9. ASSUME ShadowEvaluate \/ CheckRows PROVE Counted'
  BY <1>2, <1>9 DEF ShadowEvaluate, CheckRows, Counted
<1>10. ASSUME Housekeep \/ Abort PROVE Counted'
  BY <1>2, <1>10 DEF Housekeep, Abort
<1> QED
  BY <1>1, <1>3, <1>4, <1>5, <1>6, <1>7, <1>8, <1>9, <1>10 DEF Next, Cycle, Apply

(* No flush falls inside a rewrite, so that no swap discards one.          *)
LEMMA UnlostStep ==
    ASSUME ~ConcurrentIngest, Unlost, [Next]_vars PROVE Unlost'
<1>1. ASSUME NEW batch \in Batches, NEW part \in Partitions, Flush(batch, part)
      PROVE  Unlost'
  BY <1>1 DEF Flush, Unlost
<1> QED
  BY <1>1 DEF Next, Cycle, Apply, StartCycle, SkipIncumbent, BeginShadow,
              ShadowEvaluate, Decide, BeginApply, GroupFiles, SwapFiles,
              CheckRows, Housekeep, Abort, history, vars, Unlost

QuietInv == LoopInv /\ RowsConserved /\ Current /\ Counted /\ Unlost

(* All of it holds in every reachable state.                               *)
LEMMA QuietAlways ==
    ASSUME ~ConcurrentIngest PROVE Spec => []QuietInv
<1> DEFINE Inv == LoopInv /\ RowsInv /\ Current /\ Counted /\ Unlost
<1>1. Init => Inv
  <2>1. TotalRows(<<>>) = 0
    <3>1. [i \in DOMAIN <<>> |-> <<>>[i].rows] = <<>>
      OBVIOUS
    <3> QED
      BY <3>1, SumEmpty DEF TotalRows
  <2>2. Init => RowsInv
    BY <2>1 DEF Init, EmptyTable, RowsInv, RowsConserved, Stats
  <2> QED
    BY <2>2, LoopInit DEF Init, Current, Counted, Unlost
<1>2. Inv /\ [Next]_vars => Inv'
  BY LoopStep, RowsStep, CurrentStep, CountedStep, UnlostStep DEF LoopInv
<1>3. Inv => QuietInv
  BY DEF QuietInv, RowsInv
<1> HIDE DEF Inv
<1> QED
  BY <1>1, <1>2, <1>3, PTL DEF Spec

(* Without concurrent flushes no row is ever lost.                         *)
AllRowsInTable == Stats(table).rows = TotalRows(flushes)

THEOREM QuietLoopLosesNothing ==
    ASSUME ~ConcurrentIngest PROVE Spec => []AllRowsInTable
<1>1. QuietInv => AllRowsInTable
  <2> SUFFICES ASSUME QuietInv PROVE Stats(table).rows = TotalRows(flushes)
    BY DEF AllRowsInTable
  <2>1. Stats(table).rows + lost = TotalRows(flushes) /\ lost = 0
    BY DEF QuietInv, RowsConserved, Unlost
  <2>2. Stats(table).rows \in Int
    BY StatisticsTypes DEF QuietInv, LoopInv, TypeOK, Stats
  <2> QED
    BY <2>1, <2>2
<1> QED
  BY <1>1, QuietAlways, PTL

(* Nor does shadow_evaluate or apply_layout ever raise: whenever one of    *)
(* them compares row counts, after whatever flushes, compactions, changes  *)
(* of layout and killed cycles, the two are equal.  With concurrent        *)
(* flushes both may raise.                                                 *)
NoCheckRaises ==
    /\ pc = "shadow" => Stats(Relayout(table, Head(queue))).rows = before
    /\ pc = "check" => Stats(table).rows = before

THEOREM RowChecksPass ==
    ASSUME ~ConcurrentIngest PROVE Spec => []NoCheckRaises
<1>1. QuietInv => NoCheckRaises
  <2> SUFFICES ASSUME QuietInv PROVE NoCheckRaises
    OBVIOUS
  <2>1. ASSUME pc = "shadow" PROVE Stats(Relayout(table, Head(queue))).rows = before
    <3>1. table \in Tables /\ Head(queue) \in Layouts
      BY <2>1 DEF QuietInv, LoopInv, TypeOK, Pending, Tables, TablesOver, Layouts
    <3>2. TotalRows(Relayout(table, Head(queue)).files) = TotalRows(table.files)
      BY <3>1, RelayoutOutcome
    <3> QED
      BY <2>1, <3>2 DEF QuietInv, Counted, Stats
  <2>2. pc = "check" => Stats(table).rows = before
    BY DEF QuietInv, Counted, Stats
  <2> QED
    BY <2>1, <2>2 DEF NoCheckRaises
<1> QED
  BY <1>1, QuietAlways, PTL

(* Without concurrent flushes the ledger tells the truth about every       *)
(* layout that was applied: its metrics are those of production.           *)
THEOREM AuditIsReal ==
    ASSUME ~ConcurrentIngest PROVE Spec => AuditedMetricsAreReal
<1> DEFINE Audit ==
        /\ table'.layout # table.layout =>
               \E d \in ledger : /\ d.promote
                                 /\ d.baseline = BaselineResult(table)
                                 /\ d.candidate.layout = table'.layout
        /\ snapshots' > snapshots =>
               \E d \in ledger : /\ d.promote
                                 /\ d.candidate = BaselineResult(table')
<1> DEFINE decision == EvaluatePromotion(base, cand, Config)
<1>1. ASSUME QuietInv, [Next]_vars, table'.layout # table.layout
      PROVE  \E d \in ledger : /\ d.promote
                               /\ d.baseline = BaselineResult(table)
                               /\ d.candidate.layout = table'.layout
  <2>1. /\ BeginApply /\ decision \in ledger /\ decision.promote
        /\ decision.baseline = base /\ decision.candidate.layout = table'.layout
    BY <1>1, AppliedOnPromotion DEF QuietInv
  <2>2. base = BaselineResult(table)
    BY <1>1, <2>1 DEF BeginApply, QuietInv, Current
  <2> QED
    BY <2>1, <2>2
<1>2. ASSUME QuietInv, [Next]_vars, snapshots' > snapshots
      PROVE  \E d \in ledger : d.promote /\ d.candidate = BaselineResult(table')
  <2>1. CheckRows
    BY <1>2, OnlyCheckAddsSnapshot DEF QuietInv, LoopInv
  <2>2. decision.promote /\ decision \in ledger /\ decision.candidate = cand
    BY <1>2, <2>1 DEF CheckRows, QuietInv, LoopInv, Audited, EvaluatePromotion
  <2>3. table' = table /\ cand = BaselineResult(table)
    BY <1>2, <2>1 DEF CheckRows, QuietInv, Current
  <2> QED
    BY <2>2, <2>3
<1>3. QuietInv /\ [Next]_vars => [Audit]_vars
  BY <1>1, <1>2
<1> QED
  BY <1>3, QuietAlways, PTL DEF Spec, AuditedMetricsAreReal

(* What a query can tell of one step: the layout in force is the same, or  *)
(* a layout of the grid has taken its place with every row still there and *)
(* the latency within the tolerance.                                       *)
LEMMA InForceStep ==
    ASSUME ~ConcurrentIngest, QuietInv, [Next]_vars
    PROVE  \/ LayoutInForce' = LayoutInForce
           \/ /\ LayoutInForce' \in Layouts
              /\ Stats(table').rows = Stats(table).rows
              /\ 100 * MeasureP95Latency(table')
                     <= (100 + Config.latency_regression_tol_pct)
                            * MeasureP95Latency(table)
<1> DEFINE Kept == /\ LayoutInForce' \in Layouts
                   /\ Stats(table').rows = Stats(table).rows
                   /\ 100 * MeasureP95Latency(table')
                         <= (100 + Config.latency_regression_tol_pct)
                                * MeasureP95Latency(table)
           Goal == LayoutInForce' = LayoutInForce \/ Kept
<1>0. /\ TypeOK /\ Pending /\ Audited /\ Current /\ Counted /\ TypeOK'
      /\ table \in Tables /\ table' \in Tables
  BY LoopStep DEF QuietInv, LoopInv, TypeOK, Tables, TablesOver
<1>1. ASSUME table'.files = table.files, LayoutInForce' \in Layouts PROVE Kept
  <2>1. MeasureP95Latency(table') = MeasureP95Latency(table)
    BY <1>0, <1>1, LatencyIsOfFiles
  <2>2. MeasureP95Latency(table) \in Nat
    BY <1>0, PercentileIsFullScan DEF Tables, TablesOver
  <2>3. Config.latency_regression_tol_pct \in Nat
    BY LoopAssumption DEF GuardConfig
  <2> DEFINE p == MeasureP95Latency(table)
             tol == Config.latency_regression_tol_pct
  <2>4. 100 * p <= (100 + tol) * p
    <3> HIDE DEF p, tol
    <3>1. p \in Nat /\ tol \in Nat
      BY <2>2, <2>3 DEF p, tol
    <3>2. tol * p \in Nat
      BY <3>1
    <3>3. (100 + tol) * p = 100 * p + tol * p
      BY <3>1
    <3> QED
      BY <3>1, <3>2, <3>3
  <2>5. Stats(table').rows = Stats(table).rows
    BY <1>1 DEF Stats
  <2> QED
    BY <1>1, <2>1, <2>4, <2>5
<1>2. table'.layout \in Layouts /\ table.layout \in Layouts
  BY <1>0 DEF Tables, TablesOver
<1>3. ASSUME BeginApply PROVE Goal
  BY <1>0, <1>3 DEF BeginApply, Current, BaselineResult, LayoutInForce
<1>4. ASSUME GroupFiles PROVE Goal
  <2>1. table'.files = table.files /\ base' = base
    BY <1>0, <1>4, ApplyOutcome DEF GroupFiles
  <2>2. CASE pc' = "swap"
    BY <1>4, <2>1, <2>2 DEF GroupFiles, LayoutInForce
  <2>3. CASE pc' = "check"
    BY <1>1, <1>2, <2>1, <2>3 DEF LayoutInForce
  <2> QED
    BY <1>4, <2>2, <2>3 DEF GroupFiles
<1>5. ASSUME SwapFiles PROVE Goal
  <2>1. LayoutInForce' \in Layouts
    BY <1>2, <1>5 DEF SwapFiles, LayoutInForce
  <2>2. Stats(table').rows = Stats(table).rows
    BY <1>0, <1>5, ApplyOutcome DEF SwapFiles, Counted, Stats
  <2>3. cand = BaselineResult(table') /\ base.p95_latency_ms = MeasureP95Latency(table)
    BY <1>0, <1>5 DEF SwapFiles, Current
  <2>4. EvaluatePromotion(base, cand, Config).promote
    BY <1>0, <1>5 DEF SwapFiles, Audited
  <2>5. 100 * cand.p95_latency_ms
            <= (100 + Config.latency_regression_tol_pct) * base.p95_latency_ms
    BY <2>4, PromotionIsSound, LoopAssumption
  <2>6. cand.p95_latency_ms = MeasureP95Latency(table')
    BY <2>3 DEF BaselineResult
  <2> QED
    BY <2>1, <2>2, <2>3, <2>5, <2>6
<1>6. ASSUME Abort PROVE Goal
  BY <1>1, <1>2, <1>6 DEF Abort, CycleOver, LayoutInForce
<1>7. ASSUME NEW batch \in Batches, NEW part \in Partitions, Flush(batch, part)
      PROVE  Goal
  <2>1. table'.layout = table.layout
    BY <1>0, <1>7, FlushOutcome DEF Flush
  <2> QED
    BY <1>7, <2>1 DEF Flush, cycleVars, LayoutInForce
<1>8. CASE UNCHANGED vars
  BY <1>8 DEF vars, LayoutInForce
<1>9. ASSUME table' = table, pc \notin {"rewrite", "swap"},
             pc' \notin {"rewrite", "swap"}
      PROVE  Goal
  BY <1>9 DEF LayoutInForce
<1>10. ASSUME ShadowEvaluate \/ CheckRows PROVE Goal
  BY <1>9, <1>10 DEF ShadowEvaluate, CheckRows, CycleOver
<1>11. ASSUME StartCycle \/ SkipIncumbent \/ BeginShadow \/ Decide \/ Housekeep
       PROVE  Goal
  BY <1>9, <1>11 DEF StartCycle, SkipIncumbent, BeginShadow, Decide, Housekeep,
                     CycleOver
<1>12. Cycle => Goal
  BY <1>3, <1>4, <1>5, <1>10, <1>11 DEF Cycle, Apply
<1>13. (\E batch \in Batches, part \in Partitions : Flush(batch, part)) => Goal
  BY <1>7
<1> QED
  BY <1>6, <1>8, <1>12, <1>13 DEF Next

(* Without concurrent flushes the loop implements the abstract table: no   *)
(* change of layout, and no half done one, loses a row or makes queries    *)
(* slower than tolerated.                                                  *)
THEOREM LoopImplementsNonRegressingTable ==
    ASSUME ~ConcurrentIngest PROVE Spec => ImplementsNonRegressingTable
<1>1. Init => Abstract!Init
  BY DEF Init, EmptyTable, Abstract!Init, Layouts, LayoutInForce
<1>2. QuietInv /\ [Next]_vars =>
          [Abstract!Next]_<<LayoutInForce, Stats(table).rows,
                            MeasureP95Latency(table)>>
  <2> SUFFICES ASSUME QuietInv, [Next]_vars PROVE Abstract!Next
    OBVIOUS
  <2> QED
    BY InForceStep DEF Abstract!Next, Abstract!Ingest, Abstract!Relayout
<1> QED
  BY <1>1, <1>2, QuietAlways, PTL
     DEF Spec, ImplementsNonRegressingTable, Abstract!Spec

(* The README's promise, where it can be kept: without a concurrent flush  *)
(* and with the default tolerance of zero, no change of layout ever makes  *)
(* the table slower.  The run "stale_decision" shows the first condition   *)
(* to be necessary.                                                        *)
THEOREM QuietLoopNeverMakesItWorse ==
    ASSUME ~ConcurrentIngest, Config.latency_regression_tol_pct = 0
    PROVE  Spec => NeverMakesTheTableWorse
<1>1. QuietInv /\ [Next]_vars =>
          [LayoutInForce' # LayoutInForce =>
              MeasureP95Latency(table') <= MeasureP95Latency(table)]_vars
  <2> SUFFICES ASSUME QuietInv, [Next]_vars, LayoutInForce' # LayoutInForce
               PROVE  MeasureP95Latency(table') <= MeasureP95Latency(table)
    OBVIOUS
  <2>1. 100 * MeasureP95Latency(table')
            <= (100 + Config.latency_regression_tol_pct) * MeasureP95Latency(table)
    BY InForceStep
  <2>2. table \in Tables /\ table' \in Tables
    BY TypeStep DEF QuietInv, LoopInv, TypeOK, Tables, TablesOver
  <2>3. MeasureP95Latency(table) \in Nat /\ MeasureP95Latency(table') \in Nat
    BY <2>2, PercentileIsFullScan DEF Tables, TablesOver
  <2> QED
    BY <2>1, <2>3
<1> QED
  BY <1>1, QuietAlways, PTL DEF Spec, NeverMakesTheTableWorse

(* Why the loop cannot go round in circles: where some improvement is      *)
(* asked for, a layout that has been applied leaves the objective, a       *)
(* natural number, strictly below what it was when the cycle began.  Only  *)
(* a flush, or a rewrite killed before its files are in place (its bytes   *)
(* are counted), can bring it up again.  The rest of LoopSettles is        *)
(* fairness, which TLC checks.                                             *)
ObjectiveFalls ==
    [][snapshots' > snapshots =>
          /\ Objective(base, Config) \in Nat
          /\ Objective(BaselineResult(table'), Config) \in Nat
          /\ Objective(BaselineResult(table'), Config) < Objective(base, Config)]_vars

BaseIsMeasured == pc # "idle" => Objective(base, Config) \in Nat

LEMMA MeasuredObjective ==
    ASSUME NEW t \in Tables PROVE Objective(BaselineResult(t), Config) \in Nat
<1>1. t.files \in Seq(File(Partitions)) /\ t.bytes_rewritten_mb \in Nat
  BY DEF Tables, TablesOver
<1>2. MeasureP95Latency(t) \in Nat /\ TotalMb(t.files) \in Nat
  BY <1>1, PercentileIsFullScan, StatisticsTypes
<1> DEFINE m == BaselineResult(t)
<1>3. /\ m.p95_latency_ms \in Nat /\ m.storage_cost \in Nat
      /\ m.write_amplification \in Nat
  BY <1>1, <1>2 DEF BaselineResult, StorageCostUnits, Stats
<1> HIDE DEF m
<1>4. Objective(m, Config) \in Nat
  BY <1>3, ObjectiveIsNatural, LoopAssumption
<1> QED
  BY <1>4 DEF m

(* The baseline keeps the objective it was measured with.                  *)
LEMMA BaseStep == TypeOK /\ BaseIsMeasured /\ [Next]_vars => BaseIsMeasured'
<1> SUFFICES ASSUME TypeOK, BaseIsMeasured, [Next]_vars PROVE BaseIsMeasured'
  OBVIOUS
<1>1. ASSUME StartCycle PROVE BaseIsMeasured'
  <2>1. table \in Tables
    BY DEF TypeOK, Tables, TablesOver
  <2>2. base' = BaselineResult(table)
    BY <1>1 DEF StartCycle
  <2> QED
    BY <2>1, <2>2, MeasuredObjective DEF BaseIsMeasured
<1>2. CASE pc # "idle" /\ base' = base
  BY <1>2 DEF BaseIsMeasured
<1>3. CASE UNCHANGED <<pc, base>>
  BY <1>3 DEF BaseIsMeasured
<1>4. CASE CycleOver
  BY <1>4 DEF CycleOver, BaseIsMeasured
<1> QED
  BY <1>1, <1>2, <1>3, <1>4
     DEF Next, Cycle, Apply, Flush, cycleVars, SkipIncumbent, BeginShadow,
         ShadowEvaluate, Decide, BeginApply, GroupFiles, SwapFiles, CheckRows,
         Housekeep, Abort, vars

THEOREM PromotionsMakeProgress ==
    ASSUME ~ConcurrentIngest, Config.min_improvement_pct > 0
    PROVE  Spec => ObjectiveFalls
<1> DEFINE Falls == /\ Objective(base, Config) \in Nat
                    /\ Objective(BaselineResult(table'), Config) \in Nat
                    /\ Objective(BaselineResult(table'), Config)
                           < Objective(base, Config)
<1>1. ASSUME QuietInv, BaseIsMeasured, [Next]_vars, snapshots' > snapshots
      PROVE  Falls
  <2>1. CheckRows
    BY <1>1, OnlyCheckAddsSnapshot DEF QuietInv, LoopInv
  <2>2. EvaluatePromotion(base, cand, Config).promote
    BY <1>1, <2>1 DEF CheckRows, QuietInv, LoopInv, Audited
  <2>3. cand = BaselineResult(table')
    BY <1>1, <2>1 DEF CheckRows, QuietInv, Current
  <2>4. table' \in Tables
    BY <1>1, TypeStep DEF QuietInv, LoopInv, TypeOK, Tables, TablesOver
  <2>5. Objective(cand, Config) \in Nat
    BY <2>3, <2>4, MeasuredObjective
  <2>6. Objective(base, Config) \in Nat
    BY <1>1, <2>1 DEF CheckRows, BaseIsMeasured
  <2>7. Objective(cand, Config) < Objective(base, Config)
    BY <2>2, <2>5, <2>6, PromotionLowersObjective, LoopAssumption
  <2> QED
    BY <2>3, <2>5, <2>6, <2>7
<1>2. QuietInv /\ BaseIsMeasured /\ [Next]_vars =>
          [snapshots' > snapshots => Falls]_vars
  BY <1>1
<1>3. Init => BaseIsMeasured
  BY DEF Init, BaseIsMeasured
<1>4. QuietInv => TypeOK
  BY DEF QuietInv, LoopInv
<1> QED
  BY <1>2, <1>3, <1>4, BaseStep, QuietAlways, PTL DEF Spec, ObjectiveFalls

-----------------------------------------------------------------------------
(* A cycle that tries the whole grid misses nothing.  What holds while it  *)
(* is under way: a layout of the grid is still in the queue, or is the     *)
(* incumbent, or is one that the guard refuses for the table as it is.     *)

Refused(layout) ==
    ~EvaluatePromotion(BaselineResult(table), ShadowResult(table, layout),
                       Config).promote

Queued(layout) == \E i \in 1..Len(queue) : queue[i] = layout

Exhaustive ==
    pc \in {"search", "shadow", "decide"} /\ TopK >= Cardinality(Grid) =>
        \A layout \in Grid : Queued(layout) \/ layout = table.layout
                                            \/ Refused(layout)

(* A ranking that is not cut names every layout of the grid: by counting,  *)
(* an injection into a set of the same size is onto.                       *)
LEMMA RankingCoversGrid ==
    ASSUME TopK >= Cardinality(Grid), NEW r \in Rankings, NEW layout \in Grid
    PROVE  \E i \in 1..Len(r) : r[i] = layout
<1> DEFINE k == IF TopK < Cardinality(Grid) THEN TopK ELSE Cardinality(Grid)
<1>1. Cardinality(Grid) \in Nat /\ IsFiniteSet(Grid) /\ TopK \in Nat
  BY LoopAssumption, FS_CardinalityType
<1>2. k = Cardinality(Grid) /\ k \in Nat
  BY <1>1
<1>3. r \in [1..k -> Grid] /\ IsInjective(r)
  BY DEF Rankings
<1> HIDE DEF k
<1>4. r \in Injection(1..k, Grid)
  BY <1>3 DEF Injection
<1>5. Cardinality(1..k) = Cardinality(Grid)
  BY <1>1, <1>2, FS_Interval
<1>6. r \in Surjection(1..k, Grid)
  BY <1>1, <1>4, <1>5, FS_Injection
<1>7. \E i \in 1..k : r[i] = layout
  BY <1>6 DEF Surjection
<1>8. Len(r) = k
  BY <1>2, <1>3
<1> QED
  BY <1>7, <1>8

(* What is queued is at the head, or still queued when the head is gone.   *)
LEMMA HeadOrTail ==
    ASSUME NEW q \in Seq(Grid), q # <<>>, NEW i \in 1..Len(q)
    PROVE  q[i] = Head(q) \/ \E j \in 1..Len(Tail(q)) : Tail(q)[j] = q[i]
<1>1. CASE i = 1
  BY <1>1
<1>2. CASE i # 1
  <2>1. i - 1 \in 1..Len(Tail(q)) /\ Tail(q)[i - 1] = q[i]
    BY <1>2
  <2> QED
    BY <2>1
<1> QED
  BY <1>1, <1>2

(* Each step keeps the search exhaustive.                                  *)
LEMMA ExhaustiveStep ==
    ASSUME ~ConcurrentIngest, TypeOK, Pending, Current, Exhaustive, [Next]_vars
    PROVE  Exhaustive'
<1>1. ASSUME NEW batch \in Batches, NEW part \in Partitions, Flush(batch, part)
      PROVE  Exhaustive'
  BY <1>1 DEF Flush, cycleVars, Exhaustive
<1>2. ASSUME StartCycle PROVE Exhaustive'
  BY <1>2, RankingCoversGrid DEF StartCycle, Exhaustive, Queued
<1>3. ASSUME SkipIncumbent PROVE Exhaustive'
  <2> SUFFICES ASSUME TopK >= Cardinality(Grid), NEW layout \in Grid,
                      layout # table.layout, ~Refused(layout)
               PROVE  \E j \in 1..Len(Tail(queue)) : Tail(queue)[j] = layout
    BY <1>3 DEF SkipIncumbent, Exhaustive, Queued, Refused
  <2>1. PICK i \in 1..Len(queue) : queue[i] = layout
    BY <1>3 DEF SkipIncumbent, Exhaustive, Queued
  <2>2. queue \in Seq(Grid) /\ queue # <<>> /\ Head(queue) = table.layout
    BY <1>3 DEF SkipIncumbent, TypeOK
  <2> QED
    BY <2>1, <2>2, HeadOrTail
<1>4. ASSUME BeginShadow \/ ShadowEvaluate PROVE Exhaustive'
  BY <1>4 DEF BeginShadow, ShadowEvaluate, CycleOver, Exhaustive, Queued, Refused
<1>5. ASSUME Decide PROVE Exhaustive'
  <2> SUFFICES ASSUME TopK >= Cardinality(Grid), NEW layout \in Grid,
                      pc' = "search",
                      layout # table.layout, ~Refused(layout)
               PROVE  \E j \in 1..Len(Tail(queue)) : Tail(queue)[j] = layout
    BY <1>5 DEF Decide, Exhaustive, Queued, Refused
  <2>1. PICK i \in 1..Len(queue) : queue[i] = layout
    BY <1>5 DEF Decide, Exhaustive, Queued
  <2>2. ~EvaluatePromotion(base, cand, Config).promote
    BY <1>5 DEF Decide
  <2>3. base = BaselineResult(table) /\ cand = ShadowResult(table, Head(queue))
    BY <1>5 DEF Decide, Current
  <2>4. Refused(Head(queue))
    BY <2>2, <2>3 DEF Refused
  <2>5. queue \in Seq(Grid) /\ queue # <<>>
    BY <1>5 DEF Decide, TypeOK, Pending
  <2> QED
    BY <2>1, <2>4, <2>5, HeadOrTail
<1>6. ASSUME Apply \/ Housekeep \/ Abort PROVE Exhaustive'
  BY <1>6 DEF Apply, BeginApply, GroupFiles, SwapFiles, CheckRows, Housekeep,
              Abort, CycleOver, Exhaustive
<1>7. CASE UNCHANGED vars
  BY <1>7 DEF vars, Exhaustive, Queued, Refused
<1> QED
  BY <1>1, <1>2, <1>3, <1>4, <1>5, <1>6, <1>7 DEF Next, Cycle

(* Without concurrent flushes, a cycle that tried every layout and         *)
(* promoted none leaves a table that no layout of the grid would improve,  *)
(* whatever the ranking was.                                               *)
THEOREM SearchIsExhaustive ==
    ASSUME ~ConcurrentIngest PROVE Spec => []NoImprovementMissed
<1>1. Init => Exhaustive
  BY DEF Init, Exhaustive
<1>2. QuietInv /\ Exhaustive /\ [Next]_vars => Exhaustive'
  BY ExhaustiveStep DEF QuietInv, LoopInv
<1>3. Exhaustive => NoImprovementMissed
  <2> SUFFICES ASSUME Exhaustive, pc = "search", queue = <<>>,
                      TopK >= Cardinality(Grid),
                      NEW layout \in Grid \ {table.layout}
               PROVE  Refused(layout)
    BY DEF NoImprovementMissed, Improvable, Refused
  <2>1. ~Queued(layout)
    BY DEF Queued
  <2> QED
    BY <2>1 DEF Exhaustive
<1> QED
  BY <1>1, <1>2, <1>3, QuietAlways, PTL DEF Spec
=============================================================================
