--------------------------- MODULE MaintenanceLoop ---------------------------
(***************************************************************************)
(* The control loop: orchestrator.run_once over shadow_eval, the guard and *)
(* SimBackend, next to the stream that keeps flushing files into the same  *)
(* table.  One run_once is                                                 *)
(*    StartCycle     rank the layouts, measure the incumbent as it is,     *)
(*    SkipIncumbent, BeginShadow, ShadowEvaluate, Decide                   *)
(*                   for each of the top k,                                *)
(*    BeginApply, GroupFiles, SwapFiles, CheckRows                         *)
(*                   apply the first layout the guard promotes, if any,    *)
(*    Housekeep      expire snapshots, delete orphans, return.             *)
(* The cost model only ranks, so its ranking is arbitrary here.            *)
(*                                                                         *)
(* With ConcurrentIngest the stream flushes at any moment, as the Flink    *)
(* job of docs/architecture.md does; without it, only between two cycles,  *)
(* as in the tests and the demo.  A flush is one step, and so is the copy  *)
(* or the measurement of a table: a flush falls before or after them, and  *)
(* between any two reads or writes that steps of the cycle keep apart.  A  *)
(* cycle may die at any point (an exception, a killed Airflow task): what  *)
(* it did to the table and to the ledger stays.                            *)
(***************************************************************************)
EXTENDS Benchmark, RegressionGuard

CONSTANTS
    Partitions, Batches,   \* what a checkpoint flush may bring
    Grid,                  \* candidate_layouts() of layout_search.py
    InitialLayout,         \* the layout of the table at the start
    TopK, KeepLast,        \* top_k and snapshot_keep_last of run_once
    Config,                \* the GuardConfig
    ConcurrentIngest,      \* may a flush fall inside a cycle?
    MaxFlushes,            \* bound on the number of flushes
    MaxAborts              \* bound on cycles that die in a row

Layouts == Grid \cup {InitialLayout}

ASSUME LoopAssumption ==
    /\ IsFiniteSet(Grid) /\ Grid # {}
    /\ \A layout \in Layouts : ValidLayout(layout)
    /\ Batches \subseteq [mb : Nat, rows : Nat]
    /\ TopK \in Nat /\ KeepLast \in Nat
    /\ Config \in GuardConfig
    /\ ConcurrentIngest \in BOOLEAN

VARIABLES
    table,      \* the production table (TableStats)
    snapshots,  \* SimBackend: number of maintenance snapshots kept
    ledger,     \* decisions in the promotion ledger, timestamps left out
    pc,         \* where run_once stands
    queue,      \* ranked[:top_k], less what the loop is done with
    base,       \* baseline_result of this cycle
    cand,       \* shadow measurement of Head(queue)
    before,     \* the row count that the next row check compares with
    packed,     \* rewrite_data_files: new_files, until they are swapped in
    flushes,    \* history: what was flushed, [mb, rows] in order
    unseen,     \* history: rows flushed since the rewrite read the file list
    lost,       \* history: rows of the flushes that a swap has discarded
    aborts      \* history: cycles killed since one last completed

vars == <<table, snapshots, ledger, pc, queue, base, cand, before, packed,
          flushes, unseen, lost, aborts>>
cycleVars == <<pc, queue, base, cand, before, packed>>
history   == <<flushes, unseen, lost, aborts>>

NoResult == <<>>

-----------------------------------------------------------------------------
(* Measurements: shadow_eval.py.                                           *)

\* baseline_result: the table as it is.
BaselineResult(t) ==
    [layout              |-> t.layout,
     p95_latency_ms      |-> MeasureP95Latency(t),
     storage_cost        |-> StorageCostUnits(t),
     write_amplification |-> t.bytes_rewritten_mb,
     rows                |-> Stats(t).rows]

\* A layout put in force: assigned, then everything rewritten for it.
\* shadow_evaluate does it to a clone, apply_layout to the table itself.
Relayout(t, layout) ==
    RewriteDataFiles([t EXCEPT !.layout = layout], layout.target_file_mb)

ShadowResult(t, layout) == BaselineResult(Relayout(t, layout))

\* Mutant of Rankings: the incumbent is ranked too, even if off the grid.
RankingsWithIncumbent ==
    LET k == IF TopK < Cardinality(Layouts) THEN TopK ELSE Cardinality(Layouts)
    IN  {r \in [1..k -> Layouts] : IsInjective(r)}

\* layout_search.recommend(...).ranked[:top_k]: some ranking of the grid, cut.
Rankings ==
    LET k == IF TopK < Cardinality(Grid) THEN TopK ELSE Cardinality(Grid)
    IN  {r \in [1..k -> Grid] : IsInjective(r)}

-----------------------------------------------------------------------------
Init ==
    /\ table = EmptyTable(InitialLayout)
    /\ snapshots = 0
    /\ ledger = {}
    /\ pc = "idle" /\ queue = <<>> /\ base = NoResult /\ cand = NoResult
    /\ before = 0 /\ packed = <<>>
    /\ flushes = <<>> /\ unseen = 0 /\ lost = 0 /\ aborts = 0

\* A streaming checkpoint flush (ingest_micro_batch, autocompaction included).
Flush(batch, part) ==
    /\ ConcurrentIngest \/ pc = "idle"
    /\ Len(flushes) < MaxFlushes
    /\ table' = IngestMicroBatch(table, [mb        |-> batch.mb,
                                         rows      |-> batch.rows,
                                         partition |-> part])
    /\ flushes' = Append(flushes, batch)
    /\ unseen' = IF pc = "swap" THEN unseen + batch.rows ELSE unseen
    /\ UNCHANGED <<snapshots, ledger, cycleVars, lost, aborts>>

\* run_once returns, or an exception or a kill ends it: its locals are gone.
CycleOver ==
    /\ pc' = "idle" /\ queue' = <<>> /\ base' = NoResult /\ cand' = NoResult
    /\ before' = 0 /\ packed' = <<>>

StartCycle ==
    /\ pc = "idle"
    /\ \E ranking \in Rankings : queue' = ranking
    /\ base' = BaselineResult(table)
    /\ pc' = "search"
    /\ UNCHANGED <<table, snapshots, ledger, cand, before, packed, history>>

\* Mutant of SkipIncumbent: the loop does not move on.
SkipNothing ==
    /\ pc = "search" /\ queue # <<>>
    /\ Head(queue) = table.layout
    /\ UNCHANGED vars

SkipIncumbent ==
    /\ pc = "search" /\ queue # <<>>
    /\ Head(queue) = table.layout
    /\ queue' = Tail(queue)
    /\ UNCHANGED <<table, snapshots, ledger, pc, base, cand, before, packed, history>>

\* shadow_evaluate counts the rows of production, and only then clones it.
BeginShadow ==
    /\ pc = "search" /\ queue # <<>>
    /\ Head(queue) # table.layout
    /\ before' = Stats(table).rows
    /\ pc' = "shadow"
    /\ UNCHANGED <<table, snapshots, ledger, queue, base, cand, packed, history>>

\* The clone, rewritten and measured.  Raises if its row count is another.
ShadowEvaluate ==
    /\ pc = "shadow"
    /\ \E clone \in {Relayout(table, Head(queue))} :
          \/ /\ Stats(clone).rows = before
             /\ cand' = BaselineResult(clone)
             /\ pc' = "decide" /\ before' = 0
             /\ UNCHANGED <<queue, base, packed>>
          \/ Stats(clone).rows # before /\ CycleOver
    /\ UNCHANGED <<table, snapshots, ledger, history>>

\* Mutant of Decide: "break" where the loop goes on with the next candidate.
DecideOnFirst ==
    LET decision == EvaluatePromotion(base, cand, Config)
    IN  /\ pc = "decide"
        /\ ledger' = ledger \cup {decision}
        /\ \/ decision.promote /\ pc' = "apply" /\ UNCHANGED <<queue, cand>>
           \/ /\ ~decision.promote
              /\ pc' = "search" /\ queue' = <<>> /\ cand' = NoResult
        /\ UNCHANGED <<table, snapshots, base, before, packed, history>>

\* Mutant of Decide: the decision is logged and not obeyed.
DecideAndApply ==
    /\ pc = "decide"
    /\ ledger' = ledger \cup {EvaluatePromotion(base, cand, Config)}
    /\ pc' = "apply"
    /\ UNCHANGED <<table, snapshots, queue, base, cand, before, packed, history>>

\* Mutant of Decide: a promotion is to be logged once it has been applied.
DecideUnlogged ==
    LET decision == EvaluatePromotion(base, cand, Config)
    IN  /\ pc = "decide"
        /\ \/ /\ decision.promote
              /\ pc' = "apply" /\ UNCHANGED <<ledger, queue, cand>>
           \/ /\ ~decision.promote
              /\ ledger' = ledger \cup {decision}
              /\ pc' = "search" /\ queue' = Tail(queue) /\ cand' = NoResult
        /\ UNCHANGED <<table, snapshots, base, before, packed, history>>

\* evaluate_promotion, then append_ledger whatever the outcome.
Decide ==
    LET decision == EvaluatePromotion(base, cand, Config)
    IN  /\ pc = "decide"
        /\ ledger' = ledger \cup {decision}
        /\ \/ decision.promote /\ pc' = "apply" /\ UNCHANGED <<queue, cand>>
           \/ /\ ~decision.promote
              /\ pc' = "search" /\ queue' = Tail(queue) /\ cand' = NoResult
        /\ UNCHANGED <<table, snapshots, base, before, packed, history>>

\* SimBackend.apply_layout: rows counted, the new layout in force at once.
BeginApply ==
    /\ pc = "apply"
    /\ ValidLayout(Head(queue))
    /\ before' = Stats(table).rows
    /\ table' = [table EXCEPT !.layout = Head(queue)]
    /\ pc' = "rewrite"
    /\ UNCHANGED <<snapshots, ledger, queue, base, cand, packed, history>>

\* Mutant of GroupFiles: the early return, whatever files there are.
GroupNothing ==
    /\ pc = "rewrite"
    /\ pc' = "check"
    /\ UNCHANGED <<table, snapshots, ledger, queue, base, cand, before, packed,
                   history>>

\* rewrite_data_files: the files of the moment are grouped and packed anew,
\* and counted as rewritten.  It returns at once if there are none.
GroupFiles ==
    /\ pc = "rewrite"
    /\ \E out \in {RewriteDataFiles(table, Head(queue).target_file_mb)} :
          /\ packed' = out.files
          /\ table' = [out EXCEPT !.files = table.files]
    /\ pc' = IF table.files = <<>> THEN "check" ELSE "swap"
    /\ UNCHANGED <<snapshots, ledger, queue, base, cand, before, history>>

\* "self._files = new_files": whatever was flushed since is not in new_files.
SwapFiles ==
    /\ pc = "swap"
    /\ table' = [table EXCEPT !.files = packed]
    /\ pc' = "check" /\ packed' = <<>>
    /\ lost' = lost + unseen /\ unseen' = 0
    /\ UNCHANGED <<snapshots, ledger, queue, base, cand, before, flushes, aborts>>

\* The rows are counted again.  A mismatch raises: no snapshot, no
\* housekeeping, and the new layout and files stay where they are.
CheckRows ==
    /\ pc = "check"
    /\ \/ /\ Stats(table).rows = before
          /\ snapshots' = snapshots + 1
          /\ pc' = "housekeep"
          /\ UNCHANGED <<queue, base, cand, before, packed>>
       \/ Stats(table).rows # before /\ CycleOver /\ UNCHANGED snapshots
    /\ UNCHANGED <<table, ledger, history>>

\* Mutant of Housekeep: snapshots[-keep_last:], which keeps all for 0.
HousekeepKeepingAllForZero ==
    /\ pc = "housekeep" \/ (pc = "search" /\ queue = <<>>)
    /\ snapshots' = IF KeepLast > 0 /\ snapshots > KeepLast THEN KeepLast
                                                           ELSE snapshots
    /\ CycleOver /\ aborts' = 0
    /\ UNCHANGED <<table, ledger, flushes, unseen, lost>>

\* expire_snapshots, then delete_orphan_files (nothing to do in SimBackend).
Housekeep ==
    /\ pc = "housekeep" \/ (pc = "search" /\ queue = <<>>)
    /\ snapshots' = IF snapshots > KeepLast THEN KeepLast ELSE snapshots
    /\ CycleOver /\ aborts' = 0
    /\ UNCHANGED <<table, ledger, flushes, unseen, lost>>

\* The cycle is killed, or something outside the model raises (the ledger).
Abort ==
    /\ pc # "idle" /\ aborts < MaxAborts
    /\ CycleOver
    /\ aborts' = aborts + 1 /\ unseen' = 0
    /\ UNCHANGED <<table, snapshots, ledger, flushes, lost>>

Apply == BeginApply \/ GroupFiles \/ SwapFiles \/ CheckRows

Cycle ==
    \/ StartCycle \/ SkipIncumbent \/ BeginShadow \/ ShadowEvaluate \/ Decide
    \/ Apply \/ Housekeep

Next ==
    \/ \E batch \in Batches, part \in Partitions : Flush(batch, part)
    \/ Cycle
    \/ Abort

Spec == Init /\ [][Next]_vars

\* Airflow schedules the next cycle and run_once is a finite loop, so a cycle
\* that can take a step takes one.  Nothing is assumed of ingest or of aborts.
FairSpec == Spec /\ WF_vars(Cycle)

-----------------------------------------------------------------------------
(* Correctness.                                                            *)

\* Type correctness.
TypeOK ==
    /\ table \in [layout : Layouts, files : Seq(File(Partitions)),
                  bytes_rewritten_mb : Nat]
    /\ snapshots \in Nat
    /\ pc \in {"idle", "search", "shadow", "decide", "apply", "rewrite", "swap",
              "check", "housekeep"}
    /\ queue \in Seq(Grid)
    /\ before \in Int
    /\ packed \in Seq(File(Partitions))
    /\ flushes \in Seq(Batches)
    /\ unseen \in Nat /\ lost \in Nat /\ aborts \in Nat

\* Row for row, the table holds what the stream flushed, through automatic
\* compaction, promoted rewrites and cycles that die or raise half way, with
\* one exception: what is flushed between the moment a rewrite reads the file
\* list and the moment it replaces the list.
RowsConserved == Stats(table).rows + lost = TotalRows(flushes)

\* Snapshots do not pile up: a completed cycle leaves at most KeepLast, and
\* only a cycle killed after CheckRows can add one that no expiry has followed.
SnapshotsBounded ==
    snapshots <= KeepLast + aborts + (IF pc = "housekeep" THEN 1 ELSE 0)

\* The layout of the table never changes without a promotion of that very
\* layout already in the ledger, whatever the stream does meanwhile.
LayoutChangeIsAudited ==
    [][table'.layout # table.layout =>
          \E d \in ledger : d.promote /\ d.candidate.layout = table'.layout]_vars

\* The audit trail tells the truth: a layout that comes into force stands in
\* the ledger with the metrics production has just before, and when
\* apply_layout returns, with those that production has now.
AuditedMetricsAreReal ==
    [][/\ table'.layout # table.layout =>
             \E d \in ledger : /\ d.promote
                               /\ d.baseline = BaselineResult(table)
                               /\ d.candidate.layout = table'.layout
       /\ snapshots' > snapshots =>
             \E d \in ledger : /\ d.promote
                               /\ d.candidate = BaselineResult(table')]_vars

\* The layout that a query of the table meets: until its files are in place, a
\* layout being applied is a name only.
LayoutInForce == IF pc \in {"rewrite", "swap"} THEN base.layout ELSE table.layout

\* What a query sees of all this: the abstract table of NonRegressingTable.
Abstract == INSTANCE NonRegressingTable
                WITH LatencyTolPct <- Config.latency_regression_tol_pct,
                     layout <- LayoutInForce,
                     rows   <- Stats(table).rows,
                     p95    <- MeasureP95Latency(table)

ImplementsNonRegressingTable == Abstract!Spec

\* "The model never silently makes the table worse": no change of layout
\* raises the latency of the table it changes.
NeverMakesTheTableWorse ==
    [][LayoutInForce' # LayoutInForce =>
          MeasureP95Latency(table') <= MeasureP95Latency(table)]_vars

\* A cycle that tries the whole ranking and promotes nothing has missed
\* nothing: however the model ranked, the guard refuses every layout of the
\* grid for the table as it is.
Improvable ==
    \E layout \in Grid \ {table.layout} :
        EvaluatePromotion(BaselineResult(table), ShadowResult(table, layout),
                          Config).promote

NoImprovementMissed ==
    pc = "search" /\ queue = <<>> /\ TopK >= Cardinality(Grid) => ~Improvable

\* Maintenance never gets stuck: every cycle comes to its end.
EveryCycleEnds == []<>(pc = "idle")

\* Once ingest is quiet the loop comes to rest: promotions cannot go round in
\* circles, rewriting the table at every cycle.
LoopSettles == (<>[][FALSE]_flushes) => <>[][FALSE]_table
=============================================================================
