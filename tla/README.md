# Verification of the streaming lakehouse optimizer

TLA+ specifications of the program in `src/src/lakehouse`, TLC runs that check
them on small instances, and TLAPS proofs of what matters most for every
instance. `PROJECT.json` ties every definition to the lines it models, every
property to a run and to a mutant of the code that breaks it, and lists the
hazards the properties are for.

## The system

A stream (Postgres, Debezium, Kafka, Flink) flushes one file per checkpoint
into an Iceberg table. A maintenance loop, scheduled by Airflow, lets a learned
cost model rank layouts, measures the best of them on a clone of the table, and
applies the first one that a regression guard promotes. Locally and in the
tests, the table is `SimulatedIcebergTable`.

| Component | State | Operations | Talks to |
|---|---|---|---|
| Simulated table, `metrics/table_stats.py` | layout, list of files, MB rewritten | `ingest_micro_batch` (may compact), `rewrite_data_files`, assignment of `layout`, `scan`, `stats`, `clone` | written by the stream and by SimBackend, cloned by the shadow evaluation |
| Benchmark, `maintenance/benchmark.py` | none | `measure_p95_latency` | calls `scan` |
| Shadow evaluation, `maintenance/shadow_eval.py` | none | `baseline_result`, `shadow_evaluate` | clones the table |
| Regression guard, `maintenance/regression_guard.py` | none | `evaluate_promotion` | measurements in, decision out |
| Promotion ledger, same file | JSONL file | `append_ledger` | written by every run of the loop, read by the viewer in `ui/app.py` |
| Maintenance loop, `maintenance/orchestrator.py` | progress of `run_once` | `run_once` | calls all of the above and a backend |
| SimBackend, `maintenance/iceberg_ops.py` | list of snapshots | `apply_layout`, `expire_snapshots`, `delete_orphan_files` | mutates the table |
| PyIcebergBackend, same file | table in a catalog | the same three | pyiceberg; next to the writers of the table, and to other tasks |
| Layout search, `optimizer/layout_search.py` | none | `candidate_layouts`, `recommend` | asks the cost model |
| Cost model, training, features, `optimizer/` | three regressors, a file | `fit`, `predict`, `save`, `load`, `train` | feature vectors; the file is shared by whoever trains and loads |
| Local demo, UI, `scripts/`, `ui/app.py` | a table each, a cached model | train, load, `run_once`, show the ledger | the model file and the ledgers under `artifacts/` |
| Exactly-once sink, `ingest/exactly_once.py` | committed, aborted, staged, files | `stage`, `commit`, `abort` | driven by checkpoints |
| Flink job, telemetry generator, `ingest/` | offsets, checkpoints, commits due | SQL statements; the cluster checkpoints, commits, fails, recovers | Kafka, Iceberg |
| Schema gate, `catalog/schema_evolution.py` | none | `validate_evolution`, `is_compatible` | run in CI |
| Airflow DAG, `airflow/dags` | scheduler's | two tasks, every 30 minutes, 2 retries | calls the loop |

What is hard here, and what it means to be right:

* **The table.** Automatic compaction, requested compaction and layout changes
  interleave with flushes, and rows are rounded when a partition is split. Rows
  must stay in their partition and none may be lost; a repeated compaction must
  change nothing; files must not pile up beyond the trigger.
* **The guard.** Percentages from zero, NaN, infinity, tolerances relative to a
  moving incumbent. Every promotion must pay off, and promotions must end.
* **The loop.** It measures, decides and acts in separate steps on a table that
  a stream keeps changing, and it can die between any two of them. It counts rows
  first and compares them last, with the layout and the files replaced in between.
  Changes of layout must be audited and must not hurt; rows must not get lost;
  snapshots must not pile up; no improvement may be missed; every cycle must end.
* **The sink.** Recovery replays, repeats and reorders its calls. A checkpoint
  is visible once or not at all, and each row staged is accounted for.
* **The ingest path.** The job crashes between reading, checkpointing and
  committing, repeats commits that went through, and re-reads rows, while
  maintenance expires snapshots and deletes what it takes for orphans, on the
  strength of a table that it loaded earlier. Each row must be seen once, in
  order, and in the end; nothing that is needed may go.
* **The shared files.** Trainings, demos and UI sessions, of different versions of
  the code, share a model file that is written in place and ledgers that are
  appended to, and are killed anywhere. No model that failed the gate, and none
  of another feature contract, may decide; the ledger may not lose what it showed.
* **The schema gate.** It compares neighbours; the chain as a whole must be
  compatible.

`PROJECT.json` lists each of these hazards at its line, those included that no
property covers yet.

## The modules

| Module | Models | Role |
|---|---|---|
| `Sums` | Python's `sum()` | a recursive function, which the other modules share |
| `TableStats` | `table_stats.py` | tables as values: statistics, bin packing, ingest, scan |
| `Benchmark` | `benchmark.py` | the suite and its exact weighted 95th percentile |
| `SimulatedIcebergTable` | class `SimulatedIcebergTable` | the table as a state machine on its own |
| `RegressionGuard` | `regression_guard.py` | `evaluate_promotion`, reason by reason |
| `PromotionChain` | the guard used over and over | what it promises over time |
| `NonRegressingTable` | (abstract) | what a query sees of the maintenance loop |
| `MaintenanceLoop` | `orchestrator.py`, `shadow_eval.py`, SimBackend, `append_ledger` | composes table, benchmark, guard, backend, stream and crashes; implements `NonRegressingTable` |
| `ExactlyOnceDelivery` | (abstract) | rows are buffered, then published together and once |
| `ExactlyOnceSink` | `exactly_once.py` | implements `ExactlyOnceDelivery` |
| `PrefixDelivery` | (abstract) | a reader sees a prefix of the stream, and it only grows |
| `FlinkRecovery` | `flink_job.py`, the generator's batches | the job that drives the sink (by INSTANCE), fails and recovers; implements `PrefixDelivery` |
| `PyIcebergBackend` | the class of that name | a real table under maintenance, next to its writers |
| `IngestPath` | the two together | composes job, sink and maintained table |
| `CostModel` | `cost_model.py` | a fitted model, its file, its contract |
| `PromotionLedger` | `append_ledger`, the viewer of `ui/app.py` | the ledger as a file |
| `LocalPipeline` | `train.py`, `run_local_demo.py`, `ui/app.py` | composes the processes around `artifacts/` |
| `SchemaEvolution` | `schema_evolution.py` | the gate applied to one change after the other |
| `MC*` | | instances for TLC |
| `OperatorLemmas` | | what the operators do for every argument, by induction over lists |
| `*Proofs` | | theorems about the specifications, checked by TLAPS |

**TableStats, SimulatedIcebergTable.** A table is a record of layout, files and
`bytes_rewritten_mb`; the file list keeps its order, since `scan` reads a prefix
of it. `Ingest` is `ingest_micro_batch` with the compaction it may trigger,
`Rewrite` is `rewrite_data_files` called from outside, and `ChangeLayout` is the
assignment and the rewrite that `apply_layout` and `shadow_evaluate` make.
`ingested` is a history variable. The sums over files that the code takes are
`SumOf` of their weights. Data is exact where the code has floats: sizes are whole MB and
the remainder of a division goes to the first files, so that sums are exact and
one size is off by less than 1 MB; latencies are counted in 0.0005 ms, the p95
in 0.000025 ms; the rounding of rows is Python's, ties to even. (The code rounds
`total * ((i+1)/n - i/n)`. Where n files share a row count that is not an exact tie,
that float and `total / n` round to the same number; for some even n, of which 6 is
the first, a tie may go the other way. Run `table` reaches n = 10, and no
partition it reaches has such a tie.) The row count of a last file may be
negative, as in the code, when a partition has fewer rows than files.

**RegressionGuard.** A metric is an integer or one of the `NonFinite` values, and
`HasFiniteMetrics` is `_validate_metrics`. Percentages are compared by
cross-multiplication instead of division, so no rounding enters; metrics are
non-negative, as everything that produces them is. The reasons are those that
the code collects, by name instead of by text.

**MaintenanceLoop.** `pc` says where `run_once` stands. `StartCycle` ranks and
measures the baseline; `SkipIncumbent` is the `continue`; `shadow_evaluate` is
`BeginShadow`, which counts the rows of production, and `ShadowEvaluate`, which
clones, measures and compares; `Decide` evaluates and appends to the ledger
whatever the outcome; `Housekeep` expires snapshots and returns. `apply_layout` is
four steps, because of what it reads and writes apart: `BeginApply` counts the rows
and assigns the layout, `GroupFiles` reads the file list and packs it, `SwapFiles`
puts the new list in place of whatever list there is by then, `CheckRows` counts
again. A row count that differs raises: the cycle is over, without housekeeping, and
the layout and files stay as they are. The ranking is any injection of the grid, cut
to `TopK`, because the cost model only ranks. `Abort` is a cycle that is killed, or
in which something else raises, at any of these steps.

`Flush` is the stream: between cycles only, or at any moment with
`ConcurrentIngest`, as in `docs/architecture.md` (Flink and the loop run side by
side, and nothing locks the table). What is one step is a flush, the copy of a table,
and the measurement of one; a flush can fall before or after them and between any two
steps above. `unseen` and `lost` keep account of the rows flushed between
`GroupFiles` and `SwapFiles`: the assignment drops them. `CheckRows` does not notice,
since what is left is what `BeginApply` counted; it raises on flushes that came after
that count and were *not* lost. The refinement to `NonRegressingTable` shows as layout
`LayoutInForce`: until its files are in place, a layout being applied is a name only.

**ExactlyOnceSink.** One action per branch of `commit`, one for `stage`, one for
`abort`, called in any order. `staged` is a function on the ids the dict holds.
`offered` and `discarded` are history variables. Its refinement mapping shows
the staged rows of each id as `buffered` and the rows of its file as `visible`.

**SchemaEvolution.** A schema is the dict `{field_id: field}` that
`validate_evolution` builds before it looks at anything. `Evolve` puts a change
in force that `IsCompatible` accepts. What old data and old queries need is
stated on its own, by the values a column admits, and not in the gate's terms.

**FlinkRecovery.** A row stands for a batch of the generator, and an offset for the
number of rows up to it. `Read` moves a row from the topic into the open
checkpoint (`stage`), `CompleteCheckpoint` makes the offset and the list of
commits due durable, `CommitNext` commits the oldest of them (`commit`), `Fail`
aborts the open checkpoint (`abort`) and loses what is not durable, and
`Restore` starts from the last completed checkpoint, with its commits due, those
included that had gone through. The source of the repository only configures
this protocol (`CheckpointingMode.EXACTLY_ONCE`, `earliest-offset`, the Iceberg
sink), so what the runtime does by itself is marked external. A checkpoint
without rows has nothing to commit.

**PyIcebergBackend.** Each call of the code loads the table and acts later on what
it loaded: that is two steps, with writers and other tasks in between. `Expired`
follows the code: the cutoff is the timestamp of `snapshots[-(keep_last + 1)]`,
and what is *strictly older* goes, so `keep_last + 1` snapshots stay although the
code reports `keep_last`. Snapshots may share a timestamp. What orphan deletion
does is the library's: it spares files younger than `OrphanGrace`. `apply_layout`
sets a property and moves nothing. A task that fails, or is retried, starts anew.

**IngestPath.** Every attempt at a checkpoint writes a file of its own
(`OpenFile`), a completed checkpoint remembers it (`manifests`), and a commit
makes a snapshot unless it repeats one.

**CostModel, PromotionLedger, LocalPipeline.** A model is what is known of it:
whether its R2 passed the gate, and the feature names it was fitted to. Any outcome
of a training is possible, although seeds make a retraining repeat itself. `joblib.dump`
opens the file for truncation and writes; no prefix of a dump loads, and two dumps
in one file may load as a mixture of them or not at all. The ledger is the
sequence of the writes to it, each complete, or cut short by a crash before its
newline or before its end; the viewer shows what has a line of its own. A
session of the UI uses a model that is cached and never gated, and writes to
`demo_ledger.jsonl`. `run_once` is in `LocalPipeline` what it decides, logs and
applies; what it measures is in `MaintenanceLoop`.

Each module that models code also holds its **mutants**: variants of a
definition with a plausible bug (`SplitRowsUnfixed`, `GroupNothing`,
`StageStillAborted`, ...), each marked as such. No specification uses them. Each
stands in for the definition it varies to see that a property notices: every
property of a passing run has a mutant that violates it.

## The runs

| Run | Question | Bounds |
|---|---|---|
| `table` | Do flushes, compactions and layout changes in any order keep rows and bytes where they belong, pack stably, keep the trigger? | 4 flushes, 2 partitions, files below and above the smaller target, row counts that do not divide evenly, 3 layouts, targets of 16, 30 and 64; no further rewrite is asked for beyond 60 MB rewritten |
| `guard_chain` | Can a chain of proposals smuggle in NaN, a regression, or an endless exchange? | the default thresholds but for a write-amplification tolerance of 8, which can be exceeded; zeros, values at and just beyond each tolerance, two non-finite values |
| `loop` | Does `run_once` implement the abstract table, tell the truth in the ledger, and find what there is to find, if flushes stay out of cycles? | 4 flushes of 2 or 20 MB, grid of 2 plus an incumbent off the grid, `TopK` = the whole grid, `KeepLast` = 1, one killed cycle in a row, at any step |
| `loop_concurrent` | What is left when flushes fall inside cycles? Does every cycle end, does the loop come to rest? | 3 flushes of 2 or 20 MB between any two steps, grid of 2 with the incumbent in it, `TopK` = the whole grid, `KeepLast` = 0, one killed cycle in a row, at any step |
| `sink` | Is delivery exactly-once whatever the order of calls? | 3 checkpoints, up to 3 rows each in portions of 1 and 2 |
| `schema` | Is a chain of accepted changes compatible as a whole? | every schema of up to 2 columns with 3 types, 2 names, precision 0 or 1 |
| `ingest_path` | Are rows seen once, in order and in the end, through failures of the job and next to maintenance? | 2 rows, 1 checkpoint without rows, 1 failure, 1 maintenance task, `KeepLast` = 0, clock up to 3 with a grace of 2 and tasks of at most 1 |
| `housekeeping` | Does maintenance keep what is needed when tasks overlap? | 2 tasks (symmetric), 4 rows in up to 4 commits, `KeepLast` = 2, clock up to 3 with a grace of 2 and tasks of at most 1; no failure |
| `pipeline` | Which models decide, and what does the ledger show, when processes share files and are killed? | 1 trainer, 2 demos, 1 session, 2 versions of the code, 1 decision each, 1 crash |

The bounds let the interesting cases happen. In `table`, 4 flushes reach both
triggers and leave partitions of 1 to 5 files. In `loop`, three small files and a
large one are what it takes for the guard to accept one layout of the grid and
refuse the other, and promotions follow on promotions. In `sink`, three portions
allow staging, committing, staging again and aborting one checkpoint next to others.
In `ingest_path`, 2 rows make two checkpoints, of which the second can complete
before the first is committed and the failure can hit either; the clock lets a file
grow old enough to be deleted before its commit, and snapshots share ticks. In
`housekeeping`, 4 commits are enough for two tasks to load different tables, for
either to expire what the other has loaded, and for more snapshots than `KeepLast`
at each of these points; here too a file can be written early and committed late. In
`loop_concurrent`, one killed cycle leaves a snapshot that the next has to expire,
and 3 flushes are enough for each row check to raise, for a flush to be lost in a
rewrite, and for a loss that `CheckRows` does not see. In `pipeline`,
two demos suffice for overlapping saves, for a model of another version between save
and load, and for an entry behind a torn one. `CHECK_DEADLOCK` is off in these runs
of the path and the pipeline: rows, clock and processes are finite. `GuardConfig` in the loop has the default
values, counted in the latency's unit (0.25 per MB rewritten is 10000 units; 0.023
dollars per GB are 0.9 units per MB, rounded to 1).

`loop` leaves `RowsConserved` and `SnapshotsBounded` to `loop_concurrent`, where the
stream may do more.

Three runs look for a violation and find one, each of a sentence in the
repository:

| Run | The repository says | The code does |
|---|---|---|
| `autocompact_trigger` | "rewrite once this many small files accrue" (`table_stats.py:27`) | the trigger counts all files: a table of more than trigger times target MB is rewritten at each flush |
| `stale_decision` | "The model never silently makes the table worse." (`README.md:91`) | a flush between measurement and apply compacts the table, and the layout that was better is now worse |
| `expiry_count` | "keeping the most recent `keep_last`", `"remaining": keep_last` (`iceberg_ops.py:109`, `:125`) | `keep_last + 1` of the loaded snapshots remain: the cutoff is the newest one to expire, and what is strictly older goes |

`stale_decision` and `loop` belong together: without flushes inside a cycle the
promise holds, and is proved; with them it does not.

Two more disagreements show in the definitions, and no run is spent on them.
`EvaluatePromotion` compares no rows, where the module's docstring has "Row count is
preserved" among the conditions of a promotion (`regression_guard.py:9`): only
`shadow_evaluate` and `apply_layout` compare them. `CommitNew` publishes an empty
file for an id that was never staged (`exactly_once.py:61`), where the README has
"Each checkpoint is staged before it is visible" (`README.md:103`).

### Properties worth a comment

* `FragmentationBounded`: the file list is at its trigger only if a compaction
  gives it back unchanged, that is, never because small files piled up.
* `P95IsFullScan`: the p95 of the suite is always the latency of its one full
  scan, so the guard does not see partition pruning. A change of granularity
  alone changes no metric that it compares.
* `NoThrashing`, `LoopSettles`: with tolerances relative to the incumbent of the
  moment, only the required gain of the objective makes promotions end.
* `RowsConserved`: every row flushed is in the table, or is counted in `lost`, and the
  only way into `lost` is a flush between `GroupFiles` and `SwapFiles`. Without
  concurrent flushes `lost` stays 0 (`QuietLoopLosesNothing`).
* `AuditedMetricsAreReal`: the ledger's numbers are those of production when the
  layout comes into force and when `apply_layout` returns, not of some earlier table.
* `LoopSettles` holds next to killed cycles, although each of them may have left a
  layout without its files, or files rewritten: with one death in a row the cycle that
  follows completes, and it tries the whole grid. With a `TopK` below the grid, TLC
  finds a cycle that never comes to rest.
* `NoImprovementMissed`: speaks of cycles that try the whole grid
  (`TopK >= Cardinality(Grid)`). The default `top_k` of 3 on a grid of 36 may
  overlook a layout, by design.
* `ImplementsPrefixDelivery`, `CheckpointHoldsItsRows`, `RowsSeen`: exactly-once end
  to end. The sink alone cannot promise it (it adds up whatever is staged); it
  takes the abort before the re-read, offset and commits due in one checkpoint,
  and commits in order.
* `OnlyLateCommitsDangle`: orphan deletion is not safe as such. A file is, whose
  commit comes within `OrphanGrace - TaskTime` of its write; a job that is down
  for longer commits, on recovery, files that are gone.
* `NewestSnapshotsSurvive`, `ExpiryTrims`: the cutoff from both sides. The first holds.
  The second is what the docstring says, and `expiry_count` refutes it;
  `ExpiryIsThorough` is what is left of it.
* `DecisionsAreGated`: has one exception, which the code allows: two saves at
  once can leave a file that loads and that no gate has seen.
* `OneHiddenPerTear`: a torn entry swallows the next one, and no more.

### Fairness

`IngestPath!FairSpec` assumes weak fairness of reading, checkpointing, committing
and restarting: checkpoints are taken every 30 seconds, and the cluster restarts a
job. It assumes nothing of producers, failures and maintenance. `MaxFailures`
bounds failures; a job that fails before each checkpoint gets nowhere.

`FairSpec` assumes weak fairness of `Cycle`: Airflow starts the next cycle, and
`run_once` is a finite `for` loop, so a cycle that can step does. Nothing is
assumed of the stream. Cycles that die in a row are bounded by `MaxAborts`, the
counterpart of the retries in the DAG; if every cycle died, none would end in
housekeeping and there would be nothing to promise. `PromotionChain!NoThrashing`
needs no fairness: it says that something stops.

## The proofs

Each safety invariant and each action property of a passing run is a theorem, for
every value of the constants that the module's assumptions admit, and so is each
refinement; some theorems about the loop and the chain have a further hypothesis,
which the table names.

| Theorem | For every | Rests on |
|---|---|---|
| `RewriteConservesContent`, `RewriteConservesTotals`, `RewriteIsIdempotent`, `RewriteSkew` | list of files, target | lemmas on `FilesAfterPruning`, `SplitMb`, `SplitRows`, `PartitionOrder` |
| `PercentileIsFullScan` | table | lemmas on `Scan` |
| `PromotionIsSound`, `PromotionLowersObjective` | configuration and pair of measurements | two lemmas on percentages |
| `TableIsTyped`, `ContentIsConserved`, `CompactionIsIdempotent`, `SkewIsBounded`, `FragmentationIsBounded`, `BenchmarkIsFullScan` | set of partitions, batches, layouts, targets | the `Rewrite...` theorems, `PercentileIsFullScan` |
| `ChainIsTyped`, `ChainIsMeasured`, `ChainPaysOff` | set of measurements, non-finite ones too | `PromotionIsSound` |
| `ChainDescends` | the same, with `min_improvement_pct` > 0 | `PromotionLowersObjective` |
| `LoopIsBounded`, `LoopIsAudited`, `LoopKeepsRows` | grid, stream, guard, `TopK`, `KeepLast`, concurrent flushes or not | `LoopInv`, `RowsInv`, `RewriteConservesTotals` |
| `QuietLoopLosesNothing`, `RowChecksPass`, `AuditIsReal`, `LoopImplementsNonRegressingTable`, `SearchIsExhaustive` | the same, without concurrent flushes | `QuietInv`, `Exhaustive` |
| `QuietLoopNeverMakesItWorse` | the same, with a latency tolerance of 0 | `QuietInv`, `InForceStep` |
| `PromotionsMakeProgress` | the same, with `min_improvement_pct` > 0 | `QuietInv`, `PromotionLowersObjective` |
| `SinkIsCorrect`, `SinkImplementsDelivery` | set of checkpoints, portion, bound | `SinkInv` |
| `RowsAreExactlyOnce`, `CountIsPosition`, `OrderIsKept`, `JobImplementsPrefixDelivery` | number of rows and failures | `JobInv` |
| `NewestAreKept`, `TimelyCommitsAreSafe`, `ExpiryIsThorough` | set of files and tasks, `KeepLast`, grace, task time | `LakeInv` |
| `PathImplementsComponents`, `PathDelivers`, `TableFollowsStream`, `PathIsTypeCorrect` | all of these | `PathInv` |
| `OnlyGatedModelsDecide`, `ContractKeepsModelsApart`, `LedgerHidesLittle`, `LedgerIsAppendOnly` | set of processes and versions, number of crashes | `Inv` of `LocalPipelineProofs` |
| `SchemaIsBackwardCompatible` | set of ids, names, types, precisions | `SchemaInv` |

*Lists of any length* (`OperatorLemmas`). What a sum over the files is cannot be had
by expanding definitions. `SetInduction` and `SequenceInduction` get induction from
the fact that `<` is well-founded, with the predicate as a set. The statistics of a table are
weights of its list of files, and `SumOf` of a weight is additive in the
list; so they can be followed through the grouping of files by partition, the
packing of each partition, and the concatenation of the results. Of the rows in a
packed partition, the last file takes what rounding left over, as in the code, and
this makes `RewriteConservesContent` hold for them. (These theorems are about exact
shares. For some even n, 6 the first of them, the float that the code rounds can differ
from them at a tie; conservation does not depend on it, `RewriteSkew` does.) `RewriteIsIdempotent` follows: the second pass
meets the same totals, in the same order of partitions. For
`PercentileIsFullScan`, the full scan is 20 samples of 220, and none is higher, while numpy interpolates
between the two around rank 208 of 0 to 219.

*The table.* `TypeOK` is inductive, and the invariants of one state are theorems
on the operators, applied to the table. `ContentConserved` is inductive
next to it. `FragmentationBounded` needs more: a list at its trigger
is the outcome of a compaction, which by idempotence cannot pack it further.

*The chain.* `ObjectiveFalls` of `PromotionChainProofs` is the safety core of
`NoThrashing`: promotions take a natural number strictly down. It needs a positive
`min_improvement_pct` (the default is 5), and the theorem says so; with 0, two
layouts of equal objective may displace each other for ever.

*The sink.* `SinkInv` is the conjunction of the four invariants. The row
accounting needs `OneFilePerCheckpoint`, because the rows of a committed
checkpoint are those of *its* file, and the types for its arithmetic. That each step
refines the delivery goes branch by branch.

*The loop.* `TypeOK` is not inductive: that `BeginApply` installs a layout of the grid
needs a queue that is not empty. `Pending` adds that, and that `cand` is the
measurement of the head of the queue; `Audited` says that from `BeginApply` to
`CheckRows` the ledger holds this promotion. That suffices for the audit, because of
the steps only `BeginApply` changes the layout: the compaction a flush triggers gives
a table with the same layout back. `RowsInv` says where the rows are while a rewrite
is under way: those in the new files and those flushed since make up those of the
table. So the swap loses the latter and nothing else.

Without concurrent flushes, `QuietInv` adds `Current`, the baseline and the candidate
are measurements of the table as it is, or in the midst of `apply_layout` as it will
be; `Counted`, the row count that waits to be compared is that of the table; and
`Unlost`. So no check raises (`RowChecksPass`), the promotion in the ledger is a
promotion of what happens, and `PromotionIsSound` turns it into the abstract
table's bound on the latency (`InForceStep`). A cycle that dies between assigning the
layout and swapping the files changes the layout in force and not one file, and the
latency is that of the files (`LatencyIsOfFiles`). With the default tolerance of 0 this is
`NeverMakesTheTableWorse`, the sentence that `stale_decision` refutes when flushes
are concurrent. `PromotionsMakeProgress` is `ChainDescends` for the loop, the safety
core of `LoopSettles`. `Exhaustive` says that each layout of the grid is
still queued, or is the incumbent, or would be refused; that the queue starts
with all of them is a counting argument (an injection between finite sets of
one size is onto).

*The job.* The heart of `JobInv` is `OwedIsRemembered`: a completed checkpoint with
rows is committed, or its commit is both durable and, while the job is up, due.
`RowsStaged` says that what is staged of it is the difference of two offsets,
which the abort at a failure and the restart at the last offset restore for the
open checkpoint. Commits come in order, so the file committed last tells how far
a reader sees, and each step of the job is a step of `PrefixDelivery` or none.
`RowsSeen` needs that nothing lies between that file and the next commit:
a checkpoint in between that held rows would be due first, so all of them are
empty, and their offsets are equal (`SeenUpToHere`).

*The maintained table.* An expiry removes snapshots that had `KeepLast` newer ones
when the table was loaded; there are only more since, so a stale view does no
harm. Conversely, if more than `KeepLast` snapshots were loaded, one of them has just
`KeepLast` behind it in the list (`CutoffExists`), it is the cutoff, and what
survives is at least as young (`ExpiryIsThorough`). Orphan deletion spares what the loaded snapshots hold, and by
`LoadedIsRecent` what it does not know of was committed at most `TaskTime` ago.
The newest snapshot it loaded is needed for this: files are never removed from a
table, so that one holds all of them.

*The composition.* Each step of `IngestPath` is a step of the job, of the table, or
of both at once (`StepsAreComponentSteps`), so `JobInv` and `LakeInv` hold of it,
and with them all that was proved of the parts (`PathDelivers`). What is added is
that both agree (`TableIsTheStream`).

*The pipeline.* Whoever is in the file passed the gate (`ArtifactIsGated`), and two
are in it only after an overlap; so the same holds of what a demo loads. Each
layout that a demo changed has a complete entry (`PromotionsAreLogged`); if it is
not shown, the entry before it is torn, and mapping one to the other is
injective.

*The schema gate.* `ValuesGrow` shows that a column that evolves loses no value,
so `OldDataStaysReadable` survives each accepted change; a column that appears
is optional, and was not in the first schema because no column is ever dropped.

Assumptions are those the modules declare: layouts are valid, batches have natural
sizes and row counts, targets are positive, the grid is finite and not empty, the
guard's parameters are natural numbers, checkpoints are integers, processes have one
role each, a file exists for each attempt at each checkpoint. TLC evaluates each of
them. Hypotheses of single theorems (no concurrent flushes, a positive
`min_improvement_pct`, a latency tolerance of 0) are in their statements. The first
is the deployment of `run_local_demo.py` and the tests, the other two are defaults of
`GuardConfig`.

**Only model-checked.** Liveness: `EveryCycleEnds`, `LoopSettles`, `EveryRowIsSeen`
need ENABLED for their fairness, and `NoThrashing` a well-founded argument in temporal
logic. What `NoThrashing` and `LoopSettles` rest on, the objective that falls, is
proved. The runs that find a violation concern single behaviours.

## What is not modelled

* Scores of the cost model, `encode`, `predict` and `generate_dataset`: numeric, and
  the loop must be right for any ranking. The contract compares feature names
  only, so a change of `_PARTITION_ENCODING`, or of the three layout features that
  `encode` puts in front, goes unnoticed; the model has nothing to say of it.
* `extract_features`, a pure function read by the cost model alone; `Settings`;
  charts, texts and deployment files.
* The bodies of the Airflow tasks: they raise `NotImplementedError`. Two loops over
  one production table would be theirs.
* A Flink job that is submitted anew instead of restored: it starts at
  `earliest-offset` and inserts everything again, by design of the code.
* Floating-point range: metrics near the largest float would overflow the objective.
  No measurement of the code comes near it.
* What Flink, Iceberg and joblib do is modelled from how the code uses them, and
  marked external in `PROJECT.json`.

## Plan

The table, the guard, the loop, the sink, the schema gate, the ingest path and the
pipeline are modelled and checked, and their safety is proved. What would come
next:

1. The composition of table and loop as one theorem each: that `MaintenanceLoop`'s
   table is one of `SimulatedIcebergTable`, so that what is proved of the table
   alone (content by partition, fragmentation) holds inside the loop.
2. Two maintenance loops over one production table, once the DAG's tasks have
   bodies.
3. The guard over floats with a finite range, to see where the objective
   overflows.
