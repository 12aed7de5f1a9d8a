---------------------------- MODULE FlinkRecovery ----------------------------
(***************************************************************************)
(* ingest/flink_job.py: the job from Kafka to Iceberg, with the checkpoint *)
(* and recovery protocol of the Flink runtime it configures, which drives  *)
(* the sink of ingest/exactly_once.py.  Checkpoint n closes when its       *)
(* barrier has passed; its commit follows later, and a failure may come    *)
(* before, between, or after the two.                                      *)
(*                                                                         *)
(* A row stands for a batch of the telemetry generator.  Rows are numbered *)
(* from 1, so that an offset is the number of rows up to it.               *)
(***************************************************************************)
EXTENDS Integers, Sequences, FiniteSets

CONSTANTS
    MaxRows,      \* bound on the rows produced
    MaxIdle,      \* bound on checkpoints that hold no row
    MaxFailures   \* bound on failures of the job

ASSUME JobAssumption ==
    MaxRows \in Nat /\ MaxIdle \in Nat /\ MaxFailures \in Nat

Checkpoints == 1..(MaxRows + MaxIdle + 1)

VARIABLES
    produced,    \* rows in the topic
    up,          \* is the job running?
    position,    \* offset up to which the running job has read
    offsets,     \* durable: the offset of each completed checkpoint
    committable, \* completed checkpoints whose commit the job still owes
    restorable,  \* durable: committable, as of the last completed checkpoint
    failures,    \* history: how often the job has failed
    committed, aborted, files, staged, offered, discarded  \* the sink

Sink == INSTANCE ExactlyOnceSink
            WITH RowCounts  <- {1},
                 MaxOffered <- MaxRows * (MaxFailures + 1)

sinkVars == <<committed, aborted, files, staged, offered, discarded>>
jobVars == <<produced, up, position, offsets, committable, restorable, failures,
             sinkVars>>

\* The offset that checkpoint n was taken at; 'earliest-offset' for the start.
Offset(n) == IF n = 0 THEN 0 ELSE offsets[n]

LastOffset == Offset(Len(offsets))

\* The checkpoint under way.  Its id is used again after it failed.
Current == Len(offsets) + 1

\* What there is to commit of it: nothing, if it holds no row.
Pending == IF position > LastOffset THEN {Current} ELSE {}

-----------------------------------------------------------------------------
JobInit ==
    /\ produced = 0
    /\ up = TRUE /\ position = 0
    /\ offsets = <<>>
    /\ committable = {} /\ restorable = {}
    /\ failures = 0
    /\ Sink!Init

\* telemetry_generator.main inserts a batch, which Debezium sends to the topic.
Produce ==
    /\ produced < MaxRows
    /\ produced' = produced + 1
    /\ UNCHANGED <<up, position, offsets, committable, restorable, failures,
                   sinkVars>>

\* INSERT INTO ... SELECT: a row goes from the source into the open checkpoint.
Read ==
    /\ up /\ position < produced
    /\ Sink!Stage(Current, 1)
    /\ position' = position + 1
    /\ UNCHANGED <<produced, up, offsets, committable, restorable, failures>>

\* Mutant of CompleteCheckpoint: only the checkpoint itself is remembered, not
\* the earlier ones whose commit is still due.
CompleteForgetting ==
    /\ up
    /\ position > LastOffset \/ Len(offsets) < LastOffset + MaxIdle
    /\ offsets' = Append(offsets, position)
    /\ committable' = committable \cup Pending
    /\ restorable' = Pending
    /\ UNCHANGED <<produced, up, position, failures, sinkVars>>

\* The barrier has passed: source offset and pending commits become durable.
CompleteCheckpoint ==
    /\ up
    /\ position > LastOffset \/ Len(offsets) < LastOffset + MaxIdle
    /\ offsets' = Append(offsets, position)
    /\ committable' = committable \cup Pending
    /\ restorable' = committable'
    /\ UNCHANGED <<produced, up, position, failures, sinkVars>>

\* Mutant of CommitNext: any of them, not the oldest first.
CommitAny(n) ==
    /\ up /\ n \in committable
    /\ Sink!Commit(n)
    /\ committable' = committable \ {n}
    /\ UNCHANGED <<produced, up, position, offsets, restorable, failures>>

\* The job hears that checkpoints have completed and commits them, the oldest
\* first.  That they are done is durable with the next checkpoint only.
CommitNext(n) ==
    /\ up /\ n \in committable /\ \A m \in committable : n <= m
    /\ Sink!Commit(n)
    /\ committable' = committable \ {n}
    /\ UNCHANGED <<produced, up, position, offsets, restorable, failures>>

\* Mutant of Fail: the rows of the open checkpoint stay staged.
FailWithoutAbort ==
    /\ up /\ failures < MaxFailures
    /\ failures' = failures + 1
    /\ up' = FALSE /\ position' = 0 /\ committable' = {}
    /\ UNCHANGED <<produced, offsets, restorable, sinkVars>>

\* A crash, or a checkpoint that times out: the open checkpoint is aborted and
\* all that is not durable is lost.
Fail ==
    /\ up /\ failures < MaxFailures
    /\ failures' = failures + 1
    /\ up' = FALSE /\ position' = 0 /\ committable' = {}
    /\ Sink!Abort(Current)
    /\ UNCHANGED <<produced, offsets, restorable>>

\* Mutant of Restore: from the start of the topic, as a new job would.
RestoreAtEarliest ==
    /\ ~up
    /\ up' = TRUE /\ position' = 0 /\ committable' = restorable
    /\ UNCHANGED <<produced, offsets, restorable, failures, sinkVars>>

\* Mutant of Restore: pending commits are not taken up again.
RestoreOffsetOnly ==
    /\ ~up
    /\ up' = TRUE /\ position' = LastOffset /\ committable' = {}
    /\ UNCHANGED <<produced, offsets, restorable, failures, sinkVars>>

\* Recovery from the last completed checkpoint: its offset, and its commits,
\* those included that had gone through.
Restore ==
    /\ ~up
    /\ up' = TRUE /\ position' = LastOffset /\ committable' = restorable
    /\ UNCHANGED <<produced, offsets, restorable, failures, sinkVars>>

JobNext ==
    \/ Produce \/ Read \/ CompleteCheckpoint
    \/ \E n \in Checkpoints : CommitNext(n)
    \/ Fail \/ Restore

JobSpec == JobInit /\ [][JobNext]_jobVars

-----------------------------------------------------------------------------
\* Type correctness.
JobTypeOK ==
    /\ produced \in 0..MaxRows
    /\ up \in BOOLEAN
    /\ offsets \in Seq(0..produced)
    /\ position \in IF up THEN LastOffset..produced ELSE {0}
    /\ committable \subseteq DOMAIN offsets
    /\ restorable \subseteq DOMAIN offsets
    /\ failures \in 0..MaxFailures

\* Exactly once, end to end: a completed checkpoint holds the rows between its
\* offset and the one before it, no fewer and none twice, be they visible or
\* still to be committed, through any failures and replays.
CheckpointHoldsItsRows ==
    \A n \in DOMAIN offsets :
        (IF n \in committed THEN Sink!VisibleRows(n) ELSE Sink!StagedRows(n))
            = offsets[n] - Offset(n - 1)

\* A reader sees a prefix of the stream: no checkpoint is visible before all
\* earlier ones with rows are.
VisibleIsPrefix ==
    committed \subseteq DOMAIN offsets
    /\ \A n \in committed : \A m \in DOMAIN offsets :
           m < n /\ offsets[m] > Offset(m - 1) => m \in committed

\* How far the reader sees: the offset of the checkpoint committed last.
Seen == IF files = <<>> THEN 0 ELSE offsets[files[Len(files)].checkpoint_id]

\* The reader's count of rows is that offset.
RowsSeen == Sink!total_rows = Seen

Reader == INSTANCE PrefixDelivery WITH seen <- Seen

ImplementsPrefixDelivery == Reader!Spec

\* Every row that is produced is seen one day.
EveryRowIsSeen == \A n \in 1..MaxRows : produced >= n ~> Seen >= n
=============================================================================
