------------------------------ MODULE IngestPath ------------------------------
(***************************************************************************)
(* The production path as a whole: the Flink job writes data files and     *)
(* commits them to the Iceberg table that PyIcebergBackend maintains.      *)
(* Every attempt at a checkpoint writes a file of its own; the checkpoint  *)
(* that completes remembers which file to commit, and commits it even if   *)
(* the job was down for long in between.                                   *)
(***************************************************************************)
EXTENDS FlinkRecovery, PyIcebergBackend

VARIABLE manifests  \* durable: the files of each completed checkpoint

vars == <<jobVars, lakeVars, manifests>>

\* The file that the open checkpoint is written to.
OpenFile == <<Current, failures>>

ASSUME FilesAssumption == Files = Checkpoints \X (0..MaxFailures)

Init == JobInit /\ LakeInit /\ manifests = <<>>

\* The first row of an attempt opens its file.
ReadRow ==
    /\ Read
    /\ IF written[OpenFile] = Never THEN WriteFile(OpenFile)
                                    ELSE UNCHANGED lakeVars
    /\ UNCHANGED manifests

Complete ==
    /\ CompleteCheckpoint
    /\ manifests' = Append(manifests, {f \in {OpenFile} : written[f] # Never})
    /\ UNCHANGED lakeVars

\* Mutant of CommitCheckpoint: a replay makes another snapshot.
CommitEveryTime(n) ==
    /\ CommitNext(n)
    /\ CommitFiles(manifests[n])
    /\ UNCHANGED manifests

\* A commit makes a snapshot, unless it is the replay of one that was made.
CommitCheckpoint(n) ==
    /\ CommitNext(n)
    /\ IF n \in committed THEN UNCHANGED lakeVars ELSE CommitFiles(manifests[n])
    /\ UNCHANGED manifests

Job ==
    \/ ReadRow \/ Complete
    \/ \E n \in Checkpoints : CommitCheckpoint(n)
    \/ (Produce \/ Fail \/ Restore) /\ UNCHANGED <<lakeVars, manifests>>

Lake == (Tick \/ Maintain) /\ UNCHANGED <<jobVars, manifests>>

Next == Job \/ Lake

Spec == Init /\ [][Next]_vars

\* A job that can go on does: the cluster restarts it, reads, takes checkpoints
\* every 30 seconds and commits them.  Nothing is assumed of producers, of
\* failures, or of maintenance.
FairSpec ==
    /\ Spec
    /\ WF_vars(ReadRow) /\ WF_vars(Complete)
    /\ WF_vars(\E n \in Checkpoints : CommitCheckpoint(n))
    /\ WF_vars(Restore /\ UNCHANGED <<lakeVars, manifests>>)

-----------------------------------------------------------------------------
\* Type correctness.
TypeOK ==
    /\ JobTypeOK
    /\ LakeTypeOK
    /\ manifests \in Seq(SUBSET Files)
    /\ Len(manifests) = Len(offsets)

\* The table and the job agree: what the job has committed, and nothing else,
\* is in the table, commit by commit in the order of the stream.
TableIsTheStream ==
    /\ Len(commits) = Len(files)
    /\ \A i \in DOMAIN commits : commits[i].files = manifests[files[i].checkpoint_id]
=============================================================================
