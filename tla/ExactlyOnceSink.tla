--------------------------- MODULE ExactlyOnceSink ---------------------------
(***************************************************************************)
(* ingest/exactly_once.py: the two-phase commit sink.  Its operations are  *)
(* called in any order, as often as the caller likes: a recovering job may *)
(* repeat, skip or reorder them.                                           *)
(***************************************************************************)
EXTENDS Sums

CONSTANTS
    Checkpoints,  \* checkpoint ids
    RowCounts,    \* row counts one call of stage may bring
    MaxOffered    \* bound on the rows staged per checkpoint

ASSUME SinkAssumption ==
    /\ Checkpoints \subseteq Int
    /\ RowCounts \subseteq Nat
    /\ MaxOffered \in Nat

VARIABLES
    committed,  \* _committed_checkpoints
    aborted,    \* _aborted_checkpoints
    files,      \* _files: the visible files, in commit order
    staged,     \* _staged: rows buffered, a function on the ids it holds
    offered,    \* history: rows ever passed to stage, per checkpoint
    discarded   \* history: rows dropped without becoming visible

vars == <<committed, aborted, files, staged, offered, discarded>>

\* Mutant of StagedRows: -1, for "none", where the default of 0 is meant.
StagedRowsOrNone(id) == IF id \in DOMAIN staged THEN staged[id] ELSE -1

\* dict.get(id, 0) and dict.pop(id, None)
StagedRows(id) == IF id \in DOMAIN staged THEN staged[id] ELSE 0

Without(id) == [i \in DOMAIN staged \ {id} |-> staged[i]]

Init ==
    /\ committed = {} /\ aborted = {} /\ files = <<>>
    /\ staged = [id \in {} |-> 0]
    /\ offered = [id \in Checkpoints |-> 0]
    /\ discarded = [id \in Checkpoints |-> 0]

\* Mutant of Stage: the aborted mark is not cleared.
StageStillAborted(id, rows) ==
    /\ offered[id] + rows <= MaxOffered
    /\ staged' = [i \in DOMAIN staged \cup {id} |->
                     IF i = id THEN StagedRows(id) + rows ELSE staged[i]]
    /\ offered' = [offered EXCEPT ![id] = @ + rows]
    /\ UNCHANGED <<committed, aborted, files, discarded>>

Stage(id, rows) ==
    /\ offered[id] + rows <= MaxOffered
    /\ aborted' = aborted \ {id}
    /\ staged' = [i \in DOMAIN staged \cup {id} |->
                     IF i = id THEN StagedRows(id) + rows ELSE staged[i]]
    /\ offered' = [offered EXCEPT ![id] = @ + rows]
    /\ UNCHANGED <<committed, files, discarded>>

\* commit() of an id already committed: the replay is dropped.
CommitReplay(id) ==
    /\ id \in committed
    /\ staged' = Without(id)
    /\ discarded' = [discarded EXCEPT ![id] = @ + StagedRows(id)]
    /\ UNCHANGED <<committed, aborted, files, offered>>

\* commit() of an id aborted and not staged again: returns False.
CommitAborted(id) ==
    /\ id \notin committed
    /\ id \in aborted /\ id \notin DOMAIN staged
    /\ UNCHANGED vars

\* Mutant of CommitNew: the commit is not remembered.
CommitForgotten(id) ==
    /\ id \notin committed
    /\ ~(id \in aborted /\ id \notin DOMAIN staged)
    /\ files' = Append(files, [checkpoint_id |-> id, rows |-> StagedRows(id)])
    /\ staged' = Without(id)
    /\ aborted' = aborted \ {id}
    /\ UNCHANGED <<committed, offered, discarded>>

\* Mutant of CommitNew: the rows stay staged.
CommitKeepingStaged(id) ==
    /\ id \notin committed
    /\ ~(id \in aborted /\ id \notin DOMAIN staged)
    /\ files' = Append(files, [checkpoint_id |-> id, rows |-> StagedRows(id)])
    /\ committed' = committed \cup {id}
    /\ aborted' = aborted \ {id}
    /\ UNCHANGED <<staged, offered, discarded>>

\* commit() proper.
CommitNew(id) ==
    /\ id \notin committed
    /\ ~(id \in aborted /\ id \notin DOMAIN staged)
    /\ files' = Append(files, [checkpoint_id |-> id, rows |-> StagedRows(id)])
    /\ staged' = Without(id)
    /\ committed' = committed \cup {id}
    /\ aborted' = aborted \ {id}
    /\ UNCHANGED <<offered, discarded>>

Commit(id) == CommitReplay(id) \/ CommitAborted(id) \/ CommitNew(id)

\* Mutant of Abort: a checkpoint that was committed is taken back.
AbortCommitted(id) ==
    /\ staged' = Without(id)
    /\ aborted' = aborted \cup {id}
    /\ committed' = committed \ {id}
    /\ discarded' = [discarded EXCEPT ![id] = @ + StagedRows(id)]
    /\ UNCHANGED <<files, offered>>

Abort(id) ==
    /\ staged' = Without(id)
    /\ aborted' = aborted \cup {id}
    /\ discarded' = [discarded EXCEPT ![id] = @ + StagedRows(id)]
    /\ UNCHANGED <<committed, files, offered>>

Next ==
    \E id \in Checkpoints :
        \/ \E rows \in RowCounts : Stage(id, rows)
        \/ Commit(id)
        \/ Abort(id)

Spec == Init /\ [][Next]_vars

-----------------------------------------------------------------------------
\* What a reader of the table counts.
total_rows == SumOf([i \in DOMAIN files |-> files[i].rows])

\* Type correctness.
TypeOK ==
    /\ committed \subseteq Checkpoints
    /\ aborted \subseteq Checkpoints
    /\ files \in Seq([checkpoint_id : Checkpoints, rows : Nat])
    /\ DOMAIN staged \subseteq Checkpoints
    /\ staged \in [DOMAIN staged -> Nat]
    /\ offered \in [Checkpoints -> Nat]
    /\ discarded \in [Checkpoints -> Nat]

\* Commits are idempotent: a checkpoint has one visible file if it is marked
\* committed, and none otherwise, whatever was replayed or aborted.
OneFilePerCheckpoint ==
    /\ \A i, j \in DOMAIN files :
           files[i].checkpoint_id = files[j].checkpoint_id => i = j
    /\ committed = {files[i].checkpoint_id : i \in DOMAIN files}

\* An abort never leaves rows behind that a later commit could pick up, and a
\* checkpoint staged again after its abort is free to commit.
StagedIsNotAborted == DOMAIN staged \cap aborted = {}

\* What of a checkpoint is visible.
Hidden == -1

VisibleRows(id) ==
    IF id \in committed
    THEN files[CHOOSE i \in DOMAIN files : files[i].checkpoint_id = id].rows
    ELSE Hidden

\* No row is lost and none is counted twice: every row ever staged for a
\* checkpoint is visible, still buffered, or was dropped by an abort or replay.
RowsAccountedFor ==
    \A id \in Checkpoints :
        offered[id] = discarded[id] + StagedRows(id)
                          + (IF id \in committed THEN VisibleRows(id) ELSE 0)

\* The readers' view implements exactly-once delivery.
Delivery == INSTANCE ExactlyOnceDelivery
                WITH buffered <- [id \in Checkpoints |-> StagedRows(id)],
                     visible  <- [id \in Checkpoints |-> VisibleRows(id)]

ImplementsDelivery == Delivery!Spec
=============================================================================
