--------------------------- MODULE IngestPathProofs ---------------------------
(***************************************************************************)
(* The ingest job, the maintained table, and the path that composes them,  *)
(* for any number of rows, idle checkpoints, failures, files, tasks and    *)
(* snapshots to keep.                                                      *)
(*                                                                         *)
(* Of the job: what a completed checkpoint still owes is owed durably      *)
(* (OwedIsRemembered), and it is staged row by row (RowsStaged); so a      *)
(* commit publishes just the rows of its checkpoint.  The oldest is        *)
(* committed first, so that the files are in the order of the stream.      *)
(*                                                                         *)
(* Of the table: an expiry deletes only what was older than KeepLast       *)
(* snapshots when it loaded the table, and there are only more since; an   *)
(* orphan deletion spares what had been committed when it loaded the       *)
(* table, and what was committed later is young (LoadedIsRecent).          *)
(*                                                                         *)
(* Of the composition: each step of it is a step of the job, of the table, *)
(* or of both, so that it inherits what was proved of either.              *)
(***************************************************************************)
EXTENDS IngestPath, OperatorLemmas

(* The job                                                                 *)

\* Types, as far as the proofs need them, and how the offsets relate.
Types ==
    /\ produced \in 0..MaxRows /\ position \in 0..produced
    /\ failures \in 0..MaxFailures
    /\ up \in BOOLEAN /\ (~up => position = 0)
    /\ offsets \in Seq(0..produced)
    /\ committable \subseteq DOMAIN offsets
    /\ restorable \subseteq DOMAIN offsets
    /\ committed \subseteq DOMAIN offsets
    /\ files \in Seq([checkpoint_id : Nat, rows : Nat])

Monotone ==
    /\ \A m, n \in DOMAIN offsets : m <= n => offsets[m] <= offsets[n]
    /\ up => LastOffset <= position
    /\ Len(offsets) <= LastOffset + MaxIdle

HasRows(n) == offsets[n] > Offset(n - 1)

\* Only checkpoints with rows are committed; the sink knows them by their files.
OnlyRows ==
    /\ \A n \in committable \cup restorable : HasRows(n)
    /\ committed = {files[i].checkpoint_id : i \in DOMAIN files}

OwedIsRemembered ==
    \A n \in DOMAIN offsets :
        HasRows(n) /\ n \notin committed =>
            n \in restorable /\ (up => n \in committable)

\* The rows of an open or uncommitted checkpoint are staged, and no others.
RowsStaged ==
    /\ DOMAIN staged \subseteq 1..Current
    /\ \A n \in DOMAIN staged : staged[n] \in Nat
    /\ \A n \in DOMAIN offsets :
           n \notin committed => Sink!StagedRows(n) = offsets[n] - Offset(n - 1)
    /\ Sink!StagedRows(Current) = IF up THEN position - LastOffset ELSE 0

FilesHoldRows ==
    \A i \in DOMAIN files :
        files[i].rows = offsets[files[i].checkpoint_id]
                            - Offset(files[i].checkpoint_id - 1)

FilesInOrder ==
    \A i, j \in DOMAIN files : i < j => files[i].checkpoint_id < files[j].checkpoint_id

JobInv ==
    /\ Types /\ Monotone /\ OnlyRows /\ OwedIsRemembered /\ RowsStaged
    /\ FilesHoldRows /\ FilesInOrder /\ VisibleIsPrefix

-----------------------------------------------------------------------------
\* What Append does to a sequence.
LEMMA AppendFacts ==
  ASSUME NEW S, NEW s \in Seq(S), NEW e \in S
  PROVE  /\ Append(s, e) \in Seq(S)
         /\ Len(s) \in Nat /\ DOMAIN s = 1..Len(s)
         /\ Len(Append(s, e)) = Len(s) + 1
         /\ DOMAIN Append(s, e) = 1..(Len(s) + 1)
         /\ Append(s, e)[Len(s) + 1] = e
         /\ \A i \in DOMAIN s : Append(s, e)[i] = s[i]
  OBVIOUS

LEMMA ElementFacts == ASSUME NEW S, NEW s \in Seq(S) PROVE \A i \in DOMAIN s : s[i] \in S
  OBVIOUS

\* The invariant holds when the job is submitted for the first time.
LEMMA JobInvInit == JobInit => JobInv
  BY JobAssumption
     DEF JobInit, Sink!Init, JobInv, Types, Monotone, OnlyRows, OwedIsRemembered,
         RowsStaged, FilesHoldRows, FilesInOrder, VisibleIsPrefix, LastOffset,
         Offset, Current, HasRows, Sink!StagedRows

\* The offset of a checkpoint lies between 0 and what has been produced.
LEMMA OffsetRange ==
  ASSUME JobInv
  PROVE  /\ \A n \in 0..Len(offsets) : Offset(n) \in 0..produced
         /\ LastOffset \in 0..produced
         /\ produced \in Nat /\ position \in Nat /\ Len(offsets) \in Nat
         /\ Current \in 1..(MaxRows + MaxIdle + 1)
  BY JobAssumption DEF JobInv, Types, Monotone, Offset, LastOffset, Current

\* New rows in the topic disturb nothing.
LEMMA ProduceKeepsInv == ASSUME JobInv, Produce PROVE JobInv'
<1>1. Types'
  BY JobAssumption DEF JobInv, Types, Produce, sinkVars
<1>2. (Monotone /\ OnlyRows /\ OwedIsRemembered /\ RowsStaged /\ FilesHoldRows
          /\ FilesInOrder /\ VisibleIsPrefix)'
  BY DEF JobInv, Produce, sinkVars, Monotone, OnlyRows, OwedIsRemembered,
         RowsStaged, FilesHoldRows, FilesInOrder, VisibleIsPrefix, LastOffset,
         Offset, Current, HasRows, Sink!StagedRows
<1> QED  BY <1>1, <1>2 DEF JobInv

\* A row that is read is staged for the open checkpoint.
LEMMA ReadKeepsInv == ASSUME JobInv, Read PROVE JobInv'
<1> USE DEF Read, Sink!Stage
<1>1. Types' /\ Monotone'
  BY OffsetRange DEF JobInv, Types, Monotone, LastOffset, Offset
<1>2. OnlyRows' /\ OwedIsRemembered' /\ FilesHoldRows' /\ FilesInOrder' /\ VisibleIsPrefix'
  BY DEF JobInv, OnlyRows, OwedIsRemembered, FilesHoldRows, FilesInOrder,
         VisibleIsPrefix, HasRows, Offset
<1>3. RowsStaged'
  <2> PICK c : c = Current
    OBVIOUS
  <2>1. /\ Sink!StagedRows(c)' = Sink!StagedRows(c) + 1
        /\ Sink!StagedRows(c) = position - LastOffset
    BY DEF Sink!StagedRows, JobInv, RowsStaged
  <2>2. /\ \A n \in DOMAIN offsets : Sink!StagedRows(n)' = Sink!StagedRows(n)
        /\ c \in 1..c
    BY OffsetRange DEF Sink!StagedRows, Current, JobInv, Types
  <2>3. \A n \in DOMAIN staged' : n \in 1..c /\ staged'[n] \in Nat
    BY OffsetRange, <2>1, <2>2 DEF JobInv, Monotone, RowsStaged, Sink!StagedRows
  <2>4. Current' = c /\ LastOffset' = LastOffset
    BY DEF Current, LastOffset, Offset
  <2>5. \A n \in DOMAIN offsets :
            n \notin committed => Sink!StagedRows(n)' = offsets[n] - Offset(n - 1)'
    BY <2>2 DEF JobInv, RowsStaged, Offset
  <2>6. Sink!StagedRows(c)' = position' - LastOffset'
    BY <2>1, <2>4, OffsetRange
  <2>7. Sink!StagedRows(Current)' = IF up' THEN position' - LastOffset' ELSE 0
    BY <2>6, <2>4 DEF Sink!StagedRows
  <2> QED  BY <2>3, <2>4, <2>5, <2>7 DEF RowsStaged
<1> QED  BY <1>1, <1>2, <1>3 DEF JobInv

\* A checkpoint that completes holds what was staged since the one before.
LEMMA CompleteKeepsInv == ASSUME JobInv, CompleteCheckpoint PROVE JobInv'
<1> PICK c : c = Current
  OBVIOUS
<1> USE DEF CompleteCheckpoint, sinkVars
<1>1. /\ Len(offsets) \in Nat /\ c = Len(offsets) + 1
      /\ DOMAIN offsets = 1..Len(offsets) /\ c \notin DOMAIN offsets
      /\ DOMAIN offsets' = 1..c /\ Len(offsets') = c
      /\ offsets'[c] = position
      /\ \A n \in DOMAIN offsets : offsets'[n] = offsets[n]
      /\ offsets' \in Seq(0..produced)
  BY DEF JobInv, Types, Current
<1>2. /\ \A n \in 0..Len(offsets) : Offset(n)' = Offset(n)
      /\ LastOffset' = position
      /\ LastOffset = Offset(c - 1) /\ LastOffset = Offset(c - 1)'
      /\ Current' = c + 1
  <2>1. \A n \in 0..Len(offsets) : n = 0 \/ n \in DOMAIN offsets
    BY <1>1
  <2>2. \A n \in 0..Len(offsets) : Offset(n)' = Offset(n)
    BY <1>1, <2>1 DEF Offset
  <2>3. Len(offsets) \in 0..Len(offsets) /\ c - 1 = Len(offsets) /\ c # 0
    BY <1>1
  <2> QED  BY <1>1, <2>2, <2>3 DEF Offset, LastOffset, Current
<1>3. /\ \A n \in DOMAIN offsets : n - 1 \in 0..Len(offsets)
      /\ \A n \in DOMAIN offsets' : n \in DOMAIN offsets \/ n = c
  BY <1>1
<1>4. /\ \A n \in DOMAIN offsets : HasRows(n)' <=> HasRows(n)
      /\ HasRows(c)' <=> position > LastOffset
  BY <1>1, <1>2, <1>3 DEF HasRows
<1>5. /\ committable' = committable \cup Pending /\ restorable' = committable'
      /\ \A n \in Pending : n = c /\ position > LastOffset
      /\ position > LastOffset => c \in Pending
  BY DEF Pending
<1>6. Types'
  <2>1. committable' \subseteq 1..c /\ restorable' \subseteq 1..c /\ committed' \subseteq 1..c
    BY <1>1, <1>5 DEF JobInv, Types
  <2> QED  BY <1>1, <2>1 DEF JobInv, Types
<1>7. Monotone'
  <2>1. \A n \in DOMAIN offsets : offsets[n] <= LastOffset
    BY <1>1 DEF JobInv, Monotone, LastOffset, Offset
  <2>2. \A n \in DOMAIN offsets : offsets[n] \in Nat
    BY <1>1 DEF JobInv, Types
  <2>3. LastOffset <= position /\ LastOffset \in Nat /\ position \in Nat
    BY OffsetRange DEF JobInv, Monotone
  <2>4. \A m, n \in DOMAIN offsets' : m <= n => offsets'[m] <= offsets'[n]
    BY <1>1, <2>1, <2>2, <2>3 DEF JobInv, Monotone
  <2> QED  BY <1>1, <1>2, <2>3, <2>4, JobAssumption DEF JobInv, Monotone
<1>8. OnlyRows'
  <2>1. \A n \in committable' : HasRows(n)'
    BY <1>4, <1>5 DEF JobInv, OnlyRows, Types
  <2> QED  BY <1>5, <2>1 DEF JobInv, OnlyRows
<1>9. OwedIsRemembered'
  <2>1. \A n \in DOMAIN offsets' : HasRows(n)' /\ n \notin committed' => n \in committable'
    BY <1>3, <1>4, <1>5 DEF JobInv, OwedIsRemembered
  <2> QED  BY <1>5, <2>1 DEF OwedIsRemembered
<1>10. RowsStaged'
  <2>1. \A n : Sink!StagedRows(n)' = Sink!StagedRows(n)
    BY DEF Sink!StagedRows
  <2>2. /\ Sink!StagedRows(c) = position - LastOffset
        /\ DOMAIN staged \subseteq 1..c /\ c + 1 \notin 1..c
    BY <1>1 DEF JobInv, RowsStaged
  <2>3. Sink!StagedRows(Current)' = IF up' THEN position' - LastOffset' ELSE 0
    BY <1>2, <2>2, OffsetRange DEF Sink!StagedRows
  <2>4. ASSUME NEW n \in DOMAIN offsets', n \notin committed'
        PROVE  Sink!StagedRows(n)' = offsets'[n] - Offset(n - 1)'
    <3>1. CASE n = c
      BY <3>1, <1>1, <1>2, <2>1, <2>2
    <3>2. CASE n \in DOMAIN offsets
      BY <3>2, <2>4, <1>1, <1>2, <1>3, <2>1 DEF JobInv, RowsStaged
    <3> QED  BY <3>1, <3>2, <1>3
  <2>5. DOMAIN staged' \subseteq 1..Current' /\ \A n \in DOMAIN staged' : staged'[n] \in Nat
    BY <1>1, <1>2, <2>2 DEF JobInv, RowsStaged
  <2> QED  BY <2>3, <2>4, <2>5 DEF RowsStaged
<1>11. FilesHoldRows' /\ FilesInOrder'
  <2>1. \A i \in DOMAIN files : files[i].checkpoint_id \in DOMAIN offsets
    BY DEF JobInv, Types, OnlyRows
  <2>2. FilesHoldRows'
    BY <1>1, <1>2, <1>3, <2>1 DEF JobInv, FilesHoldRows
  <2>3. FilesInOrder'
    BY DEF JobInv, FilesInOrder
  <2> QED  BY <2>2, <2>3
<1>12. VisibleIsPrefix'
  <2>1. ASSUME NEW n \in committed', NEW m \in DOMAIN offsets', m < n,
               offsets'[m] > Offset(m - 1)'
        PROVE  m \in committed'
    BY <2>1, <1>1, <1>2, <1>3 DEF JobInv, VisibleIsPrefix
  <2> QED  BY <2>1, <1>1 DEF JobInv, VisibleIsPrefix
<1> QED  BY <1>6, <1>7, <1>8, <1>9, <1>10, <1>11, <1>12 DEF JobInv

\* A commit that the job owes is not refused: it is either done already, or
\* publishes the staged rows under an id beyond all that are visible.
LEMMA CommitIsReplayOrNew ==
  ASSUME JobInv, NEW n, CommitNext(n)
  PROVE  /\ n \in DOMAIN offsets /\ n \in Nat /\ up
         /\ \/ n \in committed /\ Sink!CommitReplay(n)
            \/ /\ n \notin committed /\ Sink!CommitNew(n)
               /\ Sink!StagedRows(n) = offsets[n] - Offset(n - 1)
               /\ Sink!StagedRows(n) \in Nat
               /\ \A m \in committed : m < n
<1>1. n \in committable /\ n \in DOMAIN offsets /\ n \in Nat /\ up
  BY DEF CommitNext, JobInv, Types
<1>2. CASE n \in committed
  BY <1>1, <1>2 DEF CommitNext, Sink!Commit, Sink!CommitAborted, Sink!CommitNew
<1>3. CASE n \notin committed
  <2>1. /\ Sink!StagedRows(n) = offsets[n] - Offset(n - 1) /\ HasRows(n)
        /\ offsets[n] \in Nat /\ Offset(n - 1) \in Nat
    <3>1. n - 1 \in 0..Len(offsets) /\ Offset(n - 1) \in Nat
      <4>1. offsets \in Seq(0..produced) /\ produced \in Nat
        BY DEF JobInv, Types
      <4>2. n - 1 \in 0..Len(offsets)
        BY <1>1, <4>1
      <4> QED  BY <4>1, <4>2, OffsetRange
    <3> QED  BY <1>1, <1>3, <3>1 DEF JobInv, RowsStaged, OnlyRows, Types
  <2>2. n \in DOMAIN staged /\ Sink!StagedRows(n) \in Nat
    BY <2>1 DEF HasRows, Sink!StagedRows
  <2>3. Sink!CommitNew(n)
    BY <1>3, <2>2 DEF CommitNext, Sink!Commit, Sink!CommitAborted, Sink!CommitReplay
  <2>4. ASSUME NEW m \in committed PROVE m < n
    <3>1. n < m => n \in committed
      BY <1>1, <2>1, <2>4 DEF JobInv, VisibleIsPrefix, HasRows
    <3>2. m # n /\ m \in Nat
      BY <1>3, <2>4 DEF JobInv, Types
    <3> QED  BY <1>1, <1>3, <3>1, <3>2
  <2> QED  BY <1>1, <1>3, <2>1, <2>2, <2>3, <2>4
<1> QED  BY <1>2, <1>3

LEMMA CommitKeepsInv == ASSUME JobInv, NEW n, CommitNext(n) PROVE JobInv'
<1>1. /\ n \in DOMAIN offsets /\ n \in Nat /\ up
      /\ committable' = committable \ {n}
      /\ UNCHANGED <<produced, up, position, offsets, restorable, failures>>
      /\ \A m \in committable : n <= m
  BY CommitIsReplayOrNew DEF CommitNext
<1>2. /\ \A m : Offset(m)' = Offset(m)
      /\ \A m : HasRows(m)' <=> HasRows(m)
      /\ LastOffset' = LastOffset /\ Current' = Current
  BY <1>1 DEF Offset, LastOffset, Current, HasRows
<1>3. Monotone'
  BY <1>1, <1>2 DEF JobInv, Monotone
<1>4. staged' = Sink!Without(n) /\ n # Current
  <2>1. n # Current
    BY <1>1 DEF Current, JobInv, Types
  <2> QED
    BY <2>1, CommitIsReplayOrNew DEF Sink!CommitReplay, Sink!CommitNew
<1>5. /\ \A m : m # n => Sink!StagedRows(m)' = Sink!StagedRows(m)
      /\ DOMAIN staged' \subseteq DOMAIN staged
      /\ \A m \in DOMAIN staged' : staged'[m] = staged[m]
  BY <1>4 DEF Sink!StagedRows, Sink!Without
<1>6. Sink!StagedRows(Current)' = IF up' THEN position' - LastOffset' ELSE 0
  BY <1>1, <1>2, <1>4, <1>5 DEF JobInv, RowsStaged, Sink!StagedRows
<1>7. CASE n \in committed /\ Sink!CommitReplay(n)
  <2>1. UNCHANGED <<committed, files>>
    BY <1>7 DEF Sink!CommitReplay
  <2>2. Types' /\ OnlyRows' /\ FilesHoldRows' /\ FilesInOrder' /\ VisibleIsPrefix'
    BY <1>1, <1>2, <2>1
       DEF JobInv, Types, OnlyRows, FilesHoldRows, FilesInOrder, VisibleIsPrefix
  <2>3. OwedIsRemembered'
    BY <1>1, <1>2, <1>7, <2>1 DEF JobInv, OwedIsRemembered
  <2>4. RowsStaged'
    BY <1>1, <1>2, <1>5, <1>6, <1>7, <2>1 DEF JobInv, RowsStaged
  <2> QED  BY <1>3, <2>2, <2>3, <2>4 DEF JobInv
<1>8. CASE n \notin committed /\ Sink!CommitNew(n)
  <2> DEFINE f == [checkpoint_id |-> n, rows |-> Sink!StagedRows(n)]
  <2>1. /\ committed' = committed \cup {n} /\ files' = Append(files, f)
        /\ Sink!StagedRows(n) = offsets[n] - Offset(n - 1)
        /\ Sink!StagedRows(n) \in Nat
        /\ \A m \in committed : m < n
    BY <1>8, CommitIsReplayOrNew DEF Sink!CommitNew
  <2>3. /\ f.checkpoint_id = n /\ f.rows = Sink!StagedRows(n)
        /\ f \in [checkpoint_id : Nat, rows : Nat]
    BY <1>1, <2>1
  <2> HIDE DEF f
  <2>2. /\ files' \in Seq([checkpoint_id : Nat, rows : Nat])
        /\ DOMAIN files = 1..Len(files) /\ Len(files) \in Nat
        /\ DOMAIN files' = 1..(Len(files) + 1)
        /\ files'[Len(files) + 1] = f
        /\ \A i \in DOMAIN files : files'[i] = files[i]
    <3>1. files \in Seq([checkpoint_id : Nat, rows : Nat])
      BY DEF JobInv, Types
    <3> QED  BY <2>1, <2>3, <3>1, AppendFacts
  <2>4. Types'
    BY <1>1, <2>1, <2>2 DEF JobInv, Types
  <2>5. OnlyRows'
    <3>1. committed' = {files'[i].checkpoint_id : i \in DOMAIN files'}
      BY <2>1, <2>2, <2>3 DEF JobInv, OnlyRows
    <3> QED  BY <1>1, <1>2, <3>1 DEF JobInv, OnlyRows
  <2>6. OwedIsRemembered'
    BY <1>1, <1>2, <2>1 DEF JobInv, OwedIsRemembered
  <2>7. RowsStaged'
    BY <1>1, <1>2, <1>5, <1>6, <2>1 DEF JobInv, RowsStaged
  <2>8. FilesHoldRows'
    <3>1. ASSUME NEW i \in DOMAIN files'
          PROVE  files'[i].rows = offsets[files'[i].checkpoint_id]
                                      - Offset(files'[i].checkpoint_id - 1)
      <4>1. CASE i \in DOMAIN files
        BY <4>1, <2>2 DEF JobInv, FilesHoldRows
      <4>2. CASE i = Len(files) + 1
        BY <4>2, <2>1, <2>2, <2>3
      <4> QED  BY <3>1, <4>1, <4>2, <2>2
    <3> QED  BY <1>1, <1>2, <3>1 DEF FilesHoldRows
  <2>9. FilesInOrder'
    <3>1. \A i \in DOMAIN files : files[i].checkpoint_id < n
      BY <2>1 DEF JobInv, OnlyRows
    <3>2. ASSUME NEW i \in DOMAIN files', NEW j \in DOMAIN files', i < j
          PROVE  files'[i].checkpoint_id < files'[j].checkpoint_id
      <4>1. i \in DOMAIN files /\ (j \in DOMAIN files \/ j = Len(files) + 1)
        BY <2>2, <3>2
      <4> QED  BY <2>2, <2>3, <3>1, <3>2, <4>1 DEF JobInv, FilesInOrder
    <3> QED  BY <3>2 DEF FilesInOrder
  <2>10. VisibleIsPrefix'
    <3>1. ASSUME NEW m \in DOMAIN offsets, m < n, HasRows(m) PROVE m \in committed
      BY <1>1, <3>1 DEF JobInv, OwedIsRemembered, Types
    <3>2. ASSUME NEW k \in committed', NEW m \in DOMAIN offsets', m < k,
                 offsets'[m] > Offset(m - 1)'
          PROVE  m \in committed'
      BY <1>1, <1>2, <2>1, <3>1, <3>2 DEF JobInv, VisibleIsPrefix, HasRows
    <3> QED  BY <1>1, <2>1, <3>2 DEF JobInv, VisibleIsPrefix
  <2> QED  BY <1>3, <2>4, <2>5, <2>6, <2>7, <2>8, <2>9, <2>10 DEF JobInv
<1> QED  BY <1>7, <1>8, CommitIsReplayOrNew

\* A failure costs only what is not durable.
LEMMA FailKeepsInv == ASSUME JobInv, Fail PROVE JobInv'
<1> USE DEF Fail, Sink!Abort
<1>1. /\ \A m : Offset(m)' = Offset(m)
      /\ \A m : HasRows(m)' <=> HasRows(m)
      /\ LastOffset' = LastOffset /\ Current' = Current
  BY DEF Offset, LastOffset, Current, HasRows
<1>2. Types' /\ Monotone'
  <2>1. failures' \in 0..MaxFailures /\ position' \in 0..produced' /\ ~up'
    BY OffsetRange, JobAssumption DEF JobInv, Types
  <2>2. Types'
    BY <2>1 DEF JobInv, Types
  <2> QED  BY <1>1, <2>1, <2>2 DEF JobInv, Monotone
<1>3. OnlyRows' /\ OwedIsRemembered' /\ FilesHoldRows' /\ FilesInOrder' /\ VisibleIsPrefix'
  BY <1>1 DEF JobInv, OnlyRows, OwedIsRemembered, FilesHoldRows, FilesInOrder,
              VisibleIsPrefix
<1>4. RowsStaged'
  <2> PICK c : c = Current
    OBVIOUS
  <2>1. /\ \A m : m # c => Sink!StagedRows(m)' = Sink!StagedRows(m)
        /\ Sink!StagedRows(c)' = 0
        /\ DOMAIN staged' \subseteq DOMAIN staged
        /\ \A m \in DOMAIN staged' : staged'[m] = staged[m]
    BY DEF Sink!StagedRows, Sink!Without
  <2>2. c \notin DOMAIN offsets
    BY DEF JobInv, Types, Current
  <2>3. Sink!StagedRows(Current)' = 0
    BY <1>1, <2>1 DEF Sink!StagedRows
  <2> QED  BY <1>1, <2>1, <2>2, <2>3 DEF JobInv, RowsStaged
<1> QED  BY <1>2, <1>3, <1>4 DEF JobInv

\* Recovery takes up what is owed where the last checkpoint left it.
LEMMA RestoreKeepsInv == ASSUME JobInv, Restore PROVE JobInv'
<1> USE DEF Restore, sinkVars
<1>1. /\ \A m : Offset(m)' = Offset(m)
      /\ \A m : HasRows(m)' <=> HasRows(m)
      /\ LastOffset' = LastOffset /\ Current' = Current
      /\ \A m : Sink!StagedRows(m)' = Sink!StagedRows(m)
  BY DEF Offset, LastOffset, Current, HasRows, Sink!StagedRows
<1>2. Types' /\ Monotone'
  BY <1>1, OffsetRange DEF JobInv, Types, Monotone
<1>3. OnlyRows' /\ OwedIsRemembered' /\ FilesHoldRows' /\ FilesInOrder' /\ VisibleIsPrefix'
  BY <1>1 DEF JobInv, OnlyRows, OwedIsRemembered, FilesHoldRows, FilesInOrder,
              VisibleIsPrefix
<1>4. RowsStaged'
  <2>1. Sink!StagedRows(Current)' = IF up' THEN position' - LastOffset' ELSE 0
    BY <1>1, OffsetRange DEF JobInv, RowsStaged, Sink!StagedRows
  <2> QED  BY <1>1, <2>1 DEF JobInv, RowsStaged
<1> QED  BY <1>2, <1>3, <1>4 DEF JobInv

LEMMA StutterKeepsInv == ASSUME JobInv, UNCHANGED jobVars PROVE JobInv'
  BY DEF jobVars, sinkVars, JobInv, Types, Monotone, OnlyRows, OwedIsRemembered,
         RowsStaged, FilesHoldRows, FilesInOrder, VisibleIsPrefix, LastOffset,
         Offset, Current, HasRows, Sink!StagedRows

\* JobInv is an inductive invariant of the job.
THEOREM JobIsInductive == JobSpec => []JobInv
<1>1. JobInv /\ [JobNext]_jobVars => JobInv'
  BY ProduceKeepsInv, ReadKeepsInv, CompleteKeepsInv, CommitKeepsInv,
     FailKeepsInv, RestoreKeepsInv, StutterKeepsInv DEF JobNext
<1> QED  BY <1>1, JobInvInit, PTL DEF JobSpec

-----------------------------------------------------------------------------
\* Each completed checkpoint holds the rows between two offsets, exactly once.
LEMMA InvImpliesRows == ASSUME JobInv PROVE CheckpointHoldsItsRows
<1> SUFFICES ASSUME NEW n \in DOMAIN offsets, n \in committed
             PROVE  Sink!VisibleRows(n) = offsets[n] - Offset(n - 1)
  BY DEF JobInv, RowsStaged, CheckpointHoldsItsRows
<1>1. PICK i \in DOMAIN files : files[i].checkpoint_id = n
  BY DEF JobInv, OnlyRows
<1>2. PICK j : j = CHOOSE i_1 \in DOMAIN files : files[i_1].checkpoint_id = n
  OBVIOUS
<1>3. j \in DOMAIN files /\ files[j].checkpoint_id = n
  BY <1>1, <1>2
<1>4. Sink!VisibleRows(n) = files[j].rows
  BY <1>2 DEF Sink!VisibleRows
<1> QED  BY <1>3, <1>4 DEF JobInv, FilesHoldRows

\* Whatever fails, and whichever commits are replayed: a completed checkpoint
\* holds the rows between its offsets, each of them once.
THEOREM RowsAreExactlyOnce == JobSpec => []CheckpointHoldsItsRows
  BY JobIsInductive, InvImpliesRows, PTL

\* The files of a table are visible in the order of the stream, without gaps.
THEOREM OrderIsKept == JobSpec => []VisibleIsPrefix
<1>1. JobInv => VisibleIsPrefix
  BY DEF JobInv
<1> QED  BY <1>1, JobIsInductive, PTL

\* When a checkpoint is published, the reader sees all rows before it: none of
\* those that lie between the last visible checkpoint and it holds a row.
LEMMA SeenUpToHere ==
  ASSUME JobInv, NEW n, CommitNext(n), n \notin committed
  PROVE  Seen = Offset(n - 1)
<1> DEFINE last == IF files = <<>> THEN 0 ELSE files[Len(files)].checkpoint_id
<1>1. /\ n \in DOMAIN offsets /\ n \in Nat /\ up
      /\ \A m \in committed : m < n
      /\ \A m \in committable : n <= m
  BY CommitIsReplayOrNew DEF CommitNext
<1>2. /\ DOMAIN offsets = 1..Len(offsets) /\ Len(offsets) \in Nat
      /\ \A m \in DOMAIN offsets : offsets[m] \in Nat
  BY DEF JobInv, Types
<1>3. /\ last \in Nat /\ last < n
      /\ \A m \in committed : m <= last
      /\ Seen = Offset(last)
  <2>1. /\ DOMAIN files = 1..Len(files) /\ Len(files) \in Nat
        /\ \A i \in DOMAIN files : files[i].checkpoint_id \in committed
    BY DEF JobInv, Types, OnlyRows
  <2>2. CASE files = <<>>
    <3>1. committed = {}
      BY <2>1, <2>2 DEF JobInv, OnlyRows
    <3> QED  BY <1>1, <1>2, <2>2, <3>1 DEF Seen, Offset
  <2>3. CASE files # <<>>
    <3>1. Len(files) \in DOMAIN files /\ last = files[Len(files)].checkpoint_id
      BY <2>1, <2>3 DEF JobInv, Types
    <3>2. last \in committed /\ last \in DOMAIN offsets
      BY <2>1, <3>1 DEF JobInv, Types
    <3>3. last \in Nat /\ last # 0
      BY <1>2, <3>2
    <3>4. ASSUME NEW m \in committed PROVE m <= last
      <4>1. PICK i \in DOMAIN files : files[i].checkpoint_id = m
        BY DEF JobInv, OnlyRows
      <4>2. m \in Nat
        BY <1>2 DEF JobInv, Types
      <4>3. i = Len(files) \/ i < Len(files)
        BY <2>1
      <4> QED  BY <3>1, <3>3, <4>1, <4>2, <4>3 DEF JobInv, FilesInOrder
    <3>5. Seen = Offset(last)
      BY <2>3, <3>1, <3>3 DEF Seen, Offset
    <3> HIDE DEF last
    <3> QED  BY <1>1, <3>2, <3>3, <3>4, <3>5
  <2> QED  BY <2>2, <2>3
<1> HIDE DEF last
<1>4. ASSUME NEW m \in Nat, last < m, m < n PROVE Offset(m) = Offset(m - 1)
  <2>1. m \in DOMAIN offsets /\ m \notin committed /\ m \notin committable
    BY <1>1, <1>2, <1>3, <1>4
  <2>2. ~HasRows(m)
    BY <1>1, <2>1 DEF JobInv, OwedIsRemembered
  <2>3. m - 1 = 0 \/ m - 1 \in DOMAIN offsets
    BY <1>2, <2>1
  <2>4. Offset(m - 1) <= offsets[m] /\ Offset(m - 1) \in Nat /\ offsets[m] \in Nat
    BY <1>2, <2>1, <2>3 DEF JobInv, Monotone, Offset
  <2> QED  BY <1>3, <1>4, <2>2, <2>4 DEF HasRows, Offset
<1> DEFINE T == {k \in Nat : last + k < n => Offset(last + k) = Offset(last)}
<1>5. 0 \in T
  BY <1>3
<1>6. ASSUME NEW k \in Nat, k \in T PROVE k + 1 \in T
  <2> SUFFICES ASSUME last + (k + 1) < n PROVE Offset(last + (k + 1)) = Offset(last)
    OBVIOUS
  <2>1. /\ last + (k + 1) \in Nat /\ last < last + (k + 1)
        /\ (last + (k + 1)) - 1 = last + k /\ last + k < n
    BY <1>1, <1>3
  <2> QED  BY <1>4, <1>6, <2>1
<1>7. Nat \subseteq T
  <2> HIDE DEF T
  <2> QED  BY <1>5, <1>6, SetInduction
<1>8. /\ (n - 1) - last \in Nat
      /\ last + ((n - 1) - last) = n - 1 /\ n - 1 < n
  BY <1>1, <1>3
<1>9. Offset(last + ((n - 1) - last)) = Offset(last)
  BY <1>7, <1>8
<1> QED  BY <1>3, <1>8, <1>9

\* A new file adds its rows to the reader's count.
LEMMA TotalGrows ==
  ASSUME NEW fs \in Seq([checkpoint_id : Nat, rows : Nat]),
         NEW f \in [checkpoint_id : Nat, rows : Nat]
  PROVE  SumOf([i \in DOMAIN Append(fs, f) |-> Append(fs, f)[i].rows])
             = SumOf([i \in DOMAIN fs |-> fs[i].rows]) + f.rows
<1> DEFINE F == [checkpoint_id : Nat, rows : Nat]
           w == [g \in F |-> g.rows]
<1>1. w \in [F -> Int]
  OBVIOUS
<1>2. ASSUME NEW s \in Seq(F)
      PROVE  [i \in DOMAIN s |-> w[s[i]]] = [i \in DOMAIN s |-> s[i].rows]
  <2>1. \A g \in F : w[g] = g.rows
    OBVIOUS
  <2> HIDE DEF F, w
  <2>2. \A i \in DOMAIN s : s[i] \in F
    BY ElementFacts
  <2> QED  BY <2>1, <2>2
<1>3. Append(fs, f) \in Seq(F) /\ w[f] = f.rows
  OBVIOUS
<1>4. \A s \in Seq(F) : Weigh(s, w) = SumOf([i \in DOMAIN s |-> s[i].rows])
  BY <1>2 DEF Weigh
<1>5. Weigh(Append(fs, f), w) = Weigh(fs, w) + w[f]
  <2> HIDE DEF w
  <2> QED  BY <1>1, WeighAppend
<1> QED  BY <1>3, <1>4, <1>5

LEMMA TotalOfFiles == Sink!total_rows = SumOf([i \in DOMAIN files |-> files[i].rows])
  BY DEF Sink!total_rows, Sink!SumOf, SumOf

\* What a reader counts stays the offset up to which it sees.
LEMMA RowsSeenStep ==
  ASSUME JobInv, JobInv', RowsSeen, [JobNext]_jobVars PROVE RowsSeen'
<1>1. ASSUME files' = files, files # <<>> => \A n \in committed : offsets'[n] = offsets[n]
      PROVE  RowsSeen'
  <2>1. files # <<>> => files[Len(files)].checkpoint_id \in committed
    <3>1. files \in Seq([checkpoint_id : Nat, rows : Nat])
      BY DEF JobInv, Types
    <3>2. files # <<>> => Len(files) \in DOMAIN files
      BY <3>1
    <3> QED  BY <3>2 DEF JobInv, OnlyRows
  <2>2. Seen' = Seen
    BY <1>1, <2>1 DEF Seen
  <2>3. Sink!total_rows' = Sink!total_rows
    BY <1>1 DEF Sink!total_rows
  <2> QED  BY <2>2, <2>3 DEF RowsSeen
<1>2. CASE Produce \/ Read \/ Fail \/ Restore \/ UNCHANGED jobVars
  BY <1>1, <1>2 DEF Produce, Read, Fail, Restore, jobVars, sinkVars, Sink!Stage, Sink!Abort
<1>3. CASE CompleteCheckpoint
  <2>1. \A n \in committed : offsets'[n] = offsets[n]
    BY <1>3 DEF CompleteCheckpoint, JobInv, Types
  <2> QED  BY <1>1, <1>3, <2>1 DEF CompleteCheckpoint, sinkVars
<1>4. ASSUME NEW n \in Checkpoints, CommitNext(n) PROVE RowsSeen'
  <2>1. CASE Sink!CommitReplay(n)
    BY <1>1, <1>4, <2>1 DEF CommitNext, Sink!CommitReplay
  <2>2. CASE n \notin committed /\ Sink!CommitNew(n)
    <3> DEFINE f == [checkpoint_id |-> n, rows |-> Sink!StagedRows(n)]
    <3>1. /\ files' = Append(files, f) /\ offsets' = offsets
          /\ files \in Seq([checkpoint_id : Nat, rows : Nat])
          /\ f \in [checkpoint_id : Nat, rows : Nat]
          /\ f.checkpoint_id = n /\ f.rows = offsets[n] - Offset(n - 1)
      BY <1>4, <2>2, CommitIsReplayOrNew DEF CommitNext, Sink!CommitNew, JobInv, Types
    <3> HIDE DEF f
    <3>2. Sink!total_rows' = Sink!total_rows + f.rows
      <4>1. Sink!total_rows' = SumOf([i \in DOMAIN files' |-> files'[i].rows])
        BY DEF Sink!total_rows, Sink!SumOf, SumOf
      <4> QED  BY <3>1, <4>1, TotalOfFiles, TotalGrows
    <3>3. Sink!total_rows = Offset(n - 1)
      BY <1>4, <2>2, SeenUpToHere DEF RowsSeen
    <3>4. Offset(n - 1) \in Nat /\ offsets[n] \in Nat
      <4>1. n \in DOMAIN offsets /\ n - 1 \in 0..Len(offsets)
        BY <1>4, CommitIsReplayOrNew DEF JobInv, Types
      <4>2. Offset(n - 1) \in Nat
        BY <4>1, OffsetRange
      <4>3. offsets \in Seq(0..produced) /\ produced \in Nat
        BY DEF JobInv, Types
      <4>4. offsets[n] \in 0..produced
        BY <4>1, <4>3, ElementFacts
      <4> QED  BY <4>2, <4>3, <4>4
    <3>5. Seen' = offsets[n]
      <4>1. files' # <<>> /\ files'[Len(files')] = f
        BY <3>1, AppendFacts
      <4> QED  BY <3>1, <4>1 DEF Seen
    <3> QED  BY <3>1, <3>2, <3>3, <3>4, <3>5 DEF RowsSeen
  <2> QED  BY <1>4, <2>1, <2>2, CommitIsReplayOrNew
<1> QED  BY <1>2, <1>3, <1>4 DEF JobNext

\* The number of rows a reader counts is the offset up to which it sees the
\* stream: nothing is missing before it and nothing is counted twice.
THEOREM CountIsPosition == JobSpec => []RowsSeen
<1>1. JobInit => RowsSeen
  <2>1. SumOf([i \in DOMAIN <<>> |-> <<>>[i].rows]) = 0
    <3>1. [i \in DOMAIN <<>> |-> <<>>[i].rows] = <<>>
      OBVIOUS
    <3> QED  BY <3>1, SumEmpty
  <2> QED  BY <2>1, TotalOfFiles DEF JobInit, Sink!Init, RowsSeen, Seen
<1>2. JobInv /\ JobInv' /\ RowsSeen /\ [JobNext]_jobVars => RowsSeen'
  BY RowsSeenStep
<1> QED  BY <1>1, <1>2, JobIsInductive, PTL DEF JobSpec

\* A step of the job is a step of PrefixDelivery, or changes nothing there.
LEMMA JobStepRefines ==
  ASSUME JobInv, JobInv', [JobNext]_jobVars
  PROVE  [Reader!Next]_(Reader!vars)
<1> USE DEF Reader!Next, Reader!vars, Reader!Produce, Reader!Publish
<1>1. ASSUME files' = files, files # <<>> => \A n \in committed : offsets'[n] = offsets[n]
      PROVE  Seen' = Seen
  <2>1. files # <<>> => files[Len(files)].checkpoint_id \in committed
    BY DEF JobInv, Types, OnlyRows
  <2> QED  BY <1>1, <2>1 DEF Seen
<1>2. CASE Produce
  BY <1>1, <1>2 DEF Produce, sinkVars
<1>3. CASE Read \/ Fail \/ Restore \/ UNCHANGED jobVars
  BY <1>1, <1>3 DEF Read, Fail, Restore, jobVars, sinkVars, Sink!Stage, Sink!Abort
<1>4. CASE CompleteCheckpoint
  <2>1. \A n \in committed : offsets'[n] = offsets[n]
    BY <1>4 DEF CompleteCheckpoint, JobInv, Types
  <2> QED  BY <1>1, <1>4, <2>1 DEF CompleteCheckpoint, sinkVars
<1>5. ASSUME NEW n \in Checkpoints, CommitNext(n)
      PROVE  [Reader!Next]_(Reader!vars)
  <2>1. produced' = produced /\ offsets' = offsets
    BY <1>5 DEF CommitNext
  <2>2. CASE Sink!CommitReplay(n)
    BY <1>1, <2>1, <2>2 DEF Sink!CommitReplay
  <2>3. CASE Sink!CommitNew(n) /\ (\A m \in committed : m < n)
    <3>1. Len(files) \in Nat /\ Len(files') = Len(files) + 1
          /\ files' # <<>> /\ files'[Len(files')].checkpoint_id = n
      <4> DEFINE f == [checkpoint_id |-> n, rows |-> Sink!StagedRows(n)]
      <4>1. files \in Seq([checkpoint_id : Nat, rows : Nat])
            /\ f \in [checkpoint_id : Nat, rows : Nat] /\ f.checkpoint_id = n
        BY <1>5, <2>3, CommitIsReplayOrNew DEF JobInv, Types, Sink!CommitReplay, Sink!CommitNew
      <4>2. files' = Append(files, f)
        BY <2>3 DEF Sink!CommitNew
      <4> HIDE DEF f
      <4> QED  BY <4>1, <4>2, AppendFacts
    <3>2. Seen' = offsets[n] /\ n \in DOMAIN offsets /\ offsets[n] \in 0..produced
      <4>1. n \in DOMAIN offsets
        BY <1>5 DEF CommitNext, JobInv, Types
      <4>2. offsets \in Seq(0..produced)
        BY DEF JobInv, Types
      <4>3. offsets[n] \in 0..produced
        BY <4>1, <4>2, ElementFacts
      <4>4. Seen' = offsets[n]
        BY <3>1, <2>1 DEF Seen
      <4> QED  BY <4>1, <4>3, <4>4
    <3>3. Seen <= offsets[n] /\ Seen \in Nat
      <4>1. files # <<>> => files[Len(files)].checkpoint_id \in committed
        BY DEF JobInv, Types, OnlyRows
      <4>2. ASSUME NEW m \in committed PROVE offsets[m] <= offsets[n] /\ offsets[m] \in Nat
        <5>1. m \in DOMAIN offsets /\ m < n
          BY <2>3 DEF JobInv, Types
        <5>2. offsets \in Seq(0..produced) /\ produced \in Nat
          BY DEF JobInv, Types
        <5>3. offsets[m] <= offsets[n]
          BY <5>1, <3>2 DEF JobInv, Monotone
        <5>4. offsets[m] \in 0..produced
          BY <5>1, <5>2
        <5> QED  BY <5>2, <5>3, <5>4
      <4>3. offsets[n] \in Nat
        BY <3>2
      <4> QED  BY <4>1, <4>2, <4>3, <3>2 DEF Seen
    <3> QED  BY <2>1, <3>2, <3>3, OffsetRange
  <2> QED  BY <1>5, <2>2, <2>3, CommitIsReplayOrNew
<1> QED  BY <1>2, <1>3, <1>4, <1>5 DEF JobNext

\* The job implements PrefixDelivery: through any failures, a reader sees a
\* prefix of the stream that only grows.
THEOREM JobImplementsPrefixDelivery == JobSpec => ImplementsPrefixDelivery
<1>1. JobInit => Reader!Init
  BY DEF JobInit, Reader!Init, Sink!Init, Seen
<1> QED
  BY <1>1, JobIsInductive, JobStepRefines, PTL
     DEF JobSpec, ImplementsPrefixDelivery, Reader!Spec

-----------------------------------------------------------------------------
(* The table                                                               *)

\* Snapshots are stamped in order, and not in the future.
TimesInOrder ==
    /\ \A i \in DOMAIN commits : commits[i].time <= clock
    /\ \A i, j \in DOMAIN commits : i <= j => commits[i].time <= commits[j].time

\* What is gone from the store was old when it went.
GoneIsOld ==
    \A f \in Files \ storage : written[f] = Never \/ written[f] + OrphanGrace < clock

\* A task that is about to delete orphans loaded the table recently: it knows
\* of every commit, or the commit came after.
LoadedIsRecent ==
    \A t \in Tasks :
        tasks[t].pc = "delete_orphan_files" =>
            /\ tasks[t].at <= clock /\ clock <= tasks[t].at + TaskTime
            /\ \A i \in DOMAIN commits :
                   (\E n \in tasks[t].seen : i <= n) \/ commits[i].time >= tasks[t].at

LakeInv ==
    /\ LakeTypeOK /\ TimesInOrder /\ NewestSnapshotsSurvive
    /\ GoneIsOld /\ LoadedIsRecent /\ OnlyLateCommitsDangle

\* The types of a commit.
LEMMA CommitFacts ==
  ASSUME LakeTypeOK
  PROVE  /\ Len(commits) \in Nat /\ DOMAIN commits = 1..Len(commits)
         /\ \A i \in DOMAIN commits :
                commits[i].time \in Nat /\ commits[i].files \in SUBSET Files
<1> DEFINE C == [time : Nat, files : SUBSET Files]
<1>1. commits \in Seq(C)
  BY DEF LakeTypeOK
<1>2. \A c \in C : c.time \in Nat /\ c.files \in SUBSET Files
  OBVIOUS
<1>3. Len(commits) \in Nat /\ DOMAIN commits = 1..Len(commits)
  BY DEF LakeTypeOK
<1> HIDE DEF C
<1>4. \A i \in DOMAIN commits : commits[i] \in C
  BY <1>1, ElementFacts
<1> QED  BY <1>2, <1>3, <1>4

LEMMA LakeInvInit == LakeInit => LakeInv
  BY LakeAssumption
     DEF LakeInit, LakeInv, LakeTypeOK, TimesInOrder, NewestSnapshotsSurvive,
         GoneIsOld, LoadedIsRecent, OnlyLateCommitsDangle, Idle, Never

\* An expiry leaves the newest KeepLast snapshots, and the current one.
LEMMA ExpiredAreOld ==
  ASSUME LakeTypeOK, TimesInOrder, NEW S \in SUBSET (DOMAIN commits), NEW n \in Expired(S)
  PROVE  n < Len(commits) /\ n <= Len(commits) - KeepLast
<1>1. Len(commits) \in Nat /\ DOMAIN commits = 1..Len(commits)
  BY DEF LakeTypeOK
<1>2. PICK c \in S : IsCutoff(c, S) /\ commits[n].time < commits[c].time
  BY DEF Expired, IsCutoff
<1>3. n \in DOMAIN commits /\ c \in DOMAIN commits /\ n < c
  <2>1. n \in DOMAIN commits /\ c \in DOMAIN commits
    BY <1>2 DEF Expired
  <2>2. commits[n].time \in Nat /\ commits[c].time \in Nat
    BY <2>1, CommitFacts
  <2>3. c <= n => commits[c].time <= commits[n].time
    BY <2>1 DEF TimesInOrder
  <2> QED  BY <1>1, <1>2, <2>1, <2>2, <2>3
<1>4. KeepLast <= Len(commits) - c
  <2> DEFINE Newer == {i \in S : i > c}
  <2>1. Newer \subseteq (c + 1)..Len(commits)
    BY <1>1, <1>3
  <2>2. /\ IsFiniteSet((c + 1)..Len(commits))
        /\ Cardinality((c + 1)..Len(commits)) = Len(commits) - c
    <3>1. c + 1 \in Int /\ Len(commits) \in Int /\ c <= Len(commits)
      BY <1>1, <1>3
    <3>2. /\ IsFiniteSet((c + 1)..Len(commits))
          /\ Cardinality((c + 1)..Len(commits)) =
                 IF c + 1 > Len(commits) THEN 0 ELSE Len(commits) - (c + 1) + 1
      BY <3>1, FS_Interval
    <3>3. c \in Int /\ (IF c + 1 > Len(commits) THEN 0 ELSE Len(commits) - (c + 1) + 1)
                           = Len(commits) - c
      BY <3>1, <1>1, <1>3
    <3> QED  BY <3>2, <3>3
  <2>3. Cardinality(Newer) <= Len(commits) - c
    BY <2>1, <2>2, FS_Subset
  <2> QED  BY <1>2, <2>3 DEF IsCutoff
<1> QED  BY <1>1, <1>3, <1>4, LakeAssumption

\* Time passes only as far as the tasks under way allow.
LEMMA TickKeepsInv == ASSUME LakeInv, Tick PROVE LakeInv'
<1> USE DEF Tick
<1>1. LakeTypeOK'
  BY DEF LakeInv, LakeTypeOK
<1>2. TimesInOrder'
  <2>1. \A i \in DOMAIN commits : commits[i].time \in Nat
    BY CommitFacts DEF LakeInv
  <2> QED  BY <2>1 DEF LakeInv, LakeTypeOK, TimesInOrder
<1>3. GoneIsOld'
  BY LakeAssumption DEF LakeInv, LakeTypeOK, GoneIsOld, Never
<1>4. LoadedIsRecent'
  <2>1. \A t \in Tasks : tasks[t].at \in Nat
    BY DEF LakeInv, LakeTypeOK
  <2> QED  BY <2>1, LakeAssumption DEF LakeInv, LakeTypeOK, LoadedIsRecent
<1>5. NewestSnapshotsSurvive' /\ OnlyLateCommitsDangle'
  BY DEF LakeInv, NewestSnapshotsSurvive, OnlyLateCommitsDangle
<1> QED  BY <1>1, <1>2, <1>3, <1>4, <1>5 DEF LakeInv

LEMMA WriteFileKeepsInv == ASSUME LakeInv, NEW f \in Files, WriteFile(f) PROVE LakeInv'
<1> USE DEF WriteFile
<1>1. LakeTypeOK'
  BY DEF LakeInv, LakeTypeOK
<1>2. TimesInOrder' /\ NewestSnapshotsSurvive' /\ LoadedIsRecent'
  BY DEF LakeInv, TimesInOrder, NewestSnapshotsSurvive, LoadedIsRecent
<1>3. GoneIsOld'
  BY DEF LakeInv, LakeTypeOK, GoneIsOld
<1>4. OnlyLateCommitsDangle'
  BY DEF LakeInv, LakeTypeOK, OnlyLateCommitsDangle
<1> QED  BY <1>1, <1>2, <1>3, <1>4 DEF LakeInv

\* A commit is the newest, and if one of its files is gone, it comes late.
LEMMA CommitFilesKeepsInv ==
  ASSUME LakeInv, NEW new \in SUBSET Files, CommitFiles(new) PROVE LakeInv'
<1> DEFINE c == [time |-> clock, files |-> new]
           N == Len(commits) + 1
<1>1. /\ commits' = Append(commits, c) /\ live' = live \cup {N}
      /\ UNCHANGED <<clock, written, storage, target, tasks>>
      /\ \A f \in new : written[f] # Never
  BY DEF CommitFiles
<1>2. /\ c \in [time : Nat, files : SUBSET Files]
      /\ c.time = clock /\ c.files = new
  BY DEF LakeInv, LakeTypeOK
<1> HIDE DEF c
<1>3. /\ commits' \in Seq([time : Nat, files : SUBSET Files])
      /\ Len(commits) \in Nat /\ DOMAIN commits = 1..Len(commits)
      /\ DOMAIN commits' = 1..N /\ Len(commits') = N
      /\ commits'[N] = c
      /\ \A i \in DOMAIN commits : commits'[i] = commits[i]
  BY <1>1, <1>2, AppendFacts DEF LakeInv, LakeTypeOK
<1>4. \A i \in DOMAIN commits' : i \in DOMAIN commits \/ i = N
  BY <1>3
<1>5. LakeTypeOK'
  BY <1>1, <1>3 DEF LakeInv, LakeTypeOK
<1>6. TimesInOrder'
  <2>1. \A i \in DOMAIN commits' : commits'[i].time <= clock
    BY <1>2, <1>3, <1>4 DEF LakeInv, LakeTypeOK, TimesInOrder
  <2>2. ASSUME NEW i \in DOMAIN commits', NEW j \in DOMAIN commits', i <= j
        PROVE  commits'[i].time <= commits'[j].time
    BY <2>1, <2>2, <1>2, <1>3, <1>4 DEF LakeInv, TimesInOrder
  <2> QED  BY <1>1, <2>1, <2>2 DEF TimesInOrder
<1>7. NewestSnapshotsSurvive'
  BY <1>1, <1>3, <1>4, LakeAssumption DEF LakeInv, NewestSnapshotsSurvive
<1>8. GoneIsOld'
  BY <1>1 DEF LakeInv, GoneIsOld
<1>9. LoadedIsRecent'
  BY <1>1, <1>2, <1>3, <1>4 DEF LakeInv, LakeTypeOK, LoadedIsRecent
<1>10. OnlyLateCommitsDangle'
  <2>1. ASSUME NEW f \in new, f \notin storage
        PROVE  clock > written[f] + OrphanGrace - TaskTime
    <3>1. written[f] \in Nat /\ written[f] + OrphanGrace < clock
      BY <2>1, <1>1 DEF LakeInv, LakeTypeOK, GoneIsOld
    <3> QED  BY <3>1, LakeAssumption DEF LakeInv, LakeTypeOK
  <2>2. ASSUME NEW i \in DOMAIN commits', NEW f \in commits'[i].files, f \notin storage'
        PROVE  commits'[i].time > written'[f] + OrphanGrace - TaskTime
    BY <2>1, <2>2, <1>1, <1>2, <1>3, <1>4 DEF LakeInv, OnlyLateCommitsDangle
  <2> QED  BY <2>2 DEF OnlyLateCommitsDangle
<1> QED  BY <1>5, <1>6, <1>7, <1>8, <1>9, <1>10 DEF LakeInv

\* Maintenance leaves the commits, the clock and the write times alone.
LEMMA ExpireKeepsInv ==
  ASSUME LakeInv, NEW t \in Tasks, ExpireSnapshots(t) PROVE LakeInv'
<1> USE DEF ExpireSnapshots
<1>1. LakeTypeOK'
  <2> DEFINE Rec == [pc : {"idle", "expire_snapshots", "expired", "delete_orphan_files"},
                     seen : SUBSET (DOMAIN commits), at : Nat]
  <2>1. tasks \in [Tasks -> Rec]
    BY DEF LakeInv, LakeTypeOK
  <2>2. [tasks[t] EXCEPT !.pc = "expired", !.seen = {}] \in Rec
    BY <2>1
  <2>3. tasks' = [tasks EXCEPT ![t] = [tasks[t] EXCEPT !.pc = "expired", !.seen = {}]]
    BY <2>1
  <2>4. tasks' \in [Tasks -> Rec]
    <3> HIDE DEF Rec
    <3> QED  BY <2>1, <2>2, <2>3
  <2>5. live' \subseteq DOMAIN commits
    BY DEF LakeInv, LakeTypeOK
  <2> QED  BY <2>4, <2>5 DEF LakeInv, LakeTypeOK
<1>2. NewestSnapshotsSurvive'
  <2>1. tasks[t].seen \in SUBSET (DOMAIN commits)
    BY DEF LakeInv, LakeTypeOK
  <2>2. \A n \in Expired(tasks[t].seen) :
            n < Len(commits) /\ n <= Len(commits) - KeepLast
    BY <2>1, ExpiredAreOld DEF LakeInv
  <2>3. Len(commits) \in Nat /\ DOMAIN commits = 1..Len(commits)
    BY DEF LakeInv, LakeTypeOK
  <2> QED  BY <2>2, <2>3, LakeAssumption DEF LakeInv, NewestSnapshotsSurvive
<1>3. LoadedIsRecent'
  BY DEF LakeInv, LakeTypeOK, LoadedIsRecent
<1>4. TimesInOrder' /\ GoneIsOld' /\ OnlyLateCommitsDangle'
  BY DEF LakeInv, TimesInOrder, GoneIsOld, OnlyLateCommitsDangle
<1> QED  BY <1>1, <1>2, <1>3, <1>4 DEF LakeInv

\* What is loaded for an orphan deletion includes the current snapshot.
LEMMA LoadKeepsInv ==
  ASSUME LakeInv, NEW t \in Tasks,
         LoadForExpiry(t) \/ LoadForOrphans(t) \/ TaskFails(t)
  PROVE  LakeInv'
<1>1. UNCHANGED <<clock, written, storage, commits, live, target>>
  BY DEF LoadForExpiry, LoadForOrphans, TaskFails
<1>2. /\ LakeTypeOK'
      /\ \A u \in Tasks \ {t} : tasks'[u] = tasks[u]
      /\ tasks'[t].pc = "delete_orphan_files" =>
             tasks'[t].seen = live /\ tasks'[t].at = clock
  <2>1. CASE LoadForExpiry(t)
    BY <2>1 DEF LoadForExpiry, LakeInv, LakeTypeOK, Idle
  <2>2. CASE LoadForOrphans(t)
    BY <2>2 DEF LoadForOrphans, LakeInv, LakeTypeOK
  <2>3. CASE TaskFails(t)
    BY <2>3 DEF TaskFails, LakeInv, LakeTypeOK, Idle
  <2> QED  BY <2>1, <2>2, <2>3
<1>3. LoadedIsRecent'
  <2>1. \A i \in DOMAIN commits : i <= Len(commits) /\ Len(commits) \in live
    BY CommitFacts DEF LakeInv, NewestSnapshotsSurvive
  <2>2. clock \in Nat /\ clock <= clock + TaskTime
    BY LakeAssumption DEF LakeInv, LakeTypeOK
  <2> QED  BY <1>1, <1>2, <2>1, <2>2 DEF LakeInv, LoadedIsRecent
<1>4. TimesInOrder' /\ NewestSnapshotsSurvive' /\ GoneIsOld' /\ OnlyLateCommitsDangle'
  BY <1>1 DEF LakeInv, TimesInOrder, NewestSnapshotsSurvive, GoneIsOld,
              OnlyLateCommitsDangle
<1> QED  BY <1>2, <1>3, <1>4 DEF LakeInv

\* A snapshot holds the files of all commits up to its own.
LEMMA ReferencedFiles ==
  ASSUME LakeTypeOK, NEW S \in SUBSET (DOMAIN commits), NEW n \in S,
         NEW i \in DOMAIN commits, i <= n
  PROVE  commits[i].files \subseteq Referenced(S)
<1>1. i \in 1..n
  BY DEF LakeTypeOK
<1> QED  BY <1>1 DEF Referenced, FilesOf

\* A file in the table is deleted only if its commit came late.
LEMMA DeleteOrphansKeepsInv ==
  ASSUME LakeInv, NEW t \in Tasks, DeleteOrphanFiles(t) PROVE LakeInv'
<1> USE DEF DeleteOrphanFiles
<1>1. LakeTypeOK'
  BY DEF LakeInv, LakeTypeOK, Idle
<1>2. TimesInOrder' /\ NewestSnapshotsSurvive'
  BY DEF LakeInv, TimesInOrder, NewestSnapshotsSurvive
<1>3. LoadedIsRecent'
  BY DEF LakeInv, LakeTypeOK, LoadedIsRecent, Idle
<1>4. GoneIsOld'
  BY DEF LakeInv, GoneIsOld, Orphans
<1>5. OnlyLateCommitsDangle'
  <2> SUFFICES ASSUME NEW i \in DOMAIN commits, NEW f \in commits[i].files,
                      f \in storage, f \in Orphans(tasks[t].seen)
               PROVE  commits[i].time > written[f] + OrphanGrace - TaskTime
    BY DEF LakeInv, OnlyLateCommitsDangle
  <2>1. f \notin Referenced(tasks[t].seen) /\ written[f] + OrphanGrace < clock
    BY DEF Orphans
  <2>2. /\ tasks[t].seen \in SUBSET (DOMAIN commits) /\ tasks[t].at \in Nat
        /\ clock \in Nat /\ commits[i].time \in Nat
        /\ f \in Files /\ written[f] \in Int
    BY CommitFacts DEF LakeInv, LakeTypeOK, Never
  <2>3. commits[i].time >= tasks[t].at
    BY <2>1, <2>2, ReferencedFiles DEF LakeInv, LoadedIsRecent
  <2>4. clock <= tasks[t].at + TaskTime
    BY DEF LakeInv, LoadedIsRecent
  <2> QED  BY <2>1, <2>2, <2>3, <2>4, LakeAssumption
<1> QED  BY <1>1, <1>2, <1>3, <1>4, <1>5 DEF LakeInv

LEMMA ApplyLayoutKeepsInv == ASSUME LakeInv, NEW mb, ApplyLayout(mb) PROVE LakeInv'
  BY DEF ApplyLayout, LakeInv, LakeTypeOK, TimesInOrder, NewestSnapshotsSurvive,
         GoneIsOld, LoadedIsRecent, OnlyLateCommitsDangle

LEMMA LakeStutterKeepsInv == ASSUME LakeInv, UNCHANGED lakeVars PROVE LakeInv'
  BY DEF lakeVars, LakeInv, LakeTypeOK, TimesInOrder, NewestSnapshotsSurvive,
         GoneIsOld, LoadedIsRecent, OnlyLateCommitsDangle

\* LakeInv is an inductive invariant of the table.
THEOREM LakeIsInductive == LakeSpec => []LakeInv
<1>1. LakeInv /\ [LakeNext]_lakeVars => LakeInv'
  BY TickKeepsInv, WriteFileKeepsInv, CommitFilesKeepsInv, ApplyLayoutKeepsInv,
     LoadKeepsInv, ExpireKeepsInv, DeleteOrphansKeepsInv, LakeStutterKeepsInv
     DEF LakeNext, Maintain
<1> QED  BY <1>1, LakeInvInit, PTL DEF LakeSpec

\* Whatever maintenance runs, however stale its view: the newest snapshots stay.
THEOREM NewestAreKept == LakeSpec => []NewestSnapshotsSurvive
<1>1. LakeInv => NewestSnapshotsSurvive
  BY DEF LakeInv
<1> QED  BY <1>1, LakeIsInductive, PTL

\* Whatever maintenance runs: a table loses no file that was committed in time.
THEOREM TimelyCommitsAreSafe == LakeSpec => []OnlyLateCommitsDangle
<1>1. LakeInv => OnlyLateCommitsDangle
  BY DEF LakeInv
<1> QED  BY <1>1, LakeIsInductive, PTL

\* A nonempty set of commits has a newest one.
LEMMA NewestExists ==
  ASSUME NEW N \in Nat, NEW S \in SUBSET (1..N), S # {}
  PROVE  \E c \in S : \A i \in S : i <= c
<1> DEFINE T == {k \in Nat : \A R \in SUBSET (1..N) :
                    R # {} /\ (\A i \in R : i <= k) => \E c \in R : \A i \in R : i <= c}
<1>1. 0 \in T
  <2>1. ASSUME NEW R \in SUBSET (1..N), R # {} PROVE \E i \in R : ~(i <= 0)
    <3>1. PICK i : i \in R
      BY <2>1
    <3> QED  BY <3>1
  <2> QED  BY <2>1
<1>2. ASSUME NEW k \in Nat, k \in T PROVE k + 1 \in T
  <2> SUFFICES ASSUME NEW R \in SUBSET (1..N), R # {}, \A i \in R : i <= k + 1
               PROVE  \E c \in R : \A i \in R : i <= c
    OBVIOUS
  <2>1. CASE k + 1 \in R
    BY <2>1
  <2>2. CASE k + 1 \notin R
    <3>1. \A i \in R : i <= k
      BY <2>2
    <3> QED  BY <1>2, <3>1
  <2> QED  BY <2>1, <2>2
<1>3. Nat \subseteq T
  <2> HIDE DEF T
  <2> QED  BY <1>1, <1>2, SetInduction
<1>4. \A i \in S : i <= N
  OBVIOUS
<1> QED  BY <1>3, <1>4

\* If there are more than KeepLast of them, one has just KeepLast newer ones.
LEMMA CutoffExists ==
  ASSUME NEW N \in Nat, NEW S \in SUBSET (1..N), Cardinality(S) > KeepLast
  PROVE  \E c \in S : IsCutoff(c, S)
<1> DEFINE Above(c) == {i \in S : i > c}
           T == {n \in Nat : n < Cardinality(S) => \E c \in S : Cardinality(Above(c)) = n}
<1>0. IsFiniteSet(S) /\ Cardinality(S) \in Nat
  <2>1. IsFiniteSet(1..N)
    BY FS_Interval
  <2> QED  BY <2>1, FS_Subset, FS_CardinalityType
<1>1. 0 \in T
  <2> SUFFICES ASSUME 0 < Cardinality(S) PROVE \E c \in S : Cardinality(Above(c)) = 0
    OBVIOUS
  <2>1. S # {}
    BY FS_EmptySet
  <2>2. PICK c \in S : \A i \in S : i <= c
    BY <2>1, NewestExists
  <2>3. Above(c) = {}
    <3>1. \A i \in S : ~(i > c)
      BY <2>2
    <3> QED  BY <3>1
  <2> QED  BY <2>3, FS_EmptySet
<1>2. ASSUME NEW n \in Nat, n \in T PROVE n + 1 \in T
  <2> SUFFICES ASSUME n + 1 < Cardinality(S)
               PROVE  \E c \in S : Cardinality(Above(c)) = n + 1
    OBVIOUS
  <2>1. PICK c \in S : Cardinality(Above(c)) = n
    BY <1>0, <1>2
  <2> DEFINE A == Above(c)
             R == S \ (A \cup {c})
  <2>2. /\ IsFiniteSet(A) /\ c \notin A /\ Cardinality(A) = n
        /\ A \subseteq S /\ R \in SUBSET (1..N) /\ \A i \in R : i \in S /\ i < c
        /\ \A i \in S : i \in A \/ i = c \/ i \in R
        /\ \A i \in A : i > c
    <3>0. A \subseteq S /\ R \in SUBSET (1..N) /\ c \notin A
      <4>1. A \subseteq S
        OBVIOUS
      <4>2. R \in SUBSET (1..N)
        OBVIOUS
      <4>3. c \in Nat
        OBVIOUS
      <4>4. c \notin A
        BY <4>3
      <4> HIDE DEF A, R
      <4> QED  BY <4>1, <4>2, <4>4
    <3>1. /\ A \subseteq S /\ R \in SUBSET (1..N) /\ c \notin A
          /\ \A i \in S : i \in A \/ i = c \/ i \in R
          /\ \A i \in A : i > c
      <4>1. \A i \in S : i \in A \/ i = c \/ i \in R
        OBVIOUS
      <4>2. \A i \in A : i > c
        OBVIOUS
      <4> HIDE DEF A, R
      <4> QED  BY <3>0, <4>1, <4>2
    <3>2. \A i \in R : i \in S /\ i < c
      OBVIOUS
    <3>3. Cardinality(A) = n
      BY <2>1
    <3> HIDE DEF A, R
    <3>4. IsFiniteSet(A)
      BY <1>0, <3>1, FS_Subset
    <3> QED  BY <3>1, <3>2, <3>3, <3>4
  <2>3. R # {}
    <3>1. CASE R = {}
      <4>1. S = A \cup {c}
        BY <2>2, <3>1
      <4> HIDE DEF A
      <4>2. Cardinality(A \cup {c}) = n + 1
        BY <2>2, FS_AddElement
      <4> QED  BY <1>0, <4>1, <4>2
    <3> QED  BY <3>1
  <2> HIDE DEF A, R
  <2>4. PICK d \in R : \A i \in R : i <= d
    BY <2>2, <2>3, NewestExists
  <2>5. Above(d) = A \cup {c}
    <3>1. ASSUME NEW i \in S PROVE i > d <=> i \in A \cup {c}
      <4>1. i \in Nat /\ c \in Nat /\ d \in Nat /\ d < c
        BY <2>2, <2>4
      <4>2. i \in R => i <= d /\ i < c
        BY <2>2, <2>4
      <4> QED  BY <2>2, <4>1, <4>2
    <3>2. A \cup {c} \subseteq S
      BY <2>2
    <3> QED  BY <3>1, <3>2
  <2>6. Cardinality(A \cup {c}) = n + 1
    BY <2>2, FS_AddElement
  <2> HIDE DEF Above
  <2> QED  BY <2>2, <2>4, <2>5, <2>6
<1>3. Nat \subseteq T
  <2> HIDE DEF T
  <2> QED  BY <1>1, <1>2, SetInduction
<1>4. \E c \in S : Cardinality(Above(c)) = KeepLast
  <2> HIDE DEF Above
  <2> QED  BY <1>0, <1>3, LakeAssumption
<1> QED  BY <1>4 DEF IsCutoff

\* What an expiry leaves of the snapshots it loaded has few newer ones.
LEMMA SparedAreNew ==
  ASSUME LakeInv, NEW S \in SUBSET (DOMAIN commits), NEW n \in S, n \notin Expired(S)
  PROVE  Cardinality({m \in S : commits[m].time > commits[n].time}) <= KeepLast
<1> DEFINE Newer == {m \in S : commits[m].time > commits[n].time}
<1>1. /\ Len(commits) \in Nat /\ DOMAIN commits = 1..Len(commits)
      /\ \A i \in DOMAIN commits : commits[i].time \in Nat
      /\ KeepLast \in Nat
  BY CommitFacts, LakeAssumption DEF LakeInv
<1>2. IsFiniteSet(S) /\ Cardinality(S) \in Nat
  <2>1. IsFiniteSet(1..Len(commits))
    BY <1>1, FS_Interval
  <2> QED  BY <1>1, <2>1, FS_Subset, FS_CardinalityType
<1>3. CASE Cardinality(S) > KeepLast
  <2>0. S \in SUBSET (1..Len(commits))
    BY <1>1
  <2>1. PICK c \in S : IsCutoff(c, S)
    BY <1>1, <1>3, <2>0, CutoffExists
  <2>2. ~(commits[n].time < commits[c].time)
    BY <2>1 DEF Expired
  <2>3. Newer \subseteq {i \in S : i > c}
    <3> SUFFICES ASSUME NEW m \in Newer PROVE m > c
      OBVIOUS
    <3>1. /\ m \in DOMAIN commits /\ c \in DOMAIN commits /\ n \in DOMAIN commits
          /\ commits[m].time > commits[n].time
      OBVIOUS
    <3>2. commits[m].time > commits[c].time
      BY <1>1, <2>2, <3>1
    <3>3. m <= c => commits[m].time <= commits[c].time
      BY <3>1 DEF LakeInv, TimesInOrder
    <3> QED  BY <1>1, <3>1, <3>2, <3>3
  <2>4. IsFiniteSet({i \in S : i > c})
    <3>1. {i \in S : i > c} \subseteq S
      OBVIOUS
    <3> QED  BY <1>2, <3>1, FS_Subset
  <2>5. Cardinality(Newer) <= Cardinality({i \in S : i > c})
    <3> HIDE DEF Newer
    <3> QED  BY <2>3, <2>4, FS_Subset
  <2> QED  BY <2>1, <2>5 DEF IsCutoff
<1>4. CASE ~(Cardinality(S) > KeepLast)
  <2>1. Cardinality(Newer) <= Cardinality(S) /\ Cardinality(Newer) \in Nat
    <3>1. Newer \subseteq S
      OBVIOUS
    <3> HIDE DEF Newer
    <3> QED  BY <1>2, <3>1, FS_Subset, FS_CardinalityType
  <2> QED  BY <1>1, <1>2, <1>4, <2>1
<1> QED  BY <1>3, <1>4

\* Snapshots do not pile up, whatever happens between load and expiry: of those
\* an expiry loaded, none is left that has more than KeepLast newer ones.  One
\* more than KeepLast may remain, which is what ExpiryTrims forbids.
ExpiryLeavesOneMore ==
    [][\A t \in Tasks :
          tasks[t].pc = "expire_snapshots" /\ tasks'[t].pc = "expired" =>
              \A n \in tasks[t].seen \cap live' :
                  Cardinality({m \in tasks[t].seen :
                                  commits[m].time > commits[n].time}) <= KeepLast]_lakeVars

THEOREM ExpiryIsThorough == LakeSpec => ExpiryLeavesOneMore
<1> DEFINE Trims == \A t \in Tasks :
                        tasks[t].pc = "expire_snapshots" /\ tasks'[t].pc = "expired" =>
                            \A n \in tasks[t].seen \cap live' :
                                Cardinality({m \in tasks[t].seen :
                                    commits[m].time > commits[n].time}) <= KeepLast
<1>1. ASSUME LakeInv, [LakeNext]_lakeVars PROVE Trims
  <2> SUFFICES ASSUME NEW t \in Tasks, tasks[t].pc = "expire_snapshots",
                      tasks'[t].pc = "expired",
                      NEW n \in tasks[t].seen \cap live'
               PROVE  Cardinality({m \in tasks[t].seen :
                                      commits[m].time > commits[n].time}) <= KeepLast
    OBVIOUS
  <2>1. tasks \in [Tasks -> [pc : {"idle", "expire_snapshots", "expired",
                                   "delete_orphan_files"},
                             seen : SUBSET (DOMAIN commits), at : Nat]]
    BY <1>1 DEF LakeInv, LakeTypeOK
  <2>2. ExpireSnapshots(t)
    <3>1. tasks' # tasks
      OBVIOUS
    <3>2. PICK u \in Tasks : \/ LoadForExpiry(u) \/ ExpireSnapshots(u)
                             \/ LoadForOrphans(u) \/ DeleteOrphanFiles(u) \/ TaskFails(u)
      BY <1>1, <3>1
         DEF LakeNext, Tick, WriteFile, CommitFiles, Maintain, ApplyLayout, lakeVars
    <3>3. u = t
      <4>1. u # t => tasks'[t] = tasks[t]
        BY <2>1, <3>2
           DEF LoadForExpiry, ExpireSnapshots, LoadForOrphans, DeleteOrphanFiles, TaskFails
      <4> QED  BY <4>1
    <3>4. ~LoadForExpiry(t) /\ ~LoadForOrphans(t) /\ ~DeleteOrphanFiles(t)
      BY DEF LoadForExpiry, LoadForOrphans, DeleteOrphanFiles
    <3>5. ~TaskFails(t)
      BY <2>1 DEF TaskFails, Idle
    <3> QED  BY <3>2, <3>3, <3>4, <3>5
  <2>3. tasks[t].seen \in SUBSET (DOMAIN commits) /\ n \notin Expired(tasks[t].seen)
    BY <2>1, <2>2 DEF ExpireSnapshots
  <2> QED  BY <1>1, <2>3, SparedAreNew
<1>2. LakeInv /\ [LakeNext]_lakeVars => [Trims]_lakeVars
  BY <1>1
<1> QED  BY <1>2, LakeIsInductive, PTL DEF LakeSpec, ExpiryLeavesOneMore

-----------------------------------------------------------------------------
(* The composition                                                         *)

\* The files of completed checkpoints are files that were written.
ManifestsKnown ==
    /\ manifests \in Seq(SUBSET Files) /\ Len(manifests) = Len(offsets)
    /\ \A n \in DOMAIN manifests : \A f \in manifests[n] : written[f] # Never

PathInv == JobInv /\ LakeInv /\ ManifestsKnown /\ TableIsTheStream

\* Files has a file for every attempt: an assumption of IngestPath.
LEMMA OpenFileIsAFile == ASSUME JobInv PROVE OpenFile \in Files
<1>1. Current \in Checkpoints /\ failures \in 0..MaxFailures
  BY OffsetRange DEF JobInv, Types, Checkpoints
<1> QED  BY <1>1, FilesAssumption DEF OpenFile

LEMMA PathInvInit == Init => PathInv
<1> SUFFICES ASSUME Init PROVE PathInv
  OBVIOUS
<1>1. JobInv /\ LakeInv
  BY JobInvInit, LakeInvInit DEF Init
<1>2. ManifestsKnown /\ TableIsTheStream
  BY DEF Init, JobInit, LakeInit, Sink!Init, ManifestsKnown, TableIsTheStream
<1> QED  BY <1>1, <1>2 DEF PathInv

\* A replayed commit leaves the table alone; any other one brings the files of
\* its checkpoint, and the sink and the table grow alike.
LEMMA CommitCheckpointCases ==
  ASSUME PathInv, NEW n, CommitCheckpoint(n)
  PROVE  /\ CommitNext(n) /\ manifests' = manifests
         /\ n \in DOMAIN manifests /\ manifests[n] \in SUBSET Files
         /\ \/ files' = files /\ UNCHANGED lakeVars
            \/ /\ CommitFiles(manifests[n])
               /\ files' = Append(files, [checkpoint_id |-> n,
                                          rows |-> Sink!StagedRows(n)])
               /\ Sink!StagedRows(n) \in Nat /\ n \in Nat
<1>1. CommitNext(n) /\ manifests' = manifests /\ JobInv
  BY DEF CommitCheckpoint, PathInv
<1>2. n \in DOMAIN manifests /\ manifests[n] \in SUBSET Files
  BY <1>1, CommitIsReplayOrNew DEF PathInv, ManifestsKnown, JobInv, Types
<1>3. CASE n \in committed
  BY <1>1, <1>2, <1>3, CommitIsReplayOrNew DEF CommitCheckpoint, Sink!CommitReplay
<1>4. CASE n \notin committed
  BY <1>1, <1>2, <1>4, CommitIsReplayOrNew DEF CommitCheckpoint, Sink!CommitNew
<1> QED  BY <1>3, <1>4

\* Every step of the composition is a step of the job, and one of the table.
LEMMA StepsAreComponentSteps ==
  ASSUME PathInv, [Next]_vars
  PROVE  [JobNext]_jobVars /\ [LakeNext]_lakeVars
<1>1. CASE ReadRow
  <2>1. OpenFile \in Files
    BY OpenFileIsAFile DEF PathInv
  <2> QED  BY <1>1, <2>1 DEF ReadRow, JobNext, LakeNext
<1>2. CASE Complete
  BY <1>2 DEF Complete, JobNext
<1>3. ASSUME NEW n \in Checkpoints, CommitCheckpoint(n)
      PROVE  [JobNext]_jobVars /\ [LakeNext]_lakeVars
  BY <1>3, CommitCheckpointCases DEF JobNext, LakeNext
<1>4. CASE (Produce \/ Fail \/ Restore) /\ UNCHANGED <<lakeVars, manifests>>
  BY <1>4 DEF JobNext
<1>5. CASE Lake
  BY <1>5 DEF Lake, LakeNext
<1>6. CASE UNCHANGED vars
  BY <1>6 DEF vars
<1> QED  BY <1>1, <1>2, <1>3, <1>4, <1>5, <1>6 DEF Next, Job

LEMMA PathStepKeepsComponents ==
  ASSUME PathInv, [Next]_vars PROVE JobInv' /\ LakeInv'
<1>1. [JobNext]_jobVars /\ [LakeNext]_lakeVars /\ JobInv /\ LakeInv
  BY StepsAreComponentSteps DEF PathInv
<1>2. JobInv'
  BY <1>1, ProduceKeepsInv, ReadKeepsInv, CompleteKeepsInv, CommitKeepsInv,
     FailKeepsInv, RestoreKeepsInv, StutterKeepsInv DEF JobNext
<1>3. LakeInv'
  BY <1>1, TickKeepsInv, WriteFileKeepsInv, CommitFilesKeepsInv, ApplyLayoutKeepsInv,
     LoadKeepsInv, ExpireKeepsInv, DeleteOrphansKeepsInv, LakeStutterKeepsInv
     DEF LakeNext, Maintain
<1> QED  BY <1>2, <1>3

\* No step forgets that a file was written, and only Complete adds a manifest.
LEMMA ManifestsStayKnown == ASSUME PathInv, [Next]_vars PROVE ManifestsKnown'
<1>1. \A f \in Files : written[f] # Never => written'[f] # Never
  <2>1. [LakeNext]_lakeVars
    BY StepsAreComponentSteps
  <2>2. written \in [Files -> Nat \cup {Never}] /\ clock # Never
    BY DEF PathInv, LakeInv, LakeTypeOK, Never
  <2> QED
    BY <2>1, <2>2
       DEF LakeNext, Tick, WriteFile, CommitFiles, Maintain, ApplyLayout,
           LoadForExpiry, ExpireSnapshots, LoadForOrphans, DeleteOrphanFiles,
           TaskFails, lakeVars
<1>2. CASE Complete
  <2> DEFINE m == {f \in {OpenFile} : written[f] # Never}
  <2>1. m \in SUBSET Files /\ \A f \in m : written[f] # Never
    BY OpenFileIsAFile DEF PathInv
  <2>2. manifests' = Append(manifests, m) /\ written' = written
    BY <1>2 DEF Complete, lakeVars
  <2>3. offsets' = Append(offsets, position) /\ Len(offsets') = Len(offsets) + 1
    BY <1>2, OffsetRange DEF Complete, CompleteCheckpoint, PathInv, JobInv, Types
  <2> HIDE DEF m
  <2>4. /\ manifests' \in Seq(SUBSET Files) /\ Len(manifests') = Len(manifests) + 1
        /\ Len(manifests) \in Nat
        /\ manifests'[Len(manifests) + 1] = m
        /\ DOMAIN manifests' = 1..(Len(manifests) + 1)
        /\ DOMAIN manifests = 1..Len(manifests)
        /\ \A n \in DOMAIN manifests : manifests'[n] = manifests[n]
    BY <2>1, <2>2, AppendFacts DEF PathInv, ManifestsKnown
  <2>5. \A n \in DOMAIN manifests' : n \in DOMAIN manifests \/ n = Len(manifests) + 1
    BY <2>4
  <2> QED  BY <2>1, <2>2, <2>3, <2>4, <2>5 DEF PathInv, ManifestsKnown
<1>3. CASE UNCHANGED <<manifests, offsets>>
  <2>1. \A n \in DOMAIN manifests : manifests[n] \in SUBSET Files
    BY DEF PathInv, ManifestsKnown
  <2> QED  BY <1>1, <1>3, <2>1 DEF PathInv, ManifestsKnown
<1>4. Complete \/ UNCHANGED <<manifests, offsets>>
  BY DEF Next, Job, Lake, vars, jobVars, ReadRow, CommitCheckpoint, Read, CommitNext,
         Produce, Fail, Restore
<1> QED  BY <1>2, <1>3, <1>4

LEMMA TableStaysTheStream == ASSUME PathInv, [Next]_vars PROVE TableIsTheStream'
<1>1. ASSUME UNCHANGED <<commits, files, manifests>> PROVE TableIsTheStream'
  BY <1>1 DEF PathInv, TableIsTheStream
<1>2. CASE Complete
  <2>1. UNCHANGED <<commits, files>>
    BY <1>2 DEF Complete, CompleteCheckpoint, lakeVars, sinkVars
  <2>2. \A n \in DOMAIN manifests : manifests'[n] = manifests[n]
    BY <1>2 DEF Complete, PathInv, ManifestsKnown
  <2>3. \A i \in DOMAIN files : files[i].checkpoint_id \in DOMAIN manifests
    <3>1. \A i \in DOMAIN files : files[i].checkpoint_id \in committed
      BY DEF PathInv, JobInv, OnlyRows
    <3>2. committed \subseteq DOMAIN offsets
      BY DEF PathInv, JobInv, Types
    <3>3. DOMAIN offsets = DOMAIN manifests
      <4>1. offsets \in Seq(0..produced) /\ manifests \in Seq(SUBSET Files)
            /\ Len(manifests) = Len(offsets)
        BY DEF PathInv, JobInv, Types, ManifestsKnown
      <4> QED  BY <4>1
    <3> QED  BY <3>1, <3>2, <3>3
  <2>4. DOMAIN commits = DOMAIN files
    BY CommitFacts DEF PathInv, LakeInv, TableIsTheStream, JobInv, Types
  <2> QED  BY <2>1, <2>2, <2>3, <2>4 DEF PathInv, TableIsTheStream
<1>3. ASSUME NEW n \in Checkpoints, CommitCheckpoint(n) PROVE TableIsTheStream'
  <2>1. CASE files' = files /\ UNCHANGED lakeVars
    BY <1>1, <1>3, <2>1, CommitCheckpointCases DEF lakeVars
  <2> DEFINE f == [checkpoint_id |-> n, rows |-> Sink!StagedRows(n)]
             c == [time |-> clock, files |-> manifests[n]]
  <2>2. CASE /\ CommitFiles(manifests[n]) /\ files' = Append(files, f)
             /\ Sink!StagedRows(n) \in Nat /\ n \in Nat
    <3>1. /\ f \in [checkpoint_id : Nat, rows : Nat] /\ f.checkpoint_id = n
          /\ c.files = manifests[n]
          /\ commits' = Append(commits, c) /\ manifests' = manifests
      BY <1>3, <2>2, CommitCheckpointCases DEF CommitFiles
    <3>2. c \in [time : Nat, files : SUBSET Files]
      BY <1>3, CommitCheckpointCases DEF PathInv, LakeInv, LakeTypeOK
    <3>3. /\ files \in Seq([checkpoint_id : Nat, rows : Nat])
          /\ commits \in Seq([time : Nat, files : SUBSET Files])
      BY DEF PathInv, JobInv, Types, LakeInv, LakeTypeOK
    <3> HIDE DEF f, c
    <3>4. /\ Len(files') = Len(files) + 1 /\ files'[Len(files) + 1] = f
          /\ DOMAIN files = 1..Len(files) /\ Len(files) \in Nat
          /\ \A i \in DOMAIN files : files'[i] = files[i]
      BY <2>2, <3>1, <3>3, AppendFacts
    <3>5. /\ Len(commits') = Len(commits) + 1 /\ commits'[Len(commits) + 1] = c
          /\ DOMAIN commits = 1..Len(commits)
          /\ DOMAIN commits' = 1..(Len(commits) + 1)
          /\ \A i \in DOMAIN commits : commits'[i] = commits[i]
      BY <3>1, <3>2, <3>3, AppendFacts
    <3>6. Len(commits) = Len(files)
      BY DEF PathInv, TableIsTheStream
    <3>7. ASSUME NEW i \in DOMAIN commits'
          PROVE  commits'[i].files = manifests'[files'[i].checkpoint_id]
      <4>1. i \in DOMAIN commits \/ i = Len(commits) + 1
        BY <3>4, <3>5, <3>6
      <4>2. CASE i \in DOMAIN commits
        BY <4>2, <3>1, <3>4, <3>5, <3>6 DEF PathInv, TableIsTheStream
      <4>3. CASE i = Len(commits) + 1
        BY <4>3, <3>1, <3>4, <3>5, <3>6
      <4> QED  BY <4>1, <4>2, <4>3
    <3> QED  BY <3>4, <3>5, <3>6, <3>7 DEF TableIsTheStream
  <2> QED  BY <1>3, <2>1, <2>2, CommitCheckpointCases
<1>4. CASE ReadRow
  BY <1>1, <1>4 DEF ReadRow, Read, WriteFile, Sink!Stage, lakeVars
<1>5. CASE Lake
  <2>1. CASE Tick
    BY <1>1, <1>5, <2>1 DEF Lake, Tick, jobVars, sinkVars
  <2>2. CASE Maintain
    BY <1>1, <1>5, <2>2
       DEF Lake, Maintain, ApplyLayout, LoadForExpiry, ExpireSnapshots,
           LoadForOrphans, DeleteOrphanFiles, TaskFails, jobVars, sinkVars
  <2> QED  BY <1>5, <2>1, <2>2 DEF Lake
<1>6. CASE (Produce \/ Fail \/ Restore) /\ UNCHANGED <<lakeVars, manifests>>
  BY <1>1, <1>6 DEF Produce, Fail, Restore, Sink!Abort, lakeVars, sinkVars
<1>7. CASE UNCHANGED vars
  BY <1>1, <1>7 DEF vars, jobVars, lakeVars, sinkVars
<1> QED  BY <1>2, <1>3, <1>4, <1>5, <1>6, <1>7 DEF Next, Job

\* PathInv is an inductive invariant of the whole path.
THEOREM PathIsInductive == Spec => []PathInv
<1>1. PathInv /\ [Next]_vars => PathInv'
  BY PathStepKeepsComponents, ManifestsStayKnown, TableStaysTheStream DEF PathInv
<1> QED  BY <1>1, PathInvInit, PTL DEF Spec

\* The ingest path runs the job and maintains the table as each was specified:
\* what is proved of JobSpec and of LakeSpec holds of it.
THEOREM PathImplementsComponents == Spec => JobSpec /\ LakeSpec
<1>1. Init => JobInit /\ LakeInit
  BY DEF Init
<1> QED
  BY <1>1, PathIsInductive, StepsAreComponentSteps, PTL DEF Spec, JobSpec, LakeSpec

\* The table holds the files of the job's checkpoints in the order of the stream,
\* although maintenance runs beside the job and commits are replayed.
THEOREM TableFollowsStream == Spec => []TableIsTheStream
<1>1. PathInv => TableIsTheStream
  BY DEF PathInv
<1> QED  BY <1>1, PathIsInductive, PTL

\* So the whole path delivers each row once and in order, and its table keeps
\* the snapshots and the files that it must, whatever fails and overlaps.
THEOREM PathDelivers ==
    Spec => /\ []CheckpointHoldsItsRows /\ []RowsSeen /\ ImplementsPrefixDelivery
            /\ []NewestSnapshotsSurvive /\ []OnlyLateCommitsDangle /\ ExpiryLeavesOneMore
  BY PathImplementsComponents, RowsAreExactlyOnce, CountIsPosition,
     JobImplementsPrefixDelivery, NewestAreKept, TimelyCommitsAreSafe,
     ExpiryIsThorough, PTL

\* Type correctness of the whole path.
THEOREM PathIsTypeCorrect == Spec => []TypeOK
<1>1. ASSUME PathInv PROVE TypeOK
  <2>1. JobTypeOK
    <3>1. position \in IF up THEN LastOffset..produced ELSE {0}
      BY <1>1, OffsetRange DEF PathInv, JobInv, Types, Monotone
    <3> QED  BY <1>1, <3>1 DEF JobTypeOK, PathInv, JobInv, Types
  <2> QED  BY <1>1, <2>1 DEF TypeOK, PathInv, LakeInv, ManifestsKnown
<1> QED  BY <1>1, PathIsInductive, PTL
=============================================================================
