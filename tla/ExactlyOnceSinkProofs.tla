------------------------ MODULE ExactlyOnceSinkProofs ------------------------
(***************************************************************************)
(* Proofs about ExactlyOnceSink, for every set of checkpoints, every       *)
(* portion of rows and every bound.                                        *)
(***************************************************************************)
EXTENDS ExactlyOnceSink, OperatorLemmas

(* The file of a checkpoint, in any list of files with one file per id.    *)
LEMMA FileIsUnique ==
    ASSUME NEW fs, NEW i \in DOMAIN fs,
           \A j, k \in DOMAIN fs :
               fs[j].checkpoint_id = fs[k].checkpoint_id => j = k
    PROVE  (CHOOSE j \in DOMAIN fs : fs[j].checkpoint_id = fs[i].checkpoint_id) = i
OBVIOUS

(* Each operation keeps the types.                                         *)
LEMMA TypeStep == TypeOK /\ [Next]_vars => TypeOK'
<1> SUFFICES ASSUME TypeOK, [Next]_vars PROVE TypeOK'
  OBVIOUS
<1> USE SinkAssumption DEF TypeOK
<1>1. ASSUME NEW id \in Checkpoints, NEW rows \in RowCounts, Stage(id, rows)
      PROVE  TypeOK'
  <2>1. StagedRows(id) + rows \in Nat
    BY DEF StagedRows
  <2>2. DOMAIN staged' = DOMAIN staged \cup {id} /\ staged' \in [DOMAIN staged' -> Nat]
    BY <1>1, <2>1 DEF Stage
  <2> QED
    BY <1>1, <2>2 DEF Stage
<1>2. ASSUME NEW id \in Checkpoints
      PROVE  /\ DOMAIN Without(id) = DOMAIN staged \ {id}
             /\ Without(id) \in [DOMAIN Without(id) -> Nat]
  BY DEF Without
<1>2a. ASSUME NEW id \in Checkpoints
      PROVE  StagedRows(id) \in Nat /\ discarded[id] + StagedRows(id) \in Nat
  BY DEF StagedRows
<1>3. ASSUME NEW id \in Checkpoints, CommitReplay(id) PROVE TypeOK'
  <2>1. staged' = Without(id)
    BY <1>3 DEF CommitReplay
  <2>2. DOMAIN staged' \subseteq Checkpoints /\ staged' \in [DOMAIN staged' -> Nat]
    BY <2>1, <1>2
  <2>3. discarded' \in [Checkpoints -> Nat]
    BY <1>3, <1>2a DEF CommitReplay
  <2> QED
    BY <1>3, <2>2, <2>3 DEF CommitReplay
<1>4. ASSUME NEW id \in Checkpoints, CommitNew(id) PROVE TypeOK'
  <2>1. staged' = Without(id)
    BY <1>4 DEF CommitNew
  <2>2. DOMAIN staged' \subseteq Checkpoints /\ staged' \in [DOMAIN staged' -> Nat]
    BY <2>1, <1>2
  <2>3. [checkpoint_id |-> id, rows |-> StagedRows(id)]
            \in [checkpoint_id : Checkpoints, rows : Nat]
    BY <1>2a
  <2>4. files' \in Seq([checkpoint_id : Checkpoints, rows : Nat])
    BY <1>4, <2>3 DEF CommitNew
  <2> QED
    BY <1>4, <2>2, <2>4 DEF CommitNew
<1>5. ASSUME NEW id \in Checkpoints, Abort(id) PROVE TypeOK'
  <2>1. staged' = Without(id)
    BY <1>5 DEF Abort
  <2>2. DOMAIN staged' \subseteq Checkpoints /\ staged' \in [DOMAIN staged' -> Nat]
    BY <2>1, <1>2
  <2>3. discarded' \in [Checkpoints -> Nat]
    BY <1>5, <1>2a DEF Abort
  <2> QED
    BY <1>5, <2>2, <2>3 DEF Abort
<1>6. CASE UNCHANGED vars
  BY <1>6 DEF vars
<1> QED
  BY <1>1, <1>3, <1>4, <1>5, <1>6 DEF Next, Commit, CommitAborted

(* Each operation keeps one visible file per committed checkpoint.         *)
LEMMA OneFileStep ==
    TypeOK /\ OneFilePerCheckpoint /\ [Next]_vars => OneFilePerCheckpoint'
<1> SUFFICES ASSUME TypeOK, OneFilePerCheckpoint, [Next]_vars
             PROVE  OneFilePerCheckpoint'
  OBVIOUS
<1>1. ASSUME NEW id \in Checkpoints, CommitNew(id) PROVE OneFilePerCheckpoint'
  <2> DEFINE new == [checkpoint_id |-> id, rows |-> StagedRows(id)]
  <2>1. files' = Append(files, new) /\ committed' = committed \cup {id}
           /\ id \notin committed
    BY <1>1 DEF CommitNew
  <2>2. files \in Seq([checkpoint_id : Checkpoints, rows : Nat]) /\ new.checkpoint_id = id
    BY DEF TypeOK
  <2> HIDE DEF new
  <2>3. /\ DOMAIN files = 1..Len(files) /\ Len(files) \in Nat
        /\ DOMAIN files' = 1..(Len(files) + 1)
        /\ files'[Len(files) + 1] = new
        /\ \A i \in DOMAIN files : files'[i] = files[i]
    BY <2>1, <2>2
  <2>4. \A i \in DOMAIN files : files[i].checkpoint_id # id
    BY <2>1 DEF OneFilePerCheckpoint
  <2> QED
    BY <2>1, <2>2, <2>3, <2>4 DEF OneFilePerCheckpoint
<1>2. CASE UNCHANGED <<files, committed>>
  BY <1>2 DEF OneFilePerCheckpoint
<1> QED
  BY <1>1, <1>2 DEF Next, Stage, Commit, CommitReplay, CommitAborted, Abort, vars

(* Each operation keeps staged and aborted checkpoints apart.              *)
LEMMA StagedStep ==
    StagedIsNotAborted /\ [Next]_vars => StagedIsNotAborted'
BY DEF StagedIsNotAborted, Next, Stage, Commit, CommitReplay, CommitAborted,
       CommitNew, Abort, Without, vars

(* What a step does to the visible rows: a published checkpoint never      *)
(* changes, and CommitNew publishes what was staged.                       *)
LEMMA VisibleStep ==
    ASSUME TypeOK, OneFilePerCheckpoint, OneFilePerCheckpoint', [Next]_vars
    PROVE  /\ \A id \in committed : id \in committed' /\ VisibleRows(id)' = VisibleRows(id)
           /\ \A id \in Checkpoints :
                  CommitNew(id) => VisibleRows(id)' = StagedRows(id)
<1>1. ASSUME NEW id \in Checkpoints, CommitNew(id)
      PROVE  /\ VisibleRows(id)' = StagedRows(id)
             /\ \A c \in committed : c \in committed' /\ VisibleRows(c)' = VisibleRows(c)
  <2> DEFINE new == [checkpoint_id |-> id, rows |-> StagedRows(id)]
  <2>1. files' = Append(files, new) /\ committed' = committed \cup {id}
    BY <1>1 DEF CommitNew
  <2>2. files \in Seq([checkpoint_id : Checkpoints, rows : Nat])
           /\ new.checkpoint_id = id /\ new.rows = StagedRows(id)
    BY DEF TypeOK
  <2> HIDE DEF new
  <2>3. /\ DOMAIN files = 1..Len(files) /\ Len(files) \in Nat
        /\ DOMAIN files' = 1..(Len(files) + 1)
        /\ files'[Len(files) + 1] = new
        /\ \A i \in DOMAIN files : i \in DOMAIN files' /\ files'[i] = files[i]
    BY <2>1, <2>2
  <2>4. ASSUME NEW c \in committed
        PROVE  c \in committed' /\ VisibleRows(c)' = VisibleRows(c)
    <3>1. PICK i \in DOMAIN files : files[i].checkpoint_id = c
      BY DEF OneFilePerCheckpoint
    <3>2. (CHOOSE j \in DOMAIN files : files[j].checkpoint_id = c) = i
      BY <3>1, FileIsUnique DEF OneFilePerCheckpoint
    <3>3. i \in DOMAIN files' /\ files'[i] = files[i]
      BY <2>3
    <3>4. (CHOOSE j \in DOMAIN files' : files'[j].checkpoint_id = c) = i
      BY <3>1, <3>3, FileIsUnique DEF OneFilePerCheckpoint
    <3>5. VisibleRows(c) = files[i].rows
      BY <3>2 DEF VisibleRows
    <3>6. c \in committed' /\ VisibleRows(c)' = files'[i].rows
      BY <2>1, <3>4 DEF VisibleRows
    <3> QED
      BY <3>3, <3>5, <3>6
  <2>5. (CHOOSE j \in DOMAIN files' : files'[j].checkpoint_id = id) = Len(files) + 1
    <3>1. Len(files) + 1 \in DOMAIN files'
             /\ files'[Len(files) + 1].checkpoint_id = id
      BY <2>2, <2>3
    <3> QED
      BY <3>1, FileIsUnique DEF OneFilePerCheckpoint
  <2>6. VisibleRows(id)' = files'[Len(files) + 1].rows
    BY <2>1, <2>5 DEF VisibleRows
  <2> QED
    BY <2>2, <2>3, <2>4, <2>6
<1>2. ASSUME ~ \E id \in Checkpoints : CommitNew(id)
      PROVE  files' = files /\ committed' = committed
  BY <1>2 DEF Next, Stage, Commit, CommitReplay, CommitAborted, Abort, vars
<1>3. CASE \E id \in Checkpoints : CommitNew(id)
  BY <1>1, <1>3
<1>4. CASE ~ \E id \in Checkpoints : CommitNew(id)
  BY <1>2, <1>4 DEF VisibleRows
<1> QED
  BY <1>3, <1>4

-----------------------------------------------------------------------------
(* The inductive invariant.  RowsAccountedFor is not inductive alone: that *)
(* the file found for a checkpoint is the one its commit wrote needs       *)
(* OneFilePerCheckpoint, and the arithmetic needs the types.               *)
SinkInv ==
    TypeOK /\ OneFilePerCheckpoint /\ StagedIsNotAborted /\ RowsAccountedFor

(* The empty sink satisfies the invariant.                                 *)
LEMMA SinkInit == Init => SinkInv
<1> SUFFICES ASSUME Init PROVE SinkInv
  OBVIOUS
<1>1. DOMAIN staged = {} /\ committed = {} /\ files = <<>>
  BY DEF Init
<1>2. TypeOK
  BY <1>1 DEF Init, TypeOK
<1>3. OneFilePerCheckpoint /\ StagedIsNotAborted
  BY <1>1 DEF OneFilePerCheckpoint, StagedIsNotAborted
<1>4. RowsAccountedFor
  BY <1>1 DEF Init, RowsAccountedFor, StagedRows
<1> QED
  BY <1>2, <1>3, <1>4 DEF SinkInv

(* What each operation does to what is buffered.                           *)
LEMMA BufferStep ==
    ASSUME TypeOK, NEW id \in Checkpoints
    PROVE  /\ CommitReplay(id) \/ CommitNew(id) \/ Abort(id) =>
                  \A c \in Checkpoints :
                      StagedRows(c)' = IF c = id THEN 0 ELSE StagedRows(c)
           /\ \A rows \in RowCounts : Stage(id, rows) =>
                  \A c \in Checkpoints :
                      StagedRows(c)' = IF c = id THEN StagedRows(c) + rows
                                                ELSE StagedRows(c)
<1>1. ASSUME staged' = Without(id), NEW c \in Checkpoints
      PROVE  StagedRows(c)' = IF c = id THEN 0 ELSE StagedRows(c)
  BY <1>1 DEF StagedRows, Without
<1>2. ASSUME NEW rows \in RowCounts, Stage(id, rows), NEW c \in Checkpoints
      PROVE  StagedRows(c)' = IF c = id THEN StagedRows(c) + rows
                                        ELSE StagedRows(c)
  BY <1>2 DEF StagedRows, Stage
<1> QED
  BY <1>1, <1>2 DEF CommitReplay, CommitNew, Abort

(* Each operation keeps the row accounting.                                *)
LEMMA AccountsStep == SinkInv /\ [Next]_vars => RowsAccountedFor'
<1> SUFFICES ASSUME SinkInv, [Next]_vars, NEW c \in Checkpoints
             PROVE  offered'[c] = discarded'[c] + StagedRows(c)'
                        + (IF c \in committed' THEN VisibleRows(c)' ELSE 0)
  BY DEF RowsAccountedFor
<1>1. TypeOK /\ TypeOK' /\ OneFilePerCheckpoint /\ OneFilePerCheckpoint'
  BY TypeStep, OneFileStep DEF SinkInv
<1>2. offered[c] = discarded[c] + StagedRows(c)
                       + (IF c \in committed THEN VisibleRows(c) ELSE 0)
  BY DEF SinkInv, RowsAccountedFor
<1>3. offered[c] \in Nat /\ discarded[c] \in Nat /\ StagedRows(c) \in Nat
  BY <1>1 DEF TypeOK, StagedRows
<1>4. c \in committed => c \in committed' /\ VisibleRows(c)' = VisibleRows(c)
  BY <1>1, VisibleStep
<1>5. c \in committed => VisibleRows(c) \in Nat
  <2>1. ASSUME c \in committed PROVE VisibleRows(c) \in Nat
    <3>1. PICK i \in DOMAIN files : files[i].checkpoint_id = c
      BY <1>1, <2>1 DEF OneFilePerCheckpoint
    <3>2. (CHOOSE j \in DOMAIN files : files[j].checkpoint_id = c) = i
      BY <1>1, <3>1, FileIsUnique DEF OneFilePerCheckpoint
    <3>3. VisibleRows(c) = files[i].rows
      BY <2>1, <3>2 DEF VisibleRows
    <3> DEFINE Files == [checkpoint_id : Checkpoints, rows : Nat]
    <3>4. files \in Seq(Files)
      BY <1>1 DEF TypeOK
    <3> HIDE DEF Files
    <3>5. files[i] \in Files
      BY <3>4, ElementOfSeq
    <3>6. files[i].rows \in Nat
      BY <3>5 DEF Files
    <3> QED
      BY <3>3, <3>6
  <2> QED
    BY <2>1
<1>6. ASSUME NEW id \in Checkpoints, NEW rows \in RowCounts, Stage(id, rows)
      PROVE  offered'[c] = discarded'[c] + StagedRows(c)'
                 + (IF c \in committed' THEN VisibleRows(c)' ELSE 0)
  <2>1. /\ offered'[c] = IF c = id THEN offered[c] + rows ELSE offered[c]
        /\ discarded'[c] = discarded[c] /\ committed' = committed
    BY <1>1, <1>6 DEF Stage, TypeOK
  <2>2. StagedRows(c)' = IF c = id THEN StagedRows(c) + rows ELSE StagedRows(c)
    BY <1>1, <1>6, BufferStep
  <2>3. rows \in Nat
    BY SinkAssumption
  <2> QED
    BY <1>2, <1>3, <1>4, <1>5, <2>1, <2>2, <2>3
<1>7. ASSUME NEW id \in Checkpoints, CommitReplay(id) \/ Abort(id)
      PROVE  offered'[c] = discarded'[c] + StagedRows(c)'
                 + (IF c \in committed' THEN VisibleRows(c)' ELSE 0)
  <2>1. /\ discarded'[c] = IF c = id THEN discarded[c] + StagedRows(c)
                                     ELSE discarded[c]
        /\ offered'[c] = offered[c] /\ committed' = committed
    BY <1>1, <1>7 DEF CommitReplay, Abort, TypeOK
  <2>2. StagedRows(c)' = IF c = id THEN 0 ELSE StagedRows(c)
    BY <1>1, <1>7, BufferStep
  <2> QED
    BY <1>2, <1>3, <1>4, <1>5, <2>1, <2>2
<1>8. ASSUME NEW id \in Checkpoints, CommitNew(id)
      PROVE  offered'[c] = discarded'[c] + StagedRows(c)'
                 + (IF c \in committed' THEN VisibleRows(c)' ELSE 0)
  <2>1. /\ discarded'[c] = discarded[c] /\ offered'[c] = offered[c]
        /\ committed' = committed \cup {id} /\ id \notin committed
    BY <1>8 DEF CommitNew
  <2>2. StagedRows(c)' = IF c = id THEN 0 ELSE StagedRows(c)
    BY <1>1, <1>8, BufferStep
  <2>3. c = id => VisibleRows(c)' = StagedRows(c)
    BY <1>1, <1>8, VisibleStep
  <2> QED
    BY <1>2, <1>3, <1>4, <1>5, <2>1, <2>2, <2>3
<1>9. CASE UNCHANGED vars
  BY <1>2, <1>9 DEF vars, StagedRows, VisibleRows
<1> QED
  BY <1>6, <1>7, <1>8, <1>9 DEF Next, Commit, CommitAborted

(* The invariant is inductive.                                             *)
LEMMA SinkStep == SinkInv /\ [Next]_vars => SinkInv'
BY TypeStep, OneFileStep, StagedStep, AccountsStep DEF SinkInv

(* The types, the uniqueness of a committed file, and the row accounting   *)
(* hold in every reachable state, whatever the caller does.                *)
THEOREM SinkIsCorrect ==
    Spec => []TypeOK /\ []OneFilePerCheckpoint /\ []StagedIsNotAborted
                /\ []RowsAccountedFor
<1>1. SinkInv => TypeOK /\ OneFilePerCheckpoint /\ StagedIsNotAborted
                    /\ RowsAccountedFor
  BY DEF SinkInv
<1> QED
  BY <1>1, SinkInit, SinkStep, PTL DEF Spec

-----------------------------------------------------------------------------
(* Every step of the sink is a step of exactly-once delivery, or leaves    *)
(* what the reader sees alone.                                             *)
LEMMA DeliveryInit == Init => Delivery!Init
BY DEF Init, Delivery!Init, StagedRows, VisibleRows

(* Each operation is a step of the delivery, or a stutter of it.           *)
LEMMA DeliveryStep ==
    SinkInv /\ [Next]_vars => [Delivery!Next]_(Delivery!vars)
<1> SUFFICES ASSUME SinkInv, [Next]_vars
             PROVE  [Delivery!Next]_(Delivery!vars)
  OBVIOUS
<1> DEFINE buffered == [id \in Checkpoints |-> StagedRows(id)]
           visible  == [id \in Checkpoints |-> VisibleRows(id)]
<1>1. TypeOK /\ OneFilePerCheckpoint /\ OneFilePerCheckpoint'
  BY OneFileStep DEF SinkInv
<1>2. ASSUME NEW id \in Checkpoints PROVE StagedRows(id) \in Nat
  BY <1>1 DEF TypeOK, StagedRows
<1>3. ASSUME UNCHANGED <<files, committed>> PROVE visible' = visible
  BY <1>3 DEF VisibleRows
<1>4. ASSUME NEW id \in Checkpoints, NEW rows \in RowCounts, Stage(id, rows)
      PROVE  Delivery!Buffer(id)
  <2>1. \A c \in Checkpoints :
            StagedRows(c)' = IF c = id THEN StagedRows(c) + rows ELSE StagedRows(c)
    BY <1>1, <1>4, BufferStep
  <2>2. visible' = visible
    BY <1>3, <1>4 DEF Stage
  <2>3. rows \in Nat /\ StagedRows(id) \in Nat
    BY <1>2, SinkAssumption
  <2>4. buffered' = [buffered EXCEPT ![id] = buffered'[id]]
    BY <2>1
  <2>5. buffered'[id] >= buffered[id]
    BY <2>1, <2>3
  <2> QED
    BY <2>2, <2>4, <2>5 DEF Delivery!Buffer
<1>5. ASSUME NEW id \in Checkpoints, CommitReplay(id) \/ Abort(id)
      PROVE  Delivery!Discard(id)
  <2>1. \A c \in Checkpoints :
            StagedRows(c)' = IF c = id THEN 0 ELSE StagedRows(c)
    BY <1>1, <1>5, BufferStep
  <2>2. visible' = visible
    BY <1>3, <1>5 DEF CommitReplay, Abort
  <2>3. buffered' = [buffered EXCEPT ![id] = 0]
    BY <2>1
  <2> QED
    BY <2>2, <2>3 DEF Delivery!Discard
<1>6. ASSUME NEW id \in Checkpoints, CommitNew(id)
      PROVE  Delivery!Publish(id)
  <2>1. \A c \in Checkpoints :
            StagedRows(c)' = IF c = id THEN 0 ELSE StagedRows(c)
    BY <1>1, <1>6, BufferStep
  <2>2. id \notin committed /\ committed' = committed \cup {id}
    BY <1>6 DEF CommitNew
  <2>3. visible[id] = Hidden
    BY <2>2 DEF VisibleRows
  <2>4. \A c \in Checkpoints :
            VisibleRows(c)' = IF c = id THEN StagedRows(c) ELSE VisibleRows(c)
    <3>1. VisibleRows(id)' = StagedRows(id)
      BY <1>1, <1>6, VisibleStep
    <3>2. ASSUME NEW c \in Checkpoints, c # id, c \in committed
          PROVE  VisibleRows(c)' = VisibleRows(c)
      BY <1>1, <3>2, VisibleStep
    <3>3. ASSUME NEW c \in Checkpoints, c # id, c \notin committed
          PROVE  VisibleRows(c)' = VisibleRows(c)
      BY <2>2, <3>3 DEF VisibleRows
    <3> QED
      BY <3>1, <3>2, <3>3
  <2>5. visible' = [visible EXCEPT ![id] = buffered[id]]
    BY <2>4
  <2>6. buffered' = [buffered EXCEPT ![id] = 0]
    BY <2>1
  <2> QED
    BY <2>3, <2>5, <2>6 DEF Delivery!Publish
<1>7. CASE UNCHANGED vars
  <2>1. buffered' = buffered /\ visible' = visible
    BY <1>3, <1>7 DEF vars, StagedRows
  <2> QED
    BY <2>1 DEF Delivery!vars
<1> QED
  BY <1>4, <1>5, <1>6, <1>7
     DEF Next, Commit, CommitAborted, Delivery!Next

(* The sink implements exactly-once delivery: what a reader sees of it is  *)
(* a behaviour of ExactlyOnceDelivery.                                     *)
THEOREM SinkImplementsDelivery == Spec => ImplementsDelivery
BY SinkInit, SinkStep, DeliveryInit, DeliveryStep, PTL
   DEF Spec, ImplementsDelivery, Delivery!Spec
=============================================================================
