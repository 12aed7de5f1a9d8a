------------------------- MODULE ExactlyOnceDelivery -------------------------
(***************************************************************************)
(* What a reader may rely on: the rows of a checkpoint are buffered, and   *)
(* become visible together, once, and for ever.  A buffer that is thrown   *)
(* away contributes nothing.                                               *)
(***************************************************************************)
EXTENDS Naturals

CONSTANTS Checkpoints, Hidden  \* Hidden is no number of rows

VARIABLES
    buffered,  \* rows waiting to be published, per checkpoint
    visible    \* rows published, or Hidden

vars == <<buffered, visible>>

Init ==
    /\ buffered = [id \in Checkpoints |-> 0]
    /\ visible = [id \in Checkpoints |-> Hidden]

Buffer(id) ==
    /\ buffered' = [buffered EXCEPT ![id] = buffered'[id]]
    /\ buffered'[id] >= buffered[id]
    /\ UNCHANGED visible

Publish(id) ==
    /\ visible[id] = Hidden
    /\ visible' = [visible EXCEPT ![id] = buffered[id]]
    /\ buffered' = [buffered EXCEPT ![id] = 0]

Discard(id) ==
    /\ buffered' = [buffered EXCEPT ![id] = 0]
    /\ UNCHANGED visible

Next == \E id \in Checkpoints : Buffer(id) \/ Publish(id) \/ Discard(id)

Spec == Init /\ [][Next]_vars
=============================================================================
