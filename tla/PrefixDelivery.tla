---------------------------- MODULE PrefixDelivery ----------------------------
(***************************************************************************)
(* What a reader of the table may rely on, whatever happens to the job     *)
(* that fills it: the rows it sees are the first rows of the stream, each  *)
(* of them once, and no row that was seen is ever taken back.              *)
(***************************************************************************)
EXTENDS Naturals

VARIABLES
    produced,  \* rows in the stream
    seen       \* the reader sees the rows up to this one

vars == <<produced, seen>>

Init == produced = 0 /\ seen = 0

Produce == produced' = produced + 1 /\ UNCHANGED seen

Publish == seen' \in seen..produced /\ UNCHANGED produced

Next == Produce \/ Publish

Spec == Init /\ [][Next]_vars
=============================================================================
