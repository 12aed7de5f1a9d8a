-------------------------------- MODULE Sums --------------------------------
(***************************************************************************)
(* Python's sum() over a list of numbers, as a recursive function: the     *)
(* loop that the code runs, in a form that can be proved about.            *)
(***************************************************************************)
EXTENDS Integers, Sequences

SumOf(w) ==
    LET sum[i \in 0..Len(w)] == IF i = 0 THEN 0 ELSE sum[i - 1] + w[i]
    IN  sum[Len(w)]
=============================================================================
