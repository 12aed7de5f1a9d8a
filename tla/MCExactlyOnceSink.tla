------------------------- MODULE MCExactlyOnceSink -------------------------
(* Three checkpoints, each staged up to three rows in portions of 1 and 2.  *)
EXTENDS ExactlyOnceSink

MCCheckpoints == 1..3
MCRowCounts == {1, 2}
=============================================================================
