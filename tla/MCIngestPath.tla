----------------------------- MODULE MCIngestPath -----------------------------
(***************************************************************************)
(* Small instances of IngestPath.                                          *)
(***************************************************************************)
EXTENDS IngestPath, TLC

\* A file for every attempt at every checkpoint.
MCFiles == Checkpoints \X (0..MaxFailures)

\* Tasks are alike: nothing tells one from another but what it has loaded.
TaskSymmetry == Permutations(Tasks)
=============================================================================
