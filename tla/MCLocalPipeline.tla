---------------------------- MODULE MCLocalPipeline ----------------------------
(***************************************************************************)
(* Small instances of LocalPipeline.                                       *)
(***************************************************************************)
EXTENDS LocalPipeline, TLC

\* Demos are interchangeable, and so are versions of the code.
MCSymmetry == Permutations(Demos) \cup Permutations(FeatureNames)
=============================================================================
