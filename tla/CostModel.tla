------------------------------ MODULE CostModel ------------------------------
(***************************************************************************)
(* optimizer/cost_model.py: a fitted model and the file it is saved to.    *)
(* joblib.dump truncates the file and writes into it, with nothing to keep *)
(* another process from doing the same: the artifact is described by the   *)
(* processes whose dump is in the file, and those whose dump is complete.  *)
(*                                                                         *)
(* What a model predicts is abstracted to whether its held-out R^2 is at   *)
(* least 0.70, and to the feature names it was fitted with.                *)
(***************************************************************************)
CONSTANT FeatureNames  \* the feature contracts of successive versions of the code

Fitted == [r2 : {"at least 0.70", "below 0.70"}, features : FeatureNames]

NoModel == [r2 |-> "none", features |-> "none"]

\* What two dumps written over each other may load as.
Mixtures == [r2 : {"unknown"}, features : FeatureNames]

NoArtifact == [writers |-> {}, complete |-> {}]

\* joblib.dump(path): the file is truncated; who was still writing to it will
\* go on at the place where it was.
OpenDump(p, dumping) == [writers |-> {p} \cup dumping, complete |-> {}]

\* Several dumps went into the file.
IsMixed(artifact) == \E p, q \in artifact.writers : p # q

CloseDump(p, artifact) == [artifact EXCEPT !.complete = @ \cup {p}]

\* joblib.load(path).  No dump loads without its end; if there are several, the
\* file may also load as a mixture of them, or not at all.
Readings(artifact, model) ==
    {model[p] : p \in artifact.complete} \cup
    {blob \in Mixtures : artifact.complete # {} /\ IsMixed(artifact)}

\* Mutant of MatchesContract: the names are not compared.
MatchesAnything(blob, features) == blob \in Fitted \cup Mixtures

\* load(): "feature contract drift: retrain before serving" otherwise.
MatchesContract(blob, features) == blob.features = features
=============================================================================
