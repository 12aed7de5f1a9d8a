SPECIFICATION Spec
CONSTANTS
  FeatureNames = {v1, v2}
  Trainers = {t1}
  Demos = {d1, d2}
  Sessions = {s1}
  TopK = 1
  MaxCrashes = 1
SYMMETRY MCSymmetry
INVARIANTS
  DecisionsAreGated
  ServedModelFitsCode
  OneHiddenPerTear
PROPERTIES
  ShownStaysShown
CHECK_DEADLOCK FALSE
