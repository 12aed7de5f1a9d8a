SPECIFICATION Spec
CONSTANTS
  NonFinite = {NaN, Infinity}
  Config <- MCConfig
  Measurements <- MCMeasurements
INVARIANTS
  TypeOK
  IncumbentIsMeasured
PROPERTIES
  PromotionPaysOff
  NoThrashing
