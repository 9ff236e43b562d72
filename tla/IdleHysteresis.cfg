SPECIFICATION Spec
CONSTANTS
  IdleEnabled = TRUE
  SoftEnterSamples = 5
  DeepEnterSamples = 30
INVARIANTS
  TypeOK
  OverlayEarned
PROPERTIES
  RunDecides
