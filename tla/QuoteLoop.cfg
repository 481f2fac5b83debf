SPECIFICATION Spec
CONSTANTS
  None = None
  One = 1000
  MsPerS = 1
  Config <- MCConfig
  Plain <- MCPlain
  Shapes <- MCShapes
  Arrivals <- MCArrivals
  Stream = "A"
  MaxTime = 8
  MaxDeviations = 2
  MaxFv = 2
  MaxReconnects = 1
  MaxGaps = 1
  MaxStatus = 1
  MaxCrashes = 1
  MaxExtras = 3
INVARIANTS
  DwellServed
  GuardOnlyPulls
  TapeReplays
CHECK_DEADLOCK FALSE
