CONSTANTS
  SafetyMargin = 1
  MaxDelta = 1
  SearchSteps = 1
  Travel <- MCTravel
  Origin = 1
  StopTarget = 2
  MaxSpeed = 1
  MaxDrift = 2
SPECIFICATION Spec
INVARIANTS StopIsFinal TiltWithinLimit
PROPERTIES MovesEnd
