CONSTANTS
  SafetyMargin = 1
  MaxDelta = 2
  SearchSteps = 1
  Travel <- MCDriftTravel
  Origin = 2
  StopTarget = 3
  MaxSpeed = 2
  MaxDrift = 4
SPECIFICATION Spec
PROPERTIES MarginKept
