CONSTANTS
  SafetyMargin = 1
  MaxDelta = 2
  SearchSteps = 1
  Travel <- MCJamTravel
  StartPosition = 4
  DefaultCourse = 8
  InitialHeights <- MCJamHeights
SPECIFICATION MCJamSpec
PROPERTIES CalibrationCompletes
