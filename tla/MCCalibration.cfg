CONSTANTS
  SafetyMargin = 1
  MaxDelta = 3
  SearchSteps = 1
  Travel <- MCTravel
  StartPosition = 4
  DefaultCourse = 8
  InitialHeights <- MCHeights
SPECIFICATION MCSpec
INVARIANTS DoneIsAtRest NoRunaway CourseIsMeasured
PROPERTIES CountFollowsRod TiltNeverForced CalibrationEnds LevelCompletes
