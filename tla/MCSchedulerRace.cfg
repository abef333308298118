CONSTANTS
  TasksPeriod = 4
  TasksRestart = 1
  AdcPeriod = 2
  JoyPeriod = 1
  Samples = 2
  HoldReadings = 2
SPECIFICATION Spec
PROPERTIES RequestsKept
