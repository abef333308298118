CONSTANTS
  TasksPeriod = 4
  TasksRestart = 1
  AdcPeriod = 1
  JoyPeriod = 0
  Samples = 2
  HoldReadings = 5
  MenuTicks = 2
SPECIFICATION PaceSpec
INVARIANTS HandlerOwnsState CalibratedFirst
PROPERTIES BackToWait GesturesApart
