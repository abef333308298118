CONSTANTS
  MaxADC = 9
  DEAD_ZONE_JOYSTICK = 2
  HYSTERESIS_JOYSTICK = 1
  Word = 16
  CounterWord = 5
  Hold = 2
  Centres = {2, 4}
  CentreY = 4
  PositionsX = {0, 1, 4, 7, 9}
  PositionsY = {0, 4, 9}
  PeriodWord = 7
  FirstPeriod = 6
  FirstTune <- MCFirstTune
  Tunes <- MCTunes
  Modulus = 4
  ResetPeriod = 2
  Values = {1, 7}
  Prescales = {"VALUE_1", "VALUE_64"}
  Indices = {0, 1, 2, 3}
  PeripheralFrequency = 1024
  SyncTimers = {0}
  MaxCalls = 4
  PulseWidth = 1
SPECIFICATION MCSpec
INVARIANTS TuneWhole GesturePrompt StatusTellsTruth StoppedIsQuiet StepsArePulses
PROPERTIES SpeedFollowsStick GestureMeant SilenceComes
CHECK_DEADLOCK FALSE
