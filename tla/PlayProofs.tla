----------------------------- MODULE PlayProofs -----------------------------
(***************************************************************************)
(* What holds of the motors in play for every cabinet: every travel,       *)
(* margin, tilt limit, speed and target.                                   *)
(***************************************************************************)
EXTENDS Play, StepperProofs

PlayTypeOK ==
  /\ menu_state \in {"DEFAULT", "IN_PROGRESS", "STOPPED", "END_GAME"}
  /\ in_game \in BOOLEAN
  /\ speed \in [Motor -> 0..MaxSpeed]
  /\ at \in {"wait", "adc_1", "adc_2", "joy_1", "joy_2", "stop_1", "stop_2",
             "to_1", "to_2"}

LEMMA PlayInit == Init => StepperInit /\ PlayTypeOK
<1> SUFFICES ASSUME Init PROVE StepperInit /\ PlayTypeOK
  OBVIOUS
<1>1. StepperTypeOK
  BY StepperAssumption, PlayAssumption
  DEF Init, StepperTypeOK, Direction, Location, Motor
<1>2. \A i \in Motor : AtRest(i)
  BY DEF Init, AtRest
<1>3. PlayTypeOK
  <2>1. 0 \in 0..MaxSpeed
    BY PlayAssumption
  <2>2. speed \in [Motor -> 0..MaxSpeed]
    BY <2>1 DEF Init
  <2> QED
    BY <2>2 DEF Init, PlayTypeOK
<1> QED
  BY <1>1, <1>2, <1>3 DEF Init, StepperInit

\* A move that is accepted is one of those StepperNext has.
LEMMA AcceptedInReach ==
  ASSUME StepperTypeOK, NEW i \in Motor, NEW t \in Int, RequestAccepted(i, t)
  PROVE  t \in InReach(i)
BY StepperAssumption
DEF RequestAccepted, Stepper_TargetIsAllowed, InReach, StepperTypeOK

\* Play only calls what Stepper offers.
LEMMA PlayStep ==
  ASSUME StepperTypeOK, PlayTypeOK, [Next]_vars
  PROVE  [StepperNext]_stepperVars
<1>1. ASSUME NEW i \in Motor, NEW t \in Int, Stepper_RequestMoveTo(i, t)
      PROVE  StepperNext
  <2>1. t \in InReach(i)
    BY <1>1, AcceptedInReach DEF Stepper_RequestMoveTo
  <2> QED
    BY <1>1, <2>1 DEF StepperNext
<1>2. CASE Interrupt
  BY <1>2 DEF Interrupt, StepperNext
<1>3. CASE \/ BeginReadAdc \/ BeginJoystick
           \/ StartGame \/ StopGame \/ GameOver \/ GameStopped \/ EndGame
           \/ LeaveEndGame
  BY <1>3 DEF BeginReadAdc, BeginJoystick, StartGame, StopGame, GameOver,
              GameStopped, EndGame, LeaveEndGame
<1>4. ASSUME NEW i \in Motor, JoystickSkip(i) \/ MoveToRefused(i)
      PROVE  UNCHANGED stepperVars
  BY <1>4 DEF JoystickSkip, MoveToRefused
<1>5. ASSUME NEW i \in Motor, ADC_TO_SPEED(i)
      PROVE  StepperNext
  <2>1. PICK answer \in AdcAnswers(i) : SetDirection(i, answer[1])
    BY <1>5 DEF ADC_TO_SPEED
  <2>2. answer[1] \in Direction
    BY <2>1 DEF AdcAnswers, Direction, StepperTypeOK
  <2> QED
    BY <2>1, <2>2 DEF StepperNext
<1>6. ASSUME NEW i \in Motor, JoystickMove(i)
      PROVE  StepperNext
  <2>1. JoystickTarget(i) \in Int
    BY PlayAssumption DEF JoystickTarget, StepperTypeOK, PlayTypeOK
  <2> QED
    BY <1>1, <1>6, <2>1 DEF JoystickMove
<1>7. ASSUME NEW i \in Motor, APP_Move_To(i)
      PROVE  StepperNext
  <2>1. Goal(i) \in Int
    BY PlayAssumption DEF Goal
  <2> QED
    BY <1>1, <1>7, <2>1 DEF APP_Move_To
<1>8. ASSUME NEW i \in Motor, CallStop(i)
      PROVE  StepperNext
  BY <1>8 DEF CallStop, StepperNext
<1>9. CASE StopRequest \/ ReturnFromStop \/ MovePlan \/ RequestDone
  BY <1>9 DEF ReturnFromStop, RequestDone, StepperNext
<1>10. CASE UNCHANGED vars
  BY <1>10 DEF vars
<1> QED
  BY <1>2, <1>3, <1>4, <1>5, <1>6, <1>7, <1>8, <1>9, <1>10 DEF Next, MainLoop

LEMMA PlayTypeStep ==
  ASSUME StepperTypeOK, PlayTypeOK, [Next]_vars
  PROVE  PlayTypeOK'
<1> USE DEF PlayTypeOK
<1>1. CASE Interrupt \/ (StopRequest /\ UNCHANGED playVars)
                     \/ (MovePlan /\ UNCHANGED playVars)
  BY <1>1 DEF Interrupt, playVars
<1>2. CASE BeginReadAdc \/ BeginJoystick
  BY <1>2 DEF BeginReadAdc, BeginJoystick, Handle
<1>3. CASE StartGame \/ StopGame \/ GameOver \/ EndGame
  BY <1>3 DEF StartGame, StopGame, GameOver, EndGame, Menu
<1>4. CASE GameStopped \/ LeaveEndGame
  BY <1>4 DEF GameStopped, LeaveEndGame, Menu
<1>5. ASSUME NEW i \in Motor, JoystickSkip(i) \/ MoveToRefused(i)
      PROVE  PlayTypeOK'
  BY <1>5 DEF JoystickSkip, MoveToRefused, AfterJoy, AfterTo
<1>6. ASSUME NEW i \in Motor, ADC_TO_SPEED(i)
      PROVE  PlayTypeOK'
  <2>1. PICK answer \in AdcAnswers(i) :
          speed' = [speed EXCEPT ![i] = answer[2]]
    BY <1>6 DEF ADC_TO_SPEED
  <2>2. answer[2] \in 0..MaxSpeed
    BY <2>1, PlayAssumption DEF AdcAnswers
  <2> QED
    BY <1>6, <2>1, <2>2 DEF ADC_TO_SPEED
<1>7. ASSUME NEW i \in Motor, JoystickMove(i) \/ APP_Move_To(i) \/ CallStop(i)
      PROVE  PlayTypeOK'
  BY <1>7 DEF JoystickMove, APP_Move_To, CallStop, playVars
<1>8. CASE ReturnFromStop
  BY <1>8 DEF ReturnFromStop
<1>9. CASE RequestDone
  BY <1>9 DEF RequestDone, AfterMove, AfterJoy, AfterTo
<1>10. CASE UNCHANGED vars
  BY <1>10 DEF vars, playVars
<1> QED
  BY <1>1, <1>2, <1>3, <1>4, <1>5, <1>6, <1>7, <1>8, <1>9, <1>10
  DEF Next, MainLoop

\* The type invariant.
THEOREM PlayTypeCorrect == Spec => []TypeOK
<1>1. Init => StepperTypeOK /\ PlayTypeOK
  BY PlayInit DEF StepperInit
<1>2. StepperTypeOK /\ PlayTypeOK /\ [Next]_vars
        => StepperTypeOK' /\ PlayTypeOK'
  BY PlayStep, PlayTypeStep, StepperTypeStep
<1>3. StepperTypeOK /\ PlayTypeOK => TypeOK
  BY DEF TypeOK, PlayTypeOK
<1> QED
  BY <1>1, <1>2, <1>3, PTL DEF Spec

\* Play implements Stepper, so that what StepperProofs shows of every caller
\* holds of it.
THEOREM PlayImplementsStepper == Spec => StepperSpec
<1>1. TypeOK => StepperTypeOK /\ PlayTypeOK
  BY DEF TypeOK, PlayTypeOK
<1>2. TypeOK /\ [Next]_vars => [StepperNext]_stepperVars
  BY <1>1, PlayStep
<1>3. Init => StepperInit
  BY PlayInit
<1> QED
  BY <1>2, <1>3, PlayTypeCorrect, PTL DEF Spec, StepperSpec

\* A stopped motor is at rest, in play too.
THEOREM PlayStopIsFinal == Spec => []StopIsFinal
BY PlayImplementsStepper, StepperStopIsFinal, PTL

\* No interrupt in play takes the counted tilt past the limit.
THEOREM PlayTilt == Spec => TiltNeverForced
BY PlayImplementsStepper, StepperTiltNeverForced, PTL
-----------------------------------------------------------------------------
\* Only the interrupt changes a counted position.
LEMMA OnlyInterruptCounts ==
  ASSUME [Next]_vars, ~APP_Ges_stepper
  PROVE  UNCHANGED Position_X
<1>1. CASE \/ BeginReadAdc \/ BeginJoystick
           \/ StartGame \/ StopGame \/ GameOver \/ GameStopped \/ EndGame
           \/ LeaveEndGame
           \/ \E i \in Motor : JoystickSkip(i) \/ MoveToRefused(i)
           \/ UNCHANGED vars
  BY <1>1 DEF BeginReadAdc, BeginJoystick, StartGame, StopGame, GameOver,
              GameStopped, EndGame, LeaveEndGame, JoystickSkip, MoveToRefused,
              vars, stepperVars
<1>2. ASSUME NEW i \in Motor,
             ADC_TO_SPEED(i) \/ JoystickMove(i) \/ APP_Move_To(i) \/ CallStop(i)
      PROVE  UNCHANGED Position_X
  BY <1>2 DEF ADC_TO_SPEED, SetDirection, JoystickMove, APP_Move_To,
              Stepper_RequestMoveTo, CallStop, APP_Stepper_Stop
<1>3. CASE StopRequest \/ ReturnFromStop \/ MovePlan \/ RequestDone
  BY <1>3 DEF StopRequest, ReturnFromStop, StopState, MovePlan, RequestDone,
              MoveTilt, MoveRequest
<1> QED
  BY <1>1, <1>2, <1>3 DEF Next, MainLoop, Interrupt

\* The counted tilt stays within the limit in play, whatever the joysticks and the
\* menu ask for and wherever the interrupt falls.
THEOREM PlayTiltWithinLimit == Spec => []TiltWithinLimit
<1>1. Init => TiltWithinLimit
  <2>1. Init => Stepper_GetDeltaSteps = Travel[1] - Travel[2]
    BY DEF Init, Stepper_GetDeltaSteps, Motor
  <2> QED
    BY <2>1, PlayAssumption DEF TiltWithinLimit
<1>2. TypeOK /\ TypeOK' /\ TiltWithinLimit /\ [Next]_vars => TiltWithinLimit'
  <2> SUFFICES ASSUME TypeOK, TypeOK', TiltWithinLimit, [Next]_vars
               PROVE  TiltWithinLimit'
    OBVIOUS
  <2>1. Stepper_GetDeltaSteps \in Int /\ Stepper_GetDeltaSteps' \in Int
    BY DEF TypeOK, StepperTypeOK, Stepper_GetDeltaSteps, Motor
  <2>2. CASE APP_Ges_stepper
    <3>1. Tolerated(Stepper_GetDeltaSteps', Stepper_GetDeltaSteps)
      BY <2>2, InterruptTolerated DEF TypeOK
    <3>2. Magnitude(Stepper_GetDeltaSteps) <= MaxDelta
      BY DEF TiltWithinLimit
    <3>3. ASSUME NEW new \in Int, NEW old \in Int,
                 Tolerated(new, old), Magnitude(old) <= MaxDelta
          PROVE  Magnitude(new) <= MaxDelta
      BY <3>3, StepperAssumption DEF Tolerated, Magnitude
    <3>4. Magnitude(Stepper_GetDeltaSteps') <= MaxDelta
      BY <2>1, <3>1, <3>2, <3>3
    <3> QED
      BY <3>4 DEF TiltWithinLimit, Magnitude
  <2>3. CASE ~APP_Ges_stepper
    BY <2>3, OnlyInterruptCounts DEF TiltWithinLimit, Stepper_GetDeltaSteps
  <2> QED
    BY <2>2, <2>3
<1> QED
  BY <1>1, <1>2, PlayTypeCorrect, PTL DEF Spec
=============================================================================
