------------------------- MODULE CalibrationProofs -------------------------
(***************************************************************************)
(* What holds of the calibration for every travel, every start, every tilt *)
(* limit and every length of the search moves.                             *)
(***************************************************************************)
EXTENDS Calibration, StepperProofs

\* The calibration only calls what Stepper offers: each of its steps is a step
\* of Stepper or leaves the motors alone.
LEMMA StepIsStepperStep == ASSUME [Next]_vars PROVE [StepperNext]_stepperVars
<1>1. CASE Interrupt
  BY <1>1 DEF Interrupt, StepperNext
<1>2. ASSUME NEW i \in Motor, ReadSwitches(i) \/ RunSkip(i)
      PROVE  UNCHANGED stepperVars
  BY <1>2 DEF ReadSwitches, RunSkip
<1>3. ASSUME NEW i \in Motor, RunStop(i) \/ RunSearch(i)
      PROVE  StepperNext
  BY <1>3 DEF RunStop, RunSearch, StepperNext
<1>4. CASE SearchStores
  <2>1. Wanted(cur) \in Direction
    BY DEF Wanted, Direction
  <2> QED
    BY <1>4, <2>1 DEF SearchStores, StepperNext
<1>5. CASE FinishStop \/ SearchRequest \/ BottomReached \/ TopReached
  BY <1>5 DEF FinishStop, SearchRequest, BottomReached, TopReached, StepperNext
<1>6. CASE EndOfPass
  BY <1>6 DEF EndOfPass
<1>7. CASE UNCHANGED vars
  BY <1>7 DEF vars
<1> QED
  BY <1>1, <1>2, <1>3, <1>4, <1>5, <1>6, <1>7 DEF Next, MainLoop

LEMMA InitIsStepperInit == Init => StepperInit
BY StepperAssumption, CalibrationAssumption
DEF Init, StepperInit, StepperTypeOK, AtRest, Direction, Location, Motor

\* Calibration implements Stepper, so that what StepperProofs shows of every
\* caller holds of it.
THEOREM CalibrationImplementsStepper == Spec => StepperSpec
BY InitIsStepperInit, StepIsStepperStep, PTL DEF Spec, StepperSpec

\* No interrupt during calibration takes the counted tilt past the limit.
THEOREM CalibrationTilt == Spec => TiltNeverForced
BY CalibrationImplementsStepper, StepperTiltNeverForced, PTL

\* The type invariant.
THEOREM CalibrationTypeCorrect == Spec => []TypeOK
<1> DEFINE CalibTypeOK ==
      /\ calib_state \in [Motor -> {"FIND_BTM", "FIND_TOP", "DONE"}]
      /\ pressed \in [Motor -> BOOLEAN]
      /\ calibration_Moteur_status \in BOOLEAN
      /\ at \in {"read_1", "read_2", "run_1", "run_2", "status"}
<1>1. Init => CalibTypeOK
  BY DEF Init
<1>2. StepperTypeOK /\ CalibTypeOK /\ [Next]_vars => CalibTypeOK'
  <2> SUFFICES ASSUME StepperTypeOK, CalibTypeOK, [Next]_vars
               PROVE  CalibTypeOK'
    OBVIOUS
  <2>1. CASE Interrupt \/ FinishStop \/ SearchStores
    BY <2>1 DEF Interrupt, FinishStop, SearchStores, calibVars
  <2>2. ASSUME NEW i \in Motor, ReadSwitches(i)
        PROVE  CalibTypeOK'
    <3>1. SwitchPressed(i) \in BOOLEAN
      BY Zenon DEF SwitchPressed
    <3> QED
      BY <2>2, <3>1 DEF ReadSwitches
  <2>3. ASSUME NEW i \in Motor, RunStop(i) \/ RunSearch(i) \/ RunSkip(i)
        PROVE  CalibTypeOK'
    BY <2>3 DEF RunStop, RunSearch, RunSkip, calibVars, AfterRun
  <2>4. CASE SearchRequest \/ BottomReached \/ TopReached
    BY <2>4 DEF SearchRequest, BottomReached, TopReached, AfterRun
  <2>5. CASE EndOfPass
    BY <2>5 DEF EndOfPass
  <2>6. CASE UNCHANGED vars
    BY <2>6 DEF vars, calibVars
  <2> QED
    BY <2>1, <2>2, <2>3, <2>4, <2>5, <2>6 DEF Next, MainLoop
<1>3. Spec => []StepperTypeOK
  BY CalibrationImplementsStepper, StepperTypeCorrect, PTL
<1>4. StepperTypeOK /\ CalibTypeOK => TypeOK
  BY DEF TypeOK
<1> QED
  BY <1>1, <1>2, <1>3, <1>4, PTL DEF Spec
-----------------------------------------------------------------------------
\* The interrupt leaves a motor at rest alone, never makes one busy that was not,
\* and sets the pin of a motor it starts to that motor's direction.
LEMMA InterruptOnMotor ==
  ASSUME StepperTypeOK, APP_Ges_stepper, NEW i \in Motor
  PROVE  /\ AtRest(i) => AtRest(i)'
         /\ ~Request_to_move[i] => ~Request_to_move'[i]
         /\ Stepper_Direction' = Stepper_Direction
         /\ state'[i] = "MOVING" =>
              \/ Starts(i) /\ (Stepper_Direction[i] # "CENTRED" => pin'[i] = Stepper_Direction[i])
              \/ state[i] = "MOVING" /\ pin'[i] = pin[i]
<1>1. ~Request_to_move[i] => ~Request_to_move'[i]
  BY Zenon DEF APP_Ges_stepper
<1>2. state[i] = "STBY" /\ ~Request_to_move[i] => state'[i] = "STBY"
  BY DEF APP_Ges_stepper, Starts
<1>3. state'[i] = "MOVING" =>
        \/ Starts(i) /\ (Stepper_Direction[i] # "CENTRED" => pin'[i] = Stepper_Direction[i])
        \/ state[i] = "MOVING" /\ pin'[i] = pin[i]
  BY DEF APP_Ges_stepper, Stepper_ApplyDirectionPin, Starts, StepperTypeOK, Direction
<1> QED
  BY <1>1, <1>2, <1>3 DEF APP_Ges_stepper, AtRest

LEMMA CalibInvInit == Init => CalibInv
BY DEF Init, CalibInv, AtRest

LEMMA CalibInvStep == TypeOK /\ CalibInv /\ [Next]_vars => CalibInv'
<1> SUFFICES ASSUME TypeOK, CalibInv, [Next]_vars
             PROVE  CalibInv'
  OBVIOUS
<1> USE DEF CalibInv, Fresh, RunOf
<1>1. CASE Interrupt
  <2>1. StepperTypeOK /\ APP_Ges_stepper /\ UNCHANGED calibVars /\ UNCHANGED call
    BY <1>1 DEF Interrupt, TypeOK, APP_Ges_stepper
  <2>2. ASSUME NEW i \in Motor
        PROVE  /\ ~AtRest(i)' => /\ calib_state'[i] # "DONE"
                                 /\ Stepper_Direction'[i] = Wanted(i)'
               /\ state'[i] = "MOVING" => pin'[i] = Stepper_Direction'[i]
    <3>1. Wanted(i)' = Wanted(i) /\ Wanted(i) # "CENTRED"
      BY <2>1 DEF Wanted, calibVars
    <3>2. Starts(i) => ~AtRest(i)
      BY DEF Starts, AtRest
    <3> QED
      BY <2>1, <3>1, <3>2, InterruptOnMotor DEF calibVars
  <2>3. cur \in Motor
    BY DEF TypeOK, StepperTypeOK
  <2> QED
    BY <2>1, <2>2, <2>3, InterruptOnMotor DEF calibVars, call, Wanted
<1>2. ASSUME NEW i \in Motor, ReadSwitches(i)
      PROVE  CalibInv'
  <2>1. pc = "idle"
    BY <1>2 DEF ReadSwitches, ReadOf
  <2>2. SwitchPressed(i) => calib_state[i] # "DONE"
    BY DEF SwitchPressed
  <2>3. UNCHANGED <<stepperVars, calib_state>>
    BY <1>2 DEF ReadSwitches
  <2>4. ASSUME NEW j \in Motor
        PROVE  pressed'[j] /\ Fresh(j)' => calib_state'[j] # "DONE"
    BY <1>2, <2>2, <2>3 DEF ReadSwitches, ReadOf, Motor, TypeOK
  <2> QED
    BY <2>1, <2>3, <2>4 DEF stepperVars, request, rods, call, AtRest, Wanted
<1>3. ASSUME NEW i \in Motor, RunStop(i)
      PROVE  CalibInv'
  BY <1>3 DEF RunStop, APP_Stepper_Stop, calibVars, request, rods, AtRest, Wanted
<1>4. ASSUME NEW i \in Motor, RunSearch(i)
      PROVE  CalibInv'
  BY <1>4 DEF RunSearch, APP_Move_Calibration, calibVars, request, rods, AtRest, Wanted
<1>5. ASSUME NEW i \in Motor, RunSkip(i)
      PROVE  CalibInv'
  BY <1>5 DEF RunSkip, AfterRun, stepperVars, request, rods, call, AtRest, Wanted, Motor
<1>6. CASE StopRequest /\ UNCHANGED calibVars
  BY <1>6 DEF StopRequest, calibVars, rods, AtRest, Wanted, TypeOK, StepperTypeOK
<1>7. CASE StopState /\ UNCHANGED calibVars
  BY <1>7 DEF StopState, calibVars, request, rods, AtRest, Wanted, TypeOK, StepperTypeOK
<1>8. CASE SearchStores
  BY <1>8 DEF SearchStores, MoveCalibration, calibVars, rods, AtRest, Wanted, TypeOK,
              StepperTypeOK
<1>9. CASE SearchRequest
  BY <1>9 DEF SearchRequest, MoveRequest, AfterRun, rods, AtRest, Wanted, TypeOK,
              StepperTypeOK, Motor
<1>10. CASE BottomReached
  BY <1>10 DEF BottomReached, BottomFound, AfterRun, request, rods, AtRest, Wanted,
               TypeOK, StepperTypeOK, Motor
<1>11. CASE TopReached
  BY <1>11 DEF TopReached, TopFound, AfterRun, request, rods, AtRest, Wanted, TypeOK,
               StepperTypeOK, Motor
<1>12. CASE EndOfPass
  BY <1>12 DEF EndOfPass, stepperVars, request, rods, call, AtRest, Wanted
<1>13. CASE UNCHANGED vars
  BY <1>13 DEF vars, calibVars, stepperVars, request, rods, call, AtRest, Wanted
<1> QED
  BY <1>1, <1>2, <1>3, <1>4, <1>5, <1>6, <1>7, <1>8, <1>9, <1>10, <1>11, <1>12,
     <1>13 DEF Next, MainLoop, FinishStop

LEMMA CalibInvHolds == Spec => []CalibInv
BY CalibInvInit, CalibInvStep, CalibrationTypeCorrect, PTL DEF Spec

\* A motor that is DONE is at rest and nothing is pending for it.
THEOREM CalibrationDoneIsAtRest == Spec => []DoneIsAtRest
<1>1. CalibInv => DoneIsAtRest
  BY DEF CalibInv, DoneIsAtRest
<1> QED
  BY <1>1, CalibInvHolds, PTL

\* During calibration the count moves with the rod except when it restarts at the
\* bottom switch.
THEOREM CalibrationCountFollowsRod == Spec => CountFollowsRod
<1> DEFINE Follows ==
      \A i \in Motor : calib_state'[i] = calib_state[i] =>
        Position_X'[i] - Position_X[i] = height'[i] - height[i]
<1>1. TypeOK /\ CalibInv /\ [Next]_vars => [Follows]_vars
  <2> SUFFICES ASSUME TypeOK, CalibInv, [Next]_vars, NEW i \in Motor,
                      calib_state'[i] = calib_state[i]
               PROVE  Position_X'[i] - Position_X[i] = height'[i] - height[i]
    OBVIOUS
  <2>1. Position_X[i] \in Int /\ height[i] \in Int
    BY DEF TypeOK, StepperTypeOK
  <2>2. CASE Interrupt
    <3>1. Pulses(i) => (Stepper_Direction[i] = "UP" <=> pin[i] = "UP")
      BY DEF Pulses, InMove, CalibInv
    <3>2. /\ Position_X'[i] = IF Pulses(i) THEN Position_X[i] + StepOf(i)
                              ELSE Position_X[i]
          /\ height'[i] = IF ~Pulses(i) THEN height[i]
                          ELSE IF pin[i] = "UP" THEN height[i] + 1
                          ELSE height[i] - 1
      BY <2>2 DEF Interrupt, APP_Ges_stepper
    <3> QED
      BY <2>1, <3>1, <3>2 DEF StepOf
  <2>3. CASE BottomReached
    <3>1. cur # i
      BY <2>3 DEF BottomReached, TypeOK
    <3> QED
      BY <2>1, <2>3, <3>1 DEF BottomReached, BottomFound, rods, TypeOK, StepperTypeOK
  <2>4. CASE UNCHANGED <<Position_X, height>>
    BY <2>1, <2>4
  <2>5. ASSUME ~Interrupt, ~BottomReached
        PROVE  UNCHANGED <<Position_X, height>>
    BY <2>5 DEF Next, MainLoop, ReadSwitches, RunStop, RunSearch, RunSkip, FinishStop,
                SearchStores, SearchRequest, TopReached, EndOfPass, APP_Stepper_Stop,
                APP_Move_Calibration, StopRequest, StopState, MoveCalibration,
                MoveRequest, TopFound, vars, stepperVars, rods
  <2> QED
    BY <2>2, <2>3, <2>4, <2>5
<1> QED
  BY <1>1, CalibInvHolds, CalibrationTypeCorrect, PTL DEF Spec, CountFollowsRod
-----------------------------------------------------------------------------
(***************************************************************************)
(* How far the rods get.  What a motor still has to do takes its rod at    *)
(* most so far past the switch it looks for; less, when that switch was    *)
(* read and not met.                                                       *)
(***************************************************************************)
Past(i) == IF calib_state[i] = "FIND_BTM" THEN -height[i] ELSE height[i] - Travel[i]

Left(i) == (IF state[i] = "MOVING" THEN nb_step_left[i] ELSE 0)
           + (IF Request_to_move[i] THEN SearchSteps ELSE 0)

\* The moves are search moves.
Moves(i) ==
  /\ nb_step_left[i] <= SearchSteps
  /\ Request_to_move[i] => Stepper_nb_step[i] = SearchSteps

Reach(i) ==
  /\ calib_state[i] # "DONE" => Past(i) + Left(i) <= Overshoot
  /\ calib_state[i] # "DONE" /\ Fresh(i) /\ ~pressed[i] =>
       Past(i) + Left(i) <= 2 * SearchSteps - 1
  /\ Fresh(i) /\ pressed[i] => Past(i) >= 0

\* What is behind the rod.
Measured(i) ==
  /\ Position_FC1[i] = 0
  /\ calib_state[i] = "FIND_BTM" => height[i] <= Travel[i]
  /\ calib_state[i] # "FIND_BTM" =>
       height[i] >= -Overshoot /\ Position_X[i] - height[i] \in 0..Overshoot
  /\ calib_state[i] = "DONE" =>
       /\ height[i] \in Travel[i]..(Travel[i] + Overshoot)
       /\ Position_FC2[i] \in Travel[i]..(Travel[i] + 2 * Overshoot)

\* The function the main loop is in was called for what was read.
CallInv ==
  /\ pc = "move_request" => Stepper_nb_step[cur] = SearchSteps
  /\ pc \in {"move_calib", "move_request"} => ~pressed[cur]
  /\ pc \in {"stop_request", "stop_state", "stopped"} => pressed[cur]

RodInv == CallInv /\ \A i \in Motor : Moves(i) /\ Reach(i) /\ Measured(i)

\* The numbers of one motor.
LEMMA MotorType ==
  ASSUME TypeOK, NEW i \in Motor
  PROVE  /\ height[i] \in Int /\ Position_X[i] \in Int /\ Travel[i] \in Nat \ {0}
         /\ nb_step_left[i] \in Nat /\ SearchSteps \in Nat \ {0}
         /\ Position_FC2[i] \in Int /\ Overshoot \in Nat /\ Overshoot = 3 * SearchSteps - 1
         /\ state[i] \in {"STBY", "MOVING"} /\ Request_to_move[i] \in BOOLEAN
         /\ calib_state[i] \in {"FIND_BTM", "FIND_TOP", "DONE"}
BY StepperAssumption, CalibrationAssumption
DEF TypeOK, StepperTypeOK, Overshoot

LEMMA RodInvInit == TypeOK /\ Init => RodInv
<1> SUFFICES ASSUME TypeOK, Init PROVE RodInv
  OBVIOUS
<1>1. CallInv
  BY DEF Init, CallInv
<1>2. ASSUME NEW i \in Motor PROVE Moves(i) /\ Reach(i) /\ Measured(i)
  <2>1. height[i] \in 0..Travel[i]
    BY CalibrationAssumption DEF Init
  <2>2. /\ state[i] = "STBY" /\ ~Request_to_move[i] /\ nb_step_left[i] = 0
        /\ calib_state[i] = "FIND_BTM" /\ at = "read_2" /\ Position_FC1[i] = 0
    BY DEF Init
  <2>3. Past(i) = -height[i] /\ Left(i) = 0 /\ ~Fresh(i)
    BY <2>2 DEF Past, Left, Fresh, RunOf
  <2> QED
    BY <2>1, <2>2, <2>3, MotorType DEF Moves, Reach, Measured
<1> QED
  BY <1>1, <1>2 DEF RodInv

\* An interrupt spends what a motor has left on the way to its switch.
LEMMA RodInterrupt ==
  ASSUME TypeOK, TypeOK', CalibInv, RodInv, Interrupt
  PROVE  RodInv'
<1>1. /\ APP_Ges_stepper
      /\ UNCHANGED <<calib_state, pressed, at, Stepper_nb_step, Position_FC1,
                     Position_FC2, pc, cur>>
  BY DEF Interrupt, calibVars, APP_Ges_stepper, switches, call
<1>2. CallInv'
  BY <1>1 DEF RodInv, CallInv
<1>3. ASSUME NEW i \in Motor PROVE Moves(i)' /\ Reach(i)' /\ Measured(i)'
  <2> USE MotorType
  <2>1. Moves(i) /\ Reach(i) /\ Measured(i)
    BY DEF RodInv
  <2>2. calib_state[i] = "DONE" => ~Pulses(i) /\ ~Starts(i)
    BY DEF CalibInv, AtRest, Pulses, InMove, Starts
  <2>3. Pulses(i) => /\ state[i] = "MOVING" /\ nb_step_left[i] >= 1
                     /\ pin[i] = Wanted(i) /\ Stepper_Direction[i] = Wanted(i)
    BY DEF Pulses, InMove, CalibInv, AtRest
  <2>4. /\ height'[i] = IF Pulses(i) THEN height[i] + (IF Wanted(i) = "UP" THEN 1 ELSE -1)
                        ELSE height[i]
        /\ Position_X'[i] - height'[i] = Position_X[i] - height[i]
    BY <1>1, <2>3 DEF APP_Ges_stepper, StepOf, Wanted
  <2>5. /\ nb_step_left'[i] = IF Starts(i) THEN Stepper_nb_step[i]
                              ELSE IF Halts(i) THEN 0
                              ELSE IF Pulses(i) THEN nb_step_left[i] - 1
                              ELSE nb_step_left[i]
        /\ state'[i] = IF Starts(i) THEN "MOVING"
                       ELSE IF Arrives(i) \/ Halts(i) THEN "STBY" ELSE state[i]
        /\ Request_to_move'[i] => Request_to_move[i] /\ ~Starts(i)
    BY <1>1, Zenon DEF APP_Ges_stepper
  <2>6. Moves(i)'
    BY <1>1, <2>1, <2>3, <2>5 DEF Moves, Starts
  <2>7. Left(i)' <= Left(i) - (IF Pulses(i) THEN 1 ELSE 0)
    <3>1. CASE Starts(i)
      <4>1. /\ state[i] = "STBY" /\ Request_to_move[i] /\ ~Pulses(i)
            /\ Stepper_nb_step[i] = SearchSteps
        BY <2>1, <3>1 DEF Starts, Pulses, InMove, Moves
      <4>2. /\ nb_step_left'[i] = SearchSteps /\ state'[i] = "MOVING"
            /\ ~Request_to_move'[i]
        BY <2>5, <3>1, <4>1
      <4> QED
        BY <4>1, <4>2 DEF Left
    <3>2. CASE ~Starts(i)
      <4>1. state'[i] = "MOVING" => state[i] = "MOVING"
        BY <2>5, <3>2
      <4>2. nb_step_left'[i] <= nb_step_left[i] - (IF Pulses(i) THEN 1 ELSE 0)
        BY <2>3, <2>5, <3>2 DEF Pulses, Halts
      <4>3. Pulses(i) => state'[i] = "MOVING"
        BY <2>3, <2>5, <3>2 DEF Pulses, Halts, Arrives
      <4>4. nb_step_left'[i] \in Int
        BY <2>5, <3>2
      <4>5. CASE state'[i] = "MOVING"
        <5>1. Left(i)' <= nb_step_left'[i] + (IF Request_to_move[i] THEN SearchSteps ELSE 0)
          BY <2>5, <4>4, <4>5 DEF Left
        <5>2. Left(i) = nb_step_left[i] + (IF Request_to_move[i] THEN SearchSteps ELSE 0)
          BY <4>1, <4>5 DEF Left
        <5>3. Left(i)' \in Int
          BY <4>4 DEF Left
        <5> QED
          BY <4>2, <4>4, <5>1, <5>2, <5>3
      <4>6. CASE state'[i] # "MOVING"
        BY <2>5, <4>3, <4>6 DEF Left
      <4> QED
        BY <4>5, <4>6
    <3> QED
      BY <3>1, <3>2
  <2>8. Past(i)' = Past(i) + (IF Pulses(i) THEN 1 ELSE 0)
    BY <1>1, <2>2, <2>4 DEF Past, Wanted
  <2>9. Reach(i)'
    <3>1. Past(i) \in Int /\ Left(i) \in Int
      BY DEF Past, Left
    <3>2. Left(i)' \in Int
      BY DEF Left, TypeOK, StepperTypeOK
    <3>3. Past(i)' + Left(i)' <= Past(i) + Left(i) /\ Past(i)' >= Past(i)
      <4>1. CASE Pulses(i)
        BY <2>7, <2>8, <3>1, <3>2, <4>1
      <4>2. CASE ~Pulses(i)
        BY <2>7, <2>8, <3>1, <3>2, <4>2
      <4> QED
        BY <4>1, <4>2
    <3>4. /\ calib_state'[i] = calib_state[i] /\ pressed'[i] = pressed[i]
          /\ Fresh(i)' <=> Fresh(i)
      BY <1>1 DEF Fresh
    <3>5. Past(i)' \in Int
      BY <2>8, <3>1
    <3> QED
      BY <2>1, <3>1, <3>2, <3>3, <3>4, <3>5 DEF Reach
  <2>10. Measured(i)'
    BY <1>1, <2>1, <2>2, <2>4 DEF Measured, Wanted
  <2> QED
    BY <2>6, <2>9, <2>10
<1> QED
  BY <1>2, <1>3 DEF RodInv

\* A read: a switch that is not met is still ahead.
LEMMA RodRead ==
  ASSUME TypeOK, CalibInv, RodInv, NEW k \in Motor, ReadSwitches(k)
  PROVE  RodInv'
<1>1. /\ UNCHANGED <<stepperVars, calib_state>>
      /\ pressed' = [pressed EXCEPT ![k] = SwitchPressed(k)]
      /\ at = ReadOf(k) /\ at' = IF k = 2 THEN "read_1" ELSE "run_1"
  BY DEF ReadSwitches
<1>2. /\ UNCHANGED <<state, Position_X, Position_FC1, Position_FC2, Stepper_nb_step,
                     nb_step_left, Request_to_move, height, pc, cur>>
  BY <1>1 DEF stepperVars, switches, request, rods, call
<1>3. pc = "idle"
  BY <1>1 DEF CalibInv, RunOf, ReadOf
<1>4. CallInv'
  BY <1>2, <1>3 DEF CallInv
<1>5. ASSUME NEW i \in Motor PROVE Moves(i)' /\ Reach(i)' /\ Measured(i)'
  <2> USE MotorType
  <2>1. Moves(i) /\ Reach(i) /\ Measured(i)
    BY DEF RodInv
  <2>2. Moves(i)' /\ Measured(i)' /\ Past(i)' = Past(i) /\ Left(i)' = Left(i)
    BY <1>1, <1>2, <2>1 DEF Moves, Measured, Past, Left
  <2>3. CASE i = k
    <3>1. pressed'[i] <=> SwitchPressed(i)
      BY <1>1, <2>3, Zenon DEF TypeOK
    <3>2. SwitchPressed(i) => Past(i) >= 0
      BY DEF SwitchPressed, Past
    <3>3. calib_state[i] # "DONE" /\ ~SwitchPressed(i) => Past(i) <= -1
      BY DEF SwitchPressed, Past
    <3>4. Left(i) <= 2 * SearchSteps
      BY <2>1 DEF Left, Moves
    <3>5. Past(i) \in Int /\ Left(i) \in Int
      BY DEF Past, Left
    <3> QED
      BY <1>1, <2>1, <2>2, <3>1, <3>2, <3>3, <3>4, <3>5 DEF Reach
  <2>4. CASE i # k
    <3>1. pressed'[i] = pressed[i] /\ (Fresh(i)' => Fresh(i))
      BY <1>1, <2>4 DEF Fresh, RunOf, ReadOf, Motor
    <3> QED
      BY <1>1, <2>1, <2>2, <3>1, Zenon DEF Reach
  <2> QED
    BY <2>2, <2>3, <2>4
<1> QED
  BY <1>4, <1>5 DEF RodInv

\* What leaves the rods, the counts and the reads alone, and no motor with more to
\* do, keeps the invariant.
LEMMA RodLess ==
  ASSUME TypeOK, TypeOK', RodInv, CallInv',
         UNCHANGED <<Position_X, Position_FC1, Position_FC2, height, calib_state,
                     pressed>>,
         \A i \in Motor : Fresh(i)' => Fresh(i),
         \A i \in Motor : Moves(i)' /\ Left(i)' <= Left(i)
  PROVE  RodInv'
<1>1. ASSUME NEW i \in Motor PROVE Reach(i)' /\ Measured(i)'
  <2> USE MotorType
  <2>1. Reach(i) /\ Measured(i)
    BY DEF RodInv
  <2>2. Past(i)' = Past(i) /\ Past(i) \in Int /\ Left(i) \in Int
    BY DEF Past, Left
  <2>3. Left(i)' \in Int
    BY DEF Left, TypeOK, StepperTypeOK
  <2>4. Measured(i)'
    BY <2>1 DEF Measured
  <2>5. Reach(i)'
    BY <2>1, <2>2, <2>3 DEF Reach
  <2> QED
    BY <2>4, <2>5
<1> QED
  BY <1>1 DEF RodInv

\* The main loop decides what to do with a motor, or is at the end of a pass.
LEMMA RodDecide ==
  ASSUME TypeOK, TypeOK', CalibInv, RodInv,
         \/ \E k \in Motor : RunStop(k) \/ RunSearch(k) \/ RunSkip(k)
         \/ FinishStop \/ SearchStores \/ EndOfPass \/ UNCHANGED vars
  PROVE  RodInv'
<1> USE MotorType
<1>1. ASSUME NEW k \in Motor, RunStop(k) PROVE RodInv'
  <2>1. /\ UNCHANGED <<state, Position_X, Position_FC1, Position_FC2, height,
                       calib_state, pressed, at, Stepper_nb_step, Request_to_move>>
        /\ nb_step_left' = [nb_step_left EXCEPT ![k] = 0]
        /\ pc' = "stop_request" /\ cur' = k /\ pressed[k]
    BY <1>1 DEF RunStop, APP_Stepper_Stop, calibVars, switches, request, rods
  <2>2. CallInv'
    BY <2>1 DEF CallInv
  <2>3. ASSUME NEW i \in Motor PROVE Moves(i)' /\ Left(i)' <= Left(i)
    BY <2>1 DEF RodInv, Moves, Left, TypeOK, StepperTypeOK
  <2> QED
    BY <2>1, <2>2, <2>3, RodLess DEF Fresh
<1>2. ASSUME NEW k \in Motor, RunSearch(k) PROVE RodInv'
  <2>1. /\ UNCHANGED <<state, Position_X, Position_FC1, Position_FC2, height,
                       calib_state, pressed, at, Stepper_nb_step, Request_to_move,
                       nb_step_left>>
        /\ pc' = "move_calib" /\ cur' = k /\ ~pressed[k]
    BY <1>2 DEF RunSearch, APP_Move_Calibration, calibVars, switches, request, rods
  <2>2. CallInv'
    BY <2>1 DEF CallInv
  <2>3. ASSUME NEW i \in Motor PROVE Moves(i)' /\ Left(i)' <= Left(i)
    BY <2>1 DEF RodInv, Moves, Left
  <2> QED
    BY <2>1, <2>2, <2>3, RodLess DEF Fresh
<1>3. ASSUME NEW k \in Motor, RunSkip(k) PROVE RodInv'
  <2>1. /\ UNCHANGED <<state, Position_X, Position_FC1, Position_FC2, height,
                       calib_state, pressed, Stepper_nb_step, Request_to_move,
                       nb_step_left, pc, cur>>
        /\ at = RunOf(k) /\ at' = AfterRun(k)
    BY <1>3 DEF RunSkip, stepperVars, switches, request, rods, call
  <2>2. CallInv'
    BY <2>1 DEF CallInv, RodInv
  <2>3. ASSUME NEW i \in Motor
        PROVE  Moves(i)' /\ Left(i)' <= Left(i) /\ (Fresh(i)' => Fresh(i))
    BY <2>1 DEF RodInv, Moves, Left, Fresh, RunOf, AfterRun, Motor
  <2> QED
    BY <2>1, <2>2, <2>3, RodLess
<1>4. CASE FinishStop
  <2>1. /\ UNCHANGED <<Position_X, Position_FC1, Position_FC2, height, calib_state,
                       pressed, at, Stepper_nb_step, nb_step_left, cur>>
        /\ pc \in {"stop_request", "stop_state"} /\ pc' \in {"stop_state", "stopped"}
    BY <1>4 DEF FinishStop, StopRequest, StopState, calibVars, switches, request, rods
  <2>2. CallInv'
    BY <2>1 DEF CallInv, RodInv
  <2>3. ASSUME NEW i \in Motor
        PROVE  /\ Request_to_move'[i] => Request_to_move[i]
               /\ state'[i] = "MOVING" => state[i] = "MOVING"
    BY <1>4 DEF FinishStop, StopRequest, StopState, request, TypeOK, StepperTypeOK
  <2>4. ASSUME NEW i \in Motor PROVE Moves(i)' /\ Left(i)' <= Left(i)
    BY <2>1, <2>3 DEF RodInv, Moves, Left
  <2> QED
    BY <2>1, <2>2, <2>4, RodLess DEF Fresh
<1>5. CASE SearchStores
  <2>1. /\ UNCHANGED <<state, Position_X, Position_FC1, Position_FC2, height,
                       calib_state, pressed, at, Request_to_move, nb_step_left, cur>>
        /\ Stepper_nb_step' = [Stepper_nb_step EXCEPT ![cur] = SearchSteps]
        /\ pc = "move_calib" /\ pc' = "move_request"
    BY <1>5 DEF SearchStores, MoveCalibration, calibVars, switches, rods
  <2>2. CallInv'
    BY <2>1 DEF CallInv, RodInv, TypeOK, StepperTypeOK
  <2>3. ASSUME NEW i \in Motor PROVE Moves(i)' /\ Left(i)' <= Left(i)
    BY <2>1 DEF RodInv, Moves, Left, TypeOK, StepperTypeOK
  <2> QED
    BY <2>1, <2>2, <2>3, RodLess DEF Fresh
<1>6. CASE EndOfPass \/ UNCHANGED vars
  <2>1. /\ UNCHANGED <<state, Position_X, Position_FC1, Position_FC2, height,
                       calib_state, pressed, Stepper_nb_step, Request_to_move,
                       nb_step_left, pc, cur>>
        /\ at' \in {"read_2", at}
    BY <1>6 DEF EndOfPass, vars, calibVars, stepperVars, switches, request, rods, call
  <2>2. CallInv'
    BY <2>1 DEF CallInv, RodInv
  <2>3. ASSUME NEW i \in Motor
        PROVE  Moves(i)' /\ Left(i)' <= Left(i) /\ (Fresh(i)' => Fresh(i))
    BY <2>1 DEF RodInv, Moves, Left, Fresh, RunOf
  <2> QED
    BY <2>1, <2>2, <2>3, RodLess
<1> QED
  BY <1>1, <1>2, <1>3, <1>4, <1>5, <1>6

\* One more search move, in the pass that read its switch.
LEMMA RodRequest ==
  ASSUME TypeOK, TypeOK', CalibInv, RodInv, SearchRequest
  PROVE  RodInv'
<1> USE MotorType
<1>1. /\ UNCHANGED <<state, Position_X, Position_FC1, Position_FC2, height,
                     calib_state, pressed, Stepper_nb_step, nb_step_left, cur>>
      /\ Request_to_move' = [Request_to_move EXCEPT ![cur] = TRUE]
      /\ pc = "move_request" /\ pc' = "idle"
      /\ at = RunOf(cur) /\ at' = AfterRun(cur) /\ cur \in Motor
  BY DEF SearchRequest, MoveRequest, CalibInv, switches, rods, TypeOK, StepperTypeOK
<1>2. CallInv'
  BY <1>1 DEF CallInv
<1>3. ASSUME NEW i \in Motor PROVE Moves(i)' /\ Reach(i)' /\ Measured(i)'
  <2>1. Moves(i) /\ Reach(i) /\ Measured(i)
    BY DEF RodInv
  <2>2. Measured(i)' /\ Past(i)' = Past(i)
    BY <1>1, <2>1 DEF Measured, Past
  <2>3. Past(i) \in Int /\ Left(i) \in Int
    BY DEF Past, Left
  <2>4. CASE i # cur
    <3>1. Moves(i)' /\ Left(i)' = Left(i)
      BY <1>1, <2>1, <2>4 DEF Moves, Left, TypeOK, StepperTypeOK
    <3>2. Fresh(i)' => Fresh(i)
      BY <1>1 DEF Fresh, RunOf, AfterRun, Motor
    <3> QED
      BY <1>1, <2>1, <2>2, <2>3, <3>1, <3>2 DEF Reach
  <2>5. CASE i = cur
    <3>1. Stepper_nb_step[i] = SearchSteps /\ ~pressed[i]
      BY <1>1, <2>5 DEF RodInv, CallInv
    <3>2. Moves(i)'
      BY <1>1, <2>1, <3>1 DEF Moves
    <3>3. Left(i)' \in Int /\ Left(i)' <= Left(i) + SearchSteps
      BY <1>1, <2>5 DEF Left, TypeOK, StepperTypeOK
    <3>4. Fresh(i) /\ ~Fresh(i)'
      BY <1>1, <2>5 DEF Fresh, RunOf, AfterRun, Motor
    <3>5. calib_state[i] # "DONE" => Past(i) + Left(i) <= 2 * SearchSteps - 1
      BY <2>1, <3>1, <3>4 DEF Reach
    <3>6. Reach(i)'
      BY <1>1, <2>2, <2>3, <3>3, <3>4, <3>5 DEF Reach
    <3> QED
      BY <2>2, <3>2, <3>6
  <2> QED
    BY <2>4, <2>5
<1> QED
  BY <1>2, <1>3 DEF RodInv

\* A switch is reached.
LEMMA RodReached ==
  ASSUME TypeOK, TypeOK', CalibInv, RodInv, BottomReached \/ TopReached
  PROVE  RodInv'
<1> USE MotorType
<1>1. /\ UNCHANGED <<state, height, pressed, Stepper_nb_step, nb_step_left,
                     Request_to_move, cur>>
      /\ pc = "stopped" /\ pc' = "idle" /\ cur \in Motor
      /\ at = RunOf(cur) /\ at' = AfterRun(cur)
      /\ AtRest(cur) /\ pressed[cur] /\ Fresh(cur)
  <2>1. at = RunOf(cur) /\ AtRest(cur) /\ pressed[cur]
    BY DEF BottomReached, TopReached, BottomFound, TopFound, CalibInv, RodInv, CallInv
  <2>2. Fresh(cur)
    BY <2>1 DEF Fresh
  <2> QED
    BY <2>1, <2>2
    DEF BottomReached, TopReached, BottomFound, TopFound, request, rods, TypeOK,
        StepperTypeOK
<1>2. CallInv'
  BY <1>1 DEF CallInv
<1>3. ASSUME NEW i \in Motor, i # cur PROVE Moves(i)' /\ Reach(i)' /\ Measured(i)'
  <2>1. Moves(i) /\ Reach(i) /\ Measured(i)
    BY DEF RodInv
  <2>2. /\ Position_X'[i] = Position_X[i] /\ Position_FC1'[i] = Position_FC1[i]
        /\ Position_FC2'[i] = Position_FC2[i] /\ calib_state'[i] = calib_state[i]
    BY <1>3 DEF BottomReached, TopReached, BottomFound, TopFound, TypeOK, StepperTypeOK
  <2>3. /\ Past(i)' = Past(i) /\ Left(i)' = Left(i)
        /\ Past(i) \in Int /\ Left(i) \in Int
    BY <1>1, <2>2 DEF Past, Left
  <2>4. Fresh(i)' => Fresh(i)
    BY <1>1 DEF Fresh, RunOf, AfterRun, Motor
  <2> QED
    BY <1>1, <2>1, <2>2, <2>3, <2>4 DEF Moves, Reach, Measured
<1>4. Moves(cur)' /\ Left(cur)' = 0 /\ ~Fresh(cur)' /\ cur' = cur
  <2>1. Moves(cur) /\ cur \in Motor
    BY <1>1 DEF RodInv
  <2>2. ~Fresh(cur)'
    BY <1>1 DEF Fresh, RunOf, AfterRun, Motor
  <2> QED
    BY <1>1, <2>1, <2>2 DEF Moves, Left, AtRest
<1>5. Moves(cur) /\ Reach(cur) /\ Measured(cur) /\ Left(cur) = 0 /\ Past(cur) >= 0
  BY <1>1 DEF RodInv, Reach, Left, AtRest
<1>6. CASE BottomReached
  <2>1. /\ calib_state[cur] = "FIND_BTM" /\ calib_state'[cur] = "FIND_TOP"
        /\ Position_X'[cur] = 0 /\ Position_FC1'[cur] = 0
    BY <1>1, <1>6 DEF BottomReached, BottomFound, TypeOK, StepperTypeOK
  <2>2. height[cur] <= 0 /\ height[cur] >= -Overshoot
    BY <1>1, <1>5, <2>1 DEF Past, Reach
  <2>3. Measured(cur)'
    BY <1>1, <2>1, <2>2 DEF Measured
  <2>4. Reach(cur)'
    <3>1. Past(cur)' = height[cur] - Travel[cur]
      BY <1>1, <2>1 DEF Past
    <3> QED
      BY <1>1, <1>4, <2>2, <3>1 DEF Reach
  <2> QED
    BY <1>1, <1>2, <1>3, <1>4, <2>3, <2>4 DEF RodInv
<1>7. CASE TopReached
  <2>1. /\ calib_state[cur] = "FIND_TOP" /\ calib_state'[cur] = "DONE"
        /\ Position_X'[cur] = Position_X[cur] /\ Position_FC1'[cur] = Position_FC1[cur]
        /\ Position_FC2'[cur] = Position_X[cur]
    BY <1>1, <1>7 DEF TopReached, TopFound, TypeOK, StepperTypeOK
  <2>2. height[cur] \in Travel[cur]..(Travel[cur] + Overshoot)
    BY <1>1, <1>5, <2>1 DEF Past, Reach
  <2>3. Measured(cur)'
    BY <1>1, <1>5, <2>1, <2>2 DEF Measured
  <2>4. Reach(cur)'
    BY <1>4, <2>1 DEF Reach
  <2> QED
    BY <1>1, <1>2, <1>3, <1>4, <2>3, <2>4 DEF RodInv
<1> QED
  BY <1>6, <1>7

LEMMA RodInvStep == TypeOK /\ TypeOK' /\ CalibInv /\ RodInv /\ [Next]_vars => RodInv'
BY RodInterrupt, RodRead, RodDecide, RodRequest, RodReached DEF Next, MainLoop

LEMMA RodInvHolds == Spec => [](TypeOK /\ RodInv)
BY RodInvInit, RodInvStep, CalibInvHolds, CalibrationTypeCorrect, PTL DEF Spec

\* No rod is driven further past a switch than what is left of three search moves,
\* for every travel and every length of the search moves.
THEOREM CalibrationNoRunaway == Spec => []NoRunaway
<1>1. TypeOK /\ RodInv => NoRunaway
  <2> SUFFICES ASSUME TypeOK, RodInv, NEW i \in Motor
               PROVE  height[i] \in (-Overshoot)..(Travel[i] + Overshoot)
    BY DEF NoRunaway
  <2> USE MotorType
  <2>1. Reach(i) /\ Measured(i)
    BY DEF RodInv
  <2>2. Left(i) >= 0 /\ Left(i) \in Int
    BY DEF Left
  <2>3. calib_state[i] = "FIND_BTM" => height[i] >= -Overshoot /\ height[i] <= Travel[i]
    BY <2>1, <2>2 DEF Reach, Measured, Past
  <2>4. calib_state[i] = "FIND_TOP" =>
          height[i] >= -Overshoot /\ height[i] <= Travel[i] + Overshoot
    BY <2>1, <2>2 DEF Reach, Measured, Past
  <2>5. calib_state[i] = "DONE" =>
          height[i] >= -Overshoot /\ height[i] <= Travel[i] + Overshoot
    BY <2>1 DEF Measured
  <2> QED
    BY <2>3, <2>4, <2>5
<1> QED
  BY <1>1, RodInvHolds, PTL

\* The course a motor ends with is the true one up to the two overshoots.
THEOREM CalibrationCourseIsMeasured == Spec => []CourseIsMeasured
<1>1. TypeOK /\ RodInv => CourseIsMeasured
  BY MotorType DEF RodInv, Measured, CourseIsMeasured
<1> QED
  BY <1>1, RodInvHolds, PTL
=============================================================================
