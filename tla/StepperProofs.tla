--------------------------- MODULE StepperProofs ---------------------------
(***************************************************************************)
(* What holds of the two motors for every caller, every margin and every   *)
(* tilt limit.                                                             *)
(***************************************************************************)
EXTENDS Stepper, TLAPS

\* The tilt computation yields integers, and a permitted step never makes the
\* tilt both larger than the limit and larger than before.
LEMMA TiltAfterInt ==
  ASSUME StepperTypeOK, NEW i \in Motor, NEW delta \in Int
  PROVE  TiltAfter(i, delta) \in Int
BY DEF TiltAfter, StepOf

LEMMA DeltaInt ==
  ASSUME StepperTypeOK
  PROVE  Stepper_GetDeltaSteps \in Int
BY DEF StepperTypeOK, Stepper_GetDeltaSteps, Motor

LEMMA StepperTypeStep ==
  ASSUME StepperTypeOK, [StepperNext]_stepperVars
  PROVE  StepperTypeOK'
<1> USE DEF StepperTypeOK, Location, Direction
<1>1. CASE APP_Ges_stepper
  <2>1. ASSUME NEW i \in Motor
        PROVE  /\ Position_X[i] + StepOf(i) \in Int
               /\ Pulses(i) => nb_step_left[i] - 1 \in Nat
    BY DEF StepOf, Pulses, InMove
  <2>2. nb_step_left' \in [Motor -> Nat]
    BY <1>1, <2>1 DEF APP_Ges_stepper
  <2>3. Position_X' \in [Motor -> Int] /\ height' \in [Motor -> Int]
    BY <1>1, <2>1 DEF APP_Ges_stepper
  <2>4. /\ state' \in [Motor -> {"STBY", "MOVING"}]
        /\ pin' \in [Motor -> {"UP", "DOWN"}]
    BY <1>1 DEF APP_Ges_stepper, Stepper_ApplyDirectionPin
  <2>5. /\ Request_to_move' \in [Motor -> BOOLEAN]
        /\ tiltLimitBlocked' \in [Motor -> BOOLEAN]
    BY <1>1, Zenon DEF APP_Ges_stepper, Halts, InMove, Starts,
                       Stepper_WouldExceedTiltLimit
  <2> QED
    BY <1>1, <2>2, <2>3, <2>4, <2>5 DEF APP_Ges_stepper, switches, call
<1>2. ASSUME NEW i \in Motor, APP_Stepper_Stop(i)
      PROVE  StepperTypeOK'
  BY <1>2 DEF APP_Stepper_Stop, switches, request, rods
<1>3. CASE StopRequest
  BY <1>3 DEF StopRequest, switches, rods
<1>4. CASE StopState
  BY <1>4 DEF StopState, switches, request, rods
<1>5. ASSUME NEW i \in Motor, NEW t \in InReach(i),
             Stepper_RequestMoveTo(i, t)
      PROVE  StepperTypeOK'
  <2>1. t \in Int
    BY StepperAssumption DEF InReach
  <2> QED
    BY <1>5, <2>1 DEF Stepper_RequestMoveTo, switches, request, rods
<1>6. CASE MovePlan
  <2>1. Magnitude(target - Position_X[cur]) \in Nat
    BY DEF Magnitude
  <2> QED
    BY <1>6, <2>1 DEF MovePlan, switches, rods
<1>7. CASE MoveTilt
  <2>1. tiltLimitBlocked' \in [Motor -> BOOLEAN]
    BY <1>7, Zenon DEF MoveTilt, Stepper_WouldExceedTiltLimit
  <2> QED
    BY <1>7, <2>1 DEF MoveTilt, switches, rods
<1>8. CASE MoveRequest
  BY <1>8 DEF MoveRequest, switches, rods
<1>9. ASSUME NEW i \in Motor, APP_Move_Calibration(i)
      PROVE  StepperTypeOK'
  BY <1>9 DEF APP_Move_Calibration, switches, request, rods
<1>10. ASSUME NEW dir \in Direction, MoveCalibration(dir)
       PROVE  StepperTypeOK'
  BY <1>10, StepperAssumption DEF MoveCalibration, switches, rods
<1>11. CASE BottomFound
  BY <1>11 DEF BottomFound, request, rods
<1>12. CASE TopFound
  BY <1>12 DEF TopFound, request, rods
<1>13. ASSUME NEW i \in Motor, NEW dir \in Direction, SetDirection(i, dir)
       PROVE  StepperTypeOK'
  BY <1>13 DEF SetDirection, switches, request, rods, call
<1>14. CASE UNCHANGED stepperVars
  BY <1>14 DEF stepperVars, switches, request, rods, call
<1> QED
  BY <1>1, <1>2, <1>3, <1>4, <1>5, <1>6, <1>7, <1>8, <1>9, <1>10, <1>11,
     <1>12, <1>13, <1>14 DEF StepperNext

\* The type invariant: every field of STEPPER_DATA keeps its type whatever the
\* interrupt and the main loop do.
THEOREM StepperTypeCorrect == StepperSpec => []StepperTypeOK
<1>1. StepperInit => StepperTypeOK
  BY DEF StepperInit
<1>2. StepperTypeOK /\ [StepperNext]_stepperVars => StepperTypeOK'
  BY StepperTypeStep
<1> QED
  BY <1>1, <1>2, PTL DEF StepperSpec
-----------------------------------------------------------------------------
(***************************************************************************)
(* APP_Stepper_Stop.  Its three stores come in an order that matters: from *)
(* the second on nothing is pending, so the interrupt cannot start the     *)
(* motor again, and the third makes it rest.                               *)
(***************************************************************************)
StopInv ==
  /\ pc = "stop_state" => ~Request_to_move[cur]
  /\ pc = "stopped" => AtRest(cur)

\* When APP_Stepper_Stop returns its motor is at rest with nothing pending, and
\* stays so until the main loop calls another function.
THEOREM StepperStopIsFinal == StepperSpec => []StopIsFinal
<1>1. StepperInit => StopInv
  BY DEF StepperInit, StopInv
<1>2. StepperTypeOK /\ StopInv /\ [StepperNext]_stepperVars => StopInv'
  <2> SUFFICES ASSUME StepperTypeOK, StopInv, [StepperNext]_stepperVars
               PROVE  StopInv'
    OBVIOUS
  <2> USE DEF StopInv, AtRest
  <2>1. CASE APP_Ges_stepper
    <3>1. cur' = cur /\ pc' = pc /\ cur \in Motor
      BY <2>1 DEF APP_Ges_stepper, call, StepperTypeOK
    <3>2. ~Request_to_move[cur] => ~Request_to_move'[cur]
      BY <2>1, <3>1, Zenon DEF APP_Ges_stepper
    <3>3. AtRest(cur) => state'[cur] = "STBY"
      BY <2>1, <3>1 DEF APP_Ges_stepper, Starts, Arrives, Halts, InMove
    <3> QED
      BY <3>1, <3>2, <3>3
  <2>2. CASE StopRequest
    BY <2>2 DEF StopRequest, StepperTypeOK
  <2>3. CASE StopState
    BY <2>3 DEF StopState, request, StepperTypeOK
  <2>4. ASSUME NEW i \in Motor, NEW dir \in Direction, SetDirection(i, dir)
        PROVE  StopInv'
    BY <2>4 DEF SetDirection, request, call
  <2>5. CASE pc' \notin {"stop_state", "stopped"}
    BY <2>5
  <2>6. CASE UNCHANGED stepperVars
    BY <2>6 DEF stepperVars, request, call
  <2>7. ASSUME \/ \E i \in Motor : \/ APP_Stepper_Stop(i)
                                   \/ APP_Move_Calibration(i)
                                   \/ \E t \in InReach(i) : Stepper_RequestMoveTo(i, t)
               \/ \E dir \in Direction : MoveCalibration(dir)
               \/ MovePlan \/ MoveTilt \/ MoveRequest \/ BottomFound \/ TopFound
        PROVE  pc' \notin {"stop_state", "stopped"}
    BY <2>7 DEF APP_Stepper_Stop, APP_Move_Calibration, Stepper_RequestMoveTo,
                MoveCalibration, MovePlan, MoveTilt, MoveRequest, BottomFound,
                TopFound
  <2> QED
    BY <2>1, <2>2, <2>3, <2>4, <2>5, <2>6, <2>7 DEF StepperNext
<1>3. StopInv => StopIsFinal
  BY DEF StopInv, StopIsFinal
<1> QED
  BY <1>1, <1>2, <1>3, StepperTypeCorrect, PTL DEF StepperSpec
-----------------------------------------------------------------------------
(***************************************************************************)
(* The tilt limit.  Motor 2 is checked against the tilt the interrupt      *)
(* finds, motor 1 against the one motor 2 leaves, so each of the two steps *)
(* is allowed on its own and so is their sum.                              *)
(***************************************************************************)
Tolerated(new, old) ==
  Magnitude(new) <= MaxDelta \/ Magnitude(new) <= Magnitude(old)

LEMMA PermittedStep ==
  ASSUME StepperTypeOK, NEW i \in Motor, NEW delta \in Int,
         ~Stepper_WouldExceedTiltLimit(i, delta)
  PROVE  Tolerated(TiltAfter(i, delta), delta)
<1>1. TiltAfter(i, delta) \in Int
  BY TiltAfterInt
<1> QED
  BY <1>1, StepperAssumption
  DEF Stepper_WouldExceedTiltLimit, Tolerated, Magnitude

\* Two tolerated steps, one after the other, are tolerated together.
LEMMA ToleratedTrans ==
  ASSUME NEW a \in Int, NEW b \in Int, NEW c \in Int,
         Tolerated(a, b), Tolerated(b, c)
  PROVE  Tolerated(a, c)
BY StepperAssumption DEF Tolerated, Magnitude

\* What one interrupt does to the counted tilt.
LEMMA InterruptTilt ==
  ASSUME StepperTypeOK, APP_Ges_stepper
  PROVE  /\ DeltaSeen(1) \in Int
         /\ Tolerated(DeltaSeen(1), Stepper_GetDeltaSteps)
         /\ Stepper_GetDeltaSteps' = IF Pulses(1) THEN TiltAfter(1, DeltaSeen(1))
                                     ELSE DeltaSeen(1)
<1> DEFINE delta == Stepper_GetDeltaSteps
<1>1. delta \in Int /\ TiltAfter(2, delta) \in Int
  BY DeltaInt, TiltAfterInt DEF Motor
<1>2. Tolerated(delta, delta)
  BY <1>1 DEF Tolerated, Magnitude
<1>3. Pulses(2) => Tolerated(TiltAfter(2, delta), delta)
  BY <1>1, PermittedStep DEF Pulses, DeltaSeen, Motor
<1>4. DeltaSeen(1) = IF Pulses(2) THEN TiltAfter(2, delta) ELSE delta
  BY DEF DeltaSeen, Pulses
<1>5. /\ Position_X'[1] = IF Pulses(1) THEN Position_X[1] + StepOf(1)
                          ELSE Position_X[1]
      /\ Position_X'[2] = IF Pulses(2) THEN Position_X[2] + StepOf(2)
                          ELSE Position_X[2]
  BY DEF APP_Ges_stepper, Motor
<1>6. /\ Position_X[1] \in Int /\ Position_X[2] \in Int
      /\ StepOf(1) \in Int /\ StepOf(2) \in Int
  BY DEF StepperTypeOK, Motor, StepOf
<1>7. Stepper_GetDeltaSteps' = IF Pulses(1) THEN TiltAfter(1, DeltaSeen(1))
                              ELSE DeltaSeen(1)
  BY <1>4, <1>5, <1>6 DEF Stepper_GetDeltaSteps, TiltAfter
<1> QED
  BY <1>1, <1>2, <1>3, <1>4, <1>7

LEMMA InterruptTolerated ==
  ASSUME StepperTypeOK, APP_Ges_stepper
  PROVE  Tolerated(Stepper_GetDeltaSteps', Stepper_GetDeltaSteps)
<1>1. CASE ~Pulses(1)
  BY <1>1, InterruptTilt
<1>2. CASE Pulses(1)
  <2>1. Tolerated(TiltAfter(1, DeltaSeen(1)), DeltaSeen(1))
    BY <1>2, InterruptTilt, PermittedStep DEF Pulses, Motor
  <2>2. TiltAfter(1, DeltaSeen(1)) \in Int
    BY InterruptTilt, TiltAfterInt DEF Motor
  <2> QED
    BY <1>2, <2>1, <2>2, InterruptTilt, ToleratedTrans, DeltaInt
<1> QED
  BY <1>1, <1>2

\* No interrupt takes the counted tilt past the limit, or further past it.
THEOREM StepperTiltNeverForced == StepperSpec => TiltNeverForced
<1>1. StepperTypeOK
        => (APP_Ges_stepper =>
              \/ Magnitude(Stepper_GetDeltaSteps') <= MaxDelta
              \/ Magnitude(Stepper_GetDeltaSteps') <= Magnitude(Stepper_GetDeltaSteps))
  BY InterruptTolerated DEF Tolerated
<1> QED
  BY <1>1, StepperTypeCorrect, PTL DEF TiltNeverForced, StepperSpec
=============================================================================
