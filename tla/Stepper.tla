------------------------------ MODULE Stepper ------------------------------
(***************************************************************************)
(* The two stepper motors of the cabinet (Ges_Stepper.c).  The timer-2     *)
(* interrupt advances both motors; the main loop asks for moves and stops  *)
(* them.  Both sides share one STEPPER_DATA per motor without a lock, so   *)
(* every function of the main loop is cut at each access the interrupt can *)
(* fall between, while an interrupt is one step: nothing else that touches *)
(* these fields can preempt it.                                            *)
(*                                                                         *)
(* Any caller may call any function here, in any order; Calibration and    *)
(* Play restrict the order to the one of app.c.                            *)
(***************************************************************************)
EXTENDS Integers

CONSTANTS
  SafetyMargin,   \* STEPPER_SAFETY_MARGIN: kept between a target and a switch
  MaxDelta,       \* STEPPER_MAX_DELTA_STEPS: largest tilt, in motor steps
  SearchSteps     \* STEPPER_CALIB_SEARCH_STEPS: length of a calibration move

Motor == {1, 2}

ASSUME StepperAssumption ==
  /\ SafetyMargin \in Nat
  /\ MaxDelta \in Nat \ {0}
  /\ SearchSteps \in Nat \ {0}

VARIABLES
  state,              \* STBY or MOVING
  Stepper_Direction,  \* UP, DOWN, or CENTRED (the joystick's third value, 2)
  Position_X,         \* the counted position, in steps
  Position_FC1,       \* the counted position of the bottom switch
  Position_FC2,       \* the counted position of the top switch
  Stepper_nb_step,    \* the length of the requested move
  nb_step_left,       \* what remains of the current move
  Request_to_move,    \* a move waits for the interrupt
  tiltLimitBlocked,   \* s_tiltLimitBlocked
  pin,                \* the direction pin of the motor driver
  height,             \* where the rod really is
  pc,                 \* the next access of the function the main loop is in
  cur,                \* the motor that function works on
  target              \* the position it was asked for

request == <<Stepper_nb_step, Request_to_move, tiltLimitBlocked>>
switches == <<Position_FC1, Position_FC2>>
rods == <<pin, height>>
call == <<pc, cur, target>>
stepperVars == <<state, Stepper_Direction, Position_X, switches, nb_step_left,
                 request, rods, call>>

Direction == {"UP", "DOWN", "CENTRED"}
Location == {"idle", "stop_request", "stop_state", "stopped", "move_plan",
             "move_tilt", "move_calib", "move_request"}

StepperTypeOK ==
  /\ state \in [Motor -> {"STBY", "MOVING"}]
  /\ Stepper_Direction \in [Motor -> Direction]
  /\ Position_X \in [Motor -> Int]
  /\ Position_FC1 \in [Motor -> Int]
  /\ Position_FC2 \in [Motor -> Int]
  /\ Stepper_nb_step \in [Motor -> Nat]
  /\ nb_step_left \in [Motor -> Nat]
  /\ Request_to_move \in [Motor -> BOOLEAN]
  /\ tiltLimitBlocked \in [Motor -> BOOLEAN]
  /\ pin \in [Motor -> {"UP", "DOWN"}]
  /\ height \in [Motor -> Int]
  /\ pc \in Location /\ cur \in Motor /\ target \in Int

AtRest(i) == state[i] = "STBY" /\ ~Request_to_move[i]

\* Both motors initialised, and the main loop in no function of this module.
StepperInit == StepperTypeOK /\ pc = "idle" /\ \A i \in Motor : AtRest(i)
-----------------------------------------------------------------------------
\* The counted tilt, and what one step of a motor does to it.

Magnitude(n) == IF n < 0 THEN -n ELSE n

Stepper_GetDeltaSteps == Position_X[1] - Position_X[2]

\* Every direction that is not UP counts as one step down.
StepOf(i) == IF Stepper_Direction[i] = "UP" THEN 1 ELSE -1

TiltAfter(i, delta) == IF i = 1 THEN delta + StepOf(i) ELSE delta - StepOf(i)

Stepper_WouldExceedTiltLimit(i, delta) ==
  LET newDelta == TiltAfter(i, delta)
  IN  /\ Magnitude(newDelta) > MaxDelta
      /\ Magnitude(newDelta) > Magnitude(delta)
-----------------------------------------------------------------------------
\* The timer-2 interrupt: motor 2, then motor 1, which sees motor 2's step.

Starts(i) == state[i] = "STBY" /\ Request_to_move[i]

InMove(i) == state[i] = "MOVING" /\ nb_step_left[i] # 0

\* Mutant: a motor whose steps are used up stays MOVING.
ArrivesNever(i) == FALSE
Arrives(i) == state[i] = "MOVING" /\ nb_step_left[i] = 0

\* Mutant: the tilt is read once, before either motor moves.
DeltaStale(i) == Stepper_GetDeltaSteps
DeltaSeen(i) ==
  LET delta == Stepper_GetDeltaSteps
  IN  IF /\ i = 1
         /\ InMove(2)
         /\ ~Stepper_WouldExceedTiltLimit(2, delta)
      THEN TiltAfter(2, delta)
      ELSE delta

\* Mutant: a motor held back by the tilt waits instead of ending its move.
HaltsNever(i) == FALSE
Halts(i) == InMove(i) /\ Stepper_WouldExceedTiltLimit(i, DeltaSeen(i))
Pulses(i) == InMove(i) /\ ~Stepper_WouldExceedTiltLimit(i, DeltaSeen(i))

\* Mutant: the direction pin is not driven when a move starts.
PinKept(i) == pin[i]
Stepper_ApplyDirectionPin(i) ==
  IF Stepper_Direction[i] = "UP" THEN "UP" ELSE "DOWN"

APP_Ges_stepper ==
  /\ state' = [i \in Motor |-> IF Starts(i) THEN "MOVING"
                               ELSE IF Arrives(i) \/ Halts(i) THEN "STBY"
                               ELSE state[i]]
  /\ nb_step_left' = [i \in Motor |-> IF Starts(i) THEN Stepper_nb_step[i]
                                      ELSE IF Halts(i) THEN 0
                                      ELSE IF Pulses(i) THEN nb_step_left[i] - 1
                                      ELSE nb_step_left[i]]
  /\ Request_to_move' = [i \in Motor |-> Request_to_move[i] /\ ~Starts(i)]
  /\ tiltLimitBlocked' = [i \in Motor |->
                            Halts(i) \/ (tiltLimitBlocked[i] /\ ~Starts(i))]
  /\ Position_X' = [i \in Motor |-> IF Pulses(i) THEN Position_X[i] + StepOf(i)
                                    ELSE Position_X[i]]
  /\ pin' = [i \in Motor |-> IF Starts(i) THEN Stepper_ApplyDirectionPin(i)
                             ELSE pin[i]]
  \* the pulse turns the motor the way the pin says, not the way it is counted
  /\ height' = [i \in Motor |-> IF ~Pulses(i) THEN height[i]
                                ELSE IF pin[i] = "UP" THEN height[i] + 1
                                ELSE height[i] - 1]
  /\ UNCHANGED <<Stepper_Direction, Stepper_nb_step, switches, call>>
-----------------------------------------------------------------------------
\* The functions the main loop calls.

Ready == pc \in {"idle", "stopped"}

APP_Stepper_Stop(i) ==
  /\ Ready
  /\ nb_step_left' = [nb_step_left EXCEPT ![i] = 0]
  /\ pc' = "stop_request" /\ cur' = i
  /\ UNCHANGED <<state, Stepper_Direction, Position_X, switches, request, rods,
                 target>>

\* Mutant: a stop leaves a request that is pending.
StopForgetsRequest ==
  /\ pc = "stop_request"
  /\ pc' = "stop_state"
  /\ UNCHANGED <<state, Stepper_Direction, Position_X, switches, nb_step_left,
                 request, rods, cur, target>>

StopRequest ==
  /\ pc = "stop_request"
  /\ Request_to_move' = [Request_to_move EXCEPT ![cur] = FALSE]
  /\ pc' = "stop_state"
  /\ UNCHANGED <<state, Stepper_Direction, Position_X, switches, nb_step_left,
                 Stepper_nb_step, tiltLimitBlocked, rods, cur, target>>

\* Mutant: a stop counts on the interrupt to put the motor in STBY.
StopLeavesState ==
  /\ pc = "stop_state"
  /\ pc' = "stopped"
  /\ UNCHANGED <<state, Stepper_Direction, Position_X, switches, nb_step_left,
                 request, rods, cur, target>>

StopState ==
  /\ pc = "stop_state"
  /\ state' = [state EXCEPT ![cur] = "STBY"]
  /\ pc' = "stopped"
  /\ UNCHANGED <<Stepper_Direction, Position_X, switches, nb_step_left, request,
                 rods, cur, target>>

Stepper_TargetIsAllowed(i, t) ==
  /\ Position_FC2[i] - Position_FC1[i] > 2 * SafetyMargin
  /\ \/ /\ t > Position_X[i]
        /\ t <= Position_FC2[i] - SafetyMargin
     \/ /\ t < Position_X[i]
        /\ t >= Position_FC1[i] + SafetyMargin

\* The targets there are for it to accept.
InReach(i) ==
  ((Position_X[i] + 1)..(Position_FC2[i] - SafetyMargin))
    \union ((Position_FC1[i] + SafetyMargin)..(Position_X[i] - 1))

RequestAccepted(i, t) == state[i] = "STBY" /\ Stepper_TargetIsAllowed(i, t)

\* APP_Move_To, APP_Move_Up and APP_Move_Down all come here.
Stepper_RequestMoveTo(i, t) ==
  /\ Ready
  /\ RequestAccepted(i, t)
  /\ pc' = "move_plan" /\ cur' = i /\ target' = t
  /\ UNCHANGED <<state, Stepper_Direction, Position_X, switches, nb_step_left,
                 request, rods>>

MovePlan ==
  /\ pc = "move_plan"
  /\ Stepper_nb_step' = [Stepper_nb_step EXCEPT
                           ![cur] = Magnitude(target - Position_X[cur])]
  /\ Stepper_Direction' = [Stepper_Direction EXCEPT
                             ![cur] = IF target > Position_X[cur] THEN "UP"
                                      ELSE "DOWN"]
  /\ pc' = "move_tilt"
  /\ UNCHANGED <<state, Position_X, switches, nb_step_left, Request_to_move,
                 tiltLimitBlocked, rods, cur, target>>

MoveTilt ==
  LET exceeds == Stepper_WouldExceedTiltLimit(cur, Stepper_GetDeltaSteps)
  IN  /\ pc = "move_tilt"
      /\ tiltLimitBlocked' = [tiltLimitBlocked EXCEPT ![cur] = @ \/ exceeds]
      /\ pc' = IF exceeds THEN "idle" ELSE "move_request"
      /\ UNCHANGED <<state, Stepper_Direction, Position_X, switches, nb_step_left,
                     Stepper_nb_step, Request_to_move, rods, cur, target>>

MoveRequest ==
  /\ pc = "move_request"
  /\ Request_to_move' = [Request_to_move EXCEPT ![cur] = TRUE]
  /\ pc' = "idle"
  /\ UNCHANGED <<state, Stepper_Direction, Position_X, switches, nb_step_left,
                 Stepper_nb_step, tiltLimitBlocked, rods, cur, target>>

\* APP_Move_Calibration's guard; its stores follow.
APP_Move_Calibration(i) ==
  /\ Ready
  /\ state[i] = "STBY"
  /\ pc' = "move_calib" /\ cur' = i
  /\ UNCHANGED <<state, Stepper_Direction, Position_X, switches, nb_step_left,
                 request, rods, target>>

MoveCalibration(dir) ==
  /\ pc = "move_calib"
  /\ Stepper_nb_step' = [Stepper_nb_step EXCEPT ![cur] = SearchSteps]
  /\ Stepper_Direction' = [Stepper_Direction EXCEPT ![cur] = dir]
  /\ pc' = "move_request"
  /\ UNCHANGED <<state, Position_X, switches, nb_step_left, Request_to_move,
                 tiltLimitBlocked, rods, cur, target>>
-----------------------------------------------------------------------------
\* What app.c and Ges_Adc.c write into STEPPER_DATA themselves.

\* A stopped rod stands on its bottom switch: count from here.
BottomFound ==
  /\ pc = "stopped"
  /\ Position_X' = [Position_X EXCEPT ![cur] = 0]
  /\ Position_FC1' = [Position_FC1 EXCEPT ![cur] = 0]
  /\ pc' = "idle"
  /\ UNCHANGED <<state, Stepper_Direction, Position_FC2, nb_step_left, request,
                 rods, cur, target>>

TopFound ==
  /\ pc = "stopped"
  /\ Position_FC2' = [Position_FC2 EXCEPT ![cur] = Position_X[cur]]
  /\ pc' = "idle"
  /\ UNCHANGED <<state, Stepper_Direction, Position_X, Position_FC1, nb_step_left,
                 request, rods, cur, target>>

\* ADC_TO_SPEED stores the joystick's direction whatever the motor is doing.
SetDirection(i, dir) ==
  /\ Ready
  /\ Stepper_Direction' = [Stepper_Direction EXCEPT ![i] = dir]
  /\ UNCHANGED <<state, Position_X, switches, nb_step_left, request, rods, call>>

StepperNext ==
  \/ APP_Ges_stepper
  \/ \E i \in Motor : APP_Stepper_Stop(i)
  \/ StopRequest
  \/ StopState
  \/ \E i \in Motor : \E t \in InReach(i) : Stepper_RequestMoveTo(i, t)
  \/ MovePlan
  \/ MoveTilt
  \/ MoveRequest
  \/ \E i \in Motor : APP_Move_Calibration(i)
  \/ \E dir \in Direction : MoveCalibration(dir)
  \/ BottomFound
  \/ TopFound
  \/ \E i \in Motor, dir \in Direction : SetDirection(i, dir)

StepperSpec == StepperInit /\ [][StepperNext]_stepperVars
-----------------------------------------------------------------------------
\* When APP_Stepper_Stop returns its motor is at rest and has nothing pending,
\* however often the interrupt fell between its three stores; it stays so until
\* the next function is called (Ges_Stepper.c: APP_Stepper_Stop).
StopIsFinal == pc = "stopped" => AtRest(cur)

\* No interrupt takes the counted tilt past the limit, nor further past it when
\* it already is, even though it may move both rods at once
\* (Ges_Stepper.c: the check before each pulse).
TiltNeverForced ==
  [][APP_Ges_stepper =>
       \/ Magnitude(Stepper_GetDeltaSteps') <= MaxDelta
       \/ Magnitude(Stepper_GetDeltaSteps') <= Magnitude(Stepper_GetDeltaSteps)
    ]_stepperVars
=============================================================================
