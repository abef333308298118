-------------------------------- MODULE Play --------------------------------
(***************************************************************************)
(* The motors once they are calibrated: what app.c (SERVICE_READ_ADC,      *)
(* SERVICE_JOYSTICK_X_ACTION), Ges_Adc.c (ADC_TO_SPEED) and Ges_Menu.c     *)
(* (Gestion_Menu) ask of them, handler by handler, under the timer-2       *)
(* interrupt.  The scheduler may call the handlers in any order.           *)
(*                                                                         *)
(* The menu is reduced to what decides about the motors: menu_state with   *)
(* WON and LOST counted as IN_PROGRESS, where the joysticks still drive    *)
(* the rods; module Menu has the rest.                                     *)
(***************************************************************************)
EXTENDS Stepper

CONSTANTS
  Travel,      \* the height of each rod's top switch, as calibrated
  Origin,      \* the position the rods are sent to between games, 1000
  StopTarget,  \* where a stopped game sends rod 1, 2500
  MaxSpeed,    \* the longest joystick move, 5
  MaxDrift     \* bound of the model on |Position_X - height|

\* The two courses differ by less than the limit, by far.
ASSUME PlayAssumption ==
  /\ Travel \in [Motor -> Nat]
  /\ Magnitude(Travel[1] - Travel[2]) <= MaxDelta
  /\ Origin \in Int
  /\ StopTarget \in Int
  /\ MaxSpeed \in Nat
  /\ MaxDrift \in Nat

VARIABLES
  menu_state,  \* DEFAULT, IN_PROGRESS, STOPPED, END_GAME
  in_game,     \* the joysticks drive the rods
  speed,       \* the length of a joystick move
  at           \* where the main loop is in its handler

playVars == <<menu_state, in_game, speed, at>>
vars == <<stepperVars, playVars>>

\* Both rods stand at their top switches, where the calibration ends.
Init ==
  /\ state = [i \in Motor |-> "STBY"]
  /\ Stepper_Direction = [i \in Motor |-> "UP"]
  /\ Position_X = [i \in Motor |-> Travel[i]]
  /\ Position_FC1 = [i \in Motor |-> 0]
  /\ Position_FC2 = [i \in Motor |-> Travel[i]]
  /\ Stepper_nb_step = [i \in Motor |-> SearchSteps]
  /\ nb_step_left = [i \in Motor |-> 0]
  /\ Request_to_move = [i \in Motor |-> FALSE]
  /\ tiltLimitBlocked = [i \in Motor |-> FALSE]
  /\ pin = [i \in Motor |-> "UP"]
  /\ height = [i \in Motor |-> Travel[i]]
  /\ pc = "idle" /\ cur = 1 /\ target = 0
  /\ menu_state = "DEFAULT"
  /\ in_game = FALSE
  /\ speed = [i \in Motor |-> 0]
  /\ at = "to_1"  \* app.c:256-269 sends both rods to their origin once
-----------------------------------------------------------------------------
\* The bound of the model: a move under way may be given another direction only
\* while the pulses it has left keep the count this near the rod.
DriftBounded(i, dir) ==
  state[i] = "MOVING" /\ (dir = "UP" <=> pin[i] = "DOWN")
    => Magnitude(Position_X[i] - height[i]) + 2 * nb_step_left[i] <= MaxDrift

\* A handler begins with no request pending.  The joystick handler is scheduled by
\* the interrupt that takes requests; the other two are scheduled by timer 1,
\* whose period is 40 of timer 2's and begins just before one of them, and read
\* the thermometer or the joysticks before they come to the motors.
Scheduled == at = "wait" /\ \A i \in Motor : ~Request_to_move[i]

Handle(h) == Scheduled /\ at' = h

\* SERVICE_READ_ADC: both motors get a direction and a speed from their joystick.
AdcOf(i) == IF i = 1 THEN "adc_1" ELSE "adc_2"

BeginReadAdc ==
  /\ Handle("adc_1")
  /\ UNCHANGED <<stepperVars, menu_state, in_game, speed>>

\* What ADC_TO_SPEED may answer for a joystick anywhere: back to the centre, on
\* at some speed, or, from the centre, a new direction with the speed unchanged.
AdcAnswers(i) ==
  {<<"CENTRED", 0>>} \union
  IF Stepper_Direction[i] = "CENTRED"
  THEN {"UP", "DOWN"} \X {speed[i]}
  ELSE {Stepper_Direction[i]} \X (1..MaxSpeed)

ADC_TO_SPEED(i) ==
  /\ at = AdcOf(i)
  /\ \E answer \in AdcAnswers(i) :
       /\ DriftBounded(i, answer[1])
       /\ SetDirection(i, answer[1])
       /\ speed' = [speed EXCEPT ![i] = answer[2]]
  /\ at' = IF i = 1 THEN "adc_2" ELSE "wait"
  /\ UNCHANGED <<menu_state, in_game>>
-----------------------------------------------------------------------------
\* SERVICE_JOYSTICK_X_ACTION: in a game each motor is asked for one short move.
JoyOf(i) == IF i = 1 THEN "joy_1" ELSE "joy_2"
AfterJoy(i) == IF i = 1 THEN "joy_2" ELSE "wait"

BeginJoystick ==
  /\ in_game
  /\ Handle("joy_1")
  /\ UNCHANGED <<stepperVars, menu_state, in_game, speed>>

JoystickTarget(i) == IF Stepper_Direction[i] = "UP"
                     THEN Position_X[i] + speed[i]
                     ELSE Position_X[i] - speed[i]

JoystickMove(i) ==
  /\ at = JoyOf(i)
  /\ Stepper_Direction[i] # "CENTRED"
  /\ Stepper_RequestMoveTo(i, JoystickTarget(i))
  /\ UNCHANGED playVars

JoystickSkip(i) ==
  /\ at = JoyOf(i) /\ Ready
  /\ \/ Stepper_Direction[i] = "CENTRED"
     \/ ~RequestAccepted(i, JoystickTarget(i))
  /\ at' = AfterJoy(i)
  /\ UNCHANGED <<stepperVars, menu_state, in_game, speed>>
-----------------------------------------------------------------------------
\* SERVICE_TASKS: the ticks of Gestion_Menu that concern the motors.
ToOf(i) == IF i = 1 THEN "to_1" ELSE "to_2"
StopOf(i) == IF i = 1 THEN "stop_1" ELSE "stop_2"

\* Where the handler that set menu_state sends rod i.
Goal(i) == IF menu_state = "END_GAME" /\ i = 1 THEN StopTarget ELSE Origin

Menu(from, to) == Scheduled /\ menu_state = from /\ menu_state' = to

StartGame ==
  /\ Menu("DEFAULT", "IN_PROGRESS")
  /\ in_game' = TRUE
  /\ UNCHANGED <<stepperVars, speed, at>>

StopGame ==
  /\ Menu("IN_PROGRESS", "STOPPED")
  /\ in_game' = FALSE
  /\ UNCHANGED <<stepperVars, speed, at>>

\* A game won or lost: the joysticks stay in charge until the next tick.
GameOver ==
  /\ Menu("IN_PROGRESS", "END_GAME")
  /\ UNCHANGED <<stepperVars, in_game, speed, at>>

GameStopped ==
  /\ Menu("STOPPED", "END_GAME")
  /\ at' = "stop_1"
  /\ UNCHANGED <<stepperVars, in_game, speed>>

EndGame ==
  /\ Menu("END_GAME", "END_GAME")
  /\ in_game' = FALSE
  /\ UNCHANGED <<stepperVars, speed, at>>

LeaveEndGame ==
  /\ Menu("END_GAME", "DEFAULT")
  /\ in_game' = FALSE
  /\ at' = "to_1"
  /\ UNCHANGED <<stepperVars, speed>>

CallStop(i) ==
  /\ at = StopOf(i)
  /\ APP_Stepper_Stop(i)
  /\ UNCHANGED playVars

ReturnFromStop ==
  /\ StopState
  /\ at' = IF cur = 1 THEN "stop_2" ELSE "to_1"
  /\ UNCHANGED <<menu_state, in_game, speed>>

AfterTo(i) == IF i = 1 THEN "to_2" ELSE "wait"

APP_Move_To(i) ==
  /\ at = ToOf(i)
  /\ Stepper_RequestMoveTo(i, Goal(i))
  /\ UNCHANGED playVars

MoveToRefused(i) ==
  /\ at = ToOf(i) /\ Ready
  /\ ~RequestAccepted(i, Goal(i))
  /\ at' = AfterTo(i)
  /\ UNCHANGED <<stepperVars, menu_state, in_game, speed>>

\* A request refused for the tilt, or made, goes on with the handler.
AfterMove == IF at \in {"to_1", "to_2"} THEN AfterTo(cur) ELSE AfterJoy(cur)

RequestDone ==
  /\ MoveTilt \/ MoveRequest
  /\ at' = IF pc' = "idle" THEN AfterMove ELSE at
  /\ UNCHANGED <<menu_state, in_game, speed>>
-----------------------------------------------------------------------------
Interrupt == APP_Ges_stepper /\ UNCHANGED playVars

MainLoop ==
  \/ BeginReadAdc \/ BeginJoystick
  \/ \E i \in Motor : \/ ADC_TO_SPEED(i) \/ JoystickMove(i) \/ JoystickSkip(i)
                      \/ CallStop(i) \/ APP_Move_To(i) \/ MoveToRefused(i)
  \/ StartGame \/ StopGame \/ GameOver \/ GameStopped \/ EndGame \/ LeaveEndGame
  \/ StopRequest /\ UNCHANGED playVars
  \/ ReturnFromStop
  \/ MovePlan /\ UNCHANGED playVars
  \/ RequestDone

Next == Interrupt \/ MainLoop

Spec == Init /\ [][Next]_vars /\ WF_vars(Interrupt) /\ WF_vars(MainLoop)
-----------------------------------------------------------------------------
TypeOK ==
  /\ StepperTypeOK
  /\ menu_state \in {"DEFAULT", "IN_PROGRESS", "STOPPED", "END_GAME"}
  /\ in_game \in BOOLEAN
  /\ speed \in [Motor -> 0..MaxSpeed]
  /\ at \in {"wait", "adc_1", "adc_2", "joy_1", "joy_2", "stop_1", "stop_2",
             "to_1", "to_2"}

\* In play the counted tilt never leaves the limit, although the two rods are
\* planned one after the other and moved together
\* (Ges_Stepper.c: the check of a request is repeated before each pulse).
TiltWithinLimit == Magnitude(Stepper_GetDeltaSteps) <= MaxDelta

\* No motor moves for ever: however its direction is rewritten under way, a move
\* uses up its steps or is cut short, and the motor comes to rest again
\* (Ges_Stepper.c: nb_step_left counts pulses, not positions).
MovesEnd == \A i \in Motor : []<>(state[i] = "STBY")

\* What Ges_Stepper.h:49 says of normal moves: the safety margin is applied, so
\* that a rod which has left the zone of a switch is not sent back into it.
Clear(i, h) == SafetyMargin <= h /\ h <= Travel[i] - SafetyMargin

MarginKept == [][\A i \in Motor : Clear(i, height[i]) => Clear(i, height'[i])]_vars
=============================================================================
